--------------------------- MODULE RevisionHistory ---------------------------
(***************************************************************************)
(* What a family of decision memories promises.  Each place keeps, for     *)
(* each item, a history of revisions that only grows, one linked revision  *)
(* at a time.  An item may be closed for good, and a place may be frozen   *)
(* for good.  A place may borrow from another one a revision of an item    *)
(* that it knows nothing about; what is borrowed never grows and is never  *)
(* lent again.                                                             *)
(***************************************************************************)
EXTENDS Naturals, Sequences, Seals

CONSTANTS Place, Item, Instant, None

VARIABLES
  history,   \* the revisions of each item at each place, oldest first
  borrowed,  \* the items each place borrowed
  closed,    \* the items each place closed
  frozen     \* the places that take nothing any more

vars == <<history, borrowed, closed, frozen>>

Init ==
  /\ history = [p \in Place |-> [i \in Item |-> <<>>]]
  /\ borrowed = [p \in Place |-> {}]
  /\ closed = [p \in Place |-> {}]
  /\ frozen = {}

\* The next revision of an item names its place, its number and the seal of
\* the revision before it; the rest of it is free.
NextRevision(p, i, expires) ==
  LET past == history[p][i]
  IN  [decision |-> i, store |-> p, revision |-> Len(past) + 1,
       supersedes |-> IF past = <<>> THEN None
                      ELSE Seal("record", past[Len(past)]),
       expires |-> expires]

Extend(p, i, expires) ==
  /\ p \notin frozen
  /\ i \notin borrowed[p] \cup closed[p]
  /\ history' = [history EXCEPT ![p][i] = Append(@, NextRevision(p, i, expires))]
  /\ UNCHANGED <<borrowed, closed, frozen>>

Borrow(p, i, q, n) ==
  /\ p # q /\ p \notin frozen
  /\ history[p][i] = <<>>
  /\ i \notin borrowed[q]
  /\ history' = [history EXCEPT ![p][i] = <<history[q][i][n]>>]
  /\ borrowed' = [borrowed EXCEPT ![p] = @ \cup {i}]
  /\ UNCHANGED <<closed, frozen>>

Close(p, i) ==
  /\ p \notin frozen
  /\ history[p][i] # <<>> /\ i \notin closed[p]
  /\ closed' = [closed EXCEPT ![p] = @ \cup {i}]
  /\ UNCHANGED <<history, borrowed, frozen>>

Freeze(p) ==
  /\ frozen' = frozen \cup {p}
  /\ UNCHANGED <<history, borrowed, closed>>

Next ==
  \E p \in Place :
    \/ Freeze(p)
    \/ \E i \in Item :
         \/ Close(p, i)
         \/ \E expires \in Instant : Extend(p, i, expires)
         \/ \E q \in Place : \E n \in DOMAIN history[q][i] : Borrow(p, i, q, n)

Spec == Init /\ [][Next]_vars
=============================================================================
