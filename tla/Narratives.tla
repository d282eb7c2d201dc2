----------------------------- MODULE Narratives -----------------------------
(***************************************************************************)
(* What a reconciliation journal promises: each decision revision has at   *)
(* most one narrative of what was observed after it, one teller's, which   *)
(* only grows at its end.  A correction or a disagreement is one more      *)
(* chapter.  No teller has two narratives.  A journal may be closed, and   *)
(* then nothing is told any more.                                          *)
(***************************************************************************)
EXTENDS Naturals, Sequences

CONSTANTS
  Subject,   \* what a narrative is about
  Teller,    \* who tells it
  Chapter,   \* what one chapter can say
  Nobody

VARIABLES
  teller,    \* of each subject
  chapters,  \* of each subject, oldest first
  closed

vars == <<teller, chapters, closed>>

Init ==
  /\ teller = [s \in Subject |-> Nobody]
  /\ chapters = [s \in Subject |-> <<>>]
  /\ closed = FALSE

Begin(s, t, chapter) ==
  /\ ~closed
  /\ teller[s] = Nobody
  /\ \A other \in Subject : teller[other] # t
  /\ teller' = [teller EXCEPT ![s] = t]
  /\ chapters' = [chapters EXCEPT ![s] = <<chapter>>]
  /\ UNCHANGED closed

Continue(s, chapter) ==
  /\ ~closed
  /\ teller[s] # Nobody
  /\ chapters' = [chapters EXCEPT ![s] = Append(@, chapter)]
  /\ UNCHANGED <<teller, closed>>

Close ==
  /\ ~closed
  /\ closed' = TRUE
  /\ UNCHANGED <<teller, chapters>>

Next ==
  \/ Close
  \/ \E s \in Subject, chapter \in Chapter :
       \/ Continue(s, chapter)
       \/ \E t \in Teller : Begin(s, t, chapter)

Spec == Init /\ [][Next]_vars
=============================================================================
