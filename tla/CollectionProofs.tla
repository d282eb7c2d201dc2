-------------------------- MODULE CollectionProofs --------------------------
(***************************************************************************)
(* That a prospective collection is what its verify says, that what it     *)
(* publishes is final, that it is the one-way life cycle it promises, and  *)
(* that its links hold, for any number of callers, decisions and instants. *)
(*                                                                         *)
(* Three ideas carry the proofs.  Appending tells verify something about   *)
(* the case and the phase of the event that is appended and nothing about  *)
(* any other, so what a call found out before its transaction stays true   *)
(* in it but for the phase and the outcome, which it looks at again.  The  *)
(* anchor counts what was committed, so a lost event is missed for good.   *)
(* And a collection that is closed has no call that appends.  What a link  *)
(* names was committed to the other journal, where what was committed only *)
(* grows, whatever happens to the entries.                                 *)
(***************************************************************************)
EXTENDS ProspectiveCollection, SequenceTheorems, FiniteSetTheorems, TLAPS

\* A link is something.
NoneIsNoLink ==
  \A record, content, seq, tail :
    None # [record |-> record, content |-> content, seq |-> seq, tail |-> tail]

-----------------------------------------------------------------------------
(* Sequences.                                                              *)

Sequence(s) == \E S : s \in Seq(S)

LEMMA SequenceShape == ASSUME NEW s, Sequence(s) PROVE Len(s) \in Nat /\ DOMAIN s = 1..Len(s)
  BY DEF Sequence

LEMMA AppendShape ==
  ASSUME NEW s, Sequence(s), NEW x
  PROVE  /\ Sequence(Append(s, x)) /\ Len(Append(s, x)) = Len(s) + 1
         /\ DOMAIN Append(s, x) = DOMAIN s \cup {Len(s) + 1} /\ Len(s) + 1 \notin DOMAIN s
         /\ \A n \in DOMAIN s : Append(s, x)[n] = s[n] /\ n < Len(s) + 1
         /\ Append(s, x)[Len(s) + 1] = x
<1>1. PICK S : s \in Seq(S)
  BY DEF Sequence
<1>2. s \in Seq(S \cup {x})
  BY <1>1
<1>3. Append(s, x) \in Seq(S \cup {x})
  BY <1>2
<1> QED
  BY <1>2, <1>3 DEF Sequence

\* What comes before an element does not depend on what comes after it.
LEMMA AppendPrefix ==
  ASSUME NEW s, Sequence(s), NEW x, NEW n \in 1..Len(s) + 1
  PROVE  SubSeq(Append(s, x), 1, n - 1) = SubSeq(s, 1, n - 1)
<1>1. PICK S : s \in Seq(S)
  BY DEF Sequence
<1>2. s \in Seq(S \cup {x}) /\ Append(s, x) \in Seq(S \cup {x}) /\ Len(s) \in Nat
  BY <1>1
<1> DEFINE T == S \cup {x}
           a == SubSeq(Append(s, x), 1, n - 1)
           b == SubSeq(s, 1, n - 1)
<1>3. \A i \in 1..n - 1 : s[i] \in T /\ Append(s, x)[i] \in T /\ Append(s, x)[i] = s[i]
  BY <1>2
<1> HIDE DEF T
<1>4. /\ a \in Seq(T) /\ Len(a) = (IF 1 <= n - 1 THEN n - 1 - 1 + 1 ELSE 0)
      /\ \A i \in 1..n - 1 - 1 + 1 : a[i] = Append(s, x)[1 + i - 1]
  BY <1>2, <1>3, SubSeqProperties
<1>5. /\ b \in Seq(T) /\ Len(b) = (IF 1 <= n - 1 THEN n - 1 - 1 + 1 ELSE 0)
      /\ \A i \in 1..n - 1 - 1 + 1 : b[i] = s[1 + i - 1]
  BY <1>2, <1>3, SubSeqProperties
<1> HIDE DEF a, b
<1>6. Len(a) = Len(b) /\ Len(a) \in Nat /\ \A i \in 1..Len(a) : a[i] = b[i]
  BY <1>2, <1>3, <1>4, <1>5
<1>7. a = b
  BY <1>4, <1>5, <1>6, SeqEqual
<1> QED
  BY <1>7 DEF a, b

LEMMA WholePrefix == ASSUME NEW s, Sequence(s) PROVE SubSeq(s, 1, Len(s)) = s
  BY SubSeqFull DEF Sequence

LEMMA ShorterShape ==
  ASSUME NEW s, Sequence(s), s # <<>>
  PROVE  LET t == SubSeq(s, 1, Len(s) - 1)
         IN  /\ Sequence(t) /\ Len(t) = Len(s) - 1 /\ Len(s) \in Nat
             /\ DOMAIN t \subseteq DOMAIN s /\ \A n \in DOMAIN t : t[n] = s[n]
<1>1. PICK S : s \in Seq(S)
  BY DEF Sequence
<1>2. Len(s) \in Nat \ {0} /\ \A i \in 1..Len(s) - 1 : s[i] \in S
  BY <1>1
<1> DEFINE t == SubSeq(s, 1, Len(s) - 1)
<1>3. /\ t \in Seq(S) /\ Len(t) = (IF 1 <= Len(s) - 1 THEN Len(s) - 1 - 1 + 1 ELSE 0)
      /\ \A i \in 1..Len(s) - 1 - 1 + 1 : t[i] = s[1 + i - 1]
  BY <1>2, SubSeqProperties
<1> HIDE DEF t
<1>4. Len(t) = Len(s) - 1
  <2> DEFINE n == Len(s)
             k == Len(t)
  <2>1. n \in Nat \ {0} /\ k = (IF 1 <= n - 1 THEN n - 1 - 1 + 1 ELSE 0)
    BY <1>2, <1>3
  <2> HIDE DEF n, k
  <2>2. k = n - 1
    BY <2>1
  <2> QED
    BY <2>2 DEF n, k
<1>5. DOMAIN t = 1..Len(t) /\ DOMAIN s = 1..Len(s)
  <2>1. Sequence(t) /\ Sequence(s)
    BY <1>3 DEF Sequence
  <2> QED
    BY <2>1, SequenceShape
<1>6. DOMAIN t \subseteq DOMAIN s /\ \A n \in DOMAIN t : t[n] = s[n]
  BY <1>2, <1>3, <1>4, <1>5
<1> QED
  BY <1>2, <1>3, <1>4, <1>6 DEF Sequence, t

-----------------------------------------------------------------------------
(* What an event says of its case, and of the phase.                       *)

\* Places of events have a first and a last one.
Ends(S) ==
  S = {} \/ (/\ \E n \in S : \A m \in S : m <= n
             /\ \E n \in S : \A m \in S : n <= m)

Ended(rows) == \A S \in SUBSET DOMAIN rows : Ends(S)

LEMMA LastIsMax ==
  ASSUME NEW S \in SUBSET Nat, NEW n \in S, \A m \in S : m <= n PROVE Max(S) = n
<1>1. \E x \in S : \A y \in S : x >= y
  OBVIOUS
<1> DEFINE x == Max(S)
<1>2. x \in S /\ \A y \in S : x >= y
  BY <1>1 DEF Max
<1> HIDE DEF x
<1>3. x \in Nat /\ n \in Nat /\ x <= n /\ n <= x
  BY <1>2
<1>4. x = n
  BY <1>3
<1> QED
  BY <1>4 DEF x

LEMMA FirstIsMin ==
  ASSUME NEW S \in SUBSET Nat, NEW n \in S, \A m \in S : n <= m PROVE Min(S) = n
<1>1. \E x \in S : \A y \in S : x <= y
  OBVIOUS
<1> DEFINE x == Min(S)
<1>2. x \in S /\ \A y \in S : x <= y
  BY <1>1 DEF Min
<1> HIDE DEF x
<1>3. x \in Nat /\ n \in Nat /\ x <= n /\ n <= x
  BY <1>2
<1>4. x = n
  BY <1>3
<1> QED
  BY <1>4 DEF x

LEMMA AppendEnded ==
  ASSUME NEW s, Sequence(s), Ended(s), NEW x PROVE Ended(Append(s, x))
<1> DEFINE N == Len(s) + 1
<1>1. /\ Len(s) \in Nat /\ DOMAIN s = 1..Len(s)
      /\ DOMAIN Append(s, x) = DOMAIN s \cup {N}
  BY SequenceShape, AppendShape
<1>2. ASSUME NEW S \in SUBSET DOMAIN Append(s, x) PROVE Ends(S)
  <2>1. Ends(S \ {N}) /\ S \ {N} \subseteq 1..Len(s)
    BY <1>1 DEF Ended
  <2>2. CASE N \notin S
    <3>1. S = S \ {N}
      BY <2>2
    <3> QED
      BY <2>1, <3>1
  <2>3. CASE N \in S
    <3>1. \A m \in S : m \in Nat /\ m <= N
      BY <1>1
    <3>2. \E n \in S : \A m \in S : m <= n
      BY <2>3, <3>1
    <3>3. \E n \in S : \A m \in S : n <= m
      <4>1. CASE S \ {N} = {}
        BY <2>3, <3>1, <4>1
      <4>2. CASE S \ {N} # {}
        <5>1. PICK n \in S \ {N} : \A m \in S \ {N} : n <= m
          BY <2>1, <4>2 DEF Ends
        <5>2. n \in S /\ \A m \in S : n <= m
          BY <3>1, <5>1
        <5> QED
          BY <5>2
      <4> QED
        BY <4>1, <4>2
    <3> QED
      BY <3>2, <3>3 DEF Ends
  <2> QED
    BY <2>2, <2>3
<1> QED
  BY <1>2 DEF Ended

\* An event that is appended is the last of its case, and of no other.
LEMMA AppendedCase ==
  ASSUME NEW rows, Sequence(rows), Ended(rows), NEW e, NEW c
  PROVE  LET next == Append(rows, e)
         IN  /\ e.case = c => EventsOf(next, c) # {} /\ OutcomeOf(next, c) = e.state
             /\ e.case # c => /\ EventsOf(next, c) = EventsOf(rows, c)
                              /\ OutcomeOf(next, c) = OutcomeOf(rows, c)
             /\ EventsOf(rows, c) # {} => /\ EventsOf(next, c) # {}
                                          /\ EnrollmentOf(next, c) = EnrollmentOf(rows, c)
<1> DEFINE next == Append(rows, e)
           N == Len(rows) + 1
           S == EventsOf(rows, c)
<1>1. /\ Len(rows) \in Nat /\ DOMAIN rows = 1..Len(rows)
      /\ DOMAIN next = DOMAIN rows \cup {N} /\ N \notin DOMAIN rows
      /\ \A n \in DOMAIN rows : next[n] = rows[n] /\ n < N
      /\ next[N] = e
  BY SequenceShape, AppendShape
<1>2. S \subseteq DOMAIN rows /\ Ends(S)
  BY DEF EventsOf, Ended
<1>3. EventsOf(next, c) = IF e.case = c THEN S \cup {N} ELSE S
  BY <1>1 DEF EventsOf
<1> HIDE DEF next
<1>7. /\ OutcomeOf(next, c) = (IF EventsOf(next, c) = {} THEN "none"
                              ELSE next[Max(EventsOf(next, c))].state)
      /\ OutcomeOf(rows, c) = (IF S = {} THEN "none" ELSE rows[Max(S)].state)
      /\ EnrollmentOf(next, c) = next[Min(EventsOf(next, c))]
      /\ EnrollmentOf(rows, c) = rows[Min(S)]
  BY DEF OutcomeOf, EnrollmentOf
<1> HIDE DEF S, N
<1>4. ASSUME e.case = c PROVE EventsOf(next, c) # {} /\ OutcomeOf(next, c) = e.state
  <2>1. S \cup {N} \in SUBSET Nat /\ N \in S \cup {N} /\ \A m \in S \cup {N} : m <= N
    BY <1>1, <1>2 DEF N
  <2>2. Max(S \cup {N}) = N
    BY <2>1, LastIsMax
  <2> QED
    BY <1>1, <1>3, <1>4, <1>7, <2>2
<1>5. ASSUME e.case # c
      PROVE  EventsOf(next, c) = S /\ OutcomeOf(next, c) = OutcomeOf(rows, c)
  <2>1. S # {} => Max(S) \in S
    <3>1. ASSUME S # {} PROVE Max(S) \in S
      <4>1. PICK n \in S : \A m \in S : m <= n
        BY <1>2, <3>1 DEF Ends
      <4>2. S \in SUBSET Nat
        BY <1>1, <1>2
      <4> QED
        BY <4>1, <4>2, LastIsMax
    <3> QED
      BY <3>1
  <2>2. EventsOf(next, c) = S
    BY <1>3, <1>5
  <2>3. S # {} => next[Max(S)].state = rows[Max(S)].state
    BY <1>1, <1>2, <2>1
  <2> QED
    BY <1>7, <2>2, <2>3
<1>6. ASSUME S # {}
      PROVE  EventsOf(next, c) # {} /\ EnrollmentOf(next, c) = EnrollmentOf(rows, c)
  <2>1. PICK n \in S : \A m \in S : n <= m
    BY <1>2, <1>6 DEF Ends
  <2>2. S \in SUBSET Nat /\ N \in Nat /\ \A m \in S : m < N
    BY <1>1, <1>2 DEF N
  <2>3. Min(S) = n
    BY <2>1, <2>2, FirstIsMin
  <2>4. Min(S \cup {N}) = n
    <3>1. S \cup {N} \in SUBSET Nat /\ n \in S \cup {N} /\ \A m \in S \cup {N} : n <= m
      BY <2>1, <2>2
    <3> QED
      BY <3>1, FirstIsMin
  <2>5. Min(EventsOf(next, c)) = n /\ next[n] = rows[n]
    BY <1>1, <1>2, <1>3, <2>1, <2>3, <2>4
  <2> QED
    BY <1>3, <1>6, <1>7, <2>3, <2>5
<1> QED
  BY <1>4, <1>5, <1>6 DEF next, S

LEMMA AppendedPhase ==
  ASSUME NEW rows, Sequence(rows), Ended(rows), NEW e
  PROVE  PhaseOf(Append(rows, e)) = IF e.kind = "PLAN_STATE" THEN e.state ELSE PhaseOf(rows)
<1> DEFINE next == Append(rows, e)
           N == Len(rows) + 1
           S == {n \in DOMAIN rows : rows[n].kind = "PLAN_STATE"}
           T == {n \in DOMAIN next : next[n].kind = "PLAN_STATE"}
<1>1. /\ Len(rows) \in Nat /\ DOMAIN rows = 1..Len(rows)
      /\ DOMAIN next = DOMAIN rows \cup {N} /\ N \notin DOMAIN rows
      /\ \A n \in DOMAIN rows : next[n] = rows[n] /\ n < N
      /\ next[N] = e
  BY SequenceShape, AppendShape
<1>2. S \subseteq DOMAIN rows /\ Ends(S)
  BY DEF Ended
<1>3. T = IF e.kind = "PLAN_STATE" THEN S \cup {N} ELSE S
  BY <1>1
<1>4. PhaseOf(next) = (IF T = {} THEN "SEALED" ELSE next[Max(T)].state)
      /\ PhaseOf(rows) = (IF S = {} THEN "SEALED" ELSE rows[Max(S)].state)
  BY DEF PhaseOf
<1> HIDE DEF next, S, T, N
<1>5. CASE e.kind = "PLAN_STATE"
  <2>1. S \cup {N} \in SUBSET Nat /\ N \in S \cup {N} /\ \A m \in S \cup {N} : m <= N
    BY <1>1, <1>2 DEF N
  <2>2. Max(S \cup {N}) = N
    BY <2>1, LastIsMax
  <2> QED
    BY <1>1, <1>3, <1>4, <1>5, <2>2 DEF next
<1>6. CASE e.kind # "PLAN_STATE"
  <2>1. ASSUME S # {} PROVE Max(S) \in S
    <3>1. PICK n \in S : \A m \in S : m <= n
      BY <1>2, <2>1 DEF Ends
    <3>2. S \in SUBSET Nat
      BY <1>1, <1>2
    <3> QED
      BY <3>1, <3>2, LastIsMax
  <2> QED
    BY <1>1, <1>2, <1>3, <1>4, <1>6, <2>1 DEF next
<1> QED
  BY <1>5, <1>6

LEMMA AppendedEnrolled ==
  ASSUME NEW rows, Sequence(rows), Ended(rows), NEW e
  PROVE  Enrolled(Append(rows, e)) = Enrolled(rows) \cup ({e.case} \cap Case)
<1>1. ASSUME NEW c \in Case
      PROVE  EventsOf(Append(rows, e), c) # {} <=> (EventsOf(rows, c) # {} \/ c = e.case)
  BY AppendedCase
<1> QED
  BY <1>1 DEF Enrolled

-----------------------------------------------------------------------------
(* The invariant.                                                          *)

\* An event is of its kind.
Typed(e) ==
  \/ e.kind = "PLAN_STATE" /\ e.case = None /\ e.state \in Phases
  \/ e.kind = "ENROLL" /\ e.case \in Case /\ e.state = "ENROLLED"
  \/ e.kind = "TERMINAL" /\ e.case \in Case /\ e.state \in Excluded \cup Linked

\* A proof read from the other journal is a sealed record.
Proof(link) ==
  /\ link = [record |-> link.record, content |-> link.content, seq |-> link.seq,
             tail |-> link.tail]
  /\ link.content = Journal!RecordSeal(link.record)
  /\ link.record.seen.reconciled_at \in Nat

\* What a call has found out before its transaction and is not looked at
\* again: an event's shape, its stamp, the decision, the link.
Intent(op, e, now, rows, lost) ==
  /\ e.at \in PlanCreated..now
  /\ \/ op = "start" /\ e = PlanState("COLLECTING", e.at)
     \/ /\ op = "enroll"
        /\ e = Enrollment(e.decision, e.at)
        /\ e.decision \in Decision /\ e.decision.binding = Binding
        /\ e.decision.authority \in DecisionProducers
        /\ e.decision.captured \in NotBefore..HardEnd
     \/ /\ op = "terminal"
        /\ e = Terminal(e.case, e.state, e.at, None)
        /\ e.case \in Case /\ e.state \in Excluded
     \/ /\ op = "reconcile"
        /\ e = Terminal(e.case, e.state, e.at, e.link)
        /\ e.case \in Case /\ e.state = ExpectedOutcome(e.link.record)
        /\ Proof(e.link)
        /\ lost = 0 => /\ EventsOf(rows, e.case) # {}
                       /\ LegalLink(EnrollmentOf(rows, e.case).decision, e)
     \/ op = "close" /\ e = PlanState(e.state, e.at) /\ e.state \in Closed
     \/ op = "abort" /\ e = PlanState("ABORTED", e.at)

\* What a caller works from.  A manifest that is being read is of a
\* collection that is closed.
Calling(c, now, phase, rows, lost) ==
  \/ c = None
  \/ c = Call("append", c.op, c.event, c.expected) /\ Intent(c.op, c.event, now, rows, lost)
  \/ c = Call("proved", "reconcile", c.event, c.expected) /\ Proof(c.event)
  \/ c = [step |-> "verified", op |-> "manifest"]
  \/ c = [step |-> "publishable", op |-> "manifest"] /\ (lost = 0 => phase \in Closed)
  \/ /\ c = [step |-> "phase", op |-> "manifest", phase |-> c.phase]
     /\ lost = 0 => phase \in Closed /\ c.phase = phase
  \/ /\ c = [step |-> "root", op |-> "manifest", phase |-> c.phase, root |-> c.root]
     /\ lost = 0 => phase \in Closed /\ c.phase = phase /\ c.root = ChainSeal(rows)

\* The events, as many cases as the plan admits.
Rows ==
  /\ Sequence(events) /\ Ended(events)
  /\ \A n \in DOMAIN events : Typed(events[n]) /\ events[n].at \in PlanCreated..clock
  /\ IsFiniteSet(Enrolled(events)) /\ Cardinality(Enrolled(events)) <= MaxEnrollments

\* The anchor counts what was committed.
Anchored ==
  /\ state = "absent" => events = <<>> /\ losses = 0
  /\ state # "absent" /\ losses = 0 => VerifyOk
  /\ losses > 0 => anchor.generation \in Nat /\ Len(events) < anchor.generation

Published ==
  losses = 0 => \A m \in manifests :
    /\ state \in Closed /\ m.phase = state
    /\ m.root = ChainSeal(events)
    /\ m.cases = [c \in Enrolled(events) |-> OutcomeOf(events, c)]

\* The seals of the other journal are of records with dates.
Source ==
  /\ Sequence(entries)
  /\ \A n \in DOMAIN entries :
       /\ "content" \in DOMAIN entries[n]
       /\ entries[n].content[2].seen.reconciled_at \in Nat

IInv ==
  /\ clock \in PlanCreated..MaxClock /\ state \in Phases \cup {"absent"} /\ losses \in 0..MaxLosses
  /\ Rows /\ Anchored /\ Published /\ Source
  /\ DOMAIN call = Process
  /\ \A p \in Process : Calling(call[p], clock, state, events, losses)

-----------------------------------------------------------------------------
\* What a caller works from survives what others append, until a collection
\* is closed, and then nothing is appended.
Survives(phase, rows, lost, nextPhase, nextRows, nextLost) ==
  nextLost = 0 =>
    /\ lost = 0
    /\ \A c : EventsOf(rows, c) # {} => /\ EventsOf(nextRows, c) # {}
                                        /\ EnrollmentOf(nextRows, c) = EnrollmentOf(rows, c)
    /\ phase \in Closed => nextPhase = phase /\ nextRows = rows

LEMMA CallingSurvives ==
  ASSUME NEW c, NEW now \in Nat, NEW phase, NEW rows, NEW lost,
         Calling(c, now, phase, rows, lost),
         NEW later \in Nat, now <= later, NEW nextPhase, NEW nextRows, NEW nextLost,
         Survives(phase, rows, lost, nextPhase, nextRows, nextLost)
  PROVE  Calling(c, later, nextPhase, nextRows, nextLost)
<1>1. ASSUME NEW op, NEW e, Intent(op, e, now, rows, lost)
      PROVE  Intent(op, e, later, nextRows, nextLost)
  <2>1. e.at \in PlanCreated..later
    BY <1>1, Calendar DEF Intent
  <2>2. CASE op = "reconcile"
    BY <1>1, <2>1, <2>2 DEF Intent, Survives
  <2>3. CASE op # "reconcile"
    BY <1>1, <2>1, <2>3 DEF Intent
  <2> QED
    BY <2>2, <2>3
<1>2. CASE c = Call("append", c.op, c.event, c.expected) /\ Intent(c.op, c.event, now, rows, lost)
  BY <1>1, <1>2 DEF Calling
<1>3. CASE c = [step |-> "publishable", op |-> "manifest"] /\ (lost = 0 => phase \in Closed)
  BY <1>3 DEF Calling, Survives
<1>4. CASE /\ c = [step |-> "phase", op |-> "manifest", phase |-> c.phase]
           /\ lost = 0 => phase \in Closed /\ c.phase = phase
  BY <1>4 DEF Calling, Survives
<1>5. CASE /\ c = [step |-> "root", op |-> "manifest", phase |-> c.phase, root |-> c.root]
           /\ lost = 0 => phase \in Closed /\ c.phase = phase /\ c.root = ChainSeal(rows)
  BY <1>5 DEF Calling, Survives
<1> QED
  BY <1>2, <1>3, <1>4, <1>5 DEF Calling

\* What a caller does leaves the other callers where they were.
LEMMA CallsKeep ==
  ASSUME IInv, NEW p \in Process, NEW c, call' = [call EXCEPT ![p] = c],
         clock' \in Nat, clock <= clock',
         Calling(c, clock', state', events', losses'),
         Survives(state, events, losses, state', events', losses')
  PROVE  DOMAIN call' = Process
         /\ \A q \in Process : Calling(call'[q], clock', state', events', losses')
<1>1. DOMAIN call' = Process /\ call'[p] = c /\ \A q \in Process \ {p} : call'[q] = call[q]
  BY DEF IInv
<1>2. clock \in Nat
  BY Calendar DEF IInv
<1>3. ASSUME NEW q \in Process \ {p} PROVE Calling(call[q], clock', state', events', losses')
  BY <1>2, <1>3, CallingSurvives DEF IInv
<1> QED
  BY <1>1, <1>3

LEMMA AllSurvive ==
  ASSUME IInv, UNCHANGED call, clock' \in Nat, clock <= clock',
         Survives(state, events, losses, state', events', losses')
  PROVE  DOMAIN call' = Process
         /\ \A q \in Process : Calling(call'[q], clock', state', events', losses')
<1>1. clock \in Nat
  BY Calendar DEF IInv
<1>2. ASSUME NEW q \in Process PROVE Calling(call[q], clock', state', events', losses')
  BY <1>1, CallingSurvives DEF IInv
<1> QED
  BY <1>2 DEF IInv

\* A step that only moves a caller.
LEMMA CallerKeeps ==
  ASSUME IInv, NEW p \in Process, NEW c, call' = [call EXCEPT ![p] = c],
         Calling(c, clock, state, events, losses),
         UNCHANGED <<clock, collection, manifests, losses, source>>
  PROVE  IInv'
<1>1. /\ clock' = clock /\ state' = state /\ events' = events /\ anchor' = anchor
      /\ manifests' = manifests /\ losses' = losses /\ entries' = entries
  BY DEF collection, source
<1>2. clock \in Nat
  BY Calendar DEF IInv
<1>3. Survives(state, events, losses, state', events', losses')
  BY <1>1 DEF Survives
<1>4. DOMAIN call' = Process
      /\ \A q \in Process : Calling(call'[q], clock', state', events', losses')
  <2>1. Calling(c, clock', state', events', losses')
    BY <1>1
  <2>2. clock' \in Nat /\ clock <= clock'
    BY <1>1, <1>2
  <2> QED
    BY <1>3, <2>1, <2>2, CallsKeep
<1>5. Rows' /\ Anchored' /\ Published' /\ Source'
  BY <1>1 DEF IInv, Rows, Anchored, Published, Source, VerifyOk, Enrolled
<1> QED
  BY <1>1, <1>4, <1>5 DEF IInv

-----------------------------------------------------------------------------
(* The transaction.                                                        *)

\* The call that appends, and what it knows.
LEMMA Appending ==
  ASSUME IInv, NEW p \in Process, call[p] # None, call[p].step = "append", Appendable(call[p])
  PROVE  /\ Intent(call[p].op, call[p].event, clock, events, losses)
         /\ StillValid(call[p].op, call[p].event) /\ InOrder(events, call[p].event)
         /\ losses = 0 /\ VerifyOk /\ state = PhaseOf(events) /\ state # "absent"
<1>1. Calling(call[p], clock, state, events, losses)
  BY DEF IInv
<1>2. Intent(call[p].op, call[p].event, clock, events, losses)
  BY <1>1 DEF Calling, Call
<1>3. /\ StillValid(call[p].op, call[p].event) /\ InOrder(events, call[p].event)
      /\ VerifyOk /\ state = PhaseOf(events)
  BY DEF Appendable, VerifyOk
<1>4. losses = 0
  <2>1. anchor.generation = Len(events)
    BY <1>3 DEF VerifyOk, Anchor
  <2>2. Len(events) \in Nat
    BY SequenceShape DEF IInv, Rows
  <2>3. losses \in Nat /\ (losses > 0 => Len(events) < anchor.generation)
    BY Calendar DEF IInv, Anchored
  <2> QED
    BY <2>1, <2>2, <2>3
<1>5. state # "absent"
  BY <1>2, <1>3 DEF Intent, StillValid, EnrollStillValid, OpenCase, StillClosing
<1> QED
  BY <1>2, <1>3, <1>4, <1>5

LEMMA PlanStatesAreLegal ==
  ASSUME NEW op \in {"start", "close", "abort"}, NEW e, Intent(op, e, clock, events, losses),
         StillValid(op, e), state = PhaseOf(events)
  PROVE  LegalPlanState(events, e) /\ Typed(e) /\ e.kind = "PLAN_STATE"
<1>1. CASE op = "start"
  <2>1. e = PlanState("COLLECTING", e.at)
    BY <1>1 DEF Intent
  <2>2. e.kind = "PLAN_STATE" /\ e.state = "COLLECTING" /\ e.case = None
    BY <2>1 DEF PlanState
  <2>3. state = "SEALED" /\ e.at \in NotBefore..HardEnd
    BY <1>1 DEF StillValid
  <2> QED
    BY <2>2, <2>3 DEF LegalPlanState, Typed, Phases
<1>2. CASE op = "close"
  <2>1. e = PlanState(e.state, e.at) /\ e.state \in Closed
    BY <1>2 DEF Intent
  <2>2. e.kind = "PLAN_STATE" /\ e.case = None
    BY <2>1 DEF PlanState
  <2>3. state = "COLLECTING" /\ Closure(events, e.at) = e.state
    BY <1>2 DEF StillValid, StillClosing
  <2>4. None # e.state
    BY <2>1, NoneIsNeither
  <2>5. \/ e.state = "CLOSED_SUFFICIENT" /\ Sufficient(events, e.at)
        \/ e.state = "CLOSED_INSUFFICIENT" /\ e.at >= HardEnd /\ ~Sufficient(events, e.at)
    BY <2>3, <2>4 DEF Closure
  <2> QED
    BY <2>1, <2>2, <2>3, <2>5 DEF LegalPlanState, Typed, Phases
<1>3. CASE op = "abort"
  <2>1. e = PlanState("ABORTED", e.at)
    BY <1>3 DEF Intent
  <2>2. e.kind = "PLAN_STATE" /\ e.state = "ABORTED" /\ e.case = None
    BY <2>1 DEF PlanState
  <2>3. state \in {"SEALED", "COLLECTING"}
    BY <1>3 DEF StillValid
  <2> QED
    BY <2>2, <2>3 DEF LegalPlanState, Typed, Phases
<1> QED
  BY <1>1, <1>2, <1>3

LEMMA EnrollmentsAreLegal ==
  ASSUME NEW e, Intent("enroll", e, clock, events, losses), StillValid("enroll", e),
         state = PhaseOf(events)
  PROVE  /\ LegalEnrollment(events, e) /\ Typed(e) /\ e.kind = "ENROLL"
         /\ e.case \notin Enrolled(events) /\ Cardinality(Enrolled(events)) < MaxEnrollments
<1>1. /\ e = Enrollment(e.decision, e.at)
      /\ e.decision \in Decision /\ e.decision.binding = Binding
      /\ e.decision.authority \in DecisionProducers
      /\ e.decision.captured \in NotBefore..HardEnd
  BY DEF Intent
<1>2. e.kind = "ENROLL" /\ e.state = "ENROLLED" /\ e.case = CaseId(e.decision)
  BY <1>1 DEF Enrollment
<1>3. /\ state = "COLLECTING" /\ Cardinality(Enrolled(events)) < MaxEnrollments
      /\ e.case \notin Enrolled(events) /\ ~PreimageEnrolled(events, e.decision)
      /\ e.at \in e.decision.captured..HardEnd
  BY DEF StillValid, EnrollStillValid
<1>4. e.decision.captured \in NotBefore..e.at /\ e.at \in NotBefore..HardEnd
  <2> DEFINE captured == e.decision.captured
             at == e.at
  <2>1. captured \in NotBefore..HardEnd /\ at \in captured..HardEnd
        /\ NotBefore \in Nat /\ HardEnd \in Nat
    BY <1>1, <1>3, Calendar
  <2> HIDE DEF captured, at
  <2>2. captured \in NotBefore..at /\ at \in NotBefore..HardEnd
    BY <2>1
  <2> QED
    BY <2>2 DEF captured, at
<1>5. e.case \in Case
  BY <1>1, <1>2 DEF Case
<1> QED
  BY <1>1, <1>2, <1>3, <1>4, <1>5 DEF LegalEnrollment, Typed

LEMMA TerminalsAreLegal ==
  ASSUME NoneIsNoLink, NEW op \in {"terminal", "reconcile"}, NEW e,
         Intent(op, e, clock, events, losses), StillValid(op, e), losses = 0,
         \A n \in DOMAIN events : events[n].at \in PlanCreated..clock,
         Sequence(events), Ended(events), clock \in Nat
  PROVE  /\ LegalTerminal(events, e) /\ Typed(e) /\ e.kind = "TERMINAL"
         /\ e.case \in Enrolled(events)
<1>1. OutcomeOf(events, e.case) = "ENROLLED" /\ e.case \in Case
  BY DEF StillValid, OpenCase, Intent
<1>2. e.case \in Enrolled(events)
  BY <1>1 DEF OutcomeOf, Enrolled
<1>3. CASE op = "terminal"
  <2>1. e = Terminal(e.case, e.state, e.at, None) /\ e.state \in Excluded
    BY <1>3 DEF Intent
  <2>2. e.kind = "TERMINAL" /\ e.link = None
    BY <2>1 DEF Terminal
  <2>3. e.at \in EnrollmentOf(events, e.case).at..HardEnd
    BY <1>3 DEF StillValid
  <2>4. e.state \notin Linked
    BY <2>1 DEF Excluded, Linked
  <2> QED
    BY <1>1, <1>2, <2>1, <2>2, <2>3, <2>4 DEF LegalTerminal, Typed
<1>4. CASE op = "reconcile"
  <2>1. /\ e = Terminal(e.case, e.state, e.at, e.link)
        /\ e.state = ExpectedOutcome(e.link.record)
        /\ Proof(e.link)
        /\ LegalLink(EnrollmentOf(events, e.case).decision, e)
    BY <1>4 DEF Intent
  <2>2. e.kind = "TERMINAL" /\ e.state \in Linked
    BY <2>1 DEF Terminal, ExpectedOutcome, Linked
  <2>3. e.link # None
    BY <2>1 DEF NoneIsNoLink, Proof
  <2>4. InChronology(e.link.record, EnrollmentOf(events, e.case).at, e.at)
    BY <1>4 DEF StillValid
  <2>5. EnrollmentOf(events, e.case).at \in Nat
    <3>1. EventsOf(events, e.case) # {} /\ EventsOf(events, e.case) \subseteq DOMAIN events
      BY <1>2 DEF Enrolled, EventsOf
    <3>2. PICK n \in EventsOf(events, e.case) : \A m \in EventsOf(events, e.case) : n <= m
      BY <3>1 DEF Ended, Ends
    <3>3. EventsOf(events, e.case) \in SUBSET Nat
      BY <3>1, SequenceShape
    <3>4. Min(EventsOf(events, e.case)) = n
      BY <3>2, <3>3, FirstIsMin
    <3> QED
      BY <3>1, <3>2, <3>4, Calendar DEF EnrollmentOf
  <2>6. e.at \in EnrollmentOf(events, e.case).at..HardEnd
    <3> DEFINE at == EnrollmentOf(events, e.case).at
               seen == e.link.record.seen.reconciled_at
               now == e.at
    <3>1. /\ at <= seen /\ seen <= now /\ now <= HardEnd
          /\ at \in Nat /\ seen \in Nat /\ now \in Int /\ HardEnd \in Nat
      BY <2>1, <2>4, <2>5, Calendar DEF InChronology, Proof, Intent
    <3> HIDE DEF at, seen, now
    <3>2. now \in at..HardEnd
      BY <3>1
    <3> QED
      BY <3>2 DEF at, now
  <2> QED
    BY <1>1, <1>2, <2>1, <2>2, <2>3, <2>6 DEF LegalTerminal, Typed
<1> QED
  BY <1>2, <1>3, <1>4

LEMMA AppendsLegally ==
  ASSUME NoneIsNoLink, IInv, NEW p \in Process, call[p] # None, call[p].step = "append",
         Appendable(call[p])
  PROVE  LET e == call[p].event
         IN  /\ Legal(events, e) /\ Typed(e)
             /\ e.kind = "ENROLL" => Cardinality(Enrolled(events)) < MaxEnrollments
             /\ e.kind = "TERMINAL" => e.case \in Enrolled(events)
<1> DEFINE e == call[p].event
           op == call[p].op
<1>1. /\ Intent(op, e, clock, events, losses) /\ StillValid(op, e) /\ InOrder(events, e)
      /\ losses = 0 /\ state = PhaseOf(events)
  BY Appending
<1>2. /\ \A n \in DOMAIN events : events[n].at \in PlanCreated..clock
      /\ Sequence(events) /\ Ended(events) /\ clock \in Nat
  BY Calendar DEF IInv, Rows
<1>3. op \in {"start", "close", "abort", "enroll", "terminal", "reconcile"}
  BY <1>1 DEF Intent
<1> HIDE DEF e, op
<1>4. CASE op \in {"start", "close", "abort"}
  <2>1. LegalPlanState(events, e) /\ Typed(e) /\ e.kind = "PLAN_STATE"
    BY <1>1, <1>4, PlanStatesAreLegal
  <2> QED
    BY <1>1, <2>1 DEF Legal, e
<1>5. CASE op = "enroll"
  <2>1. LegalEnrollment(events, e) /\ Typed(e) /\ e.kind = "ENROLL"
        /\ Cardinality(Enrolled(events)) < MaxEnrollments
    BY <1>1, <1>5, EnrollmentsAreLegal
  <2> QED
    BY <1>1, <2>1 DEF Legal, e
<1>6. CASE op \in {"terminal", "reconcile"}
  <2>1. LegalTerminal(events, e) /\ Typed(e) /\ e.kind = "TERMINAL" /\ e.case \in Enrolled(events)
    BY <1>1, <1>2, <1>6, TerminalsAreLegal
  <2> QED
    BY <1>1, <2>1 DEF Legal, e
<1> QED
  BY <1>3, <1>4, <1>5, <1>6

\* Enough is checked when a case is added.
LEMMA AppendedCount ==
  ASSUME Rows, NEW e, Typed(e),
         e.kind = "ENROLL" => Cardinality(Enrolled(events)) < MaxEnrollments,
         e.kind = "TERMINAL" => e.case \in Enrolled(events)
  PROVE  /\ IsFiniteSet(Enrolled(Append(events, e)))
         /\ Cardinality(Enrolled(Append(events, e))) <= MaxEnrollments
<1> DEFINE S == Enrolled(events)
<1>1. IsFiniteSet(S) /\ Cardinality(S) \in Nat /\ Cardinality(S) <= MaxEnrollments
  BY FS_CardinalityType DEF Rows
<1>2. Enrolled(Append(events, e)) = S \cup ({e.case} \cap Case)
  BY AppendedEnrolled DEF Rows
<1> HIDE DEF S
<1>3. CASE e.kind = "PLAN_STATE"
  <2>1. {e.case} \cap Case = {}
    BY <1>3, NoneIsNeither DEF Typed
  <2>2. Enrolled(Append(events, e)) = S
    BY <1>2, <2>1
  <2> QED
    BY <1>1, <2>2
<1>4. CASE e.kind = "ENROLL"
  <2>1. {e.case} \cap Case = {e.case}
    BY <1>4 DEF Typed
  <2>2. Enrolled(Append(events, e)) = S \cup {e.case}
    BY <1>2, <2>1
  <2>3. IsFiniteSet(S \cup {e.case}) /\ Cardinality(S \cup {e.case}) <= Cardinality(S) + 1
    BY <1>1, FS_AddElement
  <2>4. Cardinality(S) < MaxEnrollments /\ MaxEnrollments \in Nat
    BY <1>4, Power DEF S
  <2>5. Cardinality(S \cup {e.case}) \in Nat
    BY <2>3, FS_CardinalityType
  <2> QED
    BY <1>1, <2>2, <2>3, <2>4, <2>5
<1>5. CASE e.kind = "TERMINAL"
  <2>1. Enrolled(Append(events, e)) = S
    BY <1>2, <1>5 DEF S
  <2> QED
    BY <1>1, <2>1
<1> QED
  BY <1>3, <1>4, <1>5 DEF Typed

\* What was verified stays so, and so is what is behind it.
LEMMA AppendedVerifies ==
  ASSUME Sequence(events), Ended(events), VerifyOk, NEW e, Legal(events, e), Typed(e),
         events' = Append(events, e),
         state' = (IF e.kind = "PLAN_STATE" THEN e.state ELSE state),
         anchor' = Anchor(events', state')
  PROVE  VerifyOk'
<1>1. /\ Len(events) \in Nat /\ DOMAIN events = 1..Len(events)
      /\ DOMAIN events' = DOMAIN events \cup {Len(events) + 1}
      /\ \A n \in DOMAIN events : events'[n] = events[n]
      /\ events'[Len(events) + 1] = e
  BY SequenceShape, AppendShape
<1>2. ASSUME NEW n \in DOMAIN events' PROVE Legal(SubSeq(events', 1, n - 1), events'[n])
  <2>1. n \in 1..Len(events) + 1
    BY <1>1
  <2>2. SubSeq(events', 1, n - 1) = SubSeq(events, 1, n - 1)
    BY <2>1, AppendPrefix
  <2>3. CASE n \in DOMAIN events
    <3>1. Legal(SubSeq(events, 1, n - 1), events[n])
      BY <2>3 DEF VerifyOk
    <3> QED
      BY <1>1, <2>2, <2>3, <3>1
  <2>4. CASE n = Len(events) + 1
    <3>1. SubSeq(events, 1, n - 1) = events
      <4>1. n - 1 = Len(events)
        BY <1>1, <2>4
      <4> QED
        BY <4>1, WholePrefix
    <3> QED
      BY <1>1, <2>2, <2>4, <3>1
  <2> QED
    BY <1>1, <2>3, <2>4
<1>3. state' = PhaseOf(events')
  BY AppendedPhase DEF VerifyOk
<1>4. anchor' = Anchor(events', PhaseOf(events'))
  BY <1>3
<1> QED
  BY <1>2, <1>3, <1>4 DEF VerifyOk

LEMMA CommitKeeps == ASSUME NoneIsNoLink, IInv, NEW p \in Process, Commit(p) PROVE IInv'
<1> DEFINE e == call[p].event
<1>1. /\ call[p] # None /\ call[p].step = "append" /\ Appendable(call[p])
      /\ events' = Append(events, e)
      /\ state' = (IF e.kind = "PLAN_STATE" THEN e.state ELSE state)
      /\ anchor' = Anchor(events', state')
      /\ call' = [call EXCEPT ![p] = None]
      /\ clock' = clock /\ manifests' = manifests /\ losses' = losses /\ entries' = entries
  BY DEF Commit, source
<1>2. /\ Intent(call[p].op, e, clock, events, losses) /\ StillValid(call[p].op, e)
      /\ losses = 0 /\ VerifyOk /\ state # "absent"
  BY <1>1, Appending
<1>3. /\ Legal(events, e) /\ Typed(e)
      /\ e.kind = "ENROLL" => Cardinality(Enrolled(events)) < MaxEnrollments
      /\ e.kind = "TERMINAL" => e.case \in Enrolled(events)
  BY <1>1, AppendsLegally
<1>4. state \in {"SEALED", "COLLECTING"}
  BY <1>2 DEF Intent, StillValid, EnrollStillValid, OpenCase, StillClosing
<1>5. e.at \in PlanCreated..clock
  BY <1>2 DEF Intent
<1>6. Sequence(events) /\ Ended(events) /\ clock \in Nat
  BY Calendar DEF IInv, Rows
<1> HIDE DEF e
<1>7. VerifyOk'
  BY <1>1, <1>2, <1>3, <1>6, AppendedVerifies
<1>8. state' \in Phases
  BY <1>1, <1>3, <1>4 DEF Typed, Phases
<1>9. Rows'
  <2>1. Sequence(events') /\ Ended(events')
    BY <1>1, <1>6, AppendShape, AppendEnded
  <2>2. \A n \in DOMAIN events' : Typed(events'[n]) /\ events'[n].at \in PlanCreated..clock
    <3>1. /\ DOMAIN events' = DOMAIN events \cup {Len(events) + 1}
          /\ \A n \in DOMAIN events : events'[n] = events[n]
          /\ events'[Len(events) + 1] = e
      BY <1>1, <1>6, AppendShape
    <3> QED
      BY <1>3, <1>5, <3>1 DEF IInv, Rows
  <2>3. IsFiniteSet(Enrolled(events')) /\ Cardinality(Enrolled(events')) <= MaxEnrollments
    BY <1>1, <1>3, AppendedCount DEF IInv
  <2> QED
    BY <1>1, <2>1, <2>2, <2>3 DEF Rows, Enrolled
<1>10. Anchored'
  BY <1>1, <1>2, <1>7, <1>8 DEF Anchored, Phases, Closed
<1>11. Published' /\ Source'
  BY <1>1, <1>2, <1>4 DEF IInv, Published, Source, Closed
<1>12. Survives(state, events, losses, state', events', losses')
  <2>1. \A c : EventsOf(events, c) # {} => /\ EventsOf(events', c) # {}
                                          /\ EnrollmentOf(events', c) = EnrollmentOf(events, c)
    BY <1>1, <1>6, AppendedCase
  <2> QED
    BY <1>1, <1>2, <1>4, <2>1 DEF Survives, Closed
<1>13. DOMAIN call' = Process
       /\ \A q \in Process : Calling(call'[q], clock', state', events', losses')
  <2>1. Calling(None, clock', state', events', losses')
    BY DEF Calling
  <2>2. clock' \in Nat /\ clock <= clock'
    BY <1>1, <1>6
  <2> QED
    BY <1>1, <1>12, <2>1, <2>2, CallsKeep
<1> QED
  BY <1>1, <1>8, <1>9, <1>10, <1>11, <1>13 DEF IInv

-----------------------------------------------------------------------------
(* What does not append.                                                   *)

LEMMA CreateKeeps == ASSUME IInv, Create PROVE IInv'
<1>1. /\ state = "absent" /\ state' = "SEALED" /\ anchor' = Anchor(<<>>, "SEALED")
      /\ events' = events /\ clock' = clock /\ call' = call /\ manifests' = manifests
      /\ losses' = losses /\ entries' = entries
  BY DEF Create, source
<1>2. events = <<>> /\ losses = 0 /\ clock \in Nat
  BY <1>1, Calendar DEF IInv, Anchored
<1>3. VerifyOk'
  BY <1>1, <1>2 DEF VerifyOk, PhaseOf
<1>4. Rows' /\ Source'
  BY <1>1 DEF IInv, Rows, Source, Enrolled
<1>5. Anchored' /\ Published'
  BY <1>1, <1>2, <1>3 DEF IInv, Anchored, Published, Closed
<1>6. Survives(state, events, losses, state', events', losses')
  BY <1>1 DEF Survives, Closed
<1>7. DOMAIN call' = Process
      /\ \A q \in Process : Calling(call'[q], clock', state', events', losses')
  <2>1. UNCHANGED call /\ clock' \in Nat /\ clock <= clock'
    BY <1>1, <1>2
  <2> QED
    BY <1>6, <2>1, AllSurvive
<1> QED
  BY <1>1, <1>4, <1>5, <1>7 DEF IInv, Phases

LEMMA TickKeeps == ASSUME IInv, Tick PROVE IInv'
<1>1. /\ clock' = clock + 1 /\ clock < MaxClock
      /\ state' = state /\ events' = events /\ anchor' = anchor /\ call' = call
      /\ manifests' = manifests /\ losses' = losses /\ entries' = entries
  BY DEF Tick, collection, source
<1>2. /\ clock \in Nat /\ clock' \in Nat /\ clock <= clock' /\ clock' \in PlanCreated..MaxClock
      /\ \A at \in PlanCreated..clock : at \in PlanCreated..clock'
  BY <1>1, Calendar DEF IInv
<1>3. Rows' /\ Source'
  BY <1>1, <1>2 DEF IInv, Rows, Source, Enrolled
<1>4. Anchored' /\ Published'
  BY <1>1 DEF IInv, Anchored, Published, VerifyOk, Enrolled
<1>5. Survives(state, events, losses, state', events', losses')
  BY <1>1 DEF Survives
<1>6. DOMAIN call' = Process
      /\ \A q \in Process : Calling(call'[q], clock', state', events', losses')
  BY <1>1, <1>2, <1>5, AllSurvive
<1> QED
  BY <1>1, <1>2, <1>3, <1>4, <1>6 DEF IInv

\* What is lost is missed.
LEMMA LoseEventKeeps == ASSUME IInv, LoseEvent PROVE IInv'
<1>1. /\ losses < MaxLosses /\ losses' = losses + 1 /\ events # <<>>
      /\ events' = SubSeq(events, 1, Len(events) - 1)
      /\ clock' = clock /\ state' = state /\ anchor' = anchor /\ call' = call
      /\ manifests' = manifests /\ entries' = entries
  BY DEF LoseEvent, source
<1>2. losses \in Nat /\ losses' \in 1..MaxLosses /\ clock \in Nat
  BY <1>1, Calendar DEF IInv
<1>3. /\ Sequence(events') /\ Len(events') = Len(events) - 1 /\ Len(events) \in Nat
      /\ DOMAIN events' \subseteq DOMAIN events
      /\ \A n \in DOMAIN events' : events'[n] = events[n]
  BY <1>1, ShorterShape DEF IInv, Rows
<1>4. Rows'
  <2>1. Ended(events')
    BY <1>3 DEF IInv, Rows, Ended
  <2>2. \A n \in DOMAIN events' : Typed(events'[n]) /\ events'[n].at \in PlanCreated..clock
    BY <1>3 DEF IInv, Rows
  <2>3. Enrolled(events') \in SUBSET Enrolled(events)
    BY <1>3 DEF Enrolled, EventsOf
  <2>4. IsFiniteSet(Enrolled(events')) /\ Cardinality(Enrolled(events')) <= MaxEnrollments
    <3> DEFINE n == Cardinality(Enrolled(events'))
               m == Cardinality(Enrolled(events))
    <3>1. IsFiniteSet(Enrolled(events)) /\ m <= MaxEnrollments
      BY DEF IInv, Rows
    <3>2. IsFiniteSet(Enrolled(events')) /\ n <= m
      BY <2>3, <3>1, FS_Subset
    <3>3. n \in Nat /\ m \in Nat /\ MaxEnrollments \in Nat
      BY <3>1, <3>2, FS_CardinalityType, Power
    <3> HIDE DEF n, m
    <3>4. n <= MaxEnrollments
      BY <3>1, <3>2, <3>3
    <3> QED
      BY <3>2, <3>4 DEF n
  <2> QED
    BY <1>1, <1>3, <2>1, <2>2, <2>4 DEF Rows, Enrolled
<1>5. Anchored'
  <2>1. state # "absent"
    BY <1>1 DEF IInv, Anchored
  <2>2. anchor.generation \in Nat /\ Len(events') < anchor.generation
    <3>1. CASE losses = 0
      <4>1. anchor.generation = Len(events)
        BY <2>1, <3>1 DEF IInv, Anchored, VerifyOk, Anchor
      <4> QED
        BY <1>3, <4>1
    <3>2. CASE losses # 0
      <4>1. anchor.generation \in Nat /\ Len(events) < anchor.generation
        BY <1>2, <3>2 DEF IInv, Anchored
      <4> QED
        BY <1>3, <4>1
    <3> QED
      BY <3>1, <3>2
  <2> QED
    BY <1>1, <1>2, <2>1, <2>2 DEF Anchored
<1>6. Published' /\ Source'
  BY <1>1, <1>2 DEF IInv, Published, Source
<1>7. Survives(state, events, losses, state', events', losses')
  BY <1>2 DEF Survives
<1>8. DOMAIN call' = Process
      /\ \A q \in Process : Calling(call'[q], clock', state', events', losses')
  <2>1. UNCHANGED call /\ clock' \in Nat /\ clock <= clock'
    BY <1>1, <1>2
  <2> QED
    BY <1>7, <2>1, AllSurvive
<1>9. losses' \in 0..MaxLosses
  BY <1>2
<1> QED
  BY <1>1, <1>4, <1>5, <1>6, <1>8, <1>9 DEF IInv

LEMMA SourceKeeps == ASSUME IInv, SourceStep PROVE IInv'
<1>1. /\ state' = state /\ events' = events /\ anchor' = anchor /\ clock' = clock
      /\ call' = call /\ manifests' = manifests /\ losses' = losses /\ Journal!Next
  BY DEF SourceStep, collection
<1>2. Source
  BY DEF IInv
<1>3. Source'
  <2>1. ASSUME NEW record, NEW decision, NEW expected, record.seen \in Journal!Observation,
               Journal!AppendReconciliation(record, decision, expected)
        PROVE  Source'
    <3> DEFINE row == Journal!Entry(record)
    <3>1. entries' = Append(entries, row)
      BY <2>1 DEF Journal!AppendReconciliation
    <3>2. record.seen.reconciled_at \in Nat
      BY <2>1, Dates DEF Journal!Observation
    <3>3. "content" \in DOMAIN row /\ row.content[2] = record
      BY DEF Journal!Entry, Journal!RecordSeal, Journal!Seal
    <3> HIDE DEF row
    <3>4. /\ Sequence(entries') /\ DOMAIN entries' = DOMAIN entries \cup {Len(entries) + 1}
          /\ \A n \in DOMAIN entries : entries'[n] = entries[n]
          /\ entries'[Len(entries) + 1] = row
      BY <1>2, <3>1, AppendShape DEF Source
    <3> QED
      BY <1>2, <3>2, <3>3, <3>4 DEF Source
  <2>2. ASSUME entries # <<>>, entries' = SubSeq(entries, 1, Len(entries) - 1) PROVE Source'
    <3>1. /\ Sequence(entries') /\ DOMAIN entries' \subseteq DOMAIN entries
          /\ \A n \in DOMAIN entries' : entries'[n] = entries[n]
      BY <1>2, <2>2, ShorterShape DEF Source
    <3> QED
      BY <1>2, <3>1 DEF Source
  <2>3. ASSUME NEW k \in DOMAIN entries, entries' = [entries EXCEPT ![k].payload.seen = None]
        PROVE  Source'
    <3>1. PICK S : entries \in Seq(S)
      BY <1>2 DEF Source, Sequence
    <3> DEFINE altered == [entries[k] EXCEPT !.payload.seen = None]
    <3>2. "content" \in DOMAIN altered /\ altered.content = entries[k].content
      BY <1>2, <2>3 DEF Source
    <3>3. entries' = [entries EXCEPT ![k] = altered]
      BY <2>3
    <3> HIDE DEF altered
    <3>4. entries' \in Seq(S \cup {altered})
      BY <2>3, <3>1, <3>3
    <3>5. DOMAIN entries' = DOMAIN entries /\ \A n \in DOMAIN entries :
            entries'[n] = IF n = k THEN altered ELSE entries[n]
      BY <3>3
    <3> QED
      BY <1>2, <3>2, <3>4, <3>5 DEF Source, Sequence
  <2>4. ASSUME entries' = entries PROVE Source'
    BY <1>2, <2>4 DEF Source
  <2>5. CASE Journal!Write
    BY <2>1, <2>4, <2>5 DEF Journal!Write, Journal!AbandonEpoch
  <2>6. CASE Journal!StorageDefect
    BY <2>2, <2>3, <2>4, <2>6 DEF Journal!StorageDefect
  <2> QED
    BY <1>1, <2>5, <2>6 DEF Journal!Next
<1>4. clock \in Nat
  BY Calendar DEF IInv
<1>5. Survives(state, events, losses, state', events', losses')
  BY <1>1 DEF Survives
<1>6. DOMAIN call' = Process
      /\ \A q \in Process : Calling(call'[q], clock', state', events', losses')
  <2>1. UNCHANGED call /\ clock' \in Nat /\ clock <= clock'
    BY <1>1, <1>4
  <2> QED
    BY <1>5, <2>1, AllSurvive
<1>7. Rows' /\ Anchored' /\ Published'
  BY <1>1 DEF IInv, Rows, Anchored, Published, VerifyOk, Enrolled
<1> QED
  BY <1>1, <1>3, <1>6, <1>7 DEF IInv

-----------------------------------------------------------------------------
(* A caller moves.                                                         *)

LEMMA BeginKeeps ==
  ASSUME IInv, NEW p \in Process, NEW c, Begin(p, c), Calling(c, clock, state, events, losses)
  PROVE  IInv'
<1>1. /\ call' = [call EXCEPT ![p] = c]
      /\ UNCHANGED <<clock, collection, manifests, losses, source>>
  BY DEF Begin
<1> QED
  BY <1>1, CallerKeeps

\* What is intended is a call that appends.
LEMMA IntentCalls ==
  ASSUME NEW op, NEW e, NEW expected, Intent(op, e, clock, events, losses)
  PROVE  Calling(Call("append", op, e, expected), clock, state, events, losses)
<1> DEFINE c == Call("append", op, e, expected)
<1>1. c.op = op /\ c.event = e /\ c.expected = expected
  BY DEF Call
<1> HIDE DEF c
<1>2. c = Call("append", c.op, c.event, c.expected) /\ Intent(c.op, c.event, clock, events, losses)
  BY <1>1 DEF c
<1> QED
  BY <1>2 DEF Calling, c

LEMMA PrepareKeeps == ASSUME IInv, NEW p \in Process, Prepare(p) PROVE IInv'
<1> DEFINE expected == Expected(p)
<1>1. clock \in PlanCreated..clock
  BY Calendar DEF IInv
<1> HIDE DEF expected
<1>2. CASE PrepareStart(p, expected)
  <2>1. Intent("start", PlanState("COLLECTING", clock), clock, events, losses)
    BY <1>1 DEF Intent, PlanState
  <2> QED
    BY <1>2, <2>1, IntentCalls, BeginKeeps DEF PrepareStart
<1>3. CASE PrepareClose(p, expected)
  <2>1. Closure(events, clock) \in Closed
    BY <1>3 DEF PrepareClose, Closure, Closed
  <2> DEFINE closure == Closure(events, clock)
  <2> HIDE DEF closure
  <2>2. Intent("close", PlanState(closure, clock), clock, events, losses)
    BY <1>1, <2>1 DEF Intent, PlanState, closure
  <2> QED
    BY <1>3, <2>2, IntentCalls, BeginKeeps DEF PrepareClose, closure
<1>4. CASE PrepareAbort(p, expected)
  <2>1. Intent("abort", PlanState("ABORTED", clock), clock, events, losses)
    BY <1>1 DEF Intent, PlanState
  <2> QED
    BY <1>4, <2>1, IntentCalls, BeginKeeps DEF PrepareAbort
<1>5. ASSUME NEW d \in Decision, PrepareEnroll(p, d, expected) PROVE IInv'
  <2>1. Intent("enroll", Enrollment(d, clock), clock, events, losses)
    BY <1>1, <1>5 DEF Intent, Enrollment, PrepareEnroll
  <2> QED
    BY <1>5, <2>1, IntentCalls, BeginKeeps DEF PrepareEnroll
<1>6. ASSUME NEW c \in Case, NEW how \in Excluded, PrepareTerminal(p, c, how, expected) PROVE IInv'
  <2>1. Intent("terminal", Terminal(c, how, clock, None), clock, events, losses)
    BY <1>1 DEF Intent, Terminal
  <2> QED
    BY <1>6, <2>1, IntentCalls, BeginKeeps DEF PrepareTerminal
<1>7. CASE ProveSource(p, expected)
  <2>1. PICK n \in SourceEntries :
          Begin(p, Call("proved", "reconcile",
                        [record |-> entries[n].payload, content |-> entries[n].content,
                         seq |-> n, tail |-> Journal!ChainSeal(entries)],
                        expected))
    BY <1>7 DEF ProveSource
  <2>2. n \in DOMAIN entries
    BY DEF SourceEntries
  <2> DEFINE tail == Journal!ChainSeal(entries)
             record == entries[n].payload
             content == entries[n].content
             link == [record |-> record, content |-> content, seq |-> n, tail |-> tail]
             c == Call("proved", "reconcile", link, expected)
  <2>3. Journal!RecordSeal(record) = content
    BY <1>7, <2>2 DEF ProveSource, Journal!VerifyOk, Journal!EntryFinding
  <2>4. content[2] = record
    BY <2>3 DEF Journal!RecordSeal, Journal!Seal
  <2>5. record.seen.reconciled_at \in Nat
    BY <2>2, <2>4 DEF IInv, Source
  <2>6. Begin(p, c)
    BY <2>1
  <2> HIDE DEF tail, record, content
  <2>7. Proof(link)
    BY <2>3, <2>5 DEF Proof
  <2> HIDE DEF link
  <2>8. c = Call("proved", "reconcile", c.event, c.expected) /\ c.event = link
    BY DEF Call
  <2> HIDE DEF c
  <2>9. Calling(c, clock, state, events, losses)
    BY <2>7, <2>8 DEF Calling
  <2> QED
    BY <2>6, <2>9, BeginKeeps
<1> QED
  BY <1>2, <1>3, <1>4, <1>5, <1>6, <1>7 DEF Prepare, expected

LEMMA ReconcileKeeps == ASSUME IInv, NEW p \in Process, PrepareReconcile(p) PROVE IInv'
<1>1. call[p] # None /\ call[p].step = "proved"
  BY DEF PrepareReconcile
<1>2. Proof(call[p].event)
  <2>1. Calling(call[p], clock, state, events, losses)
    BY DEF IInv
  <2> QED
    BY <1>1, <2>1 DEF Calling, Call
<1>3. PICK c \in Case, d \in Decision :
        call' = [call EXCEPT ![p] =
                   IF Reconcilable(c, d, call[p].event.record, clock)
                   THEN Call("append", "reconcile",
                             Terminal(c, ExpectedOutcome(call[p].event.record), clock, call[p].event),
                             call[p].expected)
                   ELSE None]
  BY DEF PrepareReconcile
<1> DEFINE link == call[p].event
           outcome == ExpectedOutcome(link.record)
           e == Terminal(c, outcome, clock, link)
           next == IF Reconcilable(c, d, link.record, clock)
                   THEN Call("append", "reconcile", e, call[p].expected) ELSE None
<1>4. /\ call' = [call EXCEPT ![p] = next]
      /\ UNCHANGED <<clock, collection, manifests, losses, source>>
  BY <1>3 DEF PrepareReconcile
<1>5. ASSUME Reconcilable(c, d, link.record, clock)
      PROVE  Intent("reconcile", e, clock, events, losses)
  <2>1. /\ e.case = c /\ e.state = outcome /\ e.at = clock /\ e.link = link
        /\ e = Terminal(e.case, e.state, e.at, e.link)
    BY DEF Terminal
  <2> HIDE DEF e
  <2>2. clock \in PlanCreated..clock
    BY Calendar DEF IInv
  <2>3. EventsOf(events, c) # {}
    BY <1>5 DEF Reconcilable, OutcomeOf
  <2>4. LegalLink(EnrollmentOf(events, c).decision, e)
    BY <1>2, <1>5, <2>1 DEF Reconcilable, SamePreimage, LegalLink, Proof
  <2> QED
    BY <1>2, <2>1, <2>2, <2>3, <2>4 DEF Intent
<1> HIDE DEF e
<1>6. Calling(next, clock, state, events, losses)
  <2>1. CASE Reconcilable(c, d, link.record, clock)
    BY <1>5, <2>1, IntentCalls
  <2>2. CASE ~Reconcilable(c, d, link.record, clock)
    BY <2>2 DEF Calling
  <2> QED
    BY <2>1, <2>2
<1> HIDE DEF next
<1> QED
  BY <1>4, <1>6, CallerKeeps

LEMMA RefuseKeeps == ASSUME IInv, NEW p \in Process, Refuse(p) PROVE IInv'
<1>1. Calling(None, clock, state, events, losses)
  BY DEF Calling
<1> QED
  BY <1>1, CallerKeeps DEF Refuse

-----------------------------------------------------------------------------
(* A manifest.                                                             *)

LEMMA ManifestVerifyKeeps == ASSUME IInv, NEW p \in Process, ManifestVerify(p) PROVE IInv'
<1>1. Calling([step |-> "verified", op |-> "manifest"], clock, state, events, losses)
  BY DEF Calling
<1> QED
  BY <1>1, BeginKeeps DEF ManifestVerify

LEMMA ManifestStateKeeps == ASSUME IInv, NEW p \in Process, ManifestState(p) PROVE IInv'
<1>1. call[p] # None /\ call[p].step = "verified" /\ Calling(call[p], clock, state, events, losses)
  BY DEF ManifestState, IInv
<1>2. call[p] = [step |-> "verified", op |-> "manifest"]
  BY <1>1 DEF Calling, Call
<1> DEFINE next == IF state \in Publishable THEN [call[p] EXCEPT !.step = "publishable"] ELSE None
<1>3. Calling(next, clock, state, events, losses)
  <2>1. CASE state \in Closed
    <3>1. next = [step |-> "publishable", op |-> "manifest"]
      BY <1>2, <2>1 DEF Publishable
    <3> HIDE DEF next
    <3> QED
      BY <2>1, <3>1 DEF Calling
  <2>2. CASE state \notin Closed
    BY <2>2 DEF Calling, Publishable
  <2> QED
    BY <2>1, <2>2
<1>4. /\ call' = [call EXCEPT ![p] = next]
      /\ UNCHANGED <<clock, collection, manifests, losses, source>>
  BY DEF ManifestState
<1> HIDE DEF next
<1> QED
  BY <1>3, <1>4, CallerKeeps

LEMMA ManifestStatusKeeps == ASSUME IInv, NEW p \in Process, ManifestStatus(p) PROVE IInv'
<1>1. /\ call[p] # None /\ call[p].step = "publishable"
      /\ Calling(call[p], clock, state, events, losses)
  BY DEF ManifestStatus, IInv
<1>2. losses = 0 => state \in Closed
  BY <1>1 DEF Calling, Call
<1> DEFINE next == [step |-> "phase", op |-> "manifest", phase |-> state]
<1>3. next = [step |-> "phase", op |-> "manifest", phase |-> next.phase] /\ next.phase = state
  OBVIOUS
<1>4. /\ call' = [call EXCEPT ![p] = next]
      /\ UNCHANGED <<clock, collection, manifests, losses, source>>
  BY DEF ManifestStatus
<1> HIDE DEF next
<1>5. Calling(next, clock, state, events, losses)
  BY <1>2, <1>3 DEF Calling
<1> QED
  BY <1>4, <1>5, CallerKeeps

LEMMA ManifestRootKeeps == ASSUME IInv, NEW p \in Process, ManifestRoot(p) PROVE IInv'
<1>1. call[p] # None /\ call[p].step = "phase" /\ Calling(call[p], clock, state, events, losses)
  BY DEF ManifestRoot, IInv
<1>2. losses = 0 => state \in Closed /\ call[p].phase = state
  BY <1>1 DEF Calling, Call
<1> DEFINE root == ChainSeal(events)
           phase == call[p].phase
           next == [step |-> "root", op |-> "manifest", phase |-> phase, root |-> root]
<1>3. /\ call' = [call EXCEPT ![p] = next]
      /\ UNCHANGED <<clock, collection, manifests, losses, source>>
  BY DEF ManifestRoot
<1> HIDE DEF root, phase
<1>4. next = [step |-> "root", op |-> "manifest", phase |-> next.phase, root |-> next.root]
      /\ next.phase = phase /\ next.root = root
  OBVIOUS
<1> HIDE DEF next
<1>5. Calling(next, clock, state, events, losses)
  BY <1>2, <1>4 DEF Calling, phase, root
<1> QED
  BY <1>3, <1>5, CallerKeeps

\* By then the collection has been closed since its root was read.
LEMMA ManifestCasesKeeps == ASSUME IInv, NEW p \in Process, ManifestCases(p) PROVE IInv'
<1>1. call[p] # None /\ call[p].step = "root" /\ Calling(call[p], clock, state, events, losses)
  BY DEF ManifestCases, IInv
<1>2. losses = 0 => /\ state \in Closed /\ call[p].phase = state
                    /\ call[p].root = ChainSeal(events)
  BY <1>1 DEF Calling, Call
<1> DEFINE cases == [c \in Enrolled(events) |-> OutcomeOf(events, c)]
           eligible == {c \in Enrolled(events) : OutcomeOf(events, c) = "RECONCILED"}
           phase == call[p].phase
           root == call[p].root
           m == [phase |-> phase, root |-> root, cases |-> cases, eligible |-> eligible]
<1>3. /\ manifests' = manifests \cup {m} /\ call' = [call EXCEPT ![p] = None]
      /\ clock' = clock /\ state' = state /\ events' = events /\ anchor' = anchor
      /\ losses' = losses /\ entries' = entries
  BY DEF ManifestCases, collection, source
<1> HIDE DEF cases, eligible, phase, root
<1>4. m.phase = phase /\ m.root = root /\ m.cases = cases
  OBVIOUS
<1> HIDE DEF m
<1>5. Published'
  <2>1. ASSUME losses = 0, NEW n \in manifests \cup {m}
        PROVE  state \in Closed /\ n.phase = state /\ n.root = ChainSeal(events) /\ n.cases = cases
    <3>1. CASE n \in manifests
      BY <2>1, <3>1 DEF IInv, Published, cases
    <3>2. CASE n = m
      BY <1>2, <1>4, <2>1, <3>2 DEF phase, root
    <3> QED
      BY <2>1, <3>1, <3>2
  <2> QED
    BY <1>3, <2>1 DEF Published, cases, Enrolled
<1>6. clock \in Nat
  BY Calendar DEF IInv
<1>7. Survives(state, events, losses, state', events', losses')
  BY <1>3 DEF Survives
<1>8. DOMAIN call' = Process
      /\ \A q \in Process : Calling(call'[q], clock', state', events', losses')
  <2>1. Calling(None, clock', state', events', losses')
    BY DEF Calling
  <2>2. clock' \in Nat /\ clock <= clock'
    BY <1>3, <1>6
  <2> QED
    BY <1>3, <1>7, <2>1, <2>2, CallsKeep
<1>9. Rows' /\ Anchored' /\ Source'
  BY <1>3 DEF IInv, Rows, Anchored, Source, VerifyOk, Enrolled
<1> QED
  BY <1>3, <1>5, <1>8, <1>9 DEF IInv

-----------------------------------------------------------------------------
(* The specification.                                                      *)

LEMMA Starts == ASSUME Init PROVE IInv
<1>1. /\ clock = PlanCreated /\ state = "absent" /\ events = <<>>
      /\ call = [p \in Process |-> None] /\ manifests = {} /\ losses = 0 /\ entries = <<>>
  BY DEF Init, Journal!Init
<1>2. Sequence(<<>>) /\ Ended(<<>>) /\ DOMAIN <<>> = {}
  <2>1. Sequence(<<>>)
    <3>1. <<>> \in Seq({})
      OBVIOUS
    <3> QED
      BY <3>1 DEF Sequence
  <2> QED
    BY <2>1 DEF Ended, Ends
<1>3. Enrolled(events) = {}
  BY <1>1, <1>2 DEF Enrolled, EventsOf
<1>4. IsFiniteSet({}) /\ Cardinality({}) = 0 /\ 0 <= MaxEnrollments
  BY FS_EmptySet, Power
<1>5. Rows /\ Source
  BY <1>1, <1>2, <1>3, <1>4 DEF Rows, Source
<1>6. Anchored /\ Published
  BY <1>1 DEF Anchored, Published
<1>7. \A p \in Process : Calling(call[p], clock, state, events, losses)
  BY <1>1 DEF Calling
<1>8. clock \in PlanCreated..MaxClock /\ losses \in 0..MaxLosses
  BY <1>1, Calendar
<1> QED
  BY <1>1, <1>5, <1>6, <1>7, <1>8 DEF IInv

LEMMA Inductive == ASSUME NoneIsNoLink, IInv, [Next]_vars PROVE IInv'
<1>1. CASE Create
  BY <1>1, CreateKeeps
<1>2. CASE Tick
  BY <1>2, TickKeeps
<1>3. CASE LoseEvent
  BY <1>3, LoseEventKeeps
<1>4. CASE SourceStep
  BY <1>4, SourceKeeps
<1>5. ASSUME NEW p \in Process, Prepare(p) PROVE IInv'
  BY <1>5, PrepareKeeps
<1>6. ASSUME NEW p \in Process, ManifestVerify(p) PROVE IInv'
  BY <1>6, ManifestVerifyKeeps
<1>7. ASSUME NEW p \in Process, Finish(p) PROVE IInv'
  <2>1. CASE Commit(p)
    BY <2>1, CommitKeeps
  <2>2. CASE PrepareReconcile(p) \/ Refuse(p)
    BY <2>2, ReconcileKeeps, RefuseKeeps
  <2>3. CASE ManifestState(p) \/ ManifestStatus(p) \/ ManifestRoot(p) \/ ManifestCases(p)
    BY <2>3, ManifestStateKeeps, ManifestStatusKeeps, ManifestRootKeeps, ManifestCasesKeeps
  <2> QED
    BY <1>7, <2>1, <2>2, <2>3 DEF Finish
<1>8. CASE UNCHANGED vars
  <2>1. /\ state' = state /\ events' = events /\ anchor' = anchor /\ clock' = clock
        /\ call' = call /\ manifests' = manifests /\ losses' = losses /\ entries' = entries
    BY <1>8 DEF vars, collection, source
  <2>2. clock \in Nat
    BY Calendar DEF IInv
  <2>3. Survives(state, events, losses, state', events', losses')
    BY <2>1 DEF Survives
  <2>4. UNCHANGED call /\ clock' \in Nat /\ clock <= clock'
    BY <2>1, <2>2
  <2>5. DOMAIN call' = Process
        /\ \A q \in Process : Calling(call'[q], clock', state', events', losses')
    BY <2>3, <2>4, AllSurvive
  <2>6. Rows' /\ Anchored' /\ Published' /\ Source'
    BY <2>1 DEF IInv, Rows, Anchored, Published, Source, VerifyOk, Enrolled
  <2> QED
    BY <2>1, <2>5, <2>6 DEF IInv
<1> QED
  BY <1>1, <1>2, <1>3, <1>4, <1>5, <1>6, <1>7, <1>8 DEF Next

LEMMA Implies == ASSUME IInv PROVE VerifyIsRight /\ ManifestsAreFinal
<1>1. TypeOK
  <2>1. \A n \in DOMAIN events :
          /\ events[n].kind \in {"PLAN_STATE", "ENROLL", "TERMINAL"}
          /\ events[n].state \in Phases \cup {"ENROLLED"} \cup Excluded \cup Linked
          /\ events[n].at \in PlanCreated..clock
    BY DEF IInv, Rows, Typed
  <2> QED
    BY <2>1 DEF IInv, Rows, TypeOK
<1>2. LegalUseVerifies
  BY DEF IInv, Anchored, LegalUseVerifies
<1>3. LossStaysReported
  <2>1. ASSUME losses > 0, VerifyOk PROVE FALSE
    <3>1. anchor.generation = Len(events)
      BY <2>1 DEF VerifyOk, Anchor
    <3>2. Len(events) \in Nat
      BY SequenceShape DEF IInv, Rows
    <3> QED
      BY <2>1, <3>1, <3>2 DEF IInv, Anchored
  <2> QED
    BY <2>1 DEF LossStaysReported
<1>4. ManifestsAreFinal
  BY DEF IInv, Published, ManifestsAreFinal
<1> QED
  BY <1>1, <1>2, <1>3, <1>4 DEF VerifyIsRight

\* verify accepts whatever racing callers, stale stamps and another journal
\* that changes meanwhile make of a collection, within the plan's maximum,
\* and never again one that lost an event: for any number of each.
THEOREM VerifyIsRightHolds == ASSUME NoneIsNoLink PROVE Spec => []VerifyIsRight
<1>1. Init => IInv
  BY Starts
<1>2. IInv /\ [Next]_vars => IInv'
  BY Inductive
<1>3. IInv => VerifyIsRight
  BY Implies
<1> QED
  BY <1>1, <1>2, <1>3, PTL DEF Spec

\* A manifest that was read in five steps shows the collection as it stays.
THEOREM ManifestsAreFinalHolds == ASSUME NoneIsNoLink PROVE Spec => []ManifestsAreFinal
<1>1. Init => IInv
  BY Starts
<1>2. IInv /\ [Next]_vars => IInv'
  BY Inductive
<1>3. IInv => ManifestsAreFinal
  BY Implies
<1> QED
  BY <1>1, <1>2, <1>3, PTL DEF Spec

-----------------------------------------------------------------------------
(* The life cycle.                                                         *)

\* The abstract module counts as this one does.
LEMMA SameCount == ASSUME NEW S PROVE Lifecycle!Cardinality(S) = Cardinality(S)
  BY DEF Lifecycle!Cardinality, Cardinality

\* A case is out, enrolled, or settled.
LEMMA Outcomes ==
  ASSUME Rows, NEW c \in Case
  PROVE  /\ EventsOf(events, c) = {} => OutcomeOf(events, c) = "none"
         /\ EventsOf(events, c) # {} => OutcomeOf(events, c) \in {"ENROLLED"} \cup Excluded \cup Linked
<1> DEFINE S == EventsOf(events, c)
<1>1. S \subseteq DOMAIN events /\ \A n \in S : events[n].case = c
  BY DEF EventsOf
<1>2. ASSUME S # {} PROVE OutcomeOf(events, c) \in {"ENROLLED"} \cup Excluded \cup Linked
  <2>1. PICK n \in S : \A m \in S : m <= n
    BY <1>1, <1>2 DEF Rows, Ended, Ends
  <2>2. S \in SUBSET Nat
    BY <1>1, SequenceShape DEF Rows
  <2>3. Max(S) = n
    BY <2>1, <2>2, LastIsMax
  <2>4. Typed(events[n]) /\ events[n].case = c /\ c # None
    BY <1>1, <2>1, NoneIsNeither DEF Rows
  <2>5. OutcomeOf(events, c) = events[n].state
    BY <1>2, <2>3 DEF OutcomeOf
  <2> QED
    BY <2>4, <2>5 DEF Typed
<1> QED
  BY <1>2 DEF OutcomeOf

LEMMA LifecycleReads ==
  ASSUME Rows
  PROVE  /\ Lifecycle!Enrolled = Enrolled(events)
         /\ \A at \in Nat : Sufficient(events, at) <=> Lifecycle!Complete /\ at >= MinimumEnd
<1> DEFINE outcome == [c \in Case |-> OutcomeOf(events, c)]
<1>1. \A c \in Case : outcome[c] = OutcomeOf(events, c)
  OBVIOUS
<1>2. Lifecycle!Enrolled = {c \in Case : outcome[c] # "none"}
  BY DEF Lifecycle!Enrolled
<1>3. \A c \in Case : Lifecycle!Settled(c) <=> outcome[c] \in Excluded \cup Linked
  BY DEF Lifecycle!Settled
<1> HIDE DEF outcome
<1>4. Lifecycle!Enrolled = Enrolled(events)
  BY <1>1, <1>2, Outcomes DEF Enrolled, Excluded, Linked
<1>5. \A c \in Enrolled(events) : Lifecycle!Settled(c) <=> OutcomeOf(events, c) # "ENROLLED"
  BY <1>1, <1>3, Outcomes DEF Enrolled, Excluded, Linked
<1>6. Lifecycle!Complete <=> /\ Cardinality(Enrolled(events)) >= Required
                            /\ \A c \in Enrolled(events) : OutcomeOf(events, c) # "ENROLLED"
  BY <1>4, <1>5, SameCount DEF Lifecycle!Complete
<1> QED
  BY <1>4, <1>6 DEF Sufficient

LEMMA CommitImplements ==
  ASSUME NoneIsNoLink, IInv, NEW p \in Process, Commit(p) PROVE Lifecycle!Next
<1> DEFINE e == call[p].event
           phase == IF state = "absent" THEN "SEALED" ELSE state
           outcome == [c \in Case |-> OutcomeOf(events, c)]
<1>1. /\ call[p] # None /\ call[p].step = "append" /\ Appendable(call[p])
      /\ events' = Append(events, e)
      /\ state' = IF e.kind = "PLAN_STATE" THEN e.state ELSE state
  BY DEF Commit
<1>2. /\ Intent(call[p].op, e, clock, events, losses) /\ StillValid(call[p].op, e)
      /\ state = PhaseOf(events) /\ state # "absent" /\ Rows
  BY <1>1, Appending DEF IInv
<1>3. Legal(events, e) /\ Typed(e)
  BY <1>1, AppendsLegally
<1>4. e.at \in Nat
  BY <1>2, Calendar DEF Intent, IInv
<1> HIDE DEF e
<1>5. /\ phase = state /\ phase' = state'
  BY <1>1, <1>2, <1>3 DEF Typed, Phases, Closed
<1>6. \A c \in Case :
        OutcomeOf(events', c) = IF e.case = c THEN e.state ELSE OutcomeOf(events, c)
  BY <1>1, <1>2, AppendedCase DEF Rows
<1>7. CASE e.kind = "PLAN_STATE"
  <2>1. LegalPlanState(events, e) /\ state' = e.state
    BY <1>1, <1>3, <1>7 DEF Legal
  <2>2. UNCHANGED outcome
    BY <1>3, <1>6, <1>7, NoneIsNeither DEF Typed
  <2>3. \A from : Lifecycle!Move(from, e.state) <=> state \in from
    BY <1>5, <2>1, <2>2 DEF Lifecycle!Move
  <2>4. Sufficient(events, e.at) <=> Lifecycle!Complete /\ e.at >= MinimumEnd
    BY <1>2, <1>4, LifecycleReads
  <2>5. CASE e.state = "COLLECTING" /\ state = "SEALED"
    BY <2>3, <2>5 DEF Lifecycle!Next
  <2>6. CASE e.state = "ABORTED" /\ state \in {"SEALED", "COLLECTING"}
    BY <2>3, <2>6 DEF Lifecycle!Next
  <2>7. CASE e.state = "CLOSED_SUFFICIENT" /\ state = "COLLECTING" /\ Sufficient(events, e.at)
    BY <2>3, <2>4, <2>7 DEF Lifecycle!Next
  <2>8. CASE /\ e.state = "CLOSED_INSUFFICIENT" /\ state = "COLLECTING"
             /\ e.at >= HardEnd /\ ~Sufficient(events, e.at)
    <3>1. e.at >= MinimumEnd
      BY <1>4, <2>8, Calendar
    <3> QED
      BY <2>3, <2>4, <2>8, <3>1 DEF Lifecycle!Next
  <2> QED
    BY <1>2, <2>1, <2>5, <2>6, <2>7, <2>8 DEF LegalPlanState
<1>8. CASE e.kind = "ENROLL"
  <2>1. LegalEnrollment(events, e) /\ e.case \in Case /\ e.state = "ENROLLED" /\ state' = state
    BY <1>1, <1>3, <1>8 DEF Legal, Typed
  <2>2. state = "COLLECTING" /\ Cardinality(Lifecycle!Enrolled) < MaxEnrollments
    BY <1>2, <2>1, LifecycleReads DEF LegalEnrollment
  <2>3. OutcomeOf(events, e.case) = "none"
    BY <1>2, <2>1, Outcomes DEF LegalEnrollment, Enrolled
  <2>4. outcome' = [outcome EXCEPT ![e.case] = "ENROLLED"]
    BY <1>6, <2>1
  <2>5. Lifecycle!Enroll(e.case)
    BY <1>5, <2>1, <2>2, <2>3, <2>4, SameCount DEF Lifecycle!Enroll
  <2> QED
    BY <2>1, <2>5 DEF Lifecycle!Next
<1>9. CASE e.kind = "TERMINAL"
  <2>1. LegalTerminal(events, e) /\ e.case \in Case /\ e.state \in Excluded \cup Linked
        /\ state' = state
    BY <1>1, <1>3, <1>9 DEF Legal, Typed
  <2>2. state = "COLLECTING"
    <3> DEFINE op == call[p].op
    <3>1. \A to : e # PlanState(to, e.at)
      BY <1>9 DEF PlanState
    <3>2. Intent(op, e, clock, events, losses) /\ StillValid(op, e)
      BY <1>2
    <3> HIDE DEF op
    <3>3. op \in {"enroll", "terminal", "reconcile", "close"}
      BY <3>1, <3>2 DEF Intent
    <3> QED
      BY <3>2, <3>3 DEF StillValid, EnrollStillValid, OpenCase, StillClosing
  <2>3. OutcomeOf(events, e.case) = "ENROLLED"
    BY <2>1 DEF LegalTerminal
  <2>4. outcome' = [outcome EXCEPT ![e.case] = e.state]
    BY <1>6, <2>1
  <2>5. Lifecycle!Settle(e.case, e.state)
    BY <1>5, <2>1, <2>2, <2>3, <2>4 DEF Lifecycle!Settle
  <2> QED
    BY <2>1, <2>5 DEF Lifecycle!Next
<1> QED
  BY <1>3, <1>7, <1>8, <1>9 DEF Typed

LEMMA StepImplements ==
  ASSUME NoneIsNoLink, IInv, IInv', [Next]_vars
  PROVE  (losses' = 0 => Lifecycle!Next) \/ UNCHANGED Lifecycle!vars
<1>1. ASSUME NEW p \in Process, Commit(p) PROVE Lifecycle!Next
  BY <1>1, CommitImplements
<1>2. CASE LoseEvent
  <2>1. losses \in Nat /\ losses' = losses + 1
    BY <1>2, Calendar DEF IInv, LoseEvent
  <2> QED
    BY <2>1
<1>3. CASE Create
  <2>1. events' = events /\ state = "absent" /\ state' = "SEALED"
    BY <1>3 DEF Create
  <2> QED
    BY <2>1 DEF Lifecycle!vars
<1>4. ASSUME state' = state, events' = events PROVE UNCHANGED Lifecycle!vars
  BY <1>4 DEF Lifecycle!vars
<1>5. CASE Tick \/ SourceStep \/ UNCHANGED vars
  BY <1>4, <1>5 DEF Tick, SourceStep, vars, collection
<1>6. ASSUME NEW p \in Process, Prepare(p) \/ ManifestVerify(p) PROVE UNCHANGED Lifecycle!vars
  <2>1. UNCHANGED collection
    BY <1>6 DEF Prepare, ManifestVerify, Begin, PrepareStart, PrepareClose, PrepareAbort,
                PrepareEnroll, PrepareTerminal, ProveSource
  <2> QED
    BY <1>4, <2>1 DEF collection
<1>7. ASSUME NEW p \in Process, Finish(p), ~Commit(p) PROVE UNCHANGED Lifecycle!vars
  BY <1>4, <1>7 DEF Finish, PrepareReconcile, Refuse, ManifestState, ManifestStatus, ManifestRoot,
                    ManifestCases, collection
<1> QED
  BY <1>1, <1>2, <1>3, <1>5, <1>6, <1>7 DEF Next

\* The events of racing callers implement a one-way life cycle, whatever the
\* number of callers and cases: a case is enrolled once and settled once, a
\* collection closes as sufficient exactly when its cases say so, and nothing
\* changes in one that is over, as long as no event is lost.
THEOREM ImplementsLifecycleHolds == ASSUME NoneIsNoLink PROVE Spec => ImplementsLifecycle
<1>1. Init => IInv
  BY Starts
<1>2. IInv /\ [Next]_vars => IInv'
  BY Inductive
<1>3. Init => Lifecycle!Init
  <2>1. ASSUME Init PROVE Lifecycle!Init
    <3>1. state = "absent" /\ events = <<>>
      BY <2>1 DEF Init
    <3>2. \A c \in Case : OutcomeOf(events, c) = "none"
      BY <3>1 DEF OutcomeOf, EventsOf
    <3> QED
      BY <3>1, <3>2 DEF Lifecycle!Init
  <2> QED
    BY <2>1
<1>4. IInv /\ IInv' /\ [Next]_vars => [losses' = 0 => Lifecycle!Next]_(Lifecycle!vars)
  BY StepImplements
<1> QED
  BY <1>1, <1>2, <1>3, <1>4, PTL DEF Spec, ImplementsLifecycle
-----------------------------------------------------------------------------
(* The other journal.                                                      *)

\* A row of the other journal, whatever is in it.
Shaped(row) ==
  row = [id |-> row.id, revision |-> row.revision, preimage |-> row.preimage,
         content |-> row.content, payload |-> row.payload]

\* A row as an append wrote it.
Written(row) ==
  /\ Shaped(row) /\ row.revision \in Nat
  /\ row.content = Journal!RecordSeal(row.payload)
  /\ row.payload.id = row.id /\ row.payload.preimage = row.preimage

\* The row of a reconciliation with the highest revision.
IsHead(rows, id, n) ==
  /\ n \in DOMAIN rows /\ rows[n].id = id
  /\ \A m \in DOMAIN rows : rows[m].id = id => rows[m].revision <= rows[n].revision

\* A reconciliation is about one decision, and has a head.
OneStory(rows) ==
  /\ \A n, m \in DOMAIN rows : rows[n].id = rows[m].id => rows[n].preimage = rows[m].preimage
  /\ \A n \in DOMAIN rows : \E h : IsHead(rows, rows[n].id, h)

\* What was committed, the anchor of the other journal seals; storage alone
\* makes the entries differ from it.
Kept ==
  /\ Sequence(entries) /\ \A n \in DOMAIN entries : Shaped(entries[n])
  /\ Sequence(committed) /\ \A n \in DOMAIN committed : Written(committed[n])
  /\ OneStory(committed)
  /\ journal_anchor.tail = Journal!ChainSeal(committed)
  /\ defects \in Nat /\ (defects = 0 => entries = committed)

\* Sealed columns determine a row whose content seals its payload.
LEMMA RowFromSeals ==
  ASSUME NEW a, NEW b, Shaped(a), Shaped(b),
         Journal!SealedColumns(a) = Journal!SealedColumns(b),
         a.content = Journal!RecordSeal(a.payload), b.content = Journal!RecordSeal(b.payload)
  PROVE  a = b
<1>1. a.id = b.id /\ a.revision = b.revision /\ a.preimage = b.preimage /\ a.content = b.content
  BY DEF Journal!SealedColumns
<1>2. a.payload = b.payload
  BY <1>1 DEF Journal!RecordSeal, Journal!Seal
<1> QED
  BY <1>1, <1>2 DEF Shaped

LEMMA ChainFromSeals ==
  ASSUME NEW s, NEW t, Journal!ChainSeal(s) = Journal!ChainSeal(t)
  PROVE  /\ DOMAIN s = DOMAIN t
         /\ \A n \in DOMAIN s : Journal!SealedColumns(s[n]) = Journal!SealedColumns(t[n])
<1> DEFINE f == [n \in DOMAIN s |-> Journal!SealedColumns(s[n])]
           g == [n \in DOMAIN t |-> Journal!SealedColumns(t[n])]
<1>1. f = g
  BY DEF Journal!ChainSeal, Journal!Seal
<1>2. DOMAIN f = DOMAIN s /\ DOMAIN g = DOMAIN t
  OBVIOUS
<1>3. \A n \in DOMAIN s : f[n] = Journal!SealedColumns(s[n])
  OBVIOUS
<1>4. \A n \in DOMAIN t : g[n] = Journal!SealedColumns(t[n])
  OBVIOUS
<1> HIDE DEF f, g
<1> QED
  BY <1>1, <1>2, <1>3, <1>4

\* Sequences with the same elements are the same.
LEMMA SameElements ==
  ASSUME NEW s, Sequence(s), NEW t, Sequence(t), DOMAIN s = DOMAIN t,
         \A n \in DOMAIN s : s[n] = t[n]
  PROVE  s = t
<1>1. s = [n \in DOMAIN s |-> s[n]]
  BY DEF Sequence
<1>2. t = [n \in DOMAIN t |-> t[n]]
  BY DEF Sequence
<1> QED
  BY <1>1, <1>2

\* What verify of the other journal accepts is what was committed.
LEMMA AcceptedIsCommitted == ASSUME Kept, Journal!VerifyOk PROVE entries = committed
<1>1. Journal!ChainSeal(entries) = Journal!ChainSeal(committed)
  BY DEF Journal!VerifyOk, Journal!Anchor, Kept
<1>2. /\ DOMAIN entries = DOMAIN committed
      /\ \A n \in DOMAIN entries :
           Journal!SealedColumns(entries[n]) = Journal!SealedColumns(committed[n])
  BY <1>1, ChainFromSeals
<1>3. \A n \in DOMAIN entries : entries[n].content = Journal!RecordSeal(entries[n].payload)
  BY DEF Journal!VerifyOk, Journal!EntryFinding
<1>4. ASSUME NEW n \in DOMAIN entries PROVE entries[n] = committed[n]
  <2>1. Shaped(entries[n]) /\ Written(committed[n])
    BY <1>2 DEF Kept
  <2> QED
    BY <1>2, <1>3, <2>1, RowFromSeals DEF Written
<1> QED
  BY <1>2, <1>4, SameElements DEF Kept

\* The head that an append extends, if there is a row of the reconciliation.
LEMMA HeadIsHighest ==
  ASSUME NEW id, Sequence(entries), OneStory(entries)
  PROVE  \/ Journal!HeadRow(id) = 0 /\ \A n \in DOMAIN entries : entries[n].id # id
         \/ Journal!HeadRow(id) # 0 /\ IsHead(entries, id, Journal!HeadRow(id))
<1> DEFINE S == Journal!RowsOf(id)
           head == Journal!HeadRow(id)
<1>1. S = {n \in DOMAIN entries : entries[n].id = id}
  BY DEF Journal!RowsOf
<1>2. head = IF S = {} THEN 0
             ELSE CHOOSE n \in S : \A m \in S : entries[m].revision <= entries[n].revision
  BY DEF Journal!HeadRow
<1> HIDE DEF S, head
<1>3. CASE S = {}
  BY <1>1, <1>2, <1>3 DEF head
<1>4. CASE S # {}
  <2>1. PICK h : IsHead(entries, id, h)
    BY <1>1, <1>4 DEF OneStory
  <2>2. \E n \in S : \A m \in S : entries[m].revision <= entries[n].revision
    BY <1>1, <2>1 DEF IsHead
  <2>3. head \in S /\ \A m \in S : entries[m].revision <= entries[head].revision
    BY <1>2, <1>4, <2>2
  <2>4. IsHead(entries, id, head)
    BY <1>1, <2>3 DEF IsHead
  <2>5. head # 0
    BY <1>1, <2>3, SequenceShape
  <2> QED
    BY <2>4, <2>5 DEF head
<1> QED
  BY <1>3, <1>4

\* A row behind a head is the next head; others keep theirs.
LEMMA AppendedStory ==
  ASSUME NEW rows, Sequence(rows), OneStory(rows), NEW row, row.revision \in Nat,
         \A n \in DOMAIN rows : rows[n].revision \in Nat,
         \/ \A n \in DOMAIN rows : rows[n].id # row.id
         \/ \E h : /\ IsHead(rows, row.id, h)
                   /\ row.revision = rows[h].revision + 1 /\ row.preimage = rows[h].preimage
  PROVE  OneStory(Append(rows, row))
<1> DEFINE next == Append(rows, row)
           N == Len(rows) + 1
<1>1. /\ DOMAIN next = DOMAIN rows \cup {N} /\ N \notin DOMAIN rows
      /\ \A n \in DOMAIN rows : next[n] = rows[n]
      /\ next[N] = row
  BY AppendShape
<1> HIDE DEF next, N
<1>2. \A n \in DOMAIN rows : rows[n].id = row.id => rows[n].preimage = row.preimage
  BY DEF OneStory, IsHead
<1>3. \A n, m \in DOMAIN next : next[n].id = next[m].id => next[n].preimage = next[m].preimage
  BY <1>1, <1>2 DEF OneStory
<1>4. IsHead(next, row.id, N)
  <2>1. ASSUME NEW m \in DOMAIN rows, rows[m].id = row.id PROVE rows[m].revision <= row.revision
    <3>1. PICK h : IsHead(rows, row.id, h) /\ row.revision = rows[h].revision + 1
      BY <2>1
    <3>2. rows[m].revision <= rows[h].revision /\ h \in DOMAIN rows
      BY <2>1, <3>1 DEF IsHead
    <3>3. rows[m].revision \in Nat /\ rows[h].revision \in Nat
      BY <3>2
    <3> QED
      BY <3>1, <3>2, <3>3
  <2> QED
    BY <1>1, <2>1 DEF IsHead
<1>5. ASSUME NEW n \in DOMAIN next PROVE \E h : IsHead(next, next[n].id, h)
  <2>1. CASE next[n].id = row.id
    BY <1>4, <2>1
  <2>2. CASE next[n].id # row.id
    <3>1. n \in DOMAIN rows /\ next[n] = rows[n]
      BY <1>1, <2>2
    <3>2. PICK h : IsHead(rows, rows[n].id, h)
      BY <3>1 DEF OneStory
    <3>3. IsHead(next, rows[n].id, h)
      BY <1>1, <2>2, <3>1, <3>2 DEF IsHead
    <3> QED
      BY <3>1, <3>3
  <2> QED
    BY <2>1, <2>2
<1> QED
  BY <1>3, <1>5 DEF OneStory, next

\* An append to the other journal.
LEMMA EntryKept ==
  ASSUME Kept, NEW record, NEW decision, NEW expected,
         Journal!AppendReconciliation(record, decision, expected)
  PROVE  Kept' /\ committed' = Append(committed, Journal!Entry(record))
<1> DEFINE row == Journal!Entry(record)
           head == Journal!HeadRow(record.id)
<1>1. /\ Journal!VerifyOk /\ Journal!ExtendsHead(record)
      /\ entries' = Append(entries, row) /\ committed' = entries' /\ defects' = defects
      /\ journal_anchor'.tail = Journal!ChainSeal(entries')
  BY DEF Journal!AppendReconciliation, Journal!Writable, Journal!Anchor
<1>2. entries = committed
  BY <1>1, AcceptedIsCommitted
<1>3. /\ Sequence(entries) /\ OneStory(entries)
      /\ \A n \in DOMAIN entries : Written(entries[n])
  BY <1>2 DEF Kept
<1>4. \/ record.revision = 1 /\ \A n \in DOMAIN entries : entries[n].id # record.id
      \/ /\ IsHead(entries, record.id, head)
         /\ record.revision = entries[head].revision + 1
         /\ record.preimage = entries[head].preimage
  BY <1>1, <1>3, HeadIsHighest DEF Journal!ExtendsHead
<1> HIDE DEF head
<1>5. record.revision \in Nat
  BY <1>3, <1>4 DEF IsHead, Written
<1>6. /\ Written(row) /\ row.id = record.id /\ row.revision = record.revision
      /\ row.preimage = record.preimage
  BY <1>5 DEF Journal!Entry, Written, Shaped
<1> HIDE DEF row
<1>7. OneStory(entries')
  <2>1. \A n \in DOMAIN entries : entries[n].revision \in Nat
    BY <1>3 DEF Written
  <2> QED
    BY <1>1, <1>3, <1>4, <1>5, <1>6, <2>1, AppendedStory
<1>8. Sequence(entries') /\ \A n \in DOMAIN entries' : Written(entries'[n])
  <2>1. /\ Sequence(entries') /\ DOMAIN entries' = DOMAIN entries \cup {Len(entries) + 1}
        /\ \A n \in DOMAIN entries : entries'[n] = entries[n]
        /\ entries'[Len(entries) + 1] = row
    BY <1>1, <1>3, AppendShape
  <2> QED
    BY <1>3, <1>6, <2>1
<1>9. Kept'
  BY <1>1, <1>7, <1>8 DEF Kept, Written
<1> QED
  BY <1>1, <1>2, <1>9 DEF row

\* What storage does to the other journal.
LEMMA DefectKept == ASSUME Kept, Journal!StorageDefect PROVE Kept' /\ committed' = committed
<1>1. /\ defects' = defects + 1 /\ entries # <<>>
      /\ journal_anchor' = journal_anchor /\ committed' = committed
  BY DEF Journal!StorageDefect
<1>2. defects' \in Nat /\ defects' # 0
  BY <1>1 DEF Kept
<1>3. Sequence(entries') /\ \A n \in DOMAIN entries' : Shaped(entries'[n])
  <2>1. CASE entries' = SubSeq(entries, 1, Len(entries) - 1)
    <3>1. /\ Sequence(entries') /\ DOMAIN entries' \subseteq DOMAIN entries
          /\ \A n \in DOMAIN entries' : entries'[n] = entries[n]
      BY <1>1, <2>1, ShorterShape DEF Kept
    <3> QED
      BY <3>1 DEF Kept
  <2>2. ASSUME NEW k \in DOMAIN entries, entries' = [entries EXCEPT ![k].payload.seen = None]
        PROVE  Sequence(entries') /\ \A n \in DOMAIN entries' : Shaped(entries'[n])
    <3>1. PICK S : entries \in Seq(S)
      BY DEF Kept, Sequence
    <3> DEFINE was == entries[k]
               altered == [was EXCEPT !.payload.seen = None]
    <3>2. entries' = [entries EXCEPT ![k] = altered]
      BY <2>2
    <3>3. Shaped(was)
      BY DEF Kept
    <3> HIDE DEF was
    <3>4. Shaped([was EXCEPT !.payload = [was.payload EXCEPT !.seen = None]])
      BY <3>3 DEF Shaped
    <3>5. Shaped(altered)
      BY <3>4
    <3> HIDE DEF altered
    <3>6. entries' \in Seq(S \cup {altered})
      BY <2>2, <3>1, <3>2
    <3>7. DOMAIN entries' = DOMAIN entries /\ \A n \in DOMAIN entries :
            entries'[n] = IF n = k THEN altered ELSE entries[n]
      BY <3>2
    <3> QED
      BY <3>5, <3>6, <3>7 DEF Kept, Sequence
  <2>3. CASE entries' = entries
    BY <2>3 DEF Kept
  <2> QED
    BY <2>1, <2>2, <2>3 DEF Journal!StorageDefect
<1> QED
  BY <1>1, <1>2, <1>3 DEF Kept

\* Closing the epoch seals what the old anchor sealed.
LEMMA AbandonKept == ASSUME Kept, Journal!AbandonEpoch PROVE Kept' /\ committed' = committed
<1>1. /\ Journal!VerifyOk /\ journal_anchor'.tail = Journal!ChainSeal(entries)
      /\ entries' = entries /\ committed' = committed /\ defects' = defects
  BY DEF Journal!AbandonEpoch, Journal!Anchor
<1>2. entries = committed
  BY <1>1, AcceptedIsCommitted
<1> QED
  BY <1>1, <1>2 DEF Kept

\* What was committed only grows.
Grows == committed' = committed \/ \E row : committed' = Append(committed, row)

LEMMA JournalKept == ASSUME Kept, Journal!Next \/ UNCHANGED source PROVE Kept' /\ Grows
<1>1. ASSUME NEW record, NEW decision, NEW expected,
             Journal!AppendReconciliation(record, decision, expected)
      PROVE  Kept' /\ Grows
  BY <1>1, EntryKept DEF Grows
<1>2. CASE Journal!StorageDefect
  BY <1>2, DefectKept DEF Grows
<1>3. CASE Journal!AbandonEpoch
  BY <1>3, AbandonKept DEF Grows
<1>4. CASE UNCHANGED source
  BY <1>4 DEF source, Kept, Grows
<1> QED
  BY <1>1, <1>2, <1>3, <1>4 DEF Journal!Next, Journal!Write

-----------------------------------------------------------------------------
(* Links.                                                                  *)

\* A link names a committed row, at the root that it made.
Names(link, rows) ==
  /\ link.seq \in DOMAIN rows
  /\ rows[link.seq].payload = link.record /\ rows[link.seq].content = link.content
  /\ Journal!ChainSeal(SubSeq(rows, 1, link.seq)) = link.tail

\* Only the end of a case carries a link.
LinkedWell(e, rows) == e.link # None => e.kind = "TERMINAL" /\ Names(e.link, rows)

CallLinked(c, rows) ==
  c # None => /\ c.step = "append" => LinkedWell(c.event, rows)
              /\ c.step = "proved" => Names(c.event, rows)

AllLegal(rows) == \A n \in DOMAIN rows : Legal(SubSeq(rows, 1, n - 1), rows[n])

LinkInv ==
  /\ IInv /\ Kept
  /\ AllLegal(events)
  /\ \A n \in DOMAIN events : LinkedWell(events[n], committed)
  /\ \A p \in Process : CallLinked(call[p], committed)

LEMMA PrefixShape ==
  ASSUME NEW s, Sequence(s), NEW n \in DOMAIN s
  PROVE  /\ DOMAIN SubSeq(s, 1, n - 1) = 1..n - 1 /\ 1..n - 1 \subseteq DOMAIN s /\ n \in Nat
         /\ \A i \in 1..n - 1 : SubSeq(s, 1, n - 1)[i] = s[i]
         /\ Sequence(SubSeq(s, 1, n - 1))
<1>1. PICK S : s \in Seq(S)
  BY DEF Sequence
<1>2. n \in 1..Len(s) /\ Len(s) \in Nat /\ DOMAIN s = 1..Len(s)
  BY SequenceShape
<1>3. \A i \in 1..n - 1 : s[i] \in S
  BY <1>1, <1>2
<1> DEFINE t == SubSeq(s, 1, n - 1)
<1>4. /\ t \in Seq(S) /\ Len(t) = (IF 1 <= n - 1 THEN n - 1 - 1 + 1 ELSE 0)
      /\ \A i \in 1..n - 1 - 1 + 1 : t[i] = s[1 + i - 1]
  BY <1>1, <1>2, <1>3, SubSeqProperties
<1> HIDE DEF t
<1>5. Len(t) = n - 1
  <2> DEFINE k == Len(t)
  <2>1. k = (IF 1 <= n - 1 THEN n - 1 - 1 + 1 ELSE 0)
    BY <1>4
  <2> HIDE DEF k
  <2>2. k = n - 1
    BY <1>2, <2>1
  <2> QED
    BY <2>2 DEF k
<1>6. DOMAIN t = 1..Len(t)
  BY <1>4
<1>7. \A i \in 1..n - 1 : t[i] = s[i]
  BY <1>2, <1>4
<1> QED
  <2>1. Sequence(t)
    BY <1>4 DEF Sequence
  <2>2. DOMAIN t = 1..n - 1 /\ 1..n - 1 \subseteq DOMAIN s /\ n \in Nat
    BY <1>2, <1>5, <1>6
  <2> QED
    BY <1>7, <2>1, <2>2 DEF t

\* A prefix within a prefix.
LEMMA SamePrefix ==
  ASSUME NEW s, Sequence(s), s # <<>>, NEW t, t = SubSeq(s, 1, Len(s) - 1), NEW n \in DOMAIN t
  PROVE  SubSeq(t, 1, n - 1) = SubSeq(s, 1, n - 1)
<1>1. /\ Sequence(t) /\ DOMAIN t \subseteq DOMAIN s /\ \A i \in DOMAIN t : t[i] = s[i]
  BY ShorterShape
<1> DEFINE a == SubSeq(t, 1, n - 1)
           b == SubSeq(s, 1, n - 1)
<1>2. /\ DOMAIN a = 1..n - 1 /\ 1..n - 1 \subseteq DOMAIN t
      /\ \A i \in 1..n - 1 : a[i] = t[i]
  BY <1>1, PrefixShape
<1>3. DOMAIN b = 1..n - 1 /\ \A i \in 1..n - 1 : b[i] = s[i]
  BY <1>1, PrefixShape
<1>4. Sequence(a) /\ Sequence(b)
  BY <1>1, PrefixShape
<1> HIDE DEF a, b
<1>5. DOMAIN a = DOMAIN b /\ \A i \in DOMAIN a : a[i] = b[i]
  BY <1>1, <1>2, <1>3
<1>6. a = b
  BY <1>4, <1>5, SameElements
<1> QED
  BY <1>6 DEF a, b

\* A link still names its row when rows are added.
LEMMA NamesSurvives ==
  ASSUME NEW link, Sequence(committed), Grows, Names(link, committed) PROVE Names(link, committed')
<1>1. CASE committed' = committed
  BY <1>1
<1>2. ASSUME NEW row, committed' = Append(committed, row) PROVE Names(link, committed')
  <2>1. link.seq \in DOMAIN committed
    BY DEF Names
  <2>2. link.seq \in DOMAIN committed' /\ committed'[link.seq] = committed[link.seq]
    BY <1>2, <2>1, AppendShape
  <2> DEFINE seq == link.seq
             n == seq + 1
  <2>3. seq \in 1..Len(committed) /\ Len(committed) \in Nat
    BY <2>1, SequenceShape
  <2> HIDE DEF seq
  <2>4. n \in 1..Len(committed) + 1 /\ n - 1 = seq
    BY <2>3
  <2> HIDE DEF n
  <2>5. SubSeq(committed', 1, n - 1) = SubSeq(committed, 1, n - 1)
    BY <1>2, <2>4, AppendPrefix
  <2>6. SubSeq(committed', 1, seq) = SubSeq(committed, 1, seq)
    BY <2>4, <2>5
  <2> QED
    BY <2>2, <2>6 DEF Names, seq
<1> QED
  BY <1>1, <1>2 DEF Grows

LEMMA CallLinkedSurvives ==
  ASSUME NEW c, Sequence(committed), Grows, CallLinked(c, committed)
  PROVE  CallLinked(c, committed')
  BY NamesSurvives DEF CallLinked, LinkedWell

\* A step that appends no event.
LEMMA LinksSurvive ==
  ASSUME LinkInv, [Next]_vars, IInv', Kept', Grows,
         events' = events \/ LoseEvent,
         \A p \in Process : call'[p] = call[p] \/ CallLinked(call'[p], committed')
  PROVE  LinkInv'
<1>1. Sequence(committed)
  BY DEF LinkInv, Kept
<1>2. \A p \in Process : CallLinked(call'[p], committed')
  BY <1>1, CallLinkedSurvives DEF LinkInv
<1>3. \A n \in DOMAIN events : LinkedWell(events[n], committed')
  BY <1>1, NamesSurvives DEF LinkInv, LinkedWell
<1>4. CASE events' = events
  BY <1>2, <1>3, <1>4 DEF LinkInv, AllLegal
<1>5. CASE LoseEvent
  <2>1. events # <<>> /\ events' = SubSeq(events, 1, Len(events) - 1) /\ Sequence(events)
    BY <1>5 DEF LoseEvent, LinkInv, IInv, Rows
  <2>2. /\ Sequence(events') /\ DOMAIN events' \subseteq DOMAIN events
        /\ \A n \in DOMAIN events' : events'[n] = events[n]
    BY <2>1, ShorterShape
  <2>3. ASSUME NEW n \in DOMAIN events' PROVE Legal(SubSeq(events', 1, n - 1), events'[n])
    <3>1. SubSeq(events', 1, n - 1) = SubSeq(events, 1, n - 1)
      BY <2>1, <2>2, <2>3, SamePrefix
    <3>2. Legal(SubSeq(events, 1, n - 1), events[n])
      BY <2>2 DEF LinkInv, AllLegal
    <3> QED
      BY <2>2, <3>1, <3>2
  <2>4. \A n \in DOMAIN events' : LinkedWell(events'[n], committed')
    BY <1>3, <2>2
  <2>5. AllLegal(events')
    BY <2>3 DEF AllLegal
  <2> QED
    BY <1>2, <2>4, <2>5 DEF LinkInv
<1> QED
  BY <1>4, <1>5

LEMMA BeginLinks ==
  ASSUME IInv, NEW p \in Process, NEW c, call' = [call EXCEPT ![p] = c], CallLinked(c, committed)
  PROVE  \A q \in Process : call'[q] = call[q] \/ CallLinked(call'[q], committed)
  BY DEF IInv

LEMMA PrepareLinks ==
  ASSUME LinkInv, NEW p \in Process, Prepare(p)
  PROVE  \A q \in Process : call'[q] = call[q] \/ CallLinked(call'[q], committed)
<1> DEFINE expected == Expected(p)
<1> HIDE DEF expected
<1>1. IInv
  BY DEF LinkInv
<1>2. ASSUME NEW op, NEW e, e.link = None, Begin(p, Call("append", op, e, expected))
      PROVE  \A q \in Process : call'[q] = call[q] \/ CallLinked(call'[q], committed)
  <2>1. CallLinked(Call("append", op, e, expected), committed)
    BY <1>2 DEF CallLinked, Call, LinkedWell
  <2> QED
    BY <1>1, <1>2, <2>1, BeginLinks DEF Begin
<1>3. \A to, at : PlanState(to, at).link = None
  BY DEF PlanState
<1>4. CASE PrepareStart(p, expected) \/ PrepareClose(p, expected) \/ PrepareAbort(p, expected)
  BY <1>2, <1>3, <1>4 DEF PrepareStart, PrepareClose, PrepareAbort
<1>5. ASSUME NEW d \in Decision, PrepareEnroll(p, d, expected)
      PROVE  \A q \in Process : call'[q] = call[q] \/ CallLinked(call'[q], committed)
  <2>1. Enrollment(d, clock).link = None
    BY DEF Enrollment
  <2> QED
    BY <1>2, <1>5, <2>1 DEF PrepareEnroll
<1>6. ASSUME NEW c \in Case, NEW how \in Excluded, PrepareTerminal(p, c, how, expected)
      PROVE  \A q \in Process : call'[q] = call[q] \/ CallLinked(call'[q], committed)
  <2>1. Terminal(c, how, clock, None).link = None
    BY DEF Terminal
  <2> QED
    BY <1>2, <1>6, <2>1 DEF PrepareTerminal
<1>7. CASE ProveSource(p, expected)
  <2>1. PICK n \in SourceEntries :
          Begin(p, Call("proved", "reconcile",
                        [record |-> entries[n].payload, content |-> entries[n].content,
                         seq |-> n, tail |-> Journal!ChainSeal(entries)],
                        expected))
    BY <1>7 DEF ProveSource
  <2>2. entries = committed /\ Sequence(entries)
    BY <1>7, AcceptedIsCommitted DEF ProveSource, LinkInv, Kept
  <2>3. n \in DOMAIN entries /\ SubSeq(entries, 1, n) = entries
    BY <2>2, WholePrefix DEF SourceEntries
  <2> DEFINE tail == Journal!ChainSeal(entries)
             record == entries[n].payload
             content == entries[n].content
             link == [record |-> record, content |-> content, seq |-> n, tail |-> tail]
             c == Call("proved", "reconcile", link, expected)
  <2>4. Begin(p, c)
    BY <2>1
  <2>5. Names(link, committed)
    BY <2>2, <2>3 DEF Names
  <2> HIDE DEF link
  <2>6. c # None => c.step = "proved" /\ c.event = link
    BY DEF Call
  <2> HIDE DEF c
  <2>7. CallLinked(c, committed)
    BY <2>5, <2>6 DEF CallLinked
  <2> QED
    BY <1>1, <2>4, <2>7, BeginLinks DEF Begin
<1> QED
  BY <1>4, <1>5, <1>6, <1>7 DEF Prepare, expected

LEMMA ReconcileLinks ==
  ASSUME LinkInv, NEW p \in Process, PrepareReconcile(p)
  PROVE  \A q \in Process : call'[q] = call[q] \/ CallLinked(call'[q], committed)
<1>1. call[p] # None /\ call[p].step = "proved" /\ IInv /\ CallLinked(call[p], committed)
  BY DEF PrepareReconcile, LinkInv
<1>2. PICK c \in Case, d \in Decision :
        call' = [call EXCEPT ![p] =
                   IF Reconcilable(c, d, call[p].event.record, clock)
                   THEN Call("append", "reconcile",
                             Terminal(c, ExpectedOutcome(call[p].event.record), clock, call[p].event),
                             call[p].expected)
                   ELSE None]
  BY DEF PrepareReconcile
<1> DEFINE link == call[p].event
           e == Terminal(c, ExpectedOutcome(link.record), clock, link)
           next == IF Reconcilable(c, d, link.record, clock)
                   THEN Call("append", "reconcile", e, call[p].expected) ELSE None
<1>3. call' = [call EXCEPT ![p] = next]
  BY <1>2
<1>4. Names(link, committed)
  BY <1>1 DEF CallLinked
<1>5. e.kind = "TERMINAL" /\ e.link = link
  BY DEF Terminal
<1> HIDE DEF link, e
<1>6. CallLinked(next, committed)
  BY <1>4, <1>5 DEF CallLinked, LinkedWell, Call
<1> HIDE DEF next
<1> QED
  BY <1>1, <1>3, <1>6, BeginLinks

LEMMA CommitLinks ==
  ASSUME NoneIsNoLink, LinkInv, NEW p \in Process, Commit(p), IInv', Kept', Grows PROVE LinkInv'
<1> DEFINE e == call[p].event
<1>1. /\ call[p] # None /\ call[p].step = "append" /\ Appendable(call[p])
      /\ events' = Append(events, e)
      /\ state' = (IF e.kind = "PLAN_STATE" THEN e.state ELSE state)
      /\ anchor' = Anchor(events', state')
      /\ call' = [call EXCEPT ![p] = None]
      /\ committed' = committed
  BY DEF Commit, source
<1>2. IInv /\ Sequence(events) /\ Ended(events) /\ VerifyOk
  BY <1>1 DEF LinkInv, IInv, Rows, Appendable
<1>3. Legal(events, e) /\ Typed(e)
  BY <1>1, <1>2, AppendsLegally
<1>4. LinkedWell(e, committed)
  BY <1>1 DEF LinkInv, CallLinked
<1> HIDE DEF e
<1>5. VerifyOk'
  BY <1>1, <1>2, <1>3, AppendedVerifies
<1>6. \A n \in DOMAIN events' : LinkedWell(events'[n], committed')
  <2>1. /\ DOMAIN events' = DOMAIN events \cup {Len(events) + 1}
        /\ \A n \in DOMAIN events : events'[n] = events[n]
        /\ events'[Len(events) + 1] = e
    BY <1>1, <1>2, AppendShape
  <2> QED
    BY <1>1, <1>4, <2>1 DEF LinkInv
<1>7. \A q \in Process : CallLinked(call'[q], committed')
  <2>1. CallLinked(None, committed)
    BY DEF CallLinked
  <2> QED
    BY <1>1, <1>2, <2>1 DEF LinkInv, IInv
<1> QED
  BY <1>5, <1>6, <1>7 DEF LinkInv, VerifyOk, AllLegal

LEMMA LinksStart == ASSUME Init PROVE LinkInv
<1>1. IInv
  BY Starts
<1>2. /\ events = <<>> /\ call = [p \in Process |-> None] /\ entries = <<>> /\ committed = <<>>
      /\ defects = 0 /\ journal_anchor.tail = Journal!ChainSeal(<<>>)
  BY DEF Init, Journal!Init, Journal!Anchor
<1>3. Sequence(<<>>) /\ DOMAIN <<>> = {}
  <2>1. <<>> \in Seq({})
    OBVIOUS
  <2> QED
    BY <2>1 DEF Sequence
<1>4. Kept
  BY <1>2, <1>3 DEF Kept, OneStory
<1>5. AllLegal(events) /\ \A n \in DOMAIN events : LinkedWell(events[n], committed)
  BY <1>2, <1>3 DEF AllLegal
<1>6. \A p \in Process : CallLinked(call[p], committed)
  BY <1>2 DEF CallLinked
<1> QED
  BY <1>1, <1>4, <1>5, <1>6 DEF LinkInv

LEMMA LinksInductive == ASSUME NoneIsNoLink, LinkInv, [Next]_vars PROVE LinkInv'
<1>1. IInv'
  BY Inductive DEF LinkInv
<1>2. Kept' /\ Grows
  <2>1. Journal!Next \/ UNCHANGED source
    BY DEF Next, vars, Create, Tick, LoseEvent, SourceStep, Prepare, Finish, Begin,
           PrepareStart, PrepareClose, PrepareAbort, PrepareEnroll, PrepareTerminal, ProveSource,
           PrepareReconcile, Commit, Refuse, ManifestVerify, ManifestState, ManifestStatus,
           ManifestRoot, ManifestCases
  <2> QED
    BY <2>1, JournalKept DEF LinkInv
<1>3. ASSUME NEW p \in Process, Commit(p) PROVE LinkInv'
  BY <1>1, <1>2, <1>3, CommitLinks
<1>4. CASE Create \/ Tick \/ SourceStep \/ LoseEvent \/ UNCHANGED vars
  <2>1. (events' = events \/ LoseEvent) /\ call' = call
    BY <1>4 DEF Create, Tick, SourceStep, LoseEvent, vars, collection
  <2> QED
    BY <1>1, <1>2, <2>1, LinksSurvive
<1>5. ASSUME NEW p \in Process, NEW c, UNCHANGED <<collection, source>>,
             call' = [call EXCEPT ![p] = c], c = None \/ c.step \notin {"append", "proved"}
      PROVE  LinkInv'
  <2>1. events' = events /\ committed' = committed
    BY <1>5 DEF collection, source
  <2>2. CallLinked(c, committed)
    BY <1>5 DEF CallLinked
  <2>3. \A q \in Process : call'[q] = call[q] \/ CallLinked(call'[q], committed')
    BY <1>5, <2>1, <2>2, BeginLinks DEF LinkInv
  <2> QED
    BY <1>1, <1>2, <2>1, <2>3, LinksSurvive
<1>6. ASSUME NEW p \in Process, Prepare(p) \/ PrepareReconcile(p) PROVE LinkInv'
  <2>1. events' = events /\ committed' = committed
    BY <1>6 DEF Prepare, Begin, PrepareStart, PrepareClose, PrepareAbort, PrepareEnroll,
                PrepareTerminal, ProveSource, PrepareReconcile, collection, source
  <2>2. \A q \in Process : call'[q] = call[q] \/ CallLinked(call'[q], committed')
    BY <1>6, <2>1, PrepareLinks, ReconcileLinks
  <2> QED
    BY <1>1, <1>2, <2>1, <2>2, LinksSurvive
<1>7. ASSUME NEW p \in Process,
             Refuse(p) \/ ManifestVerify(p) \/ ManifestState(p) \/ ManifestStatus(p)
               \/ ManifestRoot(p) \/ ManifestCases(p)
      PROVE  LinkInv'
  <2>1. CASE Refuse(p)
    BY <1>5, <2>1 DEF Refuse
  <2>2. CASE ManifestVerify(p)
    <3>1. "verified" \notin {"append", "proved"}
      OBVIOUS
    <3> QED
      BY <1>5, <2>2, <3>1 DEF ManifestVerify, Begin
  <2>3. CASE ManifestState(p)
    <3> DEFINE c == IF state \in Publishable THEN [call[p] EXCEPT !.step = "publishable"] ELSE None
    <3>1. call' = [call EXCEPT ![p] = c] /\ UNCHANGED <<collection, source>>
      BY <2>3 DEF ManifestState
    <3>2. c = None \/ c.step \notin {"append", "proved"}
      <4>1. call[p] = [step |-> "verified", op |-> "manifest"]
        BY <2>3 DEF ManifestState, LinkInv, IInv, Calling, Call
      <4>2. [call[p] EXCEPT !.step = "publishable"].step = "publishable"
        BY <4>1
      <4> QED
        BY <4>2
    <3> HIDE DEF c
    <3> QED
      BY <1>5, <3>1, <3>2
  <2>4. CASE ManifestStatus(p)
    <3> DEFINE c == [step |-> "phase", op |-> "manifest", phase |-> state]
    <3>1. call' = [call EXCEPT ![p] = c] /\ UNCHANGED <<collection, source>>
      BY <2>4 DEF ManifestStatus
    <3>2. c.step \notin {"append", "proved"}
      OBVIOUS
    <3> HIDE DEF c
    <3> QED
      BY <1>5, <3>1, <3>2
  <2>5. CASE ManifestRoot(p)
    <3> DEFINE c == [step |-> "root", op |-> "manifest",
                     phase |-> call[p].phase, root |-> ChainSeal(events)]
    <3>1. call' = [call EXCEPT ![p] = c] /\ UNCHANGED <<collection, source>>
      BY <2>5 DEF ManifestRoot
    <3>2. c.step \notin {"append", "proved"}
      OBVIOUS
    <3> HIDE DEF c
    <3> QED
      BY <1>5, <3>1, <3>2
  <2>6. CASE ManifestCases(p)
    BY <1>5, <2>6 DEF ManifestCases
  <2> QED
    BY <1>7, <2>1, <2>2, <2>3, <2>4, <2>5, <2>6
<1> QED
  BY <1>3, <1>4, <1>6, <1>7 DEF Next, Finish

-----------------------------------------------------------------------------
(* One case for each narrative.                                            *)

\* The case of an event that ends it was enrolled for its decision.
LEMMA EnrolledDecision ==
  ASSUME LinkInv, NEW n \in DOMAIN events, events[n].kind = "TERMINAL"
  PROVE  LET rows == SubSeq(events, 1, n - 1)
             c == events[n].case
         IN  /\ c \in Case /\ OutcomeOf(rows, c) = "ENROLLED"
             /\ c = CaseId(EnrollmentOf(rows, c).decision)
<1> DEFINE rows == SubSeq(events, 1, n - 1)
           c == events[n].case
           S == EventsOf(rows, c)
<1>1. /\ Sequence(events) /\ Ended(events)
      /\ \A i \in DOMAIN events : Typed(events[i])
      /\ \A i \in DOMAIN events : Legal(SubSeq(events, 1, i - 1), events[i])
  BY DEF LinkInv, IInv, Rows, AllLegal
<1>2. c \in Case /\ c # None
  BY <1>1, NoneIsNeither DEF Typed
<1>3. OutcomeOf(rows, c) = "ENROLLED"
  BY <1>1 DEF Legal, LegalTerminal
<1>4. /\ DOMAIN rows = 1..n - 1 /\ 1..n - 1 \subseteq DOMAIN events /\ n \in Nat
      /\ \A i \in 1..n - 1 : rows[i] = events[i]
  BY <1>1, PrefixShape
<1> HIDE DEF rows, c
<1>5. S # {} /\ S = {i \in 1..n - 1 : events[i].case = c} /\ S \in SUBSET Nat
  BY <1>3, <1>4 DEF OutcomeOf, EventsOf
<1>6. PICK i \in S : \A j \in S : i <= j
  <2>1. S \in SUBSET DOMAIN events
    BY <1>4, <1>5
  <2> QED
    BY <1>1, <1>5, <2>1 DEF Ended, Ends
<1>7. Min(S) = i
  BY <1>5, <1>6, FirstIsMin
<1>8. EnrollmentOf(rows, c) = events[i]
  BY <1>4, <1>5, <1>6, <1>7 DEF EnrollmentOf
<1> DEFINE before == SubSeq(events, 1, i - 1)
<1>9. i \in DOMAIN events /\ i \in 1..n - 1 /\ events[i].case = c
  BY <1>4, <1>5, <1>6
<1>10. EventsOf(before, c) = {}
  <2>1. DOMAIN before = 1..i - 1 /\ \A j \in 1..i - 1 : before[j] = events[j]
    BY <1>1, <1>9, PrefixShape
  <2>2. \A j \in 1..i - 1 : j \in 1..n - 1 /\ ~(i <= j)
    BY <1>4, <1>9
  <2> QED
    BY <1>5, <1>6, <2>1, <2>2 DEF EventsOf
<1>11. Typed(events[i]) /\ Legal(before, events[i])
  BY <1>1, <1>9
<1> HIDE DEF before
<1>12. events[i].kind = "ENROLL"
  <2>1. events[i].kind # "PLAN_STATE"
    BY <1>2, <1>9, <1>11 DEF Typed
  <2>2. events[i].kind # "TERMINAL"
    BY <1>9, <1>10, <1>11 DEF Legal, LegalTerminal, OutcomeOf
  <2> QED
    BY <1>11, <2>1, <2>2 DEF Typed
<1>13. c = CaseId(events[i].decision)
  BY <1>9, <1>11, <1>12 DEF Legal, LegalEnrollment
<1> QED
  BY <1>2, <1>3, <1>8, <1>13 DEF rows, c

\* A case ends once.
LEMMA EndsOnce ==
  ASSUME LinkInv, NEW n \in DOMAIN events, NEW m \in DOMAIN events, n < m,
         events[n].kind = "TERMINAL", events[m].kind = "TERMINAL"
  PROVE  events[n].case # events[m].case
<1> SUFFICES ASSUME events[n].case = events[m].case PROVE FALSE
  OBVIOUS
<1> DEFINE rows == SubSeq(events, 1, m - 1)
           c == events[m].case
           S == EventsOf(rows, c)
<1>1. /\ Sequence(events) /\ Ended(events)
      /\ \A i \in DOMAIN events : Typed(events[i])
      /\ \A i \in DOMAIN events : Legal(SubSeq(events, 1, i - 1), events[i])
  BY DEF LinkInv, IInv, Rows, AllLegal
<1>2. c \in Case /\ OutcomeOf(rows, c) = "ENROLLED"
  BY EnrolledDecision
<1>3. /\ DOMAIN rows = 1..m - 1 /\ 1..m - 1 \subseteq DOMAIN events /\ m \in Nat
      /\ \A i \in 1..m - 1 : rows[i] = events[i]
  BY <1>1, PrefixShape
<1>4. events[n].case = c
  OBVIOUS
<1> HIDE DEF rows, c
<1>5. n \in 1..m - 1
  BY <1>1, <1>3, SequenceShape
<1>6. S = {i \in 1..m - 1 : events[i].case = c} /\ n \in S /\ S \in SUBSET Nat
  BY <1>3, <1>4, <1>5 DEF EventsOf
<1>7. PICK k \in S : \A j \in S : j <= k
  <2>1. S \in SUBSET DOMAIN events /\ S # {}
    BY <1>3, <1>6
  <2> QED
    BY <1>1, <2>1 DEF Ended, Ends
<1>8. Max(S) = k
  BY <1>6, <1>7, LastIsMax
<1>9. k \in DOMAIN events /\ k \in 1..m - 1 /\ events[k].case = c /\ n <= k
  BY <1>3, <1>6, <1>7
<1>10. events[k].state = "ENROLLED"
  BY <1>2, <1>3, <1>6, <1>8, <1>9 DEF OutcomeOf
<1>11. events[k].kind = "ENROLL"
  BY <1>1, <1>9, <1>10 DEF Typed, Phases, Closed, Excluded, Linked
<1> DEFINE before == SubSeq(events, 1, k - 1)
<1>12. c \notin Enrolled(before)
  BY <1>1, <1>9, <1>11 DEF Legal, LegalEnrollment
<1>13. DOMAIN before = 1..k - 1 /\ \A j \in 1..k - 1 : before[j] = events[j]
  BY <1>1, <1>9, PrefixShape
<1> HIDE DEF before
<1>14. n \in 1..k - 1
  <2>1. n # k
    BY <1>11
  <2> QED
    BY <1>5, <1>9, <2>1
<1>15. n \in EventsOf(before, c)
  BY <1>4, <1>13, <1>14 DEF EventsOf
<1> QED
  BY <1>2, <1>12, <1>15 DEF Enrolled

LEMMA LinkedDecision ==
  ASSUME LinkInv, NEW n \in DOMAIN events, events[n].link # None
  PROVE  /\ events[n].kind = "TERMINAL" /\ events[n].link.seq \in DOMAIN committed
         /\ committed[events[n].link.seq].id = events[n].link.record.id
         /\ \E d : /\ events[n].case = CaseId(d)
                   /\ committed[events[n].link.seq].preimage = Journal!Preimage(d)
<1> DEFINE e == events[n]
           link == e.link
           row == committed[link.seq]
           rows == SubSeq(events, 1, n - 1)
           d == EnrollmentOf(rows, e.case).decision
<1>1. e.kind = "TERMINAL" /\ Names(link, committed)
  BY DEF LinkInv, LinkedWell
<1>2. link.seq \in DOMAIN committed /\ row.payload = link.record
  BY <1>1 DEF Names
<1>3. row.payload.id = row.id /\ row.payload.preimage = row.preimage
  BY <1>2 DEF LinkInv, Kept, Written
<1>4. e.case = CaseId(d)
  BY <1>1, EnrolledDecision
<1>5. Legal(rows, e)
  BY DEF LinkInv, AllLegal
<1> HIDE DEF rows, d
<1>6. LegalLink(d, e)
  BY <1>1, <1>5 DEF Legal, LegalTerminal, d
<1>7. link.record.preimage = Journal!Preimage(d)
  BY <1>6 DEF LegalLink, Journal!PreimageMatches
<1> QED
  BY <1>1, <1>2, <1>3, <1>4, <1>7

LEMMA LinksFollow == ASSUME LinkInv PROVE LinksHold
<1>1. LegalUseVerifies
  BY Implies DEF LinkInv, VerifyIsRight
<1>2. LinksAreEntries
  <2>1. ASSUME defects = 0, NEW n \in LinkedEvents
        PROVE  Names(events[n].link, entries)
    <3>1. entries = committed
      BY <2>1 DEF LinkInv, Kept
    <3> QED
      BY <2>1, <3>1 DEF LinkInv, LinkedEvents, LinkedWell
  <2> QED
    BY <2>1 DEF LinksAreEntries, Names
<1>3. ASSUME NEW n \in LinkedEvents, NEW m \in LinkedEvents,
             events[n].link.record.id = events[m].link.record.id
      PROVE  n = m
  <2>1. /\ n \in DOMAIN events /\ events[n].link # None
        /\ m \in DOMAIN events /\ events[m].link # None
    BY DEF LinkedEvents
  <2> DEFINE i == events[n].link.seq
             j == events[m].link.seq
  <2>2. PICK d : events[n].case = CaseId(d) /\ committed[i].preimage = Journal!Preimage(d)
    BY <2>1, LinkedDecision
  <2>3. PICK f : events[m].case = CaseId(f) /\ committed[j].preimage = Journal!Preimage(f)
    BY <2>1, LinkedDecision
  <2>4. /\ events[n].kind = "TERMINAL" /\ i \in DOMAIN committed
        /\ committed[i].id = events[n].link.record.id
    BY <2>1, LinkedDecision
  <2>5. /\ events[m].kind = "TERMINAL" /\ j \in DOMAIN committed
        /\ committed[j].id = events[m].link.record.id
    BY <2>1, LinkedDecision
  <2>6. committed[i].preimage = committed[j].preimage
    BY <1>3, <2>4, <2>5 DEF LinkInv, Kept, OneStory
  <2>7. d = f
    BY <2>2, <2>3, <2>6 DEF Journal!Preimage, Journal!Seal
  <2>8. events[n].case = events[m].case
    BY <2>2, <2>3, <2>7
  <2>9. n \in Nat /\ m \in Nat
    BY <2>1, SequenceShape DEF LinkInv, IInv, Rows
  <2>10. ~(n < m)
    BY <2>1, <2>4, <2>5, <2>8, EndsOnce
  <2>11. ~(m < n)
    BY <2>1, <2>4, <2>5, <2>8, EndsOnce
  <2> QED
    BY <2>9, <2>10, <2>11
<1> QED
  BY <1>1, <1>2, <1>3 DEF LinksHold, OneCasePerNarrative

\* Whatever the callers of both journals do, at the same time and with what
\* they read earlier, every link of a case names an entry that the other
\* journal holds for good, and no narrative settles two cases.
THEOREM LinksHoldAlways == ASSUME NoneIsNoLink PROVE Spec => []LinksHold
<1>1. Init => LinkInv
  BY LinksStart
<1>2. LinkInv /\ [Next]_vars => LinkInv'
  BY LinksInductive
<1>3. LinkInv => LinksHold
  BY LinksFollow
<1> QED
  BY <1>1, <1>2, <1>3, PTL DEF Spec
=============================================================================
