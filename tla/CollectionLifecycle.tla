------------------------- MODULE CollectionLifecycle -------------------------
(***************************************************************************)
(* What a preregistered collection promises.  Its phase only moves         *)
(* forward, and once it is over nothing changes.  While it collects, each  *)
(* case is enrolled at most once, stays in the denominator, and is settled *)
(* at most once.  It closes as sufficient exactly when enough cases are    *)
(* enrolled and every one is settled.                                      *)
(***************************************************************************)
EXTENDS Naturals, FiniteSets

CONSTANTS Case, Outcome, Required, MaxEnrollments

VARIABLES
  phase,     \* of the collection
  outcome    \* of each case: "none", "ENROLLED", or how it was settled

vars == <<phase, outcome>>

Enrolled == {c \in Case : outcome[c] # "none"}

Settled(c) == outcome[c] \in Outcome

Complete ==
  /\ Cardinality(Enrolled) >= Required
  /\ \A c \in Enrolled : Settled(c)

Init ==
  /\ phase = "SEALED"
  /\ outcome = [c \in Case |-> "none"]

Move(from, to) ==
  /\ phase \in from
  /\ phase' = to
  /\ UNCHANGED outcome

Enroll(c) ==
  /\ phase = "COLLECTING"
  /\ outcome[c] = "none"
  /\ Cardinality(Enrolled) < MaxEnrollments
  /\ outcome' = [outcome EXCEPT ![c] = "ENROLLED"]
  /\ UNCHANGED phase

Settle(c, how) ==
  /\ phase = "COLLECTING"
  /\ outcome[c] = "ENROLLED"
  /\ outcome' = [outcome EXCEPT ![c] = how]
  /\ UNCHANGED phase

Next ==
  \/ Move({"SEALED"}, "COLLECTING")
  \/ Move({"SEALED", "COLLECTING"}, "ABORTED")
  \/ Complete /\ Move({"COLLECTING"}, "CLOSED_SUFFICIENT")
  \/ ~Complete /\ Move({"COLLECTING"}, "CLOSED_INSUFFICIENT")
  \/ \E c \in Case :
       \/ Enroll(c)
       \/ \E how \in Outcome : Settle(c, how)

Spec == Init /\ [][Next]_vars
=============================================================================
