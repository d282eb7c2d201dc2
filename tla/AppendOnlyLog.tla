--------------------------- MODULE AppendOnlyLog ---------------------------
(***************************************************************************)
(* What the sealed stores promise, without their storage: a log that only  *)
(* grows while it is open and never accepts one entry twice, whose entries *)
(* can lose their content once but never their place, and that stays       *)
(* closed once it is closed.                                               *)
(***************************************************************************)
EXTENDS Sequences

CONSTANT Entry

VARIABLES log, erased, closed

logvars == <<log, erased, closed>>

Logged == {log[n] : n \in DOMAIN log}

Init ==
  /\ log = <<>>
  /\ erased = {}
  /\ closed = FALSE

Accept(e) ==
  /\ ~closed
  /\ e \notin Logged
  /\ log' = Append(log, e)
  /\ UNCHANGED <<erased, closed>>

Erase(e) ==
  /\ e \in Logged \ erased
  /\ erased' = erased \cup {e}
  /\ UNCHANGED <<log, closed>>

Close ==
  /\ ~closed
  /\ closed' = TRUE
  /\ UNCHANGED <<log, erased>>

Next ==
  \/ \E e \in Entry : Accept(e) \/ Erase(e)
  \/ Close

Spec == Init /\ [][Next]_logvars
=============================================================================
