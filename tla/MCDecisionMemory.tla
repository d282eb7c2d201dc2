--------------------------- MODULE MCDecisionMemory ---------------------------
(***************************************************************************)
(* Small instances of the decision memories for TLC.                       *)
(***************************************************************************)
EXTENDS DecisionMemory, TLC

Symmetry == Permutations(Process) \cup Permutations(Store) \cup Permutations(Decision)

\* A reader of one store that holds two decisions, all records alike but for
\* their revisions.
OneStore ==
  /\ envelopes = {}
  /\ \E s \in Store : \A t \in Store \ {s} :
       events[t] = <<>> /\ epoch_status[t] = "open"
  /\ \A p \in Process : \A read \in {view[p], answer[p]} \ {None} :
       "as_of" \in DOMAIN read => read.as_of = 1
  /\ \A s \in Store : \A n \in DOMAIN events[s] :
       events[s][n].kind = "record" => SealedRecord(events[s][n].content).expires = 1

\* Stores that exchange one decision, with no reader.
OneDecision ==
  /\ \A p \in Process : pc[p] = "idle" /\ answer[p] = None
  /\ \A s \in Store : Len(events[s]) <= 3
  /\ \E d \in Decision : \A s \in Store : \A n \in DOMAIN events[s] :
       events[s][n].decision = d

\* The behaviours that stay in one of the two.
SmallSpec == Init /\ [][Next /\ (OneStore \/ OneDecision)']_vars
=============================================================================
