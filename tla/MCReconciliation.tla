-------------------------- MODULE MCReconciliation --------------------------
(***************************************************************************)
(* Small instances of the reconciliation journal for TLC.                  *)
(***************************************************************************)
EXTENDS Reconciliation, TLC

D(id, revision, captured, binding) ==
  [id |-> id, revision |-> revision, captured |-> captured, authority |-> "agent",
   binding |-> binding]

\* Two revisions of one decision, and the same decision of another host.
MCDecision ==
  {D("d1", 1, 1, "here"), D("d1", 2, 2, "here"), D("d1", 1, 1, "elsewhere")}

Symmetry == Permutations(ReconciliationId)
=============================================================================
