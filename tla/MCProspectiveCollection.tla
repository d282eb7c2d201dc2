----------------------- MODULE MCProspectiveCollection -----------------------
(***************************************************************************)
(* Small instances of the prospective collection for TLC.                  *)
(***************************************************************************)
EXTENDS ProspectiveCollection, TLC

D(id, revision, captured, authority, binding) ==
  [id |-> id, revision |-> revision, captured |-> captured, authority |-> authority,
   binding |-> binding]

OneDecision == {D("d1", 1, 0, "agent", "here")}

\* Two revisions of one decision.
TwoRevisions ==
  {D("d1", 1, 0, "agent", "here"), D("d1", 2, 1, "agent", "here")}

Processes == Permutations(Process)
Everyone == Processes \cup Permutations(ReconciliationId)
=============================================================================
