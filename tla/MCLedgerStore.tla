--------------------------- MODULE MCLedgerStore ---------------------------
(* Small instances of the ledger for TLC: processes, episode ids and hosts *)
(* are each interchangeable, and no liveness property is checked.          *)
EXTENDS LedgerStore, TLC

Symmetry ==
  Permutations(Process) \cup Permutations(EpisodeId) \cup Permutations(Host)

\* The others have no store open.
OneProcess ==
  \A p, q \in Process : p # q => "closed" \in {pc[p], pc[q]}

\* The behaviours in which defects are met by one process at a time.
SmallSpec == Init /\ [][Next /\ (OneProcess \/ defects = 0)']_vars
=============================================================================
