SPECIFICATION Spec
CONSTANTS
  ReconciliationId = {r1, r2}
  Decision <- MCDecision
  Producer = {"observer"}
  Instant = {1, 2}
  Binding = "here"
  MaxReconciliationRevision = 2
  MaxEntries = 3
  MaxDamage = 2
  None = None
INVARIANTS
  VerifyIsRight
PROPERTY ImplementsNarratives
CHECK_DEADLOCK FALSE
