SPECIFICATION FairSpec
CONSTANTS
  Process = {p1, p2}
  PlanCreated = 0
  NotBefore = 0
  MinimumEnd = 1
  HardEnd = 1
  Required = 1
  MaxEnrollments = 1
  DecisionProducers = {"agent"}
  ReconciliationId = {}
  Decision <- TwoRevisions
  Producer = {"observer"}
  Instant = {1}
  Binding = "here"
  MaxReconciliationRevision = 1
  MaxEntries = 0
  MaxDamage = 0
  None = None
  MaxClock = 1
  Guarded = {p1}
  MaxLosses = 1
INVARIANTS
  VerifyIsRight
  ManifestsAreFinal
PROPERTIES
  CollectionEnds
  ImplementsLifecycle
CHECK_DEADLOCK FALSE
