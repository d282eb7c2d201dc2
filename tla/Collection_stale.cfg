SPECIFICATION Spec
CONSTANTS
  Process = {p1}
  PlanCreated = 0
  NotBefore = 0
  MinimumEnd = 1
  HardEnd = 1
  Required = 1
  MaxEnrollments = 2
  DecisionProducers = {"agent"}
  ReconciliationId = {r1}
  Decision <- OneDecision
  Producer = {"observer"}
  Instant = {1}
  Binding = "here"
  MaxReconciliationRevision = 2
  MaxEntries = 2
  MaxDamage = 0
  None = None
  MaxClock = 2
  Guarded = {}
  MaxLosses = 0
PROPERTY LinkedTailIsCurrent
CHECK_DEADLOCK FALSE
