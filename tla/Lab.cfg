SPECIFICATION LabSpec
CONSTANTS
  f1 = f1
  f2 = f2
  q1 = q1
  q2 = q2
  w1 = w1
  w2 = w2
  w3 = w3
  found = found
  other = other
  absent = absent
  tool = tool
  LabReader = LabReader
  None = None
  Path = {f1, f2}
  Probe = {q1, q2}
  World = {w1, w2, w3}
  Outcome = {found, other, absent}
  Id = {1}
  Bytes <- SmallBytes
  Predicts <- SmallPredicts
  Tool = {tool, LabReader}
  Catalogs <- SmallCatalogs
  SourceCatalogs <- SmallSourceCatalogs
  Policies <- SmallPolicies
  MaxClock = 1
  MaxEdits = 2
  MaxReports = 2
  MaxTampers = 1
  MaxHappenings = 2
  Name = {x, y, z}
  Supports <- SmallSupports
  MaxTime = 1
  MaxEvents = 3
  WorldCount = 3
  ProbeCount = 3
  DecisionCount = 3
  OutcomeIds = {0, 1, 2}
  Models <- SmallModels
  NoPlan = NoPlan
  MaxBudget = 2
  MaxHorizon = 2
  Ceilings = {1, 3, 9}
  PoolTotal = 3
  Reservation = {x, y, z}
  MaxCost = 2
  MaxDate = 1
  Nil = Nil
SYMMETRY Symmetry
INVARIANTS
  PartsTypeOK
  PosteriorFollows
  ConclusionsHold
  HonestIsExact
  GroundedIsLeast
  PlansHold
  BudgetHolds
PROPERTIES
  PastIsFixed
\* The memory, the planner and the pool really stop, at their bounds.
CHECK_DEADLOCK FALSE
