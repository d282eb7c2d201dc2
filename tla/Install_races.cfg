SPECIFICATION Spec
CONSTANTS
  h1 = h1
  h2 = h2
  Proc = {p1, p2}
  Host = {h1}
  HostLists <- OneHost
  Release = {r1}
  Project = {a}
  Serial = FALSE
  MaxCalls = 2
  MaxFaults = 1
  MaxEdits = 1
  Foreign = Foreign
  None = None
INVARIANTS HomeFits
PROPERTIES NothingLost
SYMMETRY Symmetry
CHECK_DEADLOCK FALSE
