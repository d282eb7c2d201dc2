SPECIFICATION FairSpec
CONSTANTS
  h1 = h1
  h2 = h2
  Proc = {p1}
  Host = {h1, h2}
  HostLists <- TwoHosts
  Release = {r1, r2}
  Project = {a, b}
  Serial = TRUE
  MaxCalls = 1
  MaxFaults = 2
  MaxEdits = 0
  Foreign = Foreign
  None = None
PROPERTIES ImplementsInstallation PendingEnds
CHECK_DEADLOCK FALSE
