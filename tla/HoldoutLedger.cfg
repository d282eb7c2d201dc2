SPECIFICATION PartsSpec
CONSTANTS
  Process = {p1, p2}
  Corpus = {c1, c2}
  Evidence = {e1, e2}
  Unspent = Unspent
  MaxCalls = 3
  s1 = s1
  s2 = s2
  Seed = {s1, s2}
  Metric = {success, cost}
  Required = {success}
  LowerIsBetter = {cost}
  Bars <- SmallBars
  Results <- SmallResults
  Epoch = {spring, autumn}
  None = None
  success = success
  cost = cost
  MaxRevision = 2
  MaxProtocols = 2
  MaxVerdicts = 2
INVARIANTS
  TypeOK
  OneVerdictPerCorpus
  AnswersAreRecorded
  RefusedNeverSpends
  OneLookPerHoldout
  FinalVerdictsAreComplete
  GrantsAreEarned
PROPERTIES
  ImplementsWriteOnce
  EveryCallEnds
CHECK_DEADLOCK FALSE
