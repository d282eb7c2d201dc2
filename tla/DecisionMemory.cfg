SPECIFICATION SmallSpec
CONSTANTS
  Process = {p1}
  Store = {s1, s2}
  Decision = {d1, d2}
  Instant = {1, 2}
  MaxRevision = 2
  MaxEvents = 4
  MaxEnvelopes = 2
  None = None
SYMMETRY Symmetry
INVARIANTS
  AcceptedWritesVerify
  AnswersAreTimely
  ImportsAreFirstHand
PROPERTY ImplementsHistories
CHECK_DEADLOCK FALSE
