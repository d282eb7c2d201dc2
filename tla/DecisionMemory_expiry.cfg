SPECIFICATION Spec
CONSTANTS
  Process = {p1}
  Store = {s1}
  Decision = {d1}
  Instant = {1, 2}
  MaxRevision = 1
  MaxEvents = 2
  MaxEnvelopes = 0
  None = None
INVARIANT ExpiredIsNotServed
CHECK_DEADLOCK FALSE
