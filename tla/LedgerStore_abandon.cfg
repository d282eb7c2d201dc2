SPECIFICATION Spec
CONSTANTS
  Process = {p1}
  EpisodeId = {e1}
  Body = {b1}
  Host = {h1}
  MaxDamage = 1
INVARIANT RowLossReported
CHECK_DEADLOCK FALSE
