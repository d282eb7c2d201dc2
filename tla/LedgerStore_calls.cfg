SPECIFICATION SmallSpec
CONSTANTS
  Process = {p1, p2}
  EpisodeId = {e1, e2}
  Body = {b1}
  Host = {h1, h2}
  MaxDamage = 2
SYMMETRY Symmetry
INVARIANTS
  TypeOK
  DamageReported
  NoFork
  UndamagedVerifies
  ReceiptsDurable
  AnswersAreTrue
PROPERTIES
  StoreSurvives
  ImplementsLog
CHECK_DEADLOCK FALSE
