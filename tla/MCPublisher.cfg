SPECIFICATION McSpec
CONSTANTS
  Entity = {1, 2}
  Modes = {"sequential", "batch"}
  QueueSize = 1
  RetryMax = 1
  ResumeDepth = 1
  MaxCycles = 2
  MaxTroubles = 1
INVARIANTS
  PathsAccount
PROPERTIES
  OrionFollows
  PathsSettle
CHECK_DEADLOCK FALSE
