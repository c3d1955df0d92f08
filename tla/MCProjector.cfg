SPECIFICATION McSpec
CONSTANTS
  r1 = r1
  r2 = r2
  a = a
  b = b
  c = c
  NoRun = NoRun
  NoEntity = NoEntity
  Partition = {1, 2}
  Run <- McRun
  MaxCycle = 2
  Entity <- McEntity
  Node <- McNode
  NodeOf <- McNodeOf
  Logs <- McLogs
  MaxPoison = 1
  MaxCrashes = 1
  MaxFailures = 1
INVARIANTS
  Safety
  CutoverHolds
PROPERTIES
  CommitsCoverTerminal
  NoRegressionInRun
  RecordsConverge
  CutoverSteps
CHECK_DEADLOCK FALSE
