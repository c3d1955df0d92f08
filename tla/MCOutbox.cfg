SPECIFICATION FairSpec
CONSTANTS
  MaxRun = 2
  MaxCycle = 2
  Nodes = 1
  MaxInFlight = 2
  Defective <- OneDefective
  MaxBrokerErrs = 1
  MaxStoreErrs = 1
INVARIANTS
  Safety
  QueuedIsHeld
PROPERTIES
  ImplementsChannel
  RowsSettle
CHECK_DEADLOCK FALSE
