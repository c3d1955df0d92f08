SPECIFICATION FairSpec
CONSTANTS
    Records = 3
    BatchSize = 2
    MaxBuffered = 2
    Leftovers = {{}, {1}}
    MaxFaults = 3
INVARIANTS
  Safety
PROPERTIES
  CommitsStored
  RecordsSettle
CHECK_DEADLOCK FALSE
