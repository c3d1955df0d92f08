SPECIFICATION FairSpec
CONSTANTS
    Records = 3
    Logs <- MCLogs
    BatchSize = 2
    MaxFaults = 2
    MaxCommands = 2
INVARIANTS
  Safety
PROPERTIES
  RowsSettle
CHECK_DEADLOCK FALSE
