SPECIFICATION FairSpec
CONSTANTS
    Records = 3
    Ids = {"e1", "e2", "e3"}
    Keys = {"k1", "k2"}
    Logs <- MCLogs
    Replays = {"r1"}
    BatchSize = 2
    MaxFaults = 2
    MaxStarts = 2
INVARIANTS
  Safety
PROPERTIES
  EveryRecordEnds
CHECK_DEADLOCK FALSE
