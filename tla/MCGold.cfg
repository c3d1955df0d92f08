SPECIFICATION McSpec
CONSTANTS
    Windows = 2
    Width = 2
    Rows <- MCRows
    MaxFaults = 3
INVARIANTS
  Safety
  FactsHold
PROPERTIES
  RecoveryEnds
CHECK_DEADLOCK FALSE
