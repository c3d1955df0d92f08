SPECIFICATION McSpec
CONSTANTS
    Windows = 1
    Width = 2
    Rows <- MCRows
    MaxFaults = 1
INVARIANT FaultIsConflict
CHECK_DEADLOCK FALSE
