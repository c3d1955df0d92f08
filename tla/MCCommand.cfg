SPECIFICATION FairSpec
CONSTANTS
  a = a
  b = b
  m = m
  r1 = r1
  r2 = r2
  r3 = r3
  r4 = r4
  Second = 1
  Yellow = 2
  Green = 2
  CustomGreens = {}
  ManualHold = 3
  RefreshBelow = 1
  Cmd = {a, b, m}
  Payload <- McPayload
  Legacy = {m}
  Request = {r1, r2, r3, r4}
  CmdOf <- McCmdOf
  Groups <- McGroups
  Capacity = 2
  MaxDrain = 2
  MaxRecords = 1
  Deadline = 3
  MaxVehicles = 1
INVARIANTS
  Safety
  QueuedIsOnItsWay
PROPERTIES
  TransitionsSettle
CHECK_DEADLOCK FALSE
