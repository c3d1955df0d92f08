SPECIFICATION McSpec
CONSTANTS
  Second = 2
  Yellow = 6
  Green = 8
  CustomGreens <- McGreens
  ManualHold = 12
  RefreshBelow = 2
  MaxCommands = 4
INVARIANTS
  Safety
  ContractHolds
  PagesHold
PROPERTIES
  ClearanceKept
  LightSettles
  ContextHolds
  PagesCatchUp
CHECK_DEADLOCK FALSE
