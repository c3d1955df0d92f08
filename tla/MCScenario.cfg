SPECIFICATION McSpec
CONSTANTS
  Nodes = {"A", "B"}
  Lane = {"a", "ab", "b"}
  OverlayId = {"o1", "o2"}
  FreeSpeed = 1390
  Vehicle = {"v"}
  Menus <- MCMenus
  Approach <- MCApproach
  Source = {"sa"}
  FeedsOf <- MCFeedsOf
  Target <- MCTarget
  MaxPending = 1
  MaxAttempts = 1
  MaxScheduled = 2
  MaxFaults = 1
INVARIANTS
  Safety
  LanesAndStreetsHold
PROPERTIES
  EffectsEnd
