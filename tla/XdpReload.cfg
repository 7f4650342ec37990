SPECIFICATION Spec
CONSTANTS
  MaxPid = 4
  MaxVersion = 2
  MaxReloads = 2
  Roots = 2
INVARIANTS AttachedTablesWhole HandedOver
PROPERTIES NoStepBack ReloadReachesAll
CHECK_DEADLOCK FALSE
