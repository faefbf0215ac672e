SPECIFICATION LibSpec
CONSTANTS
  NULL = NULL
  HEAD = HEAD
  Elem = {0, 1, 2, 3}
  NENV = 3
  NASID = 3
  BootPri <- Boot2
  MaxIds = 3
INVARIANTS
  SchedListIffRunnable
  OnlyEmptyHalts
  BlockedOrBuilt
PROPERTIES
  MessageKept
  RefinesRoundRobin
CHECK_DEADLOCK FALSE
