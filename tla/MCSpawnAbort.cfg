SPECIFICATION SpawnSpec
CONSTANTS
  NULL = NULL
  HEAD = HEAD
  Elem = {0, 1, 2, 3}
  NENV = 3
  NASID = 3
  BootPri <- Boot2
  MaxIds = 4
INVARIANTS
  SchedListIffRunnable
CHECK_DEADLOCK FALSE
