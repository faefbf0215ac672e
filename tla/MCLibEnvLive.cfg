SPECIFICATION FairLibSpec
CONSTANTS
  NULL = NULL
  HEAD = HEAD
  Elem = {0, 1, 2, 3}
  NENV = 3
  NASID = 3
  BootPri <- Boot3
  MaxIds = 3
PROPERTIES
  RoundRobin
  SendReaches
CHECK_DEADLOCK FALSE
