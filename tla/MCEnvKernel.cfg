SPECIFICATION Spec
CONSTANTS
  NULL = NULL
  HEAD = HEAD
  Elem = {0, 1, 2}
  NENV = 2
  NASID = 2
  BootPri <- MCBootPri
  MaxIds = 5
INVARIANTS
  TypeOK
  AsidsDistinct
  FreeListExact
  PhantomStaysFree
CHECK_DEADLOCK FALSE
