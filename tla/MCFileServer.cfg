SPECIFICATION FileServerSpec
CONSTANTS
  root = root  home = home  note = note
  Client = {a, b}
  MAXOPEN = 2
  MAXFD = 2
  NPAGE = 2
  IDMOD = 8
  Node = {root, home, note}
  Root = root
  Parent <- Tree
  Name <- Names
  Directory = {root, home}
  Size0 <- Sizes
  TooLong = {}
  Path <- Paths
  MaxCalls = 4
  NULL = NULL
INVARIANTS ServerTypeOK RightFile InStep WindowWhole
PROPERTY Answered
CHECK_DEADLOCK FALSE
