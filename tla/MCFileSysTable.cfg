SPECIFICATION RawSpec
CONSTANTS
  motd = motd  note = note  home = home  root = root
  File = {motd, note}
  Dir = {root, home}
  DirOf <- Apart
  DirBlock <- DirBlocks0
  Format <- Formatted
  NBLOCKS = 9
  FIRST = 3
  BY2BLK = 2
  NDIRECT = 1
  NINDIRECT = 2
  Sizes = {0, 3}
  MaxBoots = 0
  Data = {5}
  NULL = NULL
INVARIANT NeverReadsFree
CHECK_DEADLOCK FALSE
