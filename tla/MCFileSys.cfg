SPECIFICATION FsSpec
CONSTANTS
  motd = motd  note = note  home = home  root = root
  File = {motd, note}
  Dir = {root, home}
  DirOf <- Apart
  DirBlock <- DirBlocks0
  Format <- Formatted
  NBLOCKS = 8
  FIRST = 3
  BY2BLK = 2
  NDIRECT = 1
  NINDIRECT = 2
  Sizes = {1, 3}
  MaxBoots = 1
  Data = {5}
  NULL = NULL
INVARIANTS FsTypeOK NoCrossLink DiskSafe CloseDurable
CHECK_DEADLOCK FALSE
