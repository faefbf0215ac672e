SPECIFICATION PipeSpec
CONSTANTS
  reader = reader  writer = writer
  Env = {reader, writer}
  Slot = {1, 2}
  BY2PIPE = 2
  POSMOD = 4
  Orders = {"buf", "pos"}
  MaxBytes = 4
  Holders <- Family
  NULL = NULL
INVARIANTS PipeTypeOK ClosedIsClosed Fifo
CHECK_DEADLOCK FALSE
