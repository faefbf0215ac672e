SPECIFICATION PipeSpec
CONSTANTS
  reader = reader  writer = writer
  Env = {reader, writer}
  Slot = {1, 2}
  BY2PIPE = 2
  POSMOD = 8
  Orders = {"buf"}
  MaxBytes = 3
  Holders <- Family
  NULL = NULL
PROPERTY ZeroMeansDrained
CHECK_DEADLOCK FALSE
