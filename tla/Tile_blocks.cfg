SPECIFICATION MCSpec
CONSTANTS
  Parts = {"tile"}
  Byte = {0, 1}
  BUF_SIZE = 3
  MaxLen = 4
  MaxRefs = 2
  MAX_PROCESSES = 3
  MaxPid = 3
  Images = {m1, m2, m3}
  Kernel = Kernel
  Nobody = Nobody
  Panes = 2
  CAPACITY = 1
  MaxKeys = 4
  MaxOutput = 2
  ENOUGH = 3
PROPERTY NothingBlocks
CHECK_DEADLOCK FALSE
