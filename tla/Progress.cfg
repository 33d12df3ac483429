SPECIFICATION MCSpec
CONSTANTS
  Parts = {"pipe", "sched", "tile", "timer"}
  Byte = {0, 1}
  BUF_SIZE = 3
  MaxLen = 4
  MaxRefs = 2
  MAX_PROCESSES = 3
  MaxPid = 3
  Images = {m1, m2, m3}
  Kernel = Kernel
  Nobody = Nobody
  Panes = 2
  CAPACITY = 1
  MaxKeys = 4
  MaxOutput = 2
  ENOUGH = 3
INVARIANTS OutputComplete TickSource
PROPERTIES ImplementsFifo RunnableIsDispatched QuitEnds WaitsEnd
\* A pipe with no readers and no writers left does nothing more.
CHECK_DEADLOCK FALSE
