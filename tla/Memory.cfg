SPECIFICATION MCSpec
CONSTANTS
  Parts = {"spaces", "heap", "user"}
  P1 = P1
  P2 = P2
  Proc = {P1, P2}
  total_pages = 22
  Reserved <- MCReserved
  Boot = 1
  KernelTables <- MCKernelTables
  ENTRIES = 2
  Images <- MCImages
  USER_STACK_TOP = 8
  USER_STACK_PAGES = 1
  HEAP_MAX = 2
  MAX_LOAD_SEGMENTS = 2
  Data <- MCData
  Written <- MCWritten
  MaxLaunches = 4
SYMMETRY Symmetric
CONSTRAINT BeforeFatal
\* After the last launch every process may be gone and nothing be left to do.
CHECK_DEADLOCK FALSE
INVARIANTS SpacesSound HeapSound
PROPERTIES PrivateMemories UserHeapSound
