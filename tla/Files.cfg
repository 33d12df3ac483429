SPECIFICATION MCSpec
CONSTANTS
  Parts = {"tree", "cwds"}
  n0 = n0
  n1 = n1
  n2 = n2
  n3 = n3
  n4 = n4
  p1 = p1
  p2 = p2
  empty = empty
  full = full
  Nil = Nil
  Gone = Gone
  Node = {n0, n1, n2, n3, n4}
  Root = n0
  Contents = {empty, full}
  NoData = empty
  Paths <- ManyPaths
  Proc = {}
  c0 = c0
  c1 = c1
  c2 = c2
SYMMETRY MCSymmetry
\* Once the kernel shell's own directory is Gone, nothing it does is defined.
CHECK_DEADLOCK FALSE
INVARIANTS TreeOK CwdsStayLive
PROPERTY KeepsPromise
