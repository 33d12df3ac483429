SPECIFICATION Spec
CONSTANTS
  Slots = {s1, s2, s3}
  Pipes = {p1, p2}
  MAX_OPEN_FILES = 2
  BUF_SIZE = 1
  MaxRefs = 2
SYMMETRY Symmetry
INVARIANT NoDanglingPipe
PROPERTIES EndOfFileIsFinal LostOnlyAt
