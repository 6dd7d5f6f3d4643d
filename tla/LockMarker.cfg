SPECIFICATION Spec
CONSTANTS
  Procs = {p1, p2}
  Inodes = {i1, i2, i3, i4}
  NoInode = NoInode
  MaxDepth = 1
  MarkerCrash = TRUE
  SlowWriters = FALSE
CHECK_DEADLOCK FALSE
SYMMETRY Symmetry
INVARIANTS MutualExclusion
