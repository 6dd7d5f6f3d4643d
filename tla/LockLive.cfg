SPECIFICATION FairSpec
CONSTANTS
  Procs = {p1, p2}
  Inodes = {i1, i2, i3}
  NoInode = NoInode
  MaxDepth = 2
  MarkerCrash = TRUE
  SlowWriters = FALSE
CHECK_DEADLOCK FALSE
PROPERTY DeadLockIsReclaimed
