SPECIFICATION FairSpec
CONSTANTS
  Procs = {p1, p2}
  NoProc = NoProc
  Inodes = {i1, i2, i3}
  NoInode = NoInode
  MaxGen = 3
CHECK_DEADLOCK FALSE
INVARIANTS OnlyLatestCommits FenceIsRestored
PROPERTY DeadOwnerIsReclaimed
