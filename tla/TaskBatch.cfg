SPECIFICATION Spec
CONSTANTS
  Procs = {p1}
  NoProc = NoProc
  NumTasks = 2
  Steps = 2
  Policies = {"execution"}
  Contents = {1}
  Modes = {"single", "batch", "bare"}
  Ops = {"close", "carry"}
  MaxAttempt = 2
  MaxEvidence = 3
  MaxRuns = 0
  MaxConts = 1
CHECK_DEADLOCK FALSE
INVARIANTS DoneIsBacked
PROPERTY ImplementsTaskBoard
