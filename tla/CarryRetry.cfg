SPECIFICATION Spec
CONSTANTS
  Procs = {p1}
  NoProc = NoProc
  NumTasks = 1
  Steps = 2
  Policies = {"execution"}
  Contents = {1}
  Modes = {"single"}
  Ops = {"close", "carry"}
  MaxAttempt = 2
  MaxEvidence = 2
  MaxRuns = 0
  MaxConts = 2
CHECK_DEADLOCK FALSE
INVARIANTS OneContinuation
