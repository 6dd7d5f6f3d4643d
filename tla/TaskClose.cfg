SPECIFICATION FairSpec
CONSTANTS
  Procs = {p1, p2}
  NoProc = NoProc
  NumTasks = 1
  Steps = 2
  Policies = {"execution"}
  Contents = {1}
  Modes = {"multi", "bare"}
  Ops = {"close", "carry", "archive", "lose"}
  MaxAttempt = 2
  MaxEvidence = 3
  MaxRuns = 1
  MaxConts = 1
CHECK_DEADLOCK FALSE
INVARIANTS ClosedIsSettled
PROPERTY CommandsEnd
