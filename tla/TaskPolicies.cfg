SPECIFICATION Spec
CONSTANTS
  Procs = {p1}
  NoProc = NoProc
  NumTasks = 1
  Steps = 2
  Policies = {"execution", "artifact"}
  Contents = {1}
  Modes = {"multi", "single", "bare"}
  Ops = {"declare"}
  MaxAttempt = 1
  MaxEvidence = 3
  MaxRuns = 1
  MaxConts = 0
CHECK_DEADLOCK FALSE
PROPERTY CompletionSatisfiesClose
