SPECIFICATION Spec
CONSTANTS
  Procs = {p1, p2}
  NoProc = NoProc
  NumTasks = 1
  Steps = 2
  Policies = {"execution"}
  Contents = {1}
  Modes = {"multi"}
  Ops = {"lose"}
  MaxAttempt = 3
  MaxEvidence = 3
  MaxRuns = 2
  MaxConts = 0
CHECK_DEADLOCK FALSE
SYMMETRY Symmetry
INVARIANTS TypeOK OnlyLatestRunIsOpen NoStrandedEvidence RunsAreCoherent EvidenceIsOfItsAttempt
PROPERTY RunLedgerOnlyGrows
