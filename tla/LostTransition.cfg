SPECIFICATION PendingSpec
CONSTANTS
  Governors = {p1, p2, p3}
  NoGovernor = NoGovernor
  MaxMoves = 2
  MaxFaults = 2
CHECK_DEADLOCK FALSE
INVARIANTS TransitionIsKept
