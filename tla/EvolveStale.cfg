SPECIFICATION EvoSpec
CONSTANTS
  Dates = {d1}
  Samples = {1}
  Prints = {f}
  Claimers = {c1, c2}
  NoClaim = NoClaim
  MaxDays = 1
  MaxObs = 2
  MaxReceipts = 3
  MaxOthers = 1
  MaxJournalLines = 4
  MaxJournalFaults = 2
CHECK_DEADLOCK FALSE
INVARIANTS CheckpointCertifies
