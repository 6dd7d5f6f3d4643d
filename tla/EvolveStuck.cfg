SPECIFICATION ApplySpec
CONSTANTS
  MaxMutations = 4
  MaxArtifactEdits = 1
  MaxApplyFaults = 2
CHECK_DEADLOCK FALSE
INVARIANTS RecoveryIsNeverStuck
