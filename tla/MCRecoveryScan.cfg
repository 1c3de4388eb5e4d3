CONSTANTS
  None = None
  Claim = {1, 2}
  Duration = 0
  Deadline = 1
  PageBlocks = 2
  MaxPages = 1
  MaxAttempts = 2
  Lag = 1
  MaxBlocks = 5
  MaxTime = 2
  MaxFaults = 1
  MaxRetries = 1
SPECIFICATION FairSpec
INVARIANTS TypeOK CheckpointCovers CompleteMeansRecorded RefundIsFinal RequestsTellTheTruth
PROPERTY RecoveryFinishes
CHECK_DEADLOCK FALSE
