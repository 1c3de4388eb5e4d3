CONSTANTS
  Claim = {c1}
  NoClaim = NoClaim
  Adapter = "FINDING"
  Reward = 2
  LargePayout = 3
  RequiredApprovals = 1
  SubmissionDeadline = 3
  SettlementDeadline = 4
  Duration = 1
  AdmissionWindow = 1
  MaxTime = 5
  MaxCrashes = 0
SPECIFICATION FairSpec
PROPERTY
  PaidIsReleased
CHECK_DEADLOCK FALSE
