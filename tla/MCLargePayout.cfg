CONSTANTS
  Claim = {c1}
  NoClaim = NoClaim
  Adapter = "FIXTURE"
  Reward = 2
  LargePayout = 2
  RequiredApprovals = 2
  SubmissionDeadline = 3
  SettlementDeadline = 4
  Duration = 1
  AdmissionWindow = 1
  MaxTime = 5
  MaxCrashes = 0
SPECIFICATION Spec
INVARIANT
  LargePayoutsHaveQuorum
CHECK_DEADLOCK FALSE
