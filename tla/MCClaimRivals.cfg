CONSTANTS
  Claim = {c1, c2}
  NoClaim = NoClaim
  Adapter = "FIXTURE"
  Reward = 2
  LargePayout = 3
  RequiredApprovals = 1
  SubmissionDeadline = 3
  SettlementDeadline = 4
  Duration = 1
  AdmissionWindow = 1
  MaxTime = 2
  MaxCrashes = 1
SPECIFICATION Spec
SYMMETRY MCSymmetry
INVARIANTS
  SlotFollowsChain
CHECK_DEADLOCK FALSE
