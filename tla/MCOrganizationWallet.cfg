CONSTANTS
  Funding = {1, 2}
  Command = {3}
  d1 = d1
  d2 = d2
  Draft = {d1, d2}
  RewardOf <- MCRewardOf
  Kind = {"DEPOSIT"}
  Amount = 1
  MaxPerAction = 2
  Funds = 3
  MaxFaults = 1
  Nobody = Nobody
SPECIFICATION Spec
INVARIANTS
  TypeOK
  PermissionIsTracked
  NothingIsStranded
  AllowanceIsKept
  OutcomesAreTrue
PROPERTY
  OverIsOver
CHECK_DEADLOCK FALSE
