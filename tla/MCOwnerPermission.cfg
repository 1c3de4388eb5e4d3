CONSTANTS
  Funding = {1}
  Command = {3, 4}
  d1 = d1
  d2 = d2
  Draft = {d1, d2}
  RewardOf <- MCRewardOf
  Kind = {"WITHDRAW", "DEPOSIT"}
  Amount = 1
  MaxPerAction = 2
  Funds = 1
  MaxFaults = 2
  Nobody = Nobody
SPECIFICATION FairSpec
PROPERTY
  PermissionIsRestored
CHECK_DEADLOCK FALSE
