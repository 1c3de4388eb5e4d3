CONSTANTS
  NumBounties = 3
  Bounty = {1, 2, 3}
  RewardOf <- MCRewardOf
  Ours = {1, 2, 3}
  RefundsHere = {1, 2}
  LimitChoices <- MCLimitChoices
  ApprovalChoices <- MCApprovalChoices
  MinInterval = 1
  DaySeconds = 2
  MaxTime = 3
  MaxTopUp = 3
SPECIFICATION Spec
INVARIANTS
  TypeOK
  BudgetConserved
  DaysAddUp
  AllocationsAreSpaced
  ApprovalIsEvidence
CHECK_DEADLOCK FALSE
