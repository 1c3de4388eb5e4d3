CONSTANTS
  None = None
  Policy = {1, 2}
  RewardOf <- MCRewardOf
  MinReward = 1
  Budget = 2
  MaxRecs = 2
  MaxVersions = 3
  MaxFaults = 1
  MaxEvents = 1
  Claim = {1}
  Bounty = {10, 11}
  Slot = {10}
  ReportId = {20, 21}
  MaxPending = 1
  MaxReportFaults = 2
  Transfer = {1, 2}
  Variant = {1, 2}
  Tab = {1, 2}
  MaxElsewhere = 1
  User = {1, 2}
  Change = {"CREATE", "PROMOTE", "DEMOTE"}
  Key = {1}
  Connection = {1, 2}
  MaxVersion = 2
  Vault = {1, 2}
  Window = {299, 300, 2592000, 2592001}
  Duration = {59, 60, 1800, 1801}
  Grace = {0, 86401}
  Reward = {0, 1}
  MaxForms = 1
  MaxTicks = 2
  MaxLosses = 2
  WalletId = {1, 2}
  MaxRuns = 4
  MaxSetupFaults = 4
  Receipt = {1, 2}
  MaxAttempts = 4
  MaxExportFaults = 2
  Run = {1, 2}
  MaxActive = 1
  MaxRecent = 2
  MaxSource = 2
  MaxRunFaults = 2
SPECIFICATION OperationsSpec
INVARIANTS TypesOK AllocationsAreSafe ReportsAreSafe RequestsAreSafe JobsAreSafe
CHECK_DEADLOCK FALSE
