CONSTANTS
  None = None
  Users <- MCPair
  Admin = 2
  I128Max = 1000
  MintAmount = 25
  RuntimeModes = {"Normal", "ClaimsOnly", "FullyPaused"}
  RoundModes = {"UpDown", "Precision"}
  Reasons = {"OracleFailure"}
  Amounts = {10}
  Prices = {1, 2}
  MaxRounds = 2
  MaxLedger = 4
  Configs <- LifecycleConfigs
SPECIFICATION Spec
INVARIANTS
  TypeOK
  StakesRecoverable
  ParticipantsMatchStakes
  StartLedgerUnique
CHECK_DEADLOCK FALSE
