CONSTANTS
  None = None
  Users <- MCPair
  Admin = 2
  I128Max = 1000
  MintAmount = 10
  RuntimeModes = {"Normal", "ClaimsOnly", "FullyPaused"}
  RoundModes = {"UpDown", "Precision"}
  Reasons = {"OracleFailure", "Other"}
  Amounts = {7, 10}
  Prices = {1, 2}
  MaxRounds = 1
  MaxLedger = 3
  Configs <- InsuranceConfigs
SPECIFICATION Spec
INVARIANTS
  BooksNonNegative
PROPERTIES
  ValueConserved
  PauseHolds
  PendingGoesHome
CHECK_DEADLOCK FALSE
