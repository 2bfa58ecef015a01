CONSTANTS
  None = None
  Users <- MCPair
  Admin = 2
  I128Max = 1000
  MintAmount = 25
  RuntimeModes = {"Normal", "ClaimsOnly"}
  RoundModes = {"UpDown"}
  Reasons = {}
  Amounts = {10}
  Prices = {1, 2}
  MaxRounds = 1
  MaxLedger = 4
  Configs <- LiveConfigs
SPECIFICATION LiveSpec
PROPERTIES
  StakesSettle
  WinningsArrive
CHECK_DEADLOCK FALSE
