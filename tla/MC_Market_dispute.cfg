CONSTANTS
  None = None
  Users <- MCPair
  Admin = 2
  I128Max = 1000
  MintAmount = 25
  RuntimeModes = {"Normal"}
  RoundModes = {"UpDown"}
  Reasons = {}
  Amounts = {10}
  Prices = {1, 2}
  MaxRounds = 2
  MaxLedger = 5
  Configs <- DisputeConfigs
SPECIFICATION Spec
INVARIANTS
  RecordsMatchOutcomes
PROPERTIES
  NeverRevived
  DisputeFrozen
CHECK_DEADLOCK FALSE
