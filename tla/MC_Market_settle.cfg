CONSTANTS
  None = None
  Users <- MCUsers
  Admin = 3
  I128Max = 1000
  MintAmount = 17
  Configs <- SettleConfigs
  RuntimeModes = {"Normal"}
  RoundModes = {"UpDown", "Precision"}
  Reasons = {}
  Amounts = {10, 15}
  Prices = {1, 3}
  MaxRounds = 1
  MaxLedger = 2
SPECIFICATION Spec
INVARIANTS
  PoolsMatchPositions
PROPERTIES
  ValueConserved
  CreditedOnce
  NoLateStakes
CHECK_DEADLOCK FALSE
