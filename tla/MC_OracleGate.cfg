CONSTANTS
  None = None
  Gates <- OracleGates
  Reports <- OracleReports
  Prices = {20}
  RuntimeModes = {"Normal", "FullyPaused"}
  Statuses = {0, 2}
  CloseTimes = {7}
  RunWindow = 1
  MAX_TWAP_WINDOW_SAMPLES = 2
  MaxLedger = 3
  MaxRounds = 3
  MaxReports = 3
  MaxArms = 1
SPECIFICATION Spec
INVARIANTS
  OverridesServeOnce
  SamplesAreLatest
  PriceMeantForRound
  NeverStuck
  MedianBracketed
  QuorumOfSources
CHECK_DEADLOCK FALSE
