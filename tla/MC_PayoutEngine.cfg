CONSTANTS
  None = None
  Stakes = {10, 15, 27}
  Guesses = {29999, 30002, 30004}
  Finals = {30000, 30003}
  StartPrices = {30000, 30001}
  Rates <- MCRates
  Bands <- MCBands
  MaxEntries = 3
SPECIFICATION Spec
INVARIANTS
  EngineAgrees
  PreviewAgrees
  ScoringKeepsClosest
  PotHandedOut
  WinnersKeepStake
CHECK_DEADLOCK FALSE
