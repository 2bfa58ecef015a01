CONSTANTS
  None = None
  RoundIds <- MCRoundIds
  Retentions <- MCRetentions
SPECIFICATION Spec
INVARIANT
  IndexSound
PROPERTY
  WriteKeepsNewest
CHECK_DEADLOCK FALSE
