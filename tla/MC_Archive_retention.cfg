CONSTANTS
  None = None
  RoundIds <- MCRoundIds
  Retentions <- MCRetentions
SPECIFICATION Spec
PROPERTY
  SummariesBounded
CHECK_DEADLOCK FALSE
