CONSTANTS
  None = None
  AnAddress = AnAddress
  Accounts <- MCAccounts
  Deployer = 1
  FirstOracle = 2
  Quotas <- PauseQuotas
  Offers <- MCOffers
  CONFIG_TIMELOCK_LEDGERS = 2
  MIN_ROTATION_DELAY_SECONDS = 2
  RotationExpiries = {1, 2, 3}
  Charters <- MCCharters
  GovActions <- MCGovActions
  DEFAULT_GOV_PROPOSAL_TTL_LEDGERS = 2
  ProposalTtls = {1}
  Amounts = {0, 2}
  FeesAtStart = 3
  EPOCH_LEDGERS = 3
  INITIAL_AMOUNT = 10
  TEMP_TTL_LEDGERS = 4
  LEADERBOARD_LIMIT = 2
  MAX_PAGE_SIZE = 2
SPECIFICATION Spec
PROPERTY PauseFreezesAll
CHECK_DEADLOCK FALSE
