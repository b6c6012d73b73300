SPECIFICATION FairSpec
CONSTANTS
  dev = dev
  prod = prod
  getUser = getUser
  putUser = putUser
  None = None
  Envs <- MCEnvs
  Production <- MCProduction
  Endpoints <- MCEndpoints
  DefaultEnv = dev
  MaxSends = 2
  MaxSelects = 2
  MaxFetches = 2
CHECK_DEADLOCK FALSE
INVARIANTS
  TypeOK
  ProductionSentAsShown
  SendsBounded
  QuietPageIsCurrent
PROPERTY SendButtonComesBack
