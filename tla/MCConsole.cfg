SPECIFICATION Spec
CONSTANTS
  q1 = q1
  q2 = q2
  q3 = q3
  dev = dev
  prod = prod
  web = web
  Unset = Unset
  NoRecord = NoRecord
  NoToken = NoToken
  NoClient = NoClient
  Envs <- MCEnvs
  Production <- MCProduction
  DefaultEnv = prod
  Inputs <- MCInputs
  Statuses <- MCStatuses
  Configs <- MCConfigs
  Lifetimes <- MCLifetimes
  MaxSize = 1
  Requests <- Three
  LoginTimeout = 1
  MaxClock = 2
SYMMETRY RequestsAlike
CHECK_DEADLOCK FALSE
INVARIANTS
  TypeOK
  OneIdOneRequest
  EveryOutcomeRecordedOnce
  ProductionConfirmed
  AuthorizationMasked
