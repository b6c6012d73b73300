SPECIFICATION Spec
CONSTANTS
  g1 = g1
  g2 = g2
  web = web
  mobile = mobile
  NoToken = NoToken
  NoClient = NoClient
  Callers <- MCCallers
  Configs <- MCConfigs
  Lifetimes <- MCLifetimes
  LoginTimeout = 2
  MaxClock = 6
INVARIANTS
  TypeOK
  FieldsOfOneLogin
  LiveTokenServed
  StaleTokenBounded
  StatusAgreesWithToken
