SPECIFICATION FairSpec
CONSTANTS
  NoToken = NoToken
  NoOutput = NoOutput
  Documents <- MCDocuments
  Worlds <- MCWorlds
  Statuses <- MCStatuses
CHECK_DEADLOCK FALSE
INVARIANT PasswordAsGiven
