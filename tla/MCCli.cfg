SPECIFICATION FairSpec
CONSTANTS
  NoToken = NoToken
  NoOutput = NoOutput
  Documents <- MCDocuments
  Worlds <- MCWorlds
  Statuses <- MCStatuses
CHECK_DEADLOCK FALSE
INVARIANTS
  TypeOK
  ZeroMeansExpected
  ProductionNeedsConfirm
  OneEnvironment
  ReachesWhatWasAsked
  ParametersOnce
  ViewsFaithful
  ExamplesConform
PROPERTY EndsUnlessCognitoHangs
