SPECIFICATION Spec
CONSTANTS
  NoToken = NoToken
  NoRecord = NoRecord
  NoOperation = "none"
  Envs = {"dev", "prod"}
  DefaultEnv = "dev"
  Operations <- MCOperations
  Unlisted = {"patch"}
  Values = {"v"}
  Canonical <- MCCanonical
  Sensitive = {"Authorization"}
  Foreign <- MCForeign
  MaxSize = 1
  MaxClicks = 4
  MaxFetches = 2
  MaxAdds = 2
  MaxBoots = 2
CHECK_DEADLOCK FALSE
INVARIANTS
  TypeOK
  RestoresWhatWasListed
  ResendsWhatWasRecorded
PROPERTY SwitchingKeepsBody
