SPECIFICATION Spec
CONSTANTS
  v0 = v0
  v1 = v1
  v2 = v2
  NULL = NULL
  Images <- MCImages
  Length <- MCLength
  Factory = v0
  Top = 4
  MaxFails = 3
  MaxVersion = 3
  LateCommands = FALSE
INVARIANTS TypeOK RunsIntact
PROPERTIES VersionGrows ImplementsPromise CommittedIsInstalled
