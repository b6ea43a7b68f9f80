SPECIFICATION Spec
CONSTANTS
  Paths <- OnePath
  Under = {}
  Watched <- OnePath
  Contents <- MCContents
  NoContent <- MCNoContent
  NoBase <- MCNoBase
  NoManifest = NoManifest
  NoJob = NoJob
  LocalOps <- PutsAndDeletes
  Faults = {"crash"}
  TooLarge = {}
  Quiet = TRUE
  MaxEdits = 1
  MaxRemote = 2
  MaxFaults = 1
  MaxSessions = 0
PROPERTY NeverPushesServerCopy
