SPECIFICATION Spec
CONSTANTS
  Paths <- OnePath
  Under = {}
  Contents <- MCContents
  NoContent <- MCNoContent
  NoBase <- MCNoBase
  LocalOps <- PutsAndDeletes
  TooLarge = {}
  Prompt = TRUE
  MaxEdits = 3
  MaxRemote = 2
  MaxFaults = 1
  Crashes = TRUE
PROPERTIES PendingNotOverwritten UnsentEditKept
