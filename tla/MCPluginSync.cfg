SPECIFICATION FairSpec
CONSTANTS
  Paths <- OnePath
  Under = {}
  Contents <- MCContents
  NoContent <- MCNoContent
  NoBase <- MCNoBase
  LocalOps <- Puts
  TooLarge = {2}
  Prompt = TRUE
  MaxEdits = 2
  MaxRemote = 2
  MaxFaults = 2
  Crashes = TRUE
INVARIANTS TypeOK NothingBehindCursor
PROPERTY Converges
