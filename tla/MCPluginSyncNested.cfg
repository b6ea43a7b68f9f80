SPECIFICATION Spec
CONSTANTS
  Paths <- Nested
  Under <- NestedUnder
  Contents <- MCContents
  NoContent <- MCNoContent
  NoBase <- MCNoBase
  LocalOps <- Puts
  TooLarge = {}
  Prompt = TRUE
  MaxEdits = 2
  MaxRemote = 2
  MaxFaults = 1
  Crashes = FALSE
INVARIANT NothingBehindCursor
