SPECIFICATION Spec
CONSTANTS
  Paths <- Nested
  Under <- NestedUnder
  Watched <- Nested
  Contents <- MCContents
  NoContent <- MCNoContent
  NoBase <- MCNoBase
  NoManifest = NoManifest
  NoJob = NoJob
  LocalOps <- PutsAndDeletes
  Faults = {"request", "append", "save", "cursor", "crash", "events"}
  TooLarge = {2}
  Quiet = TRUE
  MaxEdits = 2
  MaxRemote = 2
  MaxFaults = 1
  MaxSessions = 0
INVARIANT ManifestInSync
PROPERTY UnsentEditKept
