SPECIFICATION FairSpec
CONSTANTS
  Paths <- OnePath
  Under = {}
  Watched <- OnePath
  Contents <- MCContents
  NoContent <- MCNoContent
  NoBase <- MCNoBase
  NoManifest = NoManifest
  NoJob = NoJob
  LocalOps <- PutsAndDeletes
  Faults = {"request", "save", "cursor", "crash", "events"}
  TooLarge = {2}
  Quiet = TRUE
  MaxEdits = 2
  MaxRemote = 2
  MaxFaults = 1
  MaxSessions = 1
INVARIANTS TypeOK ManifestInSync
PROPERTIES UnsentEditKept NoStalePush DeletesOnlyWhatWasSeen Converges
