SPECIFICATION Spec
CONSTANTS
  Paths <- TwoPaths
  TICK_INTERVAL = 2
  DEBOUNCE = 1
  EVENT_QUIET = 2
  EVENT_MAX_HOLD = 3
  MAX_BACKOFF = 4
  RESCAN_INTERVAL = 6
  MaxFailures = 2
  MaxTick = 1
  MaxChanges = 3
  MaxFaults = 1
  MaxSessions = 1
INVARIANTS LookedAtInTime FoundInTime
PROPERTIES ServerLeftAlone PollsForEver
