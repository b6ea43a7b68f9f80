SPECIFICATION FairSpec
CONSTANTS
  Servers = {"s1", "s2"}
  Names = {"n1", "n2"}
  Tip = 2
  MaxSecrets = 2
  MaxSessions = 2
  MaxCommands = 1
  MaxFaults = 1
  Others <- MCOthers
  NoPlugin = NoPlugin
  NoCommand = NoCommand
  NoPatch = NoPatch
CONSTRAINT Apart
INVARIANTS OneCopy CursorOfItsServer CredentialsKept
PROPERTIES CursorKept CatchesUp
CHECK_DEADLOCK FALSE
