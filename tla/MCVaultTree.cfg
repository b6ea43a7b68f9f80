SPECIFICATION Spec
CONSTANTS
  Paths <- MCPaths
  Under <- MCUnder
  Contents = {c}
  NoContent = NoContent
  PluginDir = "o/p"
  DataFile = "o/p/data"
  StateDir = "o/p/state"
  Journals <- MCJournals
  Temp = "o/p/state/tmp"
  Hidden <- MCHidden
  NoPath = "nowhere"
  MaxSteps = 3
INVARIANTS ClientStateKept OutsideUntouched 
PROPERTY TakesOnlyWhatIsNamed
