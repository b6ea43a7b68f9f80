SPECIFICATION Spec
CONSTANTS
  Paths <- TwoPaths
  MaxDeletes = 1
  MaxPuts = 1
  Window = 1
  MaxOps = 3
  MaxTime = 3
  MaxFaults = 1
  MaxApprovals = 1
INVARIANTS WithinLimits OnlyAPersonApproves
 
CHECK_DEADLOCK FALSE
