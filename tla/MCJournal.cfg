SPECIFICATION Spec
CONSTANTS
  Items = {x, y, z}
  Absent = Absent
  MaxCrashes = 2
INVARIANTS Readable AcknowledgedKept
PROPERTY ImplementsDurableLog
CHECK_DEADLOCK FALSE
