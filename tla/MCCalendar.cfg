SPECIFICATION Spec
CONSTANTS
  LastYear = 68
  Starts <- MCStarts
  Blocked = {1, 3}
  Pauses = {1, 59}
  MaxLooks = 2
INVARIANTS
  CacheIsTheTime
  DateIsLocal
CHECK_DEADLOCK FALSE
