SPECIFICATION Spec
CONSTANTS
  MsPerSecond = 3
  SecondsPerMinute = 4
  Wrap = 32
  SetupInterval = 2
  SyncInterval = 6
  Epoch = 5
  Busy = {1, 5}
  Blocked = {0, 2, 7}
  MaxMs = 100
INVARIANTS
  TypeOK
  ClockKeepsTime
  SyncIsScheduled
PROPERTIES
  MinuteOnce
CHECK_DEADLOCK FALSE
