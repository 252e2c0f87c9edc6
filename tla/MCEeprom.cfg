SPECIFICATION ClientSpec
CONSTANTS
  Addr = {a1, a2}
  Blank = 9
  NoBuffer = NoBuffer
  FlashFails = TRUE
  Values = {0, 1}
INVARIANTS
  CleanMeansStored
PROPERTIES
  DurableSpec
