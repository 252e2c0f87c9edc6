SPECIFICATION FairSpec
CONSTANTS
  MaxConn = 2
  TcpWnd = 2
  MaxWrite = 2
  SndBuf = 2
  W = 8
  Handles = {current, result, fhem}
  Fhem = fhem
INVARIANTS
  ContextsAreCounted
  WindowIsTheChain
  WriteReportsWhatWasAcknowledged
PROPERTIES
  FreedOnceAfterLastUse
  SketchGoesOn
CHECK_DEADLOCK FALSE
