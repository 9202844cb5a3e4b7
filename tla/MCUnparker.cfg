SPECIFICATION FairSpec
CONSTANTS
  Threads = {a, b, c}
  SqSize = 2
  MaxOps = 3
INVARIANTS
  Inv
  WakeIsUnderWay
PROPERTIES
  ParkerSafety
  ParkerReturnsWithRoom
  ShutdownEnds
CHECK_DEADLOCK FALSE
