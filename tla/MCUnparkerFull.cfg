SPECIFICATION FairSpec
CONSTANTS
  Threads = {a, b}
  SqSize = 1
  MaxOps = 2
PROPERTIES
  ParkerReturns
CHECK_DEADLOCK FALSE
