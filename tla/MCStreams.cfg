SPECIFICATION FairSpec
CONSTANTS
  Room = 4
  MaxEvents = 3
INVARIANTS
  Inv
PROPERTIES
  WaitEnds
  CallReturns
CHECK_DEADLOCK FALSE
