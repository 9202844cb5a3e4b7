SPECIFICATION FairSpec
CONSTANTS
  Ops = {a, b}
  Multi = {b}
  SqSize = 1
  MaxMore = 1
INVARIANTS
  Inv
  ResultsKept
  RoomIsOffered
  TaskIsWoken
PROPERTIES
  CancelsItsOwn
  DroppedIsFreed
  ShutdownEnds
CHECK_DEADLOCK FALSE
