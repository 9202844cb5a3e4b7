SPECIFICATION FairSpec
CONSTANTS
  Tasks = {t1, t2}
  Root = Root
  None = None
  MaxWakers = 1
INVARIANTS
  Inv
  RefcountExact
  NotifiedIsQueued
  ShutdownIsFinal
  LeaksAreCycles
PROPERTIES
  PromiseKept
  NotifiedIsPolled
  ShutdownEnds
CHECK_DEADLOCK FALSE
