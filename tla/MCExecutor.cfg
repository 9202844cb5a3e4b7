SPECIFICATION FairSpec
CONSTANTS
  Tasks = {t, u}
  Root = root
  SqSize = 1
INVARIANTS
  Inv
  NothingIsLeft
PROPERTIES
  TaskIsRun
  RootIsPolled
  DropEnds
CHECK_DEADLOCK FALSE
