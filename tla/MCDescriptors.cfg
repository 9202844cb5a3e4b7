SPECIFICATION FairSpec
CONSTANTS
  Numbers = {0, 1, 2}
  Files = {f, g}
  Ops = {a, b}
  None = None
  Stdin = Stdin
  MaxResults = 1
INVARIANTS
  Inv
  NoneLeaked
PROPERTIES
  CloseEnds
CHECK_DEADLOCK FALSE
