SPECIFICATION PSpec
CONSTANTS
  Tasks = {t, u, v}
INVARIANTS
  PInv
PROPERTIES
  WokenIsRun
CHECK_DEADLOCK FALSE
