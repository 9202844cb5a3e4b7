SPECIFICATION TSpec
PROPERTIES
  ParkerReturns
CHECK_DEADLOCK FALSE
