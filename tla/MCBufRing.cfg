SPECIFICATION Spec
SYMMETRY Symmetry
CONSTANTS
  Rings = {r, s}
  Bgids = {1}
  Ops = {a, b}
  None = None
  Width = 8
  Requests <- MCRequests
  MaxHandles = 2
INVARIANTS
  Inv
  Conserved
PROPERTIES
  OfferedIsStable
CHECK_DEADLOCK FALSE
