SPECIFICATION Spec
CONSTANTS
  Size = 3
  Projections <- MCProjections
  Deliveries = {d1, d2}
  d1 = d1
  d2 = d2
  None = None
SYMMETRY MCSymmetry
INVARIANTS
  CursorInLog
CHECK_DEADLOCK FALSE
