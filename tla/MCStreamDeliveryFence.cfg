SPECIFICATION Spec
CONSTANTS
  Size = 2
  Projections <- MCProjections
  Deliveries = {d1, d2}
  d1 = d1
  d2 = d2
  None = None
SYMMETRY MCSymmetry
PROPERTIES
  ProjectionsFenced
CHECK_DEADLOCK FALSE
