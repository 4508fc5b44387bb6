SPECIFICATION SessionSpec
CONSTANTS
  Size = 3
  Projections <- MCProjections
  Deliveries = {d1, d2}
  d1 = d1
  d2 = d2
  None = None
  Enqueues = {e1, e2, e3}
  Mutations = {m1, m2, m3}
  MaxCuts = 3
  NoCall = NoCall
SYMMETRY MCSymmetry
INVARIANTS
  TypeOK
  QueueIsCurrent
PROPERTIES
  OrderedDelivery
  GapsAreUnknown
  SilentOnceCut
  OneSend
  MutationsInOrder
CHECK_DEADLOCK FALSE
