SPECIFICATION ArrivalsSpec
CONSTANTS
  Prompts = {q1}
  MaxPending = 1
  Retries = 1
  MaxConnects = 2
  MaxReloads = 1
  MaxFailures = 2
  NoFrame = NoFrame
  Size = 2
  Projections <- MCProjections
  Deliveries = {d1, d2}
  d1 = d1
  d2 = d2
  None = None
INVARIANTS
  DeliveryTypeOK
  FactsKnown
PROPERTIES
  DeliverySettles
  CaughtUp
CHECK_DEADLOCK FALSE
