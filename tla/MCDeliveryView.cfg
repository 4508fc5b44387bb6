SPECIFICATION DeliverySpec
CONSTANTS
  Prompts = {q1}
  MaxPending = 3
  Retries = 3
  MaxConnects = 1
  MaxReloads = 0
  MaxFailures = 0
  NoFrame = NoFrame
INVARIANT ViewIsCurrent
CHECK_DEADLOCK FALSE
