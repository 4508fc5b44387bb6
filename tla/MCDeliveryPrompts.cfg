SPECIFICATION DeliverySpec
CONSTANTS
  Prompts = {q1}
  MaxPending = 2
  Retries = 3
  MaxConnects = 1
  MaxReloads = 0
  MaxFailures = 0
  NoFrame = NoFrame
INVARIANT PromptsAreOpen
CHECK_DEADLOCK FALSE
