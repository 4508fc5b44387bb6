SPECIFICATION QueueSpec
CONSTANTS
  Enqueues = {e1, e2}
  Mutations = {}
  MaxCuts = 2
  NoCall = NoCall
INVARIANT OneInFlight
CHECK_DEADLOCK FALSE
