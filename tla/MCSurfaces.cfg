SPECIFICATION SurfacesSpec
CONSTANTS
  Surfaces = {s1, s2}
  Ids = {i1, i2}
  WaitKeys = {k1}
  Calls = {c1, c2}
  Nobody = Nobody
  Panels = {s1, s2}
  WireSize = 1
  NoEntry = NoEntry
SYMMETRY SurfacesSymmetry
CHECK_DEADLOCK FALSE
INVARIANTS RouterTypeOK WaitOwned FollowTypeOK DemandIsStreamed StreamsReclaimed JobRowsKept PolicyIsCurrent
PROPERTIES OneAnswer WaitKept
