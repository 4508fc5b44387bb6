SPECIFICATION LifetimesSpec
CONSTANTS
  Starters = {s1, s2, s3}
  Disposers = {d1, d2}
  s1 = s1
  s2 = s2
  s3 = s3
  d1 = d1
  d2 = d2
  None = None
  Listeners = {l1, l2}
  MaxRecoveries = 2
INVARIANTS
  TypeOK
  LiveChildOwned
  OneLiveChild
  ActiveIsUsable
  LifeTypeOK
PROPERTIES
  DisposeStopsAll
  NoSpawnAfterDispose
  CallsSettle
  NeverStranded
  RestsUnheard
  GapsHeal
CHECK_DEADLOCK FALSE
