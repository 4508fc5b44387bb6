SPECIFICATION Spec
CONSTANTS
  Callers = {c1, c2, c3}
  Closers = {d1}
  auto = auto
  only = only
  isolated = isolated
  custom = custom
  unset = unset
  c1 = c1
  c2 = c2
  c3 = c3
  d1 = d1
  Requests = {auto, custom}
  ModeOf <- MCModeOf
  None = None
SYMMETRY MCSymmetry
INVARIANTS
  TypeOK
  SingleOperation
  NothingIsLost
  StateAgrees
PROPERTIES
  NoLateBackend
  AnswerServesRequest
CHECK_DEADLOCK FALSE
