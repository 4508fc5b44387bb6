SPECIFICATION Spec
CONSTANTS
  Callers = {c1, c2}
  Closers = {d1}
  auto = auto
  only = only
  isolated = isolated
  custom = custom
  unset = unset
  c1 = c1
  c2 = c2
  d1 = d1
  Requests = {auto}
  ModeOf <- MCModeOf
  None = None
SYMMETRY MCSymmetry
INVARIANTS
  SettledStateIsTerminal
CHECK_DEADLOCK FALSE
