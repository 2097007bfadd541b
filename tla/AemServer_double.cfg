CONSTANTS
  Conns = {c1}
  Srv = srv
  MaxLines = 1
  TrCloses = TRUE
  Env = {}
  None = none
SPECIFICATION Spec
INVARIANTS FreedOnce
CHECK_DEADLOCK FALSE
