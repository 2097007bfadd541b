CONSTANTS
  Conns = {c1}
  Srv = srv
  MaxLines = 1
  TrCloses = TRUE
  Env = {"quiet"}
  None = none
SPECIFICATION Spec
INVARIANTS StreamsIdle
CHECK_DEADLOCK FALSE
