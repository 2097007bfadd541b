CONSTANTS
  Conns = {c1}
  Srv = srv
  MaxLines = 2
  TrCloses = TRUE
  Env = {"slow"}
  None = none
SPECIFICATION Spec
INVARIANTS NeverDeaf
CHECK_DEADLOCK FALSE
