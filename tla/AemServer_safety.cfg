CONSTANTS
  Conns = {c1, c2}
  Srv = srv
  MaxLines = 2
  TrCloses = FALSE
  Env = {"slow", "reset", "signal"}
  None = none
SPECIFICATION MCSpec
CHECK_DEADLOCK FALSE
INVARIANTS TypeOK CallsEnd Attended FreedOnce
PROPERTIES WholeReply Answered EofFrees
