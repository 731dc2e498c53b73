SPECIFICATION Spec
CONSTANTS
  Polls = {p1, p2, p3, p4}
  Timers = {t1, t2}
  Callers = {user, nest}
  Nest = nest
  None = none
  StartOnBootstrap = TRUE
  Restarts = TRUE
INVARIANT SinglePoll
CHECK_DEADLOCK FALSE
