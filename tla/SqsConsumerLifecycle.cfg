SPECIFICATION FairSpec
CONSTANTS
  Polls = {p1, p2, p3}
  Timers = {t1, t2}
  Callers = {user1, user2, nest}
  Nest = nest
  None = none
  StartOnBootstrap = TRUE
  Restarts = FALSE
INVARIANTS TypeOK SinglePoll NeverGoesQuiet
PROPERTIES ImplementsSerialPolling StopCompletes KeepsPolling ShutdownCompletes
CHECK_DEADLOCK FALSE
