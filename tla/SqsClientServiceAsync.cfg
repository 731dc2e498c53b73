SPECIFICATION FairSpec
CONSTANTS
  Queues = {q1}
  Sites = {s1}
  Handlers = {}
  Setups <- AllSetups
  Terminated = FALSE
  None = none
INVARIANT AsyncOptionsAwaited
CHECK_DEADLOCK FALSE
