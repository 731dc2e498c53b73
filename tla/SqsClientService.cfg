SPECIFICATION FairSpec
CONSTANTS
  Queues = {q1, q2}
  Sites = {s1, s2}
  Handlers = {h1, h2}
  Setups <- AllSetups
  Terminated = TRUE
  None = none
INVARIANTS TypeOK OneConsumerPerQueue BoundToOwnQueue OneProducerPerQueue NothingRunsEarly FailsOnlyForCause
PROPERTY StartupEnds
CHECK_DEADLOCK FALSE
