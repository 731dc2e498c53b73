SPECIFICATION FairSpec
CONSTANTS
  Consumers = {c1}
  Messages = {m1, m2}
  BatchSize = 2
  MaxReceiveCount = 2
  Concurrent = FALSE
  HandleTimeout = TRUE
  TerminateVisibility = TRUE
INVARIANTS TypeOK ReportCoversBatch SequentialOrder
PROPERTIES EventuallySettled BatchEnds
CHECK_DEADLOCK FALSE
