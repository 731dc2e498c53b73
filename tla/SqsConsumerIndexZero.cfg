SPECIFICATION Spec
CONSTANTS
  Consumers = {c1}
  Messages = {m1, m2}
  BatchSize = 2
  MaxReceiveCount = 2
  Concurrent = TRUE
  HandleTimeout = FALSE
  TerminateVisibility = FALSE
INVARIANT RefusedIsReportedFailed
CHECK_DEADLOCK FALSE
