SPECIFICATION Spec
SYMMETRY Symmetry
CONSTANTS
  Consumers = {c1, c2}
  Messages = {m1, m2}
  BatchSize = 2
  MaxReceiveCount = 2
  Concurrent = TRUE
  HandleTimeout = TRUE
  TerminateVisibility = FALSE
INVARIANTS AckedOnlyIfHandled ProcessedIsGone
PROPERTIES ImplementsContract AckFromOwnDelivery
CHECK_DEADLOCK FALSE
