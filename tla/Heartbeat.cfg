SPECIFICATION Spec
CONSTANTS
  Messages = {m1, m2}
  VisibilityTimeout = 11
  HeartbeatInterval = 2
  TerminateVisibilityTimeout = TRUE
  MaxLateness = 1
  MaxLatency = 2
  MaxMisses = 1
INVARIANTS TypeOK HeldWhileProcessing BackInTime
