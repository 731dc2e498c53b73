SPECIFICATION Spec
CONSTANTS
  Messages = {m1}
  Events <- EmailEvents
  MaxReceiveCount = 2
  None = none
INVARIANT AckedEmailSent
CHECK_DEADLOCK FALSE
