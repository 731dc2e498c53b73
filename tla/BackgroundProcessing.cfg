SPECIFICATION FairSpec
CONSTANTS
  Messages = {m1, m2}
  Events <- AllEvents
  MaxReceiveCount = 2
  None = none
INVARIANTS TypeOK PoisonIsKept AckedEmailRequested EffectsPerReceive
PROPERTIES EventuallySettled ImplementsContract
CHECK_DEADLOCK FALSE
