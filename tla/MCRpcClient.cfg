SPECIFICATION Spec
CONSTANTS
  MaxCalls = 2
  MaxPending = 1
  MaxResends = 1
  CallParams <- MixedParams
INVARIANTS
  TypeOK
  UnsentErrors
  ManualDisconnectKeepsNothing
  PendingBounded
PROPERTIES
  ImplementsCall
  QueuedCancelTakesEffect
CHECK_DEADLOCK FALSE
