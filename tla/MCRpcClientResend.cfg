SPECIFICATION Spec
CONSTANTS
  MaxCalls = 2
  MaxPending = 2
  MaxResends = 2
  CallParams <- ResendParams
INVARIANTS
  CallbackOwnership
  TimersMatchPending
  WaitsForTheRightThing
  ReconnectedMeansResent
  ResendBudget
  LateResponseTolerated
CHECK_DEADLOCK FALSE
