SPECIFICATION FairSpec
CONSTANTS
  MaxCalls = 1
  MaxPending = 1
  MaxResends = 2
  CallParams <- EveryParam
PROPERTIES
  TimedCallsComplete
  ReconnectWaitEnds
CHECK_DEADLOCK FALSE
