SPECIFICATION FairSystem
CONSTANTS
  MaxCalls = 1
  MaxPending = 1
  MaxResends = 1
  CallParams <- SomeCall
  Conns = {c1, c2}
  Methods = {m1}
  Pools = {"none"}
  Limits = {1}
INVARIANTS
  IdsUniquePerConnection
  AnswersAreExpected
  BoundedExecution
PROPERTIES
  EndedCallsFreeTheServer
CHECK_DEADLOCK FALSE
