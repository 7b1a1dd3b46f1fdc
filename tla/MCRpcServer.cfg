SPECIFICATION Spec
CONSTANTS
  Conns = {c1, c2}
  Methods = {m1}
  RequestIds = {i1, i2}
  MaxRequests = 2
  Settings = {"maxActive", "maxPerConn", "stopCallback"}
  Limits = {1}
  UniqueIds = FALSE
SYMMETRY Symmetry
INVARIANTS
  TypeOK
  RegistryLimits
  TokenFate
  CapacityReleased
  StopIsComplete
CHECK_DEADLOCK FALSE
