SPECIFICATION Spec
CONSTANTS
  Conns = {c1}
  Methods = {m1}
  RequestIds = {1}
  MaxRequests = 2
  Settings = {}
  Limits = {1}
  UniqueIds = FALSE
INVARIANTS
  CanceledNeverAnswered
CHECK_DEADLOCK FALSE
