SPECIFICATION FairSpec
CONSTANTS
  Conns = {c1}
  Methods = {m1}
  RequestIds = {1, 2}
  MaxRequests = 2
  Settings = {"maxPerConn", "maxQueue", "tinyMessages"}
  Limits = {1}
  UniqueIds = TRUE
INVARIANTS
  RefusedNotRun
  CanceledNeverAnswered
PROPERTIES
  ServerStops
  RepliesReleaseCapacity
CHECK_DEADLOCK FALSE
