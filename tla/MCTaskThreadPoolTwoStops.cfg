SPECIFICATION Spec
CONSTANTS
  Workers = {w1, w2}
  Controllers = {c1, c2}
  MaxTasks = 1
  MaxQueue = 1
SYMMETRY WorkerSymmetry
INVARIANTS
  StopReturnsDrained
CHECK_DEADLOCK FALSE
