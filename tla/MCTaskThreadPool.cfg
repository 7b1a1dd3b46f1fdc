SPECIFICATION FairSpec
CONSTANTS
  Workers = {w1, w2, w3}
  Controllers = {c1, c2}
  MaxTasks = 3
  MaxQueue = 2
INVARIANTS
  TasksConserved
  StoppedIsDrained
  NoLostWakeup
  TakenInOrder
PROPERTIES
  ImplementsTaskPool
  AcceptedTasksRun
  StopCompletes
CHECK_DEADLOCK FALSE
