SPECIFICATION Spec
CONSTANTS
  t1 = t1
  t2 = t2
  c1 = c1
  c2 = c2
  Tasks <- MCTasks
  Futures <- MCFutures
  Priority <- MCPriority
  Pools <- MCPools
  Callers <- MCCallers
  Sizes = {0, 1, 2}
  Thresholds = {0, 1}
  MaxThreads = 3
  MaxCalls = 3
  NoTask = NoTask
CHECK_DEADLOCK FALSE
INVARIANTS
  TypeOK
  CountersAgree
  WakeupsCoverQueue
  ShutdownDrains
PROPERTIES
  ExecutedOnce
  TasksAreServed
  WorkersEnd
  WaitsReturn
