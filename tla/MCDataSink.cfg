SPECIFICATION Spec
CONSTANTS
  h1 = h1
  t1 = t1
  t2 = t2
  s1 = s1
  s2 = s2
  Keys <- OneChunk
  Handlers <- OneReader
  Tasks <- MCTasks
  Hosts <- MCHosts
  LoadedBefore <- OneChunk
  MaxCalls = 3
  NoKey = NoKey
  Nobody = Nobody
  Garbage = Garbage
  Missing = Missing
  Unsent = Unsent
\* The calls are bounded, and a second load of a chunk blocks for ever.
CHECK_DEADLOCK FALSE
INVARIANTS
  TypeOK
  LocationFollowsDeposit
  PurgedIsLocated
  DirtyIsIndexed
PROPERTIES
  TasksEnd
