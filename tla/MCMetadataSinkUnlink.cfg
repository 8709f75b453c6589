SPECIFICATION Spec
CONSTANTS
  k1 = k1
  h1 = h1
  h2 = h2
  t1 = t1
  t2 = t2
  Keys <- MCKeys
  Handlers <- MCHandlers
  Tasks <- MCTasks
  MaxCalls = 3
  NoKey = NoKey
  Nobody = Nobody
  Garbage = Garbage
  Missing = Missing
CHECK_DEADLOCK FALSE
INVARIANT UnlinkReadsItsFile
