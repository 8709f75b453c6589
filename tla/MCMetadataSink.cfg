SPECIFICATION Spec
CONSTANTS
  k1 = k1
  h1 = h1
  h2 = h2
  t1 = t1
  t2 = t2
  Keys <- MCKeys
  Handlers <- MCHandlers
  Tasks <- MCTasks
  MaxCalls = 5
  NoKey = NoKey
  Nobody = Nobody
  Garbage = Garbage
  Missing = Missing
\* The calls are bounded, and a raced key can block its callers for ever.
CHECK_DEADLOCK FALSE
INVARIANTS
  TypeOK
  OnlyUnlinkDangles
  NoNullEntry
  
  SecondLoadNeedsRace
PROPERTIES
  InsertNeverReplaces
  KeepsAttributes
  CallsReturn
