SPECIFICATION Spec
CONSTANTS
  None = None
  Callers = {c1}
  Servers = {s1, s2}
  Keys <- MCKeys
  Swarm <- MCSwarm
  Hash <- MCHash
  MaxCalls = 3
  MaxTries = 1
CHECK_DEADLOCK FALSE
INVARIANTS
  TypeOK
  JoinedAreListed
PROPERTIES
  KeepsEntries
