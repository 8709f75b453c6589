SPECIFICATION Spec
CONSTANTS
  MaxTransfers = 2
  Chunks = {c1, c2}
  Endpoints = 2
  MaxFaults = 2
  None = None
  Spoilt = Spoilt
CHECK_DEADLOCK FALSE
INVARIANTS
  TypeOK
PROPERTIES
  KeepsChunks
  ExchangesComplete
