SPECIFICATION Spec
CONSTANTS
  ChunkSize = 2
  IntSize = 6
  MaxEnd = 6
  MaxCalls = 4
  Zero = Zero
  Junk = Junk
CHECK_DEADLOCK FALSE
INVARIANTS
  TypeOK
  WrittenAreKept
  PlainFilesAreRead
