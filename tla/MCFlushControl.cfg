SPECIFICATION Spec
CONSTANTS
  c1 = c1
  c2 = c2
  c3 = c3
  Callers <- MCCallers
  Slots = 2
  MaxFlushes = 5
  NoRoot = NoRoot
\* The flushes are bounded, and the loss of every slot blocks the callers.
CHECK_DEADLOCK FALSE
INVARIANTS
  TypeOK
  SlotConservation
  InFlightBound
  SharedRootNeedsOverlap
PROPERTIES
  LostSlotsStopFlush
  FlushReturns
