SPECIFICATION MCSpec
CONSTANTS
  p1 = p1
  p2 = p2
  NoOne = NoOne
  Producers = {p1, p2}
  MaxEntries = 2
  MaxAttempts = 3
  MaxItems = 3
INVARIANTS QueueInv HandledInOrder NothingLost WritersUseActive
PROPERTIES ImplementsFifo AddReturns
