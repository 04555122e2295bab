SPECIFICATION FairSpec
CONSTANTS
  Threads = {1, 2}
  Capacity = 2
  MaxSends = 2
  MaxPending = 1
  MaxInbox = 1
  Cuts = {1}
INVARIANTS OneSession ConfiguredHere PoolUnderstands
PROPERTIES PoolLossHandled
