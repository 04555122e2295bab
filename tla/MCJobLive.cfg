SPECIFICATION FairSpec
CONSTANTS
  w1 = w1
  w2 = w2
  NoClient = NoClient
  Threads = {w1}
  Started = {w1}
  Client <- OnlyFirst
  MaxHeight = 2
  MaxUrgent = 0
  MaxNormal = 1
INVARIANTS HandOutComplete
PROPERTIES StaleWorkReplaced
