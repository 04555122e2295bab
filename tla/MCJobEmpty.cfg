SPECIFICATION FairSpec
CONSTANTS
  w1 = w1
  w2 = w2
  NoClient = NoClient
  Threads = {w1, w2}
  Started = {w1}
  Client <- Nobody
  MaxHeight = 1
  MaxUrgent = 1
  MaxNormal = 0
CHECK_DEADLOCK FALSE

PROPERTIES EmptyWorkReplaced
