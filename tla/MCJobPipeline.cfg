SPECIFICATION Spec
CONSTANTS
  w1 = w1
  w2 = w2
  NoClient = NoClient
  Threads = {w1, w2}
  Started <- First
  Client <- OnlyFirst
  MaxHeight = 2
  MaxUrgent = 0
  MaxNormal = 0
INVARIANTS FullWorkStaysValid EmptyBeforeFull
