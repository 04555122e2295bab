SPECIFICATION Spec
CONSTANTS
  NumSlots = 2
  NumPlaces = 4
  Coinbases = {0}
  Kinds <- SmallKinds
  Requests = {0, 2}
  MaxJobs = 5
  MaxShares = 3
  MaxSessions = 2
  MaxQueue = 2
CHECK_DEADLOCK FALSE
INVARIANTS ShareResolves FlagsHonest 
