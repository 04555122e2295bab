SPECIFICATION MCSpec
CONSTANTS
  NumPlaces = 2
  Kinds <- MixedKinds
  Changes <- SharedChanges
  VardiffMin = 1
  HighMin = 2
  PoolMins = {1, 2}
  Lotto = TRUE
  Users = {1}
  Tags = {1}
  MaxDiff = 4
  MaxJobs = 2
  MaxWorks = 2
  MaxShares = 1
CHECK_DEADLOCK FALSE
INVARIANTS ClientTypeOK JudgedAsAnnounced BlockTried PoolMinimumKept
