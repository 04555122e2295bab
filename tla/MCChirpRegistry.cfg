SPECIFICATION Spec
CONSTANTS
  t1 = t1
  t2 = t2
  a1 = a1
  Threads = {t1, t2}
  Addrs = {a1}
  Window = 3
  GapCap = 3
  SaveEvery = 2
  JobEvery = 1
  MaxTime = 5
  MaxShares = 3
  MaxCrashes = 1
  MaxFailures = 1
SYMMETRY Symm
CHECK_DEADLOCK FALSE
INVARIANTS PersistedSoon TenureBounded
PROPERTIES DrawCountsWindow
