SPECIFICATION Spec
CONSTANTS
  Nonces = {1, 2, 3}
  Buckets = 2
  Jobs = 3
  Rests = {1}
  InitialItems = 4
  MaxAccepted = 6
CHECK_DEADLOCK FALSE
INVARIANTS ChainsComplete AcceptedOnceUnlessMisplaced
