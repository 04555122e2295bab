SPECIFICATION RingSpec
CONSTANTS
  RingSize = 3
  MaxRetries = 1
  AcceptWaits = 4
  MaxQuick = 1
  MaxBlock = 2
  MaxSignals = 1
  MaxNamed = 1
  MaxUrgent = 1
  MaxErrors = 1
  MaxClock = 1
CHECK_DEADLOCK FALSE
INVARIANTS LastTemplatesKept NotificationServed
