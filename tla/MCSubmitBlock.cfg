SPECIFICATION MCSpec
CONSTANTS
  w1 = w1
  w2 = w2
  w3 = w3
  NoOne = NoOne
  Workers = {w1, w2, w3}
  MaxBlocks = 2
  MaxFound = 3
  ExtraNodes = 1
  MaxAttempts = 2
  MaxPrecious = 2
  BackoffStart = 100
  BackoffMax = 2000
INVARIANTS SubmitInv NoMissedWakeup SentEverywhere SubmitterClaims
PROPERTIES ImplementsMailbox EveryBlockServed
