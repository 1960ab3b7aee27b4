CONSTANTS
  w1 = w1
  w2 = w2
  Workers <- MCWorkers
  BatchSize = 2
  MaxHeight = 6
  NonEmpty <- MCNonEmpty
  Failures = {"store"}
SPECIFICATION FairSpec
PROPERTY SyncAlwaysReturns
CHECK_DEADLOCK FALSE
