CONSTANTS
  w1 = w1
  w2 = w2
  Workers <- MCWorkers
  BatchSize = 2
  MaxHeight = 4
  NonEmpty <- MCNonEmpty
  Failures = {"kill", "stream", "block", "store"}
SPECIFICATION FairSpec
INVARIANT TypeOK
INVARIANT NoLoss
INVARIANT CompleteOnSuccess
INVARIANT SameState
PROPERTY SyncReturns
