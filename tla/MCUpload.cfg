CONSTANTS
  p1 = p1
  p2 = p2
  Paths <- MCPaths
  Versions <- MCVersions
  Size <- MCSize
  QueueSize = 1
  MaxTxSize = 2
  MaxHeight = 5
  Failures = {"lost", "refused", "kill"}
SPECIFICATION FairSpec
INVARIANT BatchFits
INVARIANT ItemsKept
INVARIANT RecordsPublished
INVARIANT ManifestsResolve
PROPERTY UploadReturns
