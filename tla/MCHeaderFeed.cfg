CONSTANTS
  c1 = c1
  s1 = s1
  s2 = s2
  Clients <- MCClients
  Streams <- MCStreams
  Buffer = 1
  Window = 1
  MaxHeight = 3
  MaxLosses = 1
  Failures = {"node", "kill", "index"}
SPECIFICATION FairSpec
INVARIANT NoGap
INVARIANT ClosedOnce
PROPERTY PublishReturns
PROPERTY EventuallyIndexed
