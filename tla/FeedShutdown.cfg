CONSTANTS
  c1 = c1
  s1 = s1
  s2 = s2
  Clients <- MCClients
  Streams <- MCStreams
  Buffer = 1
  Window = 1
  MaxHeight = 2
  MaxLosses = 0
  Failures = {"node"}
SPECIFICATION FairSpec
PROPERTY ShutdownCompletes
CHECK_DEADLOCK FALSE
