CONSTANTS
  a = a
  b = b
  c1 = c1
  c2 = c2
  c3 = c3
  sealed = sealed
  plain = plain
  empty = empty
  wrong = wrong
  tree = tree
  vault = vault
  hollow = hollow
  k1 = k1
  k2 = k2
  NoKey = NoKey
  Nonce = Nonce
  NoRange = NoRange
  BadRange = BadRange
  Blank = Blank
  ChunkData <- MCChunkData
  FileManifest <- MCFileManifest
  DirManifest <- MCDirManifest
  MaxBatch = 2
  Jobs <- MCJobs
  Disks <- MCDisks
  ExportFailures = {"rpc", "disk", "kill"}
  MaxRuns = 3
  SubPaths <- MCSubPaths
  Ranges <- MCRanges
  FilesPerPage = 1
  GatewayFailures = {"rpc"}
SPECIFICATION Spec
INVARIANT ExportExact
INVARIANT ExportCompletes
INVARIANT GatewayServes
INVARIANT ListingComplete
CHECK_DEADLOCK FALSE
