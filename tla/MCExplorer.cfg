CONSTANTS
  c1 = c1
  c2 = c2
  f1 = f1
  f2 = f2
  d1 = d1
  MaxHeight = 3
  Body <- MCBody
  ChunksOf <- MCChunksOf
  FilesOf <- MCFilesOf
  StartHeights = {0, 2}
  PageSize = 1
  RecentLimit = 2
  MaxApiLimit = 2
  SearchLimit = 1
  ApiLimits <- MCApiLimits
  Searches <- MCSearches
  MaxFailures = 1
  Failures = {"kill", "block", "item", "stream", "query"}
SPECIFICATION Spec
INVARIANT NoBlockSkipped
INVARIANT StorageCounts
INVARIANT RowsComplete
INVARIANT PagesCover
INVARIANT StorageBacked
INVARIANT ChunksListed
