CONSTANTS
  Blob <- MCBlob
  Envelope <- MCEnvelope
  Contents <- MCContents
  Offset = 1
  MaxCelestia = 4
SPECIFICATION MCFairSpec
INVARIANTS
  TypeOK
  FinalizedPrefix
  ParentLinked
  HashIndexExact
  StateRootExtends
  ReferencesResolved
  StoreMatchesBlocks
  AppliesUnlessFirstEmpty
PROPERTIES
  AppendOnly
  LedgerSpec
  LearnedHeightsFinalized
