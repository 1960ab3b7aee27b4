CONSTANTS
  d = d
  f = f
  g = g
  x = x
  y = y
  ChainIDs <- MCChainIDs
  Commitments = {d, f, g, x, y}
  Bodies <- MCBodies
  OtherTexts <- MCOtherTexts
  Offset = 5
  ManifestIds <- MCManifestIds
SPECIFICATION Spec
INVARIANT RangeExact
INVARIANT ProofsVerify
INVARIANT BlocksDecode
INVARIANT RootBinds
INVARIANT RestConsistent
