\* Two callers, three archives of two bundles, room for one host.
SPECIFICATION FairSpec
CONSTANTS
  d1 = d1
  d2 = d2
  d3 = d3
  k1 = k1
  k2 = k2
  Callers = {c1, c2}
  Digests = {d1, d2, d3}
  Keys = {k1, k2}
  KeyOf <- EqualArchives
  MaxReady = 1
  MaxArtifacts = 2
  ByArtifact = TRUE
  MaxFailures = 1
  MaxRemovals = 2
INVARIANTS CachesConsistent NothingFromBeforeClear OneCreatorPerKey
PROPERTIES WaitersWoken
