\* Three callers, two keys, a failure and a removal.
SPECIFICATION FairPoolsSpec
CONSTANTS
  Callers = {c1, c2, c3}
  Keys = {k1, k2}
  MaxFailures = 1
  MaxRemovals = 1
INVARIANTS OneCreatorPerPool
PROPERTIES NothingIsReplaced WaitersWoken
