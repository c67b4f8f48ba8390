SPECIFICATION Spec
CONSTANTS
  numpy = numpy
  pandas = pandas
  tests = tests
  ghost = ghost
  Process = {p1, p2}
  Package = {numpy, pandas, tests, ghost}
  Fingerprint = {f1, f2}
  NoFingerprint = none
  Locked = {numpy, pandas, tests}
  Depends <- MCDepends
  Installable = {numpy, pandas}
  Hydratable = {numpy, pandas}
  Requests <- MCRequests
  Limit = 2
  Expires = TRUE
  MaxStarts = 3
  MaxFaults = 1
INVARIANTS
  CompatibleOnly
  ImagesMatchUnlessMixed
  CatalogSound
  MissingOnlyAfterImport
SYMMETRY Symmetry
CHECK_DEADLOCK FALSE
