CONSTANTS
  Unset = Unset
  Bundle = {"b1", "b2"}
  Manifest <- MCManifest
  HostCapabilities = {"rawctx_buffers"}
  Override = {}
  Session <- MCSessions
  Uses <- MCUses
  Request <- MCRequests
  File = {"f"}
  MaxSize = 2
  MaxCalls = 2
  MaxSteps = 2
  MaxFailures = 1
SPECIFICATION Spec
INVARIANTS ReportsMatchCall OutputsAreOwn SeesOwnCall UnderOwnManifest
 
CHECK_DEADLOCK FALSE
