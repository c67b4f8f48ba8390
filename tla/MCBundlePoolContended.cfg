\* Three callers and two isolates, one creation fails.
SPECIFICATION FairSpec
CONSTANTS
  Callers = {c1, c2, c3}
  InitialMax = 2
  InitialDesired = 0
  QueueModes = {"Block", "FailFast"}
  MaxQueue = 1
  Sizes = {}
  Warming = FALSE
  MaxBreaches = 0
  MaxFailures = 1
  MaxAdjustments = 0
INVARIANTS AdmissionIsSound StrandedOnlyByFailure
PROPERTIES WaitersWoken
