\* A quarantine beside two creations.
SPECIFICATION Spec
CONSTANTS
  Callers = {c1, c2, c3}
  InitialMax = 2
  InitialDesired = 0
  QueueModes = {"Block"}
  MaxQueue = 3
  Sizes = {}
  Warming = FALSE
  MaxBreaches = 1
  MaxFailures = 0
  MaxAdjustments = 0
INVARIANTS OneCallPerIsolate
CHECK_DEADLOCK FALSE
