\* Two callers and every operation, on two isolates, in the queue mode Block:
\* two breaches of a guard rail, a failing creation, warming, one change of size,
\* which may take one isolate or both.
SPECIFICATION Spec
CONSTANTS
  Callers = {c1, c2}
  InitialMax = 2
  InitialDesired = 0
  QueueModes = {"Block"}
  MaxQueue = 1
  Sizes = {0, 1}
  Warming = TRUE
  MaxBreaches = 2
  MaxFailures = 1
  MaxAdjustments = 1
SYMMETRY Symmetry
INVARIANTS SoundUnlessTrimmed
PROPERTIES ShrinkKeepsOldest
