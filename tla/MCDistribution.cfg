SPECIFICATION Spec
CONSTANTS
  Stager = {s1, s2}
  Engine = {e1, e2}
  Variant = {core, full}
  WithWheels = {full}
  Nothing = nothing
  Cut = cut
  UnderDefaultRoot = TRUE
  MaxStages = 2
  MaxBoots = 2
  MaxFaults = 1
INVARIANTS
  VerifiedIsWhole
  RunsWhatWasVerified
  SameBytesPerKey
SYMMETRY Symmetry
CHECK_DEADLOCK FALSE
