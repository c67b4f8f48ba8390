\* Bundles of both languages, one without a manifest, inline scripts, resets,
\* warm states; every step that may fail.
SPECIFICATION Spec
CONSTANTS
  Bundles = {b1, b2, j, i}
  Nobody = nobody
  JavaScript = {j}
  Manifested = {b1, j, i}
  Inline = {i}
  AfterInvocation = {FALSE, TRUE}
  Cleanups = {"Full", "SharedBuffersOnly"}
  Prewarms = TRUE
  HostResets = TRUE
  WarmStart = {FALSE, TRUE}
  MaxFailures = 2
  MaxResets = 2
INVARIANTS RunsAsMaterialised PreparedUnderOwnPolicy RunsOwnCode FlagsAreTrue
\* A call that panics is the end.
CHECK_DEADLOCK FALSE
