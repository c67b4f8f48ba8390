\* Three callers with one handle each, two runtimes; two resets on drop may
\* fail, and two creations: as many as there are places to lose.
\* After those nothing can move any more: every caller is parked in checkout
\* and no runtime is left to be returned, so the system does stop.
SPECIFICATION FairSpec
CONSTANTS
  Callers = {c1, c2, c3}
  MaxRuntimes = 2
  ResetPolicy = "Manual"
  HandlesPerCaller = 1
  MaxCreateFailures = 2
  MaxResetFailures = 2
INVARIANTS ExclusiveCheckout NoLostWakeup
PROPERTIES WaitersWoken ImplementsPool
CHECK_DEADLOCK FALSE
