\* Three invocations; every order of their threads' steps.
SPECIFICATION FairWatchdogSpec
CONSTANTS MaxInvocations = 3
INVARIANTS TimeoutsAreReported InterruptsAreExplained
PROPERTIES RunawayIsStopped
\* After the last invocation nothing is left to do.
CHECK_DEADLOCK FALSE
