------------------------------- MODULE Watchdog -------------------------------
(***************************************************************************)
(* The wall-clock watchdog (crates/aardvark-core/src/runtime/watchdog.rs)  *)
(* and the part of run_session_with_strategy_and_cleanup that uses it.     *)
(*                                                                         *)
(* One runtime thread runs invocations one after the other on one V8       *)
(* isolate; every invocation with a wall limit has a watchdog thread of    *)
(* its own.  The two share the channel, the fired flag and the isolate's   *)
(* termination request, and each access is a step.                         *)
(***************************************************************************)
EXTENDS Naturals

CONSTANT MaxInvocations   \* bound: invocations of the isolate

ASSUME WatchdogAssumption == MaxInvocations \in Nat \ {0}

VARIABLES
  runtime,      \* the runtime thread
  latest,       \* the current (or last) invocation
  limited,      \* invocations that have a watchdog
  thread,       \* the watchdog thread of each invocation
  cancelled,    \* invocations whose channel has the message or lost its
                \* sender
  fired,        \* invocations whose fired flag is set
  requests,     \* the isolate's termination request: who made it, {} for none
  timedOut,     \* what complete read from the flag
  verdict,      \* of each invocation, "none" until it ends
  overran,      \* history: invocations whose guest their own watchdog stopped
  stoppedBy,    \* history: whose requests V8 answered in each invocation
  late          \* history: invocations whose end did not stop their thread

began == <<latest, limited>>
shared == <<cancelled, fired, requests>>
interrupts == <<overran, stoppedBy, late>>
watchdogVars ==
  <<runtime, latest, limited, thread, cancelled, fired, requests, timedOut,
    verdict, overran, stoppedBy, late>>

Invocations == 1..MaxInvocations

WatchdogInit ==
  /\ runtime = "idle" /\ latest = 0
  /\ limited = {} /\ cancelled = {} /\ fired = {} /\ requests = {}
  /\ overran = {} /\ late = {}
  /\ thread = [i \in Invocations |-> "off"]
  /\ timedOut = FALSE
  /\ verdict = [i \in Invocations |-> "none"]
  /\ stoppedBy = [i \in Invocations |-> {}]

InFlight(i) == thread[i] \in {"expired", "flagged"}

-----------------------------------------------------------------------------
(* The runtime thread                                                      *)

(* arm_watchdog: no wall limit, or a limit of zero, arms nothing.          *)
Arm(limit) ==
  /\ runtime = "idle" /\ latest < MaxInvocations
  /\ latest' = latest + 1
  /\ limited' = IF limit THEN limited \cup {latest'} ELSE limited
  /\ thread' = IF limit THEN [thread EXCEPT ![latest'] = "waiting"] ELSE thread
  /\ timedOut' = FALSE
  /\ runtime' = "hooks"
  /\ UNCHANGED <<shared, verdict, interrupts>>

(* An Err of a strategy hook leaves through `?`: the guard is dropped,     *)
(* which closes the channel; nothing is cancelled.                         *)
LeaveEarly ==
  /\ cancelled' = cancelled \cup {latest}
  /\ verdict' = [verdict EXCEPT ![latest] = "error"]
  /\ late' = late \cup {latest}
  /\ runtime' = "idle"

HookFails ==
  /\ runtime \in {"hooks", "post"}
  /\ LeaveEarly
  /\ UNCHANGED <<began, thread, fired, requests, timedOut, overran, stoppedBy>>

(* V8 answers a termination request while JavaScript or Python runs: the   *)
(* frames unwind and the request is consumed.                              *)
Unwind ==
  /\ requests # {}
  /\ requests' = {}
  /\ stoppedBy' = [stoppedBy EXCEPT ![latest] = @ \cup requests]

HookInterrupted ==
  /\ runtime \in {"hooks", "post"}
  /\ Unwind
  /\ LeaveEarly
  /\ UNCHANGED <<began, thread, fired, timedOut, overran>>

Invoke ==
  /\ runtime = "hooks"
  /\ runtime' = "guest"
  /\ UNCHANGED <<began, thread, shared, timedOut, verdict, interrupts>>

(* strategy.invoke returned: the post hooks run only after an Ok.          *)
GuestReturns ==
  /\ runtime = "guest"
  /\ \E next \in {"post", "returned"} : runtime' = next
  /\ UNCHANGED <<began, thread, shared, timedOut, verdict, interrupts>>

(* The JavaScript strategy makes an Ok with an exception of it, so that    *)
(* the post hooks run after it too.                                        *)
GuestInterrupted ==
  /\ runtime = "guest"
  /\ Unwind
  /\ overran' = overran \cup (requests \cap {latest})
  /\ \E next \in {"post", "returned"} : runtime' = next
  /\ UNCHANGED <<began, thread, cancelled, fired, timedOut, verdict, late>>

HooksReturn ==
  /\ runtime = "post"
  /\ runtime' = "returned"
  /\ UNCHANGED <<began, thread, shared, timedOut, verdict, interrupts>>

(* complete: cancel_tx.send.                                               *)
SendCancel ==
  /\ runtime = "returned" /\ latest \in limited
  /\ cancelled' = cancelled \cup {latest}
  /\ runtime' = "sent"
  /\ UNCHANGED <<began, thread, fired, requests, timedOut, verdict,
                 interrupts>>

LoadFired ==
  /\ runtime = "sent"
  /\ timedOut' = (latest \in fired)
  /\ runtime' = "loaded"
  /\ UNCHANGED <<began, thread, shared, verdict, interrupts>>

(* Mutant: the request is left pending.                                    *)
CancelNothing ==
  /\ runtime = "loaded"
  /\ late' = IF InFlight(latest) THEN late \cup {latest} ELSE late
  /\ runtime' = "cleanup"
  /\ UNCHANGED <<began, thread, shared, timedOut, verdict, overran,
                 stoppedBy>>

CancelTerminate ==
  /\ runtime = "loaded"
  /\ requests' = {}
  /\ late' = IF InFlight(latest) THEN late \cup {latest} ELSE late
  /\ runtime' = "cleanup"
  /\ UNCHANGED <<began, thread, cancelled, fired, timedOut, verdict,
                 overran, stoppedBy>>

NoGuard ==
  /\ runtime = "returned" /\ latest \notin limited
  /\ runtime' = "cleanup"
  /\ UNCHANGED <<began, thread, shared, timedOut, verdict, interrupts>>

(* Diagnostics and cleanup run JavaScript too; their errors are dropped.   *)
CleanupInterrupted ==
  /\ runtime = "cleanup" /\ requests # {}
  /\ requests' = {}
  /\ UNCHANGED <<runtime, began, thread, cancelled, fired, timedOut, verdict,
                 interrupts>>

Finish ==
  /\ runtime = "cleanup"
  /\ verdict' = [verdict EXCEPT ![latest] =
                   IF timedOut THEN "timeout" ELSE "ended"]
  /\ runtime' = "idle"
  /\ UNCHANGED <<began, thread, shared, timedOut, interrupts>>

-----------------------------------------------------------------------------
(* The watchdog thread of invocation i                                     *)

(* recv_timeout returns Timeout: nothing was in the channel in time.       *)
Expires(i) ==
  /\ thread[i] = "waiting" /\ i \notin cancelled
  /\ thread' = [thread EXCEPT ![i] = "expired"]
  /\ UNCHANGED <<runtime, began, shared, timedOut, verdict, interrupts>>

(* Mutant: terminate_execution first, the flag afterwards.                 *)
TerminateFirst(i) ==
  /\ thread[i] = "expired"
  /\ requests' = requests \cup {i}
  /\ thread' = [thread EXCEPT ![i] = "flagged"]
  /\ UNCHANGED <<runtime, began, cancelled, fired, timedOut, verdict,
                 interrupts>>

StoreFired(i) ==
  /\ thread[i] = "expired"
  /\ fired' = fired \cup {i}
  /\ thread' = [thread EXCEPT ![i] = "flagged"]
  /\ UNCHANGED <<runtime, began, cancelled, requests, timedOut, verdict,
                 interrupts>>

(* Mutant: the flag is set and nothing is terminated.                      *)
TerminateNothing(i) ==
  /\ thread[i] = "flagged"
  /\ thread' = [thread EXCEPT ![i] = "done"]
  /\ UNCHANGED <<runtime, began, shared, timedOut, verdict, interrupts>>

TerminateExecution(i) ==
  /\ thread[i] = "flagged"
  /\ requests' = requests \cup {i}
  /\ thread' = [thread EXCEPT ![i] = "done"]
  /\ UNCHANGED <<runtime, began, cancelled, fired, timedOut, verdict,
                 interrupts>>

(* recv_timeout returns Ok or Disconnected.                                *)
IsCancelled(i) ==
  /\ thread[i] = "waiting" /\ i \in cancelled
  /\ thread' = [thread EXCEPT ![i] = "done"]
  /\ UNCHANGED <<runtime, began, shared, timedOut, verdict, interrupts>>

Watch(i) ==
  Expires(i) \/ StoreFired(i) \/ TerminateExecution(i) \/ IsCancelled(i)

Complete == SendCancel \/ LoadFired \/ CancelTerminate \/ NoGuard \/ Finish

WatchdogNext ==
  \/ \E limit \in BOOLEAN : Arm(limit)
  \/ HookFails \/ HookInterrupted \/ Invoke
  \/ GuestReturns \/ GuestInterrupted \/ HooksReturn
  \/ Complete \/ CleanupInterrupted
  \/ \E i \in Invocations : Watch(i)

WatchdogSpec == WatchdogInit /\ [][WatchdogNext]_watchdogVars

(* The clock runs, V8 answers a request, and the host side goes on; a      *)
(* guest need not return by itself.                                        *)
FairWatchdogSpec ==
  /\ WatchdogSpec
  /\ WF_watchdogVars(GuestInterrupted) /\ WF_watchdogVars(Complete)
  /\ \A i \in Invocations : WF_watchdogVars(Watch(i))

-----------------------------------------------------------------------------
(* Properties                                                              *)

WatchdogTypeOK ==
  /\ runtime \in {"idle", "hooks", "guest", "post", "returned", "sent",
                  "loaded", "cleanup"}
  /\ latest \in 0..MaxInvocations
  /\ limited \subseteq 1..latest /\ cancelled \subseteq 1..latest
  /\ fired \subseteq limited /\ requests \subseteq fired
  /\ thread \in [Invocations ->
                  {"off", "waiting", "expired", "flagged", "done"}]
  /\ timedOut \in BOOLEAN
  /\ verdict \in [Invocations -> {"none", "ended", "timeout", "error"}]
  /\ overran \subseteq fired
  /\ stoppedBy \in [Invocations -> SUBSET Invocations]
  /\ late \subseteq 1..latest

(* A guest stopped by its own watchdog never ends as if it had returned:   *)
(* complete does not miss the flag of the thread that stopped the guest,   *)
(* and only the error of a hook after it takes the place of                *)
(* TimeoutExceeded.                                                        *)
TimeoutsAreReported ==
  \A i \in overran : verdict[i] # "ended"

(* An invocation is stopped by an earlier one's watchdog only when that    *)
(* thread was past recv_timeout as its invocation ended, or that           *)
(* invocation left without complete: everything else is cancelled.         *)
InterruptsAreExplained ==
  \A i \in Invocations : stoppedBy[i] \ {i} \subseteq late

(* A guest that never returns is stopped once its limit has passed.        *)
RunawayIsStopped ==
  \A i \in Invocations :
    runtime = "guest" /\ latest = i /\ i \in limited
      ~> ~(runtime = "guest" /\ latest = i)
===============================================================================
