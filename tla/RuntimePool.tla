----------------------------- MODULE RuntimePool -----------------------------
(***************************************************************************)
(* PyRuntimePool (crates/aardvark-core/src/pool.rs): a bounded pool of     *)
(* language runtimes.  A caller checks a runtime out, runs sessions on it  *)
(* and drops the handle; the drop resets the runtime (under                *)
(* ResetPolicy::Manual) and gives it back.                                 *)
(*                                                                         *)
(* The pool's mutex is held only inside one step of the model; everything  *)
(* the code does after releasing it (building an engine, resetting one,    *)
(* the notify after the push) is a step of its own, so the steps of other  *)
(* callers interleave there exactly where the lock is free.                *)
(*                                                                         *)
(* Runtimes are identified by the number the pool puts into their id       *)
(* ("rt-<n>").                                                             *)
(***************************************************************************)
EXTENDS Naturals, Sequences, FiniteSets

CONSTANTS
  Callers,            \* host threads that share the pool
  MaxRuntimes,        \* PoolConfig::max_runtimes
  ResetPolicy,        \* runtime_config.reset_policy
  HandlesPerCaller,   \* bound: handles one caller keeps at a time
  MaxCreateFailures,  \* bound: PyRuntime::new calls that fail
  MaxResetFailures    \* bound: resets on drop that fail

ASSUME RuntimePoolAssumption ==
  /\ IsFiniteSet(Callers)
  /\ MaxRuntimes \in Nat
  /\ ResetPolicy \in {"Manual", "AfterInvocation"}
  /\ HandlesPerCaller \in Nat
  /\ MaxCreateFailures \in Nat
  /\ MaxResetFailures \in Nat

VARIABLES
  queue,     \* PoolState::queue, the runtimes at rest, oldest first
  total,     \* PoolState::total
  nextId,    \* PoolInner::next_id
  waiters,   \* callers parked on the condvar, longest parked first
  pc,        \* where each caller is inside checkout or drop
  held,      \* the runtimes behind each caller's live handles
  cur,       \* the runtime a caller is creating, resetting or returning
  dirty,     \* runtimes in which handler code ran since their last reset
  createFailures, resetFailures  \* failures so far (history and bounds)

vars == <<queue, total, nextId, waiters, pc, held, cur, dirty,
          createFailures, resetFailures>>

(* "ready": outside the pool.  "checkout": about to take the lock in the   *)
(* loop of checkout, on entry or after a wake-up.  "notifying": pushed the *)
(* runtime, released the lock, notify_one still to come.                   *)
Stages == {"ready", "checkout", "waiting", "creating", "resetting",
           "returning", "notifying"}

NoRuntime == 0

Elements(s) == {s[i] : i \in 1..Len(s)}

Queued == Elements(queue)

(* Callers that own the runtime in cur.                                    *)
InHand(c) == pc[c] \in {"creating", "resetting", "returning"}

(* The runtimes a caller owns: behind its handles, or in its hands.        *)
Owned(c) == held[c] \cup (IF InHand(c) THEN {cur[c]} ELSE {})

(* Every runtime that exists or is being created.                          *)
Live == Queued \cup UNION {Owned(c) : c \in Callers}

-----------------------------------------------------------------------------

Init ==
  /\ queue = <<>>
  /\ total = 0
  /\ nextId = 1
  /\ waiters = <<>>
  /\ pc = [c \in Callers |-> "ready"]
  /\ held = [c \in Callers |-> {}]
  /\ cur = [c \in Callers |-> NoRuntime]
  /\ dirty = {}
  /\ createFailures = 0
  /\ resetFailures = 0

Goto(c, stage) == pc' = [pc EXCEPT ![c] = stage]

(* Mutant: the waiters are not told.                                       *)
NoNotifyThenReady(c) ==
  /\ Goto(c, "ready")
  /\ UNCHANGED waiters

(* condvar.notify_one(), after which caller c is done: the caller parked   *)
(* longest, if any, goes back to the top of checkout's loop.               *)
NotifyOneThenReady(c) ==
  IF waiters = <<>>
  THEN /\ pc' = [pc EXCEPT ![c] = "ready"]
       /\ UNCHANGED waiters
  ELSE /\ pc' = [pc EXCEPT ![c] = "ready", ![Head(waiters)] = "checkout"]
       /\ waiters' = Tail(waiters)

-----------------------------------------------------------------------------
(* PyRuntimePool::checkout                                                 *)

Checkout(c) ==
  /\ pc[c] = "ready"
  /\ Cardinality(held[c]) < HandlesPerCaller
  /\ Goto(c, "checkout")
  /\ UNCHANGED <<queue, total, nextId, waiters, held, cur, dirty,
                 createFailures, resetFailures>>

(* Mutant: the front of the queue is handed out but stays queued.          *)
PeekQueued(c) ==
  /\ pc[c] = "checkout"
  /\ queue # <<>>
  /\ held' = [held EXCEPT ![c] = @ \cup {Head(queue)}]
  /\ Goto(c, "ready")
  /\ UNCHANGED <<queue, total, nextId, waiters, cur, dirty,
                 createFailures, resetFailures>>

PopQueued(c) ==
  /\ pc[c] = "checkout"
  /\ queue # <<>>
  /\ queue' = Tail(queue)
  /\ held' = [held EXCEPT ![c] = @ \cup {Head(queue)}]
  /\ Goto(c, "ready")
  /\ UNCHANGED <<total, nextId, waiters, cur, dirty,
                 createFailures, resetFailures>>

(* Below the limit: count the runtime and allocate its id under the lock,  *)
(* then build it with the lock released.                                   *)
ReserveNew(c) ==
  /\ pc[c] = "checkout"
  /\ queue = <<>>
  /\ total < MaxRuntimes
  /\ total' = total + 1
  /\ cur' = [cur EXCEPT ![c] = nextId]
  /\ nextId' = nextId + 1
  /\ Goto(c, "creating")
  /\ UNCHANGED <<queue, waiters, held, dirty, createFailures, resetFailures>>

WaitForRuntime(c) ==
  /\ pc[c] = "checkout"
  /\ queue = <<>>
  /\ total >= MaxRuntimes
  /\ waiters' = Append(waiters, c)
  /\ Goto(c, "waiting")
  /\ UNCHANGED <<queue, total, nextId, held, cur, dirty,
                 createFailures, resetFailures>>

CreateSucceeds(c) ==
  /\ pc[c] = "creating"
  /\ held' = [held EXCEPT ![c] = @ \cup {cur[c]}]
  /\ cur' = [cur EXCEPT ![c] = NoRuntime]
  /\ Goto(c, "ready")
  /\ UNCHANGED <<queue, total, nextId, waiters, dirty,
                 createFailures, resetFailures>>

(* PyRuntime::new(..)? returns the error to the caller: the runtime never  *)
(* exists, and total keeps counting it.                                    *)
CreateFails(c) ==
  /\ pc[c] = "creating"
  /\ createFailures < MaxCreateFailures
  /\ createFailures' = createFailures + 1
  /\ cur' = [cur EXCEPT ![c] = NoRuntime]
  /\ Goto(c, "ready")
  /\ UNCHANGED <<queue, total, nextId, waiters, held, dirty, resetFailures>>

-----------------------------------------------------------------------------
(* The handle in use, and its drop                                         *)

(* run_session on a checked-out runtime, by the way it returns.  A session *)
(* that runs to the end is rolled back at once under AfterInvocation; one  *)
(* that exceeds a budget or fails in a strategy hook returns early,        *)
(* without the reset, whatever the policy.                                 *)
RunSession(c, r) ==
  /\ pc[c] = "ready"
  /\ r \in held[c]
  /\ \E completed \in BOOLEAN :
       dirty' = IF completed /\ ResetPolicy = "AfterInvocation"
                THEN dirty \ {r}
                ELSE dirty \cup {r}
  /\ UNCHANGED <<queue, total, nextId, waiters, pc, held, cur,
                 createFailures, resetFailures>>

(* Mutant: the drop never resets.                                          *)
DropWithoutReset(c, r) ==
  /\ pc[c] = "ready"
  /\ r \in held[c]
  /\ held' = [held EXCEPT ![c] = @ \ {r}]
  /\ cur' = [cur EXCEPT ![c] = r]
  /\ Goto(c, "returning")
  /\ UNCHANGED <<queue, total, nextId, waiters, dirty,
                 createFailures, resetFailures>>

DropHandle(c, r) ==
  /\ pc[c] = "ready"
  /\ r \in held[c]
  /\ held' = [held EXCEPT ![c] = @ \ {r}]
  /\ cur' = [cur EXCEPT ![c] = r]
  /\ Goto(c, IF ResetPolicy = "Manual" THEN "resetting" ELSE "returning")
  /\ UNCHANGED <<queue, total, nextId, waiters, dirty,
                 createFailures, resetFailures>>

ResetSucceeds(c) ==
  /\ pc[c] = "resetting"
  /\ dirty' = dirty \ {cur[c]}
  /\ Goto(c, "returning")
  /\ UNCHANGED <<queue, total, nextId, waiters, held, cur,
                 createFailures, resetFailures>>

(* Mutant: a runtime whose reset failed keeps its place in total.          *)
ResetFailsKeepsTotal(c) ==
  /\ pc[c] = "resetting"
  /\ resetFailures < MaxResetFailures
  /\ resetFailures' = resetFailures + 1
  /\ dirty' = dirty \ {cur[c]}
  /\ cur' = [cur EXCEPT ![c] = NoRuntime]
  /\ NotifyOneThenReady(c)
  /\ UNCHANGED <<queue, total, nextId, held, createFailures>>

(* A runtime that cannot be reset is dropped: total.saturating_sub(1) and  *)
(* notify_one, both under the lock.                                        *)
ResetFails(c) ==
  /\ pc[c] = "resetting"
  /\ resetFailures < MaxResetFailures
  /\ resetFailures' = resetFailures + 1
  /\ dirty' = dirty \ {cur[c]}
  /\ total' = IF total = 0 THEN 0 ELSE total - 1
  /\ cur' = [cur EXCEPT ![c] = NoRuntime]
  /\ NotifyOneThenReady(c)
  /\ UNCHANGED <<queue, nextId, held, createFailures>>

ReturnRuntime(c) ==
  /\ pc[c] = "returning"
  /\ queue' = Append(queue, cur[c])
  /\ cur' = [cur EXCEPT ![c] = NoRuntime]
  /\ Goto(c, "notifying")
  /\ UNCHANGED <<total, nextId, waiters, held, dirty,
                 createFailures, resetFailures>>

NotifyReturned(c) ==
  /\ pc[c] = "notifying"
  /\ NotifyOneThenReady(c)
  /\ UNCHANGED <<queue, total, nextId, held, cur, dirty,
                 createFailures, resetFailures>>

-----------------------------------------------------------------------------

(* The steps a caller takes by itself once it is inside the pool.          *)
PoolStep(c) ==
  \/ PopQueued(c)
  \/ ReserveNew(c)
  \/ WaitForRuntime(c)
  \/ CreateSucceeds(c)
  \/ CreateFails(c)
  \/ ResetSucceeds(c)
  \/ ResetFails(c)
  \/ ReturnRuntime(c)
  \/ NotifyReturned(c)

Next ==
  \E c \in Callers :
    \/ PoolStep(c)
    \/ Checkout(c)
    \/ \E r \in held[c] : RunSession(c, r) \/ DropHandle(c, r)

Spec == Init /\ [][Next]_vars

(* A caller inside the pool keeps running, and every handle is dropped     *)
(* some day; nothing obliges a caller to check out or to run a session.    *)
FairSpec ==
  /\ Spec
  /\ \A c \in Callers :
       /\ WF_vars(PoolStep(c))
       /\ WF_vars(\E r \in held[c] : DropHandle(c, r))

-----------------------------------------------------------------------------
(* Properties                                                              *)

TypeOK ==
  /\ queue \in Seq(Nat \ {0})
  /\ total \in Nat
  /\ nextId \in Nat \ {0}
  /\ waiters \in Seq(Callers)
  /\ pc \in [Callers -> Stages]
  /\ held \in [Callers -> SUBSET (Nat \ {0})]
  /\ cur \in [Callers -> Nat]
  /\ \A c \in Callers : InHand(c) => cur[c] # NoRuntime
  /\ dirty \subseteq Nat \ {0}
  /\ createFailures \in 0..MaxCreateFailures
  /\ resetFailures \in 0..MaxResetFailures

Distinct(s) == \A i, j \in 1..Len(s) : s[i] = s[j] => i = j

(* A runtime is in one place: queued once, or behind one handle of one     *)
(* caller, or in the hands of the one caller creating or dropping it.      *)
(* PyRuntime is single-threaded, so two handles on one runtime would be    *)
(* two threads inside one V8 isolate.                                      *)
ExclusiveCheckout ==
  /\ Distinct(queue)
  /\ \A c \in Callers :
       /\ Owned(c) \cap Queued = {}
       /\ InHand(c) => cur[c] \notin held[c]
       /\ \A d \in Callers \ {c} : Owned(c) \cap Owned(d) = {}

(* PoolConfig::max_runtimes: "Maximum number of runtimes allowed in the    *)
(* pool at any given time", those still being built included.              *)
CapacityRespected == Cardinality(Live) <= MaxRuntimes

(* A runtime goes back on the queue only after its reset: no caller ever   *)
(* pops a runtime in which an earlier caller's handler code ran.           *)
QueuedRuntimesClean == Queued \cap dirty = {}

(* Runtimes at rest plus runtimes that may still be created.               *)
Available == Len(queue) + (MaxRuntimes - total)

(* Callers whose next step under the lock can take what is available, or   *)
(* who still owe a notify.                                                 *)
Awake == {c \in Callers : pc[c] \in {"checkout", "notifying"}}

(* No lost wake-up: whenever someone is parked on the condvar, every       *)
(* available runtime is already spoken for by a caller that is awake or by *)
(* a notify still to come.  So nobody sleeps beside a free runtime.        *)
NoLostWakeup ==
  waiters # <<>> => Available <= Cardinality(Awake)

(* As many starts have failed as the pool has places: each was counted and *)
(* never uncounted, so there is nothing left that anybody could return.    *)
CapacityLost == createFailures >= MaxRuntimes

(* A caller parked in checkout is woken (it may still lose the race for    *)
(* the runtime and park again) as long as one runtime is left: only when   *)
(* failed starts have used up every place does checkout sleep for ever.    *)
(* A pool that "lazily creates runtimes up to the configured limit"        *)
(* (pool.rs:78) would try again instead: pool.rs:104 counts the runtime,   *)
(* and the ? at pool.rs:109 leaves without uncounting it or a notify.      *)
WaitersWoken ==
  \A c \in Callers : pc[c] = "waiting" ~> pc[c] # "waiting" \/ CapacityLost

(* The pool as its clients see it: the runtimes at rest are idle, one being *)
(* created or given back still belongs to the caller.                      *)
Pool == INSTANCE ResourcePool WITH
  Clients <- Callers,
  Capacity <- MaxRuntimes,
  MustClean <- (ResetPolicy = "Manual"),
  idle <- Queued,
  owned <- [c \in Callers |-> Owned(c)],
  used <- dirty

(* Queueing, creating outside the lock, parking and waking implement the   *)
(* plain pool of ResourcePool: at most max_runtimes runtimes, each with    *)
(* one owner, and under Manual none handed on before its reset.            *)
ImplementsPool == Pool!Spec
=============================================================================
