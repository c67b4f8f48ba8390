------------------------------ MODULE BundlePool ------------------------------
(***************************************************************************)
(* BundlePool (crates/aardvark-core/src/persistent/pool/): isolates of one *)
(* bundle, leased to callers through slots.  slots is a vector of optional *)
(* isolates; a creation reserves a slot by pushing None, builds the        *)
(* isolate with the state lock released, and stores it at the reserved     *)
(* index.  A caller holds SlotGuards, pairs of an index and the isolate    *)
(* found there when the guard was made.                                    *)
(*                                                                         *)
(* One step is what the code does under one acquisition of a lock; the     *)
(* options and the pool state have different locks.  The pool's Drop is    *)
(* not modelled: guards and pool handles keep the inner Arc alive, so no   *)
(* caller is inside the pool when it runs.                                 *)
(***************************************************************************)
EXTENDS Subsequences

CONSTANTS
  Callers,        \* host threads that share the pool
  InitialMax,     \* PoolOptions::max_size at construction
  InitialDesired, \* PoolOptions::desired_size at construction
  QueueModes,     \* the values queue_mode may have
  MaxQueue,       \* max_queue (Cardinality(Callers) stands for None)
  Sizes,          \* sizes passed to resize and set_desired_size
  Warming,        \* callers may run warm_all_*
  MaxBreaches,    \* bound: calls that exceed a guard rail (0: no limits set)
  MaxFailures,    \* bound: isolate creations that fail
  MaxAdjustments  \* bound: calls of resize and set_desired_size

ASSUME BundlePoolAssumption ==
  /\ IsFiniteSet(Callers)
  /\ InitialMax \in Nat \ {0}
  /\ InitialDesired \in 0..InitialMax
  /\ QueueModes \subseteq {"Block", "FailFast"}
  /\ MaxQueue \in Nat
  /\ Sizes \subseteq Nat
  /\ Warming \in BOOLEAN
  /\ MaxBreaches \in Nat
  /\ MaxFailures \in Nat
  /\ MaxAdjustments \in Nat

VARIABLES
  slots,     \* PoolState::isolates: an isolate id or None at each index
  idle,      \* PoolState::idle, a stack of indices
  active, creating, waiting,  \* the counters of PoolState
  waiters,   \* callers parked on the condvar, longest parked first
  maxSize, desired,           \* the options resize and set_desired_size change
  queueMode,                  \* the option that never changes
  nextId,    \* isolate_seq
  pc,        \* where each caller is
  job,       \* the operation it is in
  leases,    \* its SlotGuards, in the order it uses them
  limit,     \* max_size as it last read it
  at,        \* the slot it reserved
  target,    \* the size it is growing or shrinking to; Lease in acquire_slot
  result,    \* how its last operation returned
  trimmed,   \* history: a reserved slot was cut off under its owner
  breaches, failures, adjustments  \* bounds only

state == <<slots, idle, active, creating>>
queue == <<waiters, waiting>>
options == <<maxSize, desired>>
bounds == <<breaches, failures, adjustments>>
history == <<queueMode, trimmed>>
plan == <<limit, at, target>>
vars == <<state, queue, options, nextId, pc, job, leases, limit, at, target,
          result, history, bounds>>

None == 0   \* isolate ids start at 1

Lease == -1 \* spawn_isolate(false): the new isolate goes to its creator

Live(i) == i \in 1..Len(slots) /\ slots[i] # None

LiveSlots == {i \in 1..Len(slots) : slots[i] # None}

(* while matches!(isolates.last(), Some(None)) { isolates.pop(); }         *)
PopTrailingNone(s) ==
  SubSeq(s, 1, CHOOSE n \in 0..Len(s) :
                 /\ n > 0 => s[n] # None
                 /\ \A i \in n+1..Len(s) : s[i] = None)

-----------------------------------------------------------------------------

(* BundlePoolInner::new has started the desired isolates before anyone can *)
(* call the pool.                                                          *)
Init ==
  /\ slots = [i \in 1..InitialDesired |-> i]
  /\ idle = [i \in 1..InitialDesired |-> i]
  /\ active = InitialDesired
  /\ creating = 0
  /\ waiting = 0
  /\ waiters = <<>>
  /\ maxSize = InitialMax
  /\ desired = InitialDesired
  /\ nextId = InitialDesired + 1
  /\ pc = [c \in Callers |-> "out"]
  /\ job = [c \in Callers |-> "call"]
  /\ leases = [c \in Callers |-> <<>>]
  /\ limit = [c \in Callers |-> 0]
  /\ at = [c \in Callers |-> 0]
  /\ target = [c \in Callers |-> Lease]
  /\ result = [c \in Callers |-> "ok"]
  /\ queueMode \in QueueModes
  /\ trimmed = FALSE
  /\ breaches = 0
  /\ failures = 0
  /\ adjustments = 0

Goto(c, stage) == pc' = [pc EXCEPT ![c] = stage]

Return(c, stage, r) ==
  /\ pc' = [pc EXCEPT ![c] = stage]
  /\ result' = [result EXCEPT ![c] = r]

(* The stage of c once the guards in rest are all it has left: the next    *)
(* call of warm_all_with, or out of the pool.                              *)
NextCall(rest) == IF rest = <<>> THEN "out" ELSE "calling"

(* The same after an error: guards not used yet are only dropped.          *)
Unwind(rest) == IF rest = <<>> THEN "out" ELSE "releasing"

(* Mutant: nobody is notified.                                             *)
NotifyNobody(c, stage) == Goto(c, stage) /\ UNCHANGED waiters

(* notify_one, and c goes on to a stage.                                   *)
NotifyOne(c, stage) ==
  IF waiters = <<>>
  THEN Goto(c, stage) /\ UNCHANGED waiters
  ELSE /\ pc' = [pc EXCEPT ![c] = stage, ![Head(waiters)] = "woken"]
       /\ waiters' = Tail(waiters)

(* The slot vector may be popped down below a slot that is reserved.       *)
Recorded ==
  /\ trimmed' = (trimmed \/ \E c \in Callers :
                   pc'[c] = "starting" /\ at'[c] > Len(slots'))
  /\ UNCHANGED queueMode

-----------------------------------------------------------------------------
(* acquire_slot                                                            *)

CallHandler(c) ==
  /\ pc[c] = "out"
  /\ job' = [job EXCEPT ![c] = "call"]
  /\ target' = [target EXCEPT ![c] = Lease]
  /\ Return(c, "acquire", "ok")
  /\ UNCHANGED <<state, queue, options, nextId, leases, limit, at, bounds,
                 history>>

(* The top of the loop copies max_size out of the options.                 *)
ReadLimit(c) ==
  /\ pc[c] = "acquire"
  /\ limit' = [limit EXCEPT ![c] = maxSize]
  /\ Goto(c, "locking")
  /\ UNCHANGED <<state, queue, options, nextId, job, leases, at, target,
                 result, bounds, history>>

(* idle.pop(); isolates[index] panics beyond the vector's end and is an    *)
(* internal error when the slot is empty.                                  *)
PopIdle(c) ==
  /\ pc[c] = "locking"
  /\ idle # <<>>
  /\ idle' = SubSeq(idle, 1, Len(idle) - 1)
  /\ LET i == idle[Len(idle)] IN
       IF Live(i)
       THEN /\ leases' = [leases EXCEPT ![c] =
                            <<[index |-> i, isolate |-> slots[i]]>>]
            /\ Return(c, "calling", "ok")
       ELSE /\ Return(c, "out",
                      IF i > Len(slots) THEN "panicked" ELSE "internal")
            /\ UNCHANGED leases
  /\ UNCHANGED <<slots, active, creating, queue, options, nextId, job, plan,
                 bounds, history>>

ChooseSpawn(c) ==
  /\ pc[c] = "locking"
  /\ idle = <<>>
  /\ active + creating < limit[c]
  /\ Goto(c, "snapshot")
  /\ UNCHANGED <<state, queue, options, nextId, job, leases, plan, result,
                 bounds, history>>

Saturated(c) ==
  pc[c] = "locking" /\ idle = <<>> /\ active + creating >= limit[c]

RefuseFailFast(c) ==
  /\ Saturated(c)
  /\ queueMode = "FailFast"
  /\ Return(c, "out", "atCapacity")
  /\ UNCHANGED <<state, queue, options, nextId, job, leases, plan, bounds,
                 history>>

RefuseQueueFull(c) ==
  /\ Saturated(c)
  /\ queueMode = "Block"
  /\ waiting >= MaxQueue
  /\ Return(c, "out", "queueFull")
  /\ UNCHANGED <<state, queue, options, nextId, job, leases, plan, bounds,
                 history>>

Park(c) ==
  /\ Saturated(c)
  /\ queueMode = "Block"
  /\ waiting < MaxQueue
  /\ waiting' = waiting + 1
  /\ waiters' = Append(waiters, c)
  /\ Goto(c, "waiting")
  /\ UNCHANGED <<state, options, nextId, job, leases, plan, result, bounds,
                 history>>

(* wait returns with the lock held again, and the loop starts over.        *)
WakeUp(c) ==
  /\ pc[c] = "woken"
  /\ waiting' = IF waiting = 0 THEN 0 ELSE waiting - 1
  /\ Goto(c, "acquire")
  /\ UNCHANGED <<state, waiters, options, nextId, job, leases, plan, result,
                 bounds, history>>

-----------------------------------------------------------------------------
(* spawn_isolate                                                           *)

(* The options are copied before the state lock is taken.                  *)
SnapshotOptions(c) ==
  /\ pc[c] = "snapshot"
  /\ limit' = [limit EXCEPT ![c] = maxSize]
  /\ Goto(c, "reserve")
  /\ UNCHANGED <<state, queue, options, nextId, job, leases, at, target,
                 result, bounds, history>>

(* A creation that does not happen: its error leaves the operation, except *)
(* that ensure_desired_isolates, run after a quarantine, only logs it.     *)
NotSpawned(c, r) ==
  IF job[c] = "call" /\ target[c] # Lease
  THEN Goto(c, NextCall(leases[c])) /\ UNCHANGED result
  ELSE Return(c, "out", r)

Reserve(c) ==
  /\ pc[c] = "reserve"
  /\ active + creating < limit[c]
  /\ slots' = Append(slots, None)
  /\ creating' = creating + 1
  /\ at' = [at EXCEPT ![c] = Len(slots) + 1]
  /\ Goto(c, "starting")
  /\ UNCHANGED <<idle, active, queue, options, nextId, job, leases, limit,
                 target, result, bounds, history>>

ReserveRefused(c) ==
  /\ pc[c] = "reserve"
  /\ active + creating >= limit[c]
  /\ NotSpawned(c, "atCapacity")
  /\ UNCHANGED <<state, queue, options, nextId, job, leases, plan, bounds,
                 history>>

(* The reserved slot is gone: isolates[reserved_index] panics, after       *)
(* creating was decremented and with guards of warm_all_with still to drop. *)
StoreOutOfBounds(c) ==
  /\ creating' = creating - 1
  /\ Return(c, Unwind(leases[c]), "panicked")
  /\ UNCHANGED <<slots, idle, active, waiters>>

StartSucceeds(c) ==
  /\ pc[c] = "starting"
  /\ nextId' = nextId + 1
  /\ IF at[c] > Len(slots)
     THEN StoreOutOfBounds(c) /\ UNCHANGED leases
     ELSE /\ creating' = creating - 1
          /\ slots' = [slots EXCEPT ![at[c]] = nextId]
          /\ active' = active + 1
          /\ UNCHANGED result
          /\ IF target[c] = Lease
             THEN /\ leases' = [leases EXCEPT ![c] =
                                  <<[index |-> at[c], isolate |-> nextId]>>]
                  /\ Goto(c, "calling")
                  /\ UNCHANGED <<idle, waiters>>
             ELSE /\ idle' = Append(idle, at[c])
                  /\ NotifyOne(c, "ensure")
                  /\ UNCHANGED leases
  /\ UNCHANGED <<waiting, options, job, plan, bounds, history>>

(* Mutant: a failed creation keeps its place in creating.                  *)
StartFailsStillCreating(c) ==
  /\ pc[c] = "starting"
  /\ failures < MaxFailures
  /\ failures' = failures + 1
  /\ NotSpawned(c, "notStarted")
  /\ UNCHANGED <<state, queue, options, nextId, job, leases, plan, breaches,
                 adjustments, history>>

(* The reservation is undone.  Nobody is notified.                         *)
StartFails(c) ==
  /\ pc[c] = "starting"
  /\ failures < MaxFailures
  /\ failures' = failures + 1
  /\ IF at[c] > Len(slots)
     THEN StoreOutOfBounds(c)
     ELSE /\ creating' = creating - 1
          /\ slots' = IF at[c] = Len(slots)
                      THEN SubSeq(slots, 1, at[c] - 1)
                      ELSE [slots EXCEPT ![at[c]] = None]
          /\ NotSpawned(c, "notStarted")
          /\ UNCHANGED <<idle, active, waiters>>
  /\ UNCHANGED <<waiting, options, nextId, job, leases, plan, breaches,
                 adjustments, history>>

-----------------------------------------------------------------------------
(* call_acquired, and the drop of a SlotGuard                              *)

(* release_slot for the first guard of c, which goes on to a stage.        *)
ReleaseSlot(c, stage) ==
  /\ idle' = Append(idle, Head(leases[c]).index)
  /\ leases' = [leases EXCEPT ![c] = Tail(@)]
  /\ NotifyOne(c, stage)
  /\ UNCHANGED <<slots, active, creating, waiting, options, nextId, job, plan,
                 bounds, history>>

(* The handler returns within the limits: drop(guard).                     *)
CallReturns(c) ==
  /\ pc[c] = "calling"
  /\ ReleaseSlot(c, NextCall(Tail(leases[c])))
  /\ UNCHANGED result

(* Mutant: the guard of a failed call is forgotten, not dropped.           *)
FailWithoutRelease(c) ==
  /\ pc[c] = "calling"
  /\ leases' = [leases EXCEPT ![c] = Tail(@)]
  /\ Return(c, Unwind(Tail(leases[c])), "failed")
  /\ UNCHANGED <<state, queue, options, nextId, job, plan, bounds, history>>

(* The handler fails: drop(guard), and the error leaves warm_all_with.     *)
CallFails(c) ==
  /\ pc[c] = "calling"
  /\ ReleaseSlot(c, Unwind(Tail(leases[c])))
  /\ result' = [result EXCEPT ![c] = "failed"]

DropUnused(c) ==
  /\ pc[c] = "releasing"
  /\ ReleaseSlot(c, Unwind(Tail(leases[c])))
  /\ UNCHANGED result

(* The handler returns above a limit: quarantine_slot, which takes what is *)
(* in the guard's slot now, and notify_one.                                *)
Quarantine(c) ==
  LET i == Head(leases[c]).index IN
  /\ pc[c] = "calling"
  /\ breaches < MaxBreaches
  /\ breaches' = breaches + 1
  /\ Live(i)
  /\ slots' = PopTrailingNone([slots EXCEPT ![i] = None])
  /\ active' = active - 1
  /\ idle' = Without(idle, i)
  /\ leases' = [leases EXCEPT ![c] = Tail(@)]
  /\ NotifyOne(c, "readDesired")
  /\ UNCHANGED <<creating, waiting, options, nextId, job, plan, result,
                 failures, adjustments>>
  /\ Recorded

(* quarantine_slot finds nothing to take: the guard is dropped normally.   *)
QuarantineNothing(c) ==
  LET i == Head(leases[c]).index IN
  /\ pc[c] = "calling"
  /\ breaches < MaxBreaches
  /\ breaches' = breaches + 1
  /\ ~Live(i)
  /\ IF i > Len(slots)
     THEN Goto(c, "settling") /\ UNCHANGED <<slots, waiters>>
     ELSE slots' = PopTrailingNone(slots) /\ NotifyOne(c, "settling")
  /\ UNCHANGED <<idle, active, creating, waiting, options, nextId, job, leases,
                 plan, result, failures, adjustments>>
  /\ Recorded

Settle(c) ==
  /\ pc[c] = "settling"
  /\ ReleaseSlot(c, NextCall(Tail(leases[c])))
  /\ UNCHANGED result

-----------------------------------------------------------------------------
(* ensure_min_isolates, from warm_all_with, resize, set_desired_size and   *)
(* ensure_desired_isolates                                                 *)

(* The option is read under its own lock; warm_all_with wants at least one. *)
ReadDesired(c) ==
  /\ pc[c] = "readDesired"
  /\ target' = [target EXCEPT ![c] =
                  IF job[c] = "warm" /\ desired = 0 THEN 1 ELSE desired]
  /\ Goto(c, "ensure")
  /\ UNCHANGED <<state, queue, options, nextId, job, leases, limit, at, result,
                 bounds, history>>

Grow(c) ==
  /\ pc[c] = "ensure"
  /\ active + creating < target[c]
  /\ Goto(c, "snapshot")
  /\ UNCHANGED <<state, queue, options, nextId, job, leases, plan, result,
                 bounds, history>>

Grown(c) ==
  /\ pc[c] = "ensure"
  /\ active + creating >= target[c]
  /\ Goto(c, CASE job[c] = "call" -> NextCall(leases[c])
               [] job[c] = "warm" -> "acquireAll"
               [] job[c] = "resize" -> "out"
               [] job[c] = "setDesired" -> "shrink")
  /\ UNCHANGED <<state, queue, options, nextId, job, leases, plan, result,
                 bounds, history>>

-----------------------------------------------------------------------------
(* warm_all_with                                                           *)

WarmAll(c) ==
  /\ Warming
  /\ pc[c] = "out"
  /\ job' = [job EXCEPT ![c] = "warm"]
  /\ Return(c, "readDesired", "ok")
  /\ UNCHANGED <<state, queue, options, nextId, leases, plan, bounds, history>>

(* acquire_all_idle_slots: the pool must be at rest; the idle slots are    *)
(* taken in index order.                                                   *)
AcquireAll(c) ==
  /\ pc[c] = "acquireAll"
  /\ creating = 0 /\ active <= Len(idle)
  /\ \A i \in Elements(idle) : Live(i)
  /\ leases' = [leases EXCEPT ![c] =
       [n \in 1..Len(idle) |->
          [index |-> Sorted(idle)[n], isolate |-> slots[Sorted(idle)[n]]]]]
  /\ idle' = <<>>
  /\ job' = [job EXCEPT ![c] = "call"]
  /\ Goto(c, NextCall(idle))
  /\ UNCHANGED <<slots, active, creating, queue, options, nextId, plan, result,
                 bounds, history>>

(* The idle index it takes first has no isolate.  (If it is a later one    *)
(* the error drops guards, whose drop locks the state while it is still    *)
(* locked: the caller stays where it is for ever.)                         *)
AcquireAllFails(c) ==
  /\ pc[c] = "acquireAll"
  /\ creating = 0 /\ active <= Len(idle)
  /\ \E i \in Elements(idle) : ~Live(i) /\ \A j \in Elements(idle) : i <= j
  /\ idle' = <<>>
  /\ Return(c, "out", "internal")
  /\ UNCHANGED <<slots, active, creating, queue, options, nextId, job, leases,
                 plan, bounds, history>>

AcquireAllRefused(c) ==
  /\ pc[c] = "acquireAll"
  /\ creating > 0 \/ active > Len(idle)
  /\ Return(c, "out", "invalid")
  /\ UNCHANGED <<state, queue, options, nextId, job, leases, plan, bounds,
                 history>>

-----------------------------------------------------------------------------
(* resize and set_desired_size                                             *)

Resize(c, n) ==
  /\ pc[c] = "out"
  /\ n > 0
  /\ adjustments < MaxAdjustments
  /\ adjustments' = adjustments + 1
  /\ job' = [job EXCEPT ![c] = "resize"]
  /\ target' = [target EXCEPT ![c] = n]
  /\ Return(c, "shrink", "ok")
  /\ UNCHANGED <<state, queue, options, nextId, leases, limit, at, breaches,
                 failures, history>>

SetDesiredSize(c, n) ==
  /\ pc[c] = "out"
  /\ n <= maxSize
  /\ adjustments < MaxAdjustments
  /\ adjustments' = adjustments + 1
  /\ desired' = n
  /\ job' = [job EXCEPT ![c] = "setDesired"]
  /\ target' = [target EXCEPT ![c] = n]
  /\ Return(c, "ensure", "ok")
  /\ UNCHANGED <<state, queue, maxSize, nextId, leases, limit, at, breaches,
                 failures, history>>

(* The indices of the slots with an isolate, as enumerate and filter_map   *)
(* list them.                                                              *)
Listed == [n \in 1..Cardinality(LiveSlots) |-> Nth(LiveSlots, n)]

(* Mutant: sorted by id, oldest first.                                     *)
OldestFirst == SortedBy(Listed, [n \in 1..Len(Listed) |-> slots[Listed[n]]])

(* isolates.sort_by_key(|item| Reverse(item.0))                            *)
NewestFirst == SortedBy(Listed, [n \in 1..Len(Listed) |-> -slots[Listed[n]]])

(* The first n of that list, when it is long enough.                       *)
Removable(n) == {NewestFirst[k] : k \in 1..n}

Emptied(removed) ==
  [i \in 1..Len(slots) |-> IF i \in removed THEN None ELSE slots[i]]

ShrinkRefused(c) ==
  /\ pc[c] = "shrink"
  /\ active > target[c]
  /\ \/ active - target[c] > Len(idle)
     \/ active - target[c] > Cardinality(LiveSlots)
     \/ /\ active - target[c] <= Cardinality(LiveSlots)
        /\ ~(Removable(active - target[c]) \subseteq Elements(idle))
  /\ Return(c, "out", "invalid")
  /\ UNCHANGED <<state, queue, options, nextId, job, leases, plan, bounds,
                 history>>

AfterShrink(c) == IF job[c] = "resize" THEN "setMax" ELSE "out"

ShrinkUnneeded(c) ==
  /\ pc[c] = "shrink"
  /\ active <= target[c]
  /\ Goto(c, AfterShrink(c))
  /\ UNCHANGED <<state, queue, options, nextId, job, leases, plan, result,
                 bounds, history>>

Shrink(c) ==
  /\ pc[c] = "shrink"
  /\ active > target[c]
  /\ LET n == active - target[c] IN
       /\ n <= Len(idle)
       /\ n <= Cardinality(LiveSlots)
       /\ Removable(n) \subseteq Elements(idle)
       /\ idle' = Retained(idle, Elements(idle) \ Removable(n))
       /\ active' = active - n
       /\ slots' = PopTrailingNone(Emptied(Removable(n)))
  /\ Goto(c, AfterShrink(c))
  /\ UNCHANGED <<creating, queue, options, nextId, job, leases, plan, result,
                 bounds>>
  /\ Recorded

(* resize stores the new maximum only after shrinking.                     *)
SetMax(c) ==
  /\ pc[c] = "setMax"
  /\ maxSize' = target[c]
  /\ desired' = IF desired > target[c] THEN target[c] ELSE desired
  /\ target' = [target EXCEPT ![c] = desired']
  /\ Goto(c, "ensure")
  /\ UNCHANGED <<state, queue, nextId, job, leases, limit, at, result, bounds,
                 history>>

-----------------------------------------------------------------------------

(* What a caller does once it is inside the pool.                          *)
PoolStep(c) ==
  \/ ReadLimit(c) \/ PopIdle(c) \/ ChooseSpawn(c)
  \/ RefuseFailFast(c) \/ RefuseQueueFull(c) \/ Park(c) \/ WakeUp(c)
  \/ SnapshotOptions(c) \/ Reserve(c) \/ ReserveRefused(c)
  \/ StartSucceeds(c) \/ StartFails(c)
  \/ CallReturns(c) \/ CallFails(c) \/ DropUnused(c)
  \/ Quarantine(c) \/ QuarantineNothing(c) \/ Settle(c)
  \/ ReadDesired(c) \/ Grow(c) \/ Grown(c)
  \/ AcquireAll(c) \/ AcquireAllRefused(c) \/ AcquireAllFails(c)
  \/ ShrinkRefused(c) \/ ShrinkUnneeded(c) \/ Shrink(c) \/ SetMax(c)

Next ==
  \E c \in Callers :
    \/ PoolStep(c)
    \/ CallHandler(c)
    \/ WarmAll(c)
    \/ \E n \in Sizes : Resize(c, n) \/ SetDesiredSize(c, n)

Spec == Init /\ [][Next]_vars

(* A caller inside the pool keeps running, and handlers return.            *)
FairSpec == Spec /\ \A c \in Callers : WF_vars(PoolStep(c))

-----------------------------------------------------------------------------
(* Properties                                                              *)

Guards(c) == Elements(leases[c])

(* A call "waits until an isolate is free" (docs/api/rust-host.md:356): no *)
(* isolate is behind two guards, and none behind a guard can be popped     *)
(* from the idle stack.  The handlers of two guards of one isolate still   *)
(* run one after the other, under the isolate's own mutex (api.rs:322).    *)
OneCallPerIsolate ==
  /\ \A c, d \in Callers : \A m \in 1..Len(leases[c]), n \in 1..Len(leases[d]) :
       leases[c][m].isolate = leases[d][n].isolate => c = d /\ m = n
  /\ \A c \in Callers : \A g \in Guards(c), i \in Elements(idle) :
       Live(i) => slots[i] # g.isolate
  /\ Distinct(idle)

(* Every guard still points at the isolate it was made for, so a release   *)
(* or a quarantine acts on the isolate that ran the call.                  *)
GuardsMatchSlots ==
  \A c \in Callers : \A g \in Guards(c) :
    Live(g.index) /\ slots[g.index] = g.isolate

(* The counters that decide whether to spawn, wait or refuse agree with    *)
(* the slots, and every isolate of the pool is idle or behind a guard:     *)
(* none is lost, whatever fails.                                           *)
NoIsolateLost ==
  /\ active = Cardinality(LiveSlots)
  /\ LiveSlots =
       Elements(idle) \cup UNION {{g.index : g \in Guards(c)} : c \in Callers}

(* Nobody finds an idle index without an isolate, and nobody panics.       *)
NoPanic == \A c \in Callers : result[c] \notin {"panicked", "internal"}

(* All of this over any interleaving of calls, warm-ups, quarantines,      *)
(* resizes and failing creations, unless a reserved slot is cut off: no    *)
(* isolate is shared or lost, guards match their slots, nobody panics.     *)
SoundUnlessTrimmed ==
  ~trimmed =>
    OneCallPerIsolate /\ NoIsolateLost /\ GuardsMatchSlots /\ NoPanic

(* The other two counters agree with where the callers are; waiting        *)
(* includes callers that were notified and do not hold the lock yet.       *)
CallersCounted ==
  /\ creating = Cardinality({c \in Callers : pc[c] = "starting"})
  /\ waiting = Cardinality({c \in Callers : pc[c] \in {"waiting", "woken"}})

(* max_size is the "Upper bound on isolates that may be spawned when       *)
(* demand spikes" (persistent/pool.rs:45), over several racing spawns.     *)
WithinMaxSize == active + creating <= maxSize

(* The counters that admission is decided on stay right when creations     *)
(* fail or panic, and the creations that race for the last place never     *)
(* exceed max_size, as long as nobody lowers it meanwhile, not even when a *)
(* reserved slot is cut off.                                               *)
AdmissionIsSound ==
  CallersCounted /\ (adjustments = 0 => WithinMaxSize)

(* What can be had at once: idle isolates, and room for new ones.          *)
Available == Len(idle) + (maxSize - active - creating)

(* Callers that will look at it without being notified.                    *)
Awake == {c \in Callers :
            pc[c] \in {"acquire", "locking", "woken", "snapshot", "reserve"}
              /\ target[c] = Lease}

(* No caller is parked beside an isolate, or room for one, that nobody     *)
(* awake is about to take.  "Calls queue when all isolates are busy"       *)
(* (docs/api/rust-host.md:355).                                            *)
NoStrandedWaiter == waiters # <<>> => Available <= Cardinality(Awake)

(* A failed creation, which notifies nobody, is the only thing that leaves *)
(* a caller parked beside free room when the size does not change.         *)
StrandedOnlyByFailure ==
  failures = 0 /\ adjustments = 0 /\ ~trimmed => NoStrandedWaiter

InUse(i) == \E c \in Callers : \E g \in Guards(c) : g.index = i

(* The isolates a step drops.                                              *)
Gone == {i \in LiveSlots : ~Live(i)'}

ShrunkTo(size) ==
  /\ active' = size
  /\ Cardinality(Gone) = active - size
  /\ \A i \in Gone, j \in LiveSlots \ Gone : slots[j] < slots[i]
  /\ ~trimmed => \A i \in Gone : ~InUse(i)

(* Too few are newer than one that is in use.                              *)
TooBusyFor(size) ==
  /\ active' = active
  /\ Gone = {}
  /\ ~trimmed => \E i \in LiveSlots :
       /\ InUse(i)
       /\ Cardinality({j \in LiveSlots : slots[j] > slots[i]}) < active - size

(* Scaling down brings the pool to the size asked for by dropping the      *)
(* newest isolates, of which a guard keeps none in use; or it changes      *)
(* nothing, and then because one of the isolates that would have to go is  *)
(* in use ("cannot shrink pool below .. while isolate .. is busy").  Only  *)
(* what is said of guards needs that no reserved slot was cut off.         *)
ShrinkKeepsOldest ==
  [][\A c \in Callers :
       pc[c] = "shrink" /\ pc'[c] # "shrink" /\ active > target[c] =>
         ShrunkTo(target[c]) \/ TooBusyFor(target[c])]_vars

(* Every caller waiting in the queue is woken, unless a creation failed or *)
(* the pool was resized under it.                                          *)
WaitersWoken ==
  \A c \in Callers :
    pc[c] = "waiting" ~>
      (pc[c] # "waiting" \/ failures + adjustments > 0 \/ trimmed)
===============================================================================
