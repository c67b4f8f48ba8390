----------------------------- MODULE PoolRegistry -----------------------------
(***************************************************************************)
(* BundlePoolRegistry (crates/aardvark-core/src/persistent/pool/           *)
(* registry.rs): one pool per bundle key, created by the first caller that *)
(* asks while the others wait, and a cache of prepared handlers beside it. *)
(* The two maps have different locks; one step is one acquisition of a     *)
(* lock, or work done with none held.                                      *)
(*                                                                         *)
(* Keys abstracts fingerprint and profile; a key has one descriptor.  The  *)
(* cache of parsed artifacts is left out: it only saves the parse.  What a *)
(* caller was given is forgotten when it leaves.                           *)
(***************************************************************************)
EXTENDS Registry

VARIABLES
  pools,     \* the pools map: a pool's number, or one of the two below
  handlers,  \* the handlers map: the pool of the cached handler, or Absent
  goal,      \* "pool" (pool_for_artifact) or "handler" (prepare_handler_...)
  got,       \* the pool a caller inside the registry has in hand, or Absent
  nextPool   \* pools created so far

tables == <<pools, handlers>>
wanted == <<key, goal>>
poolVars == <<pools, handlers, waiters, pc, key, goal, got, nextPool, failures,
              removals>>

Absent == 0
Pool == Nat \ {0}
Creating == -1   \* RegistryPoolSlot::Creating

PoolStages == {"out", "cached", "lookup", "waiting", "creating", "preparing",
           "publish"}

-----------------------------------------------------------------------------

PoolsInit ==
  /\ pools = [k \in Keys |-> Absent]
  /\ handlers = [k \in Keys |-> Absent]
  /\ waiters = {}
  /\ pc = [c \in Callers |-> "out"]
  /\ key \in [Callers -> Keys]
  /\ goal = [c \in Callers |-> "pool"]
  /\ got = [c \in Callers |-> Absent]
  /\ nextPool = 0
  /\ failures = 0
  /\ removals = 0

(* The archive is parsed first, or found parsed, which fails before any    *)
(* change.                                                                 *)
AskForPool(c, k) ==
  /\ pc[c] = "out"
  /\ key' = [key EXCEPT ![c] = k]
  /\ goal' = [goal EXCEPT ![c] = "pool"]
  /\ Goto(c, "lookup")
  /\ UNCHANGED <<tables, waiters, got, nextPool, bounds>>

AskForHandler(c, k) ==
  /\ pc[c] = "out"
  /\ key' = [key EXCEPT ![c] = k]
  /\ goal' = [goal EXCEPT ![c] = "handler"]
  /\ Goto(c, "cached")
  /\ UNCHANGED <<tables, waiters, got, nextPool, bounds>>

(* The handler cache is looked at first, under its own lock.               *)
CachedHandler(c) ==
  /\ pc[c] = "cached"
  /\ Goto(c, IF handlers[key[c]] = Absent THEN "lookup" ELSE "out")
  /\ UNCHANGED <<tables, waiters, wanted, got, nextPool, bounds>>

-----------------------------------------------------------------------------
(* pool_for_artifact                                                       *)

AfterPool(c) == IF goal[c] = "pool" THEN "out" ELSE "preparing"

(* The pool is handed to the caller or used to prepare the handler.        *)
Take(c, pool) ==
  got' = [got EXCEPT ![c] = IF goal[c] = "pool" THEN Absent ELSE pool]

FindPool(c) ==
  /\ pc[c] = "lookup"
  /\ pools[key[c]] \in Pool
  /\ Take(c, pools[key[c]])
  /\ Goto(c, AfterPool(c))
  /\ UNCHANGED <<tables, waiters, wanted, nextPool, bounds>>

WaitForPool(c) ==
  /\ pc[c] = "lookup"
  /\ pools[key[c]] = Creating
  /\ waiters' = waiters \cup {c}
  /\ Goto(c, "waiting")
  /\ UNCHANGED <<tables, wanted, got, nextPool, bounds>>

(* Mutant: the lock is dropped before the slot is marked.                  *)
StartUnmarked(c) ==
  /\ pc[c] = "lookup"
  /\ pools[key[c]] = Absent
  /\ Goto(c, "creating")
  /\ UNCHANGED <<tables, waiters, wanted, got, nextPool, bounds>>

StartPool(c) ==
  /\ pc[c] = "lookup"
  /\ pools[key[c]] = Absent
  /\ pools' = [pools EXCEPT ![key[c]] = Creating]
  /\ Goto(c, "creating")
  /\ UNCHANGED <<handlers, waiters, wanted, got, nextPool, bounds>>

(* BundlePool::from_artifact has run with no lock held.                    *)
PoolCreated(c) ==
  /\ pc[c] = "creating"
  /\ nextPool' = nextPool + 1
  /\ pools' = [pools EXCEPT ![key[c]] = nextPool']
  /\ Take(c, nextPool')
  /\ NotifyAll(c, AfterPool(c))
  /\ UNCHANGED <<handlers, wanted, bounds>>

(* Mutant: the error leaves the slot behind.                               *)
PoolFailsKeepsSlot(c) ==
  /\ pc[c] = "creating"
  /\ failures < MaxFailures
  /\ failures' = failures + 1
  /\ NotifyAll(c, "out")
  /\ UNCHANGED <<tables, wanted, got, nextPool, removals>>

PoolFails(c) ==
  /\ pc[c] = "creating"
  /\ failures < MaxFailures
  /\ failures' = failures + 1
  /\ pools' = [pools EXCEPT ![key[c]] = Absent]
  /\ NotifyAll(c, "out")
  /\ UNCHANGED <<handlers, wanted, got, nextPool, removals>>

-----------------------------------------------------------------------------
(* the rest of prepare_handler_for_artifact                                *)

(* pool.prepare_handler prewarms the handler on the pool's isolates.       *)
HandlerPrepared(c) ==
  /\ pc[c] = "preparing"
  /\ Goto(c, "publish")
  /\ UNCHANGED <<tables, waiters, wanted, got, nextPool, bounds>>

HandlerFails(c) ==
  /\ pc[c] = "preparing"
  /\ failures < MaxFailures
  /\ failures' = failures + 1
  /\ got' = [got EXCEPT ![c] = Absent]
  /\ Goto(c, "out")
  /\ UNCHANGED <<tables, waiters, wanted, nextPool, removals>>

(* Mutant: the entry is overwritten.                                       *)
PublishOverwrites(c) ==
  /\ pc[c] = "publish"
  /\ handlers' = [handlers EXCEPT ![key[c]] = got[c]]
  /\ got' = [got EXCEPT ![c] = Absent]
  /\ Goto(c, "out")
  /\ UNCHANGED <<pools, waiters, wanted, nextPool, bounds>>

(* entry(..).or_insert_with(..): the handler cached first wins.            *)
PublishHandler(c) ==
  /\ pc[c] = "publish"
  /\ handlers' = [handlers EXCEPT ![key[c]] = IF @ = Absent THEN got[c] ELSE @]
  /\ got' = [got EXCEPT ![c] = Absent]
  /\ Goto(c, "out")
  /\ UNCHANGED <<pools, waiters, wanted, nextPool, bounds>>

-----------------------------------------------------------------------------

(* remove: the pools lock is held over both maps.  A creation in progress  *)
(* is left alone.                                                          *)
RemovePool(c, k) ==
  /\ pc[c] = "out"
  /\ pools[k] \in Pool
  /\ removals < MaxRemovals
  /\ removals' = removals + 1
  /\ handlers' = [handlers EXCEPT ![k] = Absent]
  /\ pools' = [pools EXCEPT ![k] = Absent]
  /\ UNCHANGED <<waiters, pc, wanted, got, nextPool, failures>>

PoolRegistryStep(c) ==
  \/ CachedHandler(c) \/ FindPool(c) \/ WaitForPool(c) \/ StartPool(c)
  \/ PoolCreated(c) \/ PoolFails(c)
  \/ HandlerPrepared(c) \/ HandlerFails(c) \/ PublishHandler(c)

PoolsNext ==
  \E c \in Callers :
    \/ PoolRegistryStep(c)
    \/ \E k \in Keys : AskForPool(c, k) \/ AskForHandler(c, k) \/ RemovePool(c, k)

PoolsSpec == PoolsInit /\ [][PoolsNext]_poolVars

(* Creations and preparations end, and callers in the registry keep going. *)
FairPoolsSpec == PoolsSpec /\ \A c \in Callers : WF_poolVars(PoolRegistryStep(c))

-----------------------------------------------------------------------------
(* Properties                                                              *)

PoolsTypeOK ==
  /\ pools \in [Keys -> Pool \cup {Absent, Creating}]
  /\ handlers \in [Keys -> Pool \cup {Absent}]
  /\ waiters \subseteq Callers
  /\ pc \in [Callers -> PoolStages]
  /\ key \in [Callers -> Keys]
  /\ goal \in [Callers -> {"pool", "handler"}]
  /\ got \in [Callers -> Pool \cup {Absent}]
  /\ nextPool \in Nat
  /\ failures \in 0..MaxFailures
  /\ removals \in 0..MaxRemovals

(* "Concurrent callers for the same key wait for the first creation        *)
(* attempt instead of booting duplicate pools" (pool_for_artifact): a key  *)
(* is being created exactly when one caller is creating it, also after     *)
(* failed attempts and removals.                                           *)
OneCreatorPerPool == SingleFlight({k \in Keys : pools[k] = Creating})

(* A pool, once stored, stays the pool of its key until it is removed, and *)
(* so does the handler cached for the key: nobody who comes late replaces  *)
(* what other callers already hold.                                        *)
NothingIsReplaced ==
  [][\A k \in Keys :
       /\ pools[k] \in Pool => pools'[k] \in {pools[k], Absent}
       /\ handlers[k] \in Pool /\ handlers'[k] # handlers[k] =>
            handlers'[k] = Absent /\ pools'[k] = Absent]_poolVars
===============================================================================
