------------------------------ MODULE WarmedHosts ------------------------------
(***************************************************************************)
(* WarmedBundleHostRegistry (crates/aardvark-core/src/persistent/          *)
(* warmed_host.rs): an LRU cache of warmed hosts, one per bundle key, and  *)
(* an LRU cache of parsed artifacts, one per archive digest.  Archives     *)
(* with equal contents have different digests and the same key.            *)
(*                                                                         *)
(* The two caches have different locks; one step is one acquisition of a   *)
(* lock, or work done with none held.                                      *)
(***************************************************************************)
EXTENDS Registry, Subsequences

CONSTANTS
  Digests,       \* archives
  KeyOf,         \* the key of the artifact an archive parses to
  MaxReady,      \* max_ready_hosts
  MaxArtifacts,  \* max_artifacts, after with_options has raised it
  ByArtifact     \* callers may pass a parsed artifact of their own

ASSUME WarmedHostsAssumption ==
  /\ IsFiniteSet(Digests) /\ IsFiniteSet(Keys)
  /\ KeyOf \in [Digests -> Keys]
  /\ MaxReady \in Nat \ {0}
  /\ MaxArtifacts \in Nat /\ MaxArtifacts >= MaxReady
  /\ ByArtifact \in BOOLEAN

VARIABLES
  artifacts, artifactOrder,  \* WarmedArtifactCache: digests cached, LRU first
  hosts, order,              \* WarmedHostCache: the slot of each key, and the
                             \* ready keys, LRU first
  generation,                \* WarmedHostCache::generation
  slotGeneration,            \* the generation in each Creating slot
  digest,                    \* the archive each caller asked about
  ownGeneration,             \* the generation a creator started in
  startedIn                  \* history: the generation each ready host's
                             \* creation started in

artifactCache == <<artifacts, artifactOrder>>
hostCache == <<hosts, order, generation, slotGeneration>>
callers == <<pc, digest, key>>
generations == <<generation, slotGeneration>>
asked == <<digest, key>>
started == <<ownGeneration, startedIn>>
vars == <<artifactCache, hostCache, waiters, callers, ownGeneration, startedIn,
          bounds>>

Stages == {"out", "artifact", "parsing", "lookup", "waiting", "creating",
           "checking", "removing", "purging", "clearing", "cleared"}

(* touch_lru                                                               *)
Touched(s, x) == Append(Without(s, x), x)

ReadyKeys(h) == {k \in Keys : h[k] = "ready"}

-----------------------------------------------------------------------------

Init ==
  /\ artifacts = {} /\ artifactOrder = <<>>
  /\ hosts = [k \in Keys |-> "absent"]
  /\ order = <<>>
  /\ generation = 0
  /\ slotGeneration = [k \in Keys |-> 0]
  /\ waiters = {}
  /\ pc = [c \in Callers |-> "out"]
  /\ digest \in {[c \in Callers |-> d] : d \in Digests}
  /\ key = [c \in Callers |-> KeyOf[digest[c]]]
  /\ ownGeneration = [c \in Callers |-> 0]
  /\ startedIn = [k \in Keys |-> 0]
  /\ failures = 0 /\ removals = 0

Ask(c, d, stage) ==
  /\ pc[c] = "out"
  /\ digest' = [digest EXCEPT ![c] = d]
  /\ key' = [key EXCEPT ![c] = KeyOf[d]]
  /\ Goto(c, stage)

-----------------------------------------------------------------------------
(* artifact_for_bytes                                                      *)

HostForBytes(c, d) ==
  /\ Ask(c, d, "artifact")
  /\ UNCHANGED <<artifactCache, hostCache, waiters, started, bounds>>

(* host_for_artifact, with an artifact the caller has parsed itself.       *)
HostForArtifact(c, d) ==
  /\ ByArtifact
  /\ Ask(c, d, "lookup")
  /\ UNCHANGED <<artifactCache, hostCache, waiters, started, bounds>>

FindArtifact(c) ==
  /\ pc[c] = "artifact"
  /\ IF digest[c] \in artifacts
     THEN /\ artifactOrder' = Touched(artifactOrder, digest[c])
          /\ Goto(c, "lookup")
     ELSE Goto(c, "parsing") /\ UNCHANGED artifactOrder
  /\ UNCHANGED <<artifacts, hostCache, waiters, asked, started, bounds>>

(* evict_over_limit: the oldest digests go until the limit holds.          *)
Evict(s) ==
  IF Len(s) > MaxArtifacts
  THEN SubSeq(s, Len(s) - MaxArtifacts + 1, Len(s))
  ELSE s

(* WarmedArtifactCache::insert after the parse; another caller may have    *)
(* inserted the same digest meanwhile.                                     *)
ParseSucceeds(c) ==
  /\ pc[c] = "parsing"
  /\ artifactOrder' = IF digest[c] \in artifacts
                      THEN Touched(artifactOrder, digest[c])
                      ELSE Evict(Touched(artifactOrder, digest[c]))
  /\ artifacts' = IF digest[c] \in artifacts
                  THEN artifacts
                  ELSE Elements(Evict(Touched(artifactOrder, digest[c])))
  /\ Goto(c, "lookup")
  /\ UNCHANGED <<hostCache, waiters, asked, started, bounds>>

ParseFails(c) ==
  /\ pc[c] = "parsing"
  /\ failures < MaxFailures
  /\ failures' = failures + 1
  /\ Goto(c, "out")
  /\ UNCHANGED <<artifactCache, hostCache, waiters, asked, started, removals>>

-----------------------------------------------------------------------------
(* host_for_artifact                                                       *)

FindHost(c) ==
  /\ pc[c] = "lookup"
  /\ hosts[key[c]] = "ready"
  /\ order' = Touched(order, key[c])
  /\ Goto(c, "out")
  /\ UNCHANGED <<artifactCache, hosts, generations, waiters, asked, started,
                 bounds>>

WaitForCreator(c) ==
  /\ pc[c] = "lookup"
  /\ hosts[key[c]] = "creating"
  /\ waiters' = waiters \cup {c}
  /\ Goto(c, "waiting")
  /\ UNCHANGED <<artifactCache, hostCache, asked, started, bounds>>

StartCreating(c) ==
  /\ pc[c] = "lookup"
  /\ hosts[key[c]] = "absent"
  /\ hosts' = [hosts EXCEPT ![key[c]] = "creating"]
  /\ slotGeneration' = [slotGeneration EXCEPT ![key[c]] = generation]
  /\ ownGeneration' = [ownGeneration EXCEPT ![c] = generation]
  /\ Goto(c, "creating")
  /\ UNCHANGED <<artifactCache, order, generation, waiters, asked, startedIn,
                 bounds>>

OwnSlot(c) ==
  hosts[key[c]] = "creating" /\ slotGeneration[key[c]] = ownGeneration[c]

(* Mutant: the slot is compared, the cache's generation is not.            *)
ShouldPublishSlot(c) == OwnSlot(c)

ShouldPublish(c) == OwnSlot(c) /\ generation = ownGeneration[c]

(* The ready keys evict_ready_over_limit removes: the first in LRU order   *)
(* down to the limit.                                                      *)
Excess(h, s) ==
  {k \in ReadyKeys(h) : \E i \in 1..Len(s) :
     /\ s[i] = k
     /\ Cardinality({j \in 1..i : s[j] \in ReadyKeys(h)}) + MaxReady
          <= Cardinality(ReadyKeys(h))}

(* WarmedBundleHost::from_artifact has run with no lock held: the pool is  *)
(* built, the handler prepared and the warm-up calls made.                 *)
CreationSucceeds(c) ==
  /\ pc[c] = "creating"
  /\ startedIn' = [startedIn EXCEPT ![key[c]] = ownGeneration[c]]
  /\ IF ShouldPublish(c)
     THEN LET published == [hosts EXCEPT ![key[c]] = "ready"]
              touched == Touched(order, key[c])
              gone == Excess(published, touched)
          IN  /\ hosts' = [k \in Keys |->
                              IF k \in gone THEN "absent" ELSE published[k]]
              /\ order' = Retained(touched, Keys \ gone)
     ELSE /\ hosts' = [hosts EXCEPT ![key[c]] = "absent"]
          /\ order' = Without(order, key[c])
  /\ NotifyAll(c, "out")
  /\ UNCHANGED <<artifactCache, generations, asked, ownGeneration, bounds>>

CreationFails(c) ==
  /\ pc[c] = "creating"
  /\ failures < MaxFailures
  /\ failures' = failures + 1
  /\ hosts' = IF OwnSlot(c) THEN [hosts EXCEPT ![key[c]] = "absent"] ELSE hosts
  /\ order' = Without(order, key[c])
  /\ NotifyAll(c, "out")
  /\ UNCHANGED <<artifactCache, generations, asked, started, removals>>

-----------------------------------------------------------------------------
(* ready_host_for_bytes and ready_host_for_artifact                        *)

ReadyForBytes(c, d) ==
  /\ Ask(c, d, IF d \in artifacts THEN "checking" ELSE "out")
  /\ artifactOrder' = IF d \in artifacts THEN Touched(artifactOrder, d)
                      ELSE artifactOrder
  /\ UNCHANGED <<artifacts, hostCache, waiters, started, bounds>>

ReadyForArtifact(c) ==
  /\ pc[c] = "checking"
  /\ order' = IF hosts[key[c]] = "ready" THEN Touched(order, key[c]) ELSE order
  /\ Goto(c, "out")
  /\ UNCHANGED <<artifactCache, hosts, generations, waiters, asked, started,
                 bounds>>

-----------------------------------------------------------------------------
(* remove_for_bytes, remove_for_artifact and clear                         *)

RemoveForBytes(c, d) ==
  /\ removals < MaxRemovals
  /\ removals' = removals + 1
  /\ Ask(c, d, IF d \in artifacts THEN "removing" ELSE "out")
  /\ artifacts' = artifacts \ {d}
  /\ artifactOrder' = Without(artifactOrder, d)
  /\ UNCHANGED <<hostCache, waiters, started, failures>>

RemoveForArtifact(c, d) ==
  /\ ByArtifact
  /\ removals < MaxRemovals
  /\ removals' = removals + 1
  /\ Ask(c, d, "removing")
  /\ UNCHANGED <<artifactCache, hostCache, waiters, started, failures>>

(* Mutant: the key stays in the LRU order.                                 *)
RemoveReadyOnly(c) ==
  /\ pc[c] = "removing"
  /\ IF hosts[key[c]] = "ready"
     THEN /\ hosts' = [hosts EXCEPT ![key[c]] = "absent"]
          /\ Goto(c, "purging")
     ELSE Goto(c, "out") /\ UNCHANGED hosts
  /\ UNCHANGED <<artifactCache, order, generations, waiters, asked, started,
                 bounds>>

(* Mutant: a slot being created is removed too.                            *)
RemoveAnySlot(c) ==
  /\ pc[c] = "removing"
  /\ hosts' = [hosts EXCEPT ![key[c]] = "absent"]
  /\ order' = Without(order, key[c])
  /\ Goto(c, "purging")
  /\ UNCHANGED <<artifactCache, generations, waiters, asked, started, bounds>>

(* remove_ready: a slot being created is left alone.                       *)
RemoveReady(c) ==
  /\ pc[c] = "removing"
  /\ IF hosts[key[c]] = "ready"
     THEN /\ hosts' = [hosts EXCEPT ![key[c]] = "absent"]
          /\ order' = Without(order, key[c])
          /\ Goto(c, "purging")
     ELSE Goto(c, "out") /\ UNCHANGED <<hosts, order>>
  /\ UNCHANGED <<artifactCache, generations, waiters, asked, started, bounds>>

(* remove_pool_artifacts: every archive of the removed host's key.         *)
PurgeArtifacts(c) ==
  /\ pc[c] = "purging"
  /\ artifacts' = {d \in artifacts : KeyOf[d] # key[c]}
  /\ artifactOrder' =
       Retained(artifactOrder, {d \in Digests : KeyOf[d] # key[c]})
  /\ Goto(c, "out")
  /\ UNCHANGED <<hostCache, waiters, asked, started, bounds>>

(* clear: the hosts, then the artifacts, then notify_all.                  *)
Clear(c) ==
  /\ pc[c] = "out"
  /\ removals < MaxRemovals
  /\ removals' = removals + 1
  /\ hosts' = [k \in Keys |->
                 IF hosts[k] = "creating" THEN "creating" ELSE "absent"]
  /\ order' = <<>>
  /\ generation' = generation + 1
  /\ Goto(c, "clearing")
  /\ UNCHANGED <<artifactCache, slotGeneration, waiters, asked, started,
                 failures>>

ClearArtifacts(c) ==
  /\ pc[c] = "clearing"
  /\ artifacts' = {} /\ artifactOrder' = <<>>
  /\ Goto(c, "cleared")
  /\ UNCHANGED <<hostCache, waiters, asked, started, bounds>>

ClearNotifies(c) ==
  /\ pc[c] = "cleared"
  /\ NotifyAll(c, "out")
  /\ UNCHANGED <<artifactCache, hostCache, asked, started, bounds>>

-----------------------------------------------------------------------------

RegistryStep(c) ==
  \/ FindArtifact(c) \/ ParseSucceeds(c) \/ ParseFails(c)
  \/ FindHost(c) \/ WaitForCreator(c) \/ StartCreating(c)
  \/ CreationSucceeds(c) \/ CreationFails(c)
  \/ ReadyForArtifact(c)
  \/ RemoveReady(c) \/ PurgeArtifacts(c)
  \/ ClearArtifacts(c) \/ ClearNotifies(c)

Next ==
  \E c \in Callers :
    \/ RegistryStep(c)
    \/ Clear(c)
    \/ \E d \in Digests :
         \/ HostForBytes(c, d) \/ HostForArtifact(c, d)
         \/ ReadyForBytes(c, d)
         \/ RemoveForBytes(c, d) \/ RemoveForArtifact(c, d)

Spec == Init /\ [][Next]_vars

(* Creations end, and callers inside the registry keep going.              *)
FairSpec == Spec /\ \A c \in Callers : WF_vars(RegistryStep(c))

-----------------------------------------------------------------------------
(* Properties                                                              *)

(* The caches of artifacts and their orders are left to CachesConsistent.  *)
TypeOK ==
  /\ hosts \in [Keys -> {"absent", "creating", "ready"}]
  /\ generation \in Nat
  /\ slotGeneration \in [Keys -> Nat]
  /\ waiters \subseteq Callers
  /\ pc \in [Callers -> Stages]
  /\ digest \in [Callers -> Digests]
  /\ key \in [Callers -> Keys]
  /\ ownGeneration \in [Callers -> Nat]
  /\ startedIn \in [Keys -> Nat]
  /\ failures \in 0..MaxFailures
  /\ removals \in 0..MaxRemovals

(* Each LRU order lists exactly what its cache holds, once, over races of  *)
(* insertions, evictions, removals and clears; otherwise the evictions,    *)
(* which walk the orders, stop too early, and the limits ("Maximum ready   *)
(* hosts to retain", "Maximum parsed bundle artifacts to retain") fail.    *)
CachesConsistent ==
  /\ Distinct(artifactOrder) /\ Elements(artifactOrder) = artifacts
  /\ Distinct(order) /\ Elements(order) = ReadyKeys(hosts)
  /\ Cardinality(ReadyKeys(hosts)) <= MaxReady
  /\ Cardinality(artifacts) <= MaxArtifacts

(* "A creation that started before clear may still return a host to its    *)
(* original caller, but it is not published into the cleared registry      *)
(* cache" (docs/api/rust-host.md:483): every ready host was started since  *)
(* the last clear.                                                         *)
NothingFromBeforeClear ==
  \A k \in ReadyKeys(hosts) : startedIn[k] = generation

(* "Concurrent callers for the same bundle/descriptor wait for the first   *)
(* creation attempt instead of booting duplicate Pyodide/V8 hosts", also   *)
(* when removals and clears pass over it: a key is marked exactly while    *)
(* one caller is creating its host, and the mark is that caller's.         *)
OneCreatorPerKey ==
  /\ SingleFlight({k \in Keys : hosts[k] = "creating"})
  /\ \A c \in Callers : pc[c] = "creating" => OwnSlot(c)
===============================================================================
