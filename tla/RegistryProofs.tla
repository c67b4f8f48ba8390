----------------------------- MODULE RegistryProofs -----------------------------
(***************************************************************************)
(* Proofs about bundles and the two registries that keep what is made of   *)
(* them, for any callers, keys, archives, manifests and limits.            *)
(* PoolRegistry and WarmedHosts share their callers, and nothing else: the *)
(* theorems about each, and about Bundles, are about its own specification.*)
(***************************************************************************)
EXTENDS WarmedHosts, PoolRegistry, Bundles, SubsequenceProofs, TLAPS

(* NotifyAll moves only callers that are parked.                           *)
Parked == \A c \in waiters : pc[c] = "waiting"

Alone == \A k \in Keys : \A c, d \in Callers :
  IsCreating(c, k) /\ IsCreating(d, k) => c = d

(* Marks that say which keys have a creator, and creators that are alone   *)
(* with their key: that is single flight.                                  *)
LEMMA Flight ==
  ASSUME NEW marked, Alone,
         \A k \in Keys : k \in marked <=> \E c \in Callers : IsCreating(c, k)
  PROVE  SingleFlight(marked)
<1> SUFFICES ASSUME NEW k \in Keys
             PROVE  Cardinality({c \in Callers : IsCreating(c, k)}) =
                      IF k \in marked THEN 1 ELSE 0
  BY DEF SingleFlight
<1>1. CASE k \in marked
  <2>1. PICK c \in Callers : IsCreating(c, k)
    BY <1>1
  <2>2. {d \in Callers : IsCreating(d, k)} = {c}
    BY <2>1 DEF Alone
  <2>3. QED
    BY <1>1, <2>2, FS_Singleton
<1>2. CASE k \notin marked
  <2>1. {d \in Callers : IsCreating(d, k)} = {}
    BY <1>2
  <2>2. QED
    BY <1>2, <2>1, FS_EmptySet
<1>3. QED
  BY <1>1, <1>2

(***************************************************************************)
(* WarmedHosts                                                             *)
(***************************************************************************)

Marked == \A k \in Keys :
  hosts[k] = "creating" <=> \E c \in Callers : IsCreating(c, k)

(* The generation in a slot is the one its creator started in.             *)
OwnMark == \A c \in Callers :
  pc[c] = "creating" => slotGeneration[key[c]] = ownGeneration[c]

IInv ==
  /\ TypeOK /\ Parked /\ Marked /\ Alone /\ OwnMark
  /\ NothingFromBeforeClear

LEMMA InitIInv == Init => IInv
<1> SUFFICES ASSUME Init PROVE IInv
  OBVIOUS
<1> USE DEF Init
<1>1. PICK d \in Digests : digest = [c \in Callers |-> d]
  OBVIOUS
<1>2. digest \in [Callers -> Digests] /\ key \in [Callers -> Keys]
  BY <1>1, WarmedHostsAssumption
<1>3. failures \in 0..MaxFailures /\ removals \in 0..MaxRemovals
  BY RegistryAssumption
<1>4. TypeOK
  BY <1>2, <1>3 DEF TypeOK, Stages
<1>5. QED
  BY <1>4 DEF IInv, Parked, Marked, Alone, OwnMark, IsCreating,
              NothingFromBeforeClear, ReadyKeys

-----------------------------------------------------------------------------

(* Everyone but c stays where it is, c neither was creating nor is, and no *)
(* host is published: the slots being created stay as they are.            *)
Moves(c) ==
  /\ pc[c] # "creating" /\ c \notin waiters
  /\ \E stage \in Stages \ {"creating", "waiting"} :
       pc' = [pc EXCEPT ![c] = stage]
  /\ waiters' = waiters
  /\ \A d \in Callers : d # c => key'[d] = key[d]
  /\ hosts' \in [Keys -> {"absent", "creating", "ready"}]
  /\ \A k \in Keys : hosts'[k] = hosts[k] \/ (hosts[k] = "ready" /\ hosts'[k] = "absent")
  /\ UNCHANGED <<generations, started>>

Asks(c) ==
  \E d \in Digests :
    \/ HostForBytes(c, d) \/ HostForArtifact(c, d) \/ ReadyForBytes(c, d)
    \/ RemoveForBytes(c, d) \/ RemoveForArtifact(c, d)

Local(c) ==
  \/ FindArtifact(c) \/ ParseSucceeds(c) \/ ParseFails(c)
  \/ FindHost(c) \/ ReadyForArtifact(c)
  \/ RemoveReady(c) \/ PurgeArtifacts(c) \/ ClearArtifacts(c)

LEMMA AskMoves ==
  ASSUME IInv, NEW c \in Callers, Asks(c)
  PROVE  Moves(c) /\ TypeOK'
<1> PICK d \in Digests :
      \/ HostForBytes(c, d) \/ HostForArtifact(c, d) \/ ReadyForBytes(c, d)
      \/ RemoveForBytes(c, d) \/ RemoveForArtifact(c, d)
  BY DEF Asks
<1> PICK stage \in {"artifact", "lookup", "checking", "removing", "out"} :
      Ask(c, d, stage)
  BY DEF HostForBytes, HostForArtifact, ReadyForBytes, RemoveForBytes,
         RemoveForArtifact
<1>1. /\ hosts' = hosts /\ waiters' = waiters
      /\ UNCHANGED <<generations, started>>
      /\ failures' = failures
      /\ removals' = removals \/ (removals < MaxRemovals /\ removals' = removals + 1)
  BY DEF HostForBytes, HostForArtifact, ReadyForBytes, RemoveForBytes,
         RemoveForArtifact, hostCache, generations, started, bounds
<1>2. /\ pc[c] = "out" /\ pc' = [pc EXCEPT ![c] = stage]
      /\ key' = [key EXCEPT ![c] = KeyOf[d]]
      /\ digest' = [digest EXCEPT ![c] = d]
  BY DEF Ask, Goto
<1>3. stage \in Stages \ {"creating", "waiting"}
  BY DEF Stages
<1>4. pc' \in [Callers -> Stages]
  BY <1>2, <1>3 DEF IInv, TypeOK
<1>5. key' \in [Callers -> Keys] /\ digest' \in [Callers -> Digests]
  BY <1>2, WarmedHostsAssumption DEF IInv, TypeOK
<1>6. removals' \in 0..MaxRemovals
  BY <1>1, RegistryAssumption DEF IInv, TypeOK
<1>7. TypeOK'
  BY <1>1, <1>4, <1>5, <1>6 DEF IInv, TypeOK, generations, started
<1>8. Moves(c)
  BY <1>1, <1>2, <1>3 DEF IInv, TypeOK, Parked, Moves
<1>9. QED
  BY <1>7, <1>8

LEMMA LocalMoves ==
  ASSUME IInv, NEW c \in Callers, Local(c)
  PROVE  Moves(c) /\ TypeOK'
<1>1. /\ pc[c] # "creating" /\ pc[c] # "waiting"
      /\ waiters' = waiters /\ key' = key /\ digest' = digest
      /\ UNCHANGED <<generations, started>> /\ removals' = removals
  BY DEF Local, FindArtifact, ParseSucceeds, ParseFails, FindHost,
         ReadyForArtifact, RemoveReady, PurgeArtifacts, ClearArtifacts,
         hostCache, generations, started, asked, bounds
<1>2. \E stage \in {"lookup", "parsing", "out", "purging", "cleared"} :
        pc' = [pc EXCEPT ![c] = stage]
  BY DEF Local, FindArtifact, ParseSucceeds, ParseFails, FindHost,
         ReadyForArtifact, RemoveReady, PurgeArtifacts, ClearArtifacts, Goto
<1>3. hosts' = hosts \/ (hosts[key[c]] = "ready"
                         /\ hosts' = [hosts EXCEPT ![key[c]] = "absent"])
  BY DEF Local, FindArtifact, ParseSucceeds, ParseFails, FindHost,
         ReadyForArtifact, RemoveReady, PurgeArtifacts, ClearArtifacts,
         hostCache
<1>4. failures' \in 0..MaxFailures
  <2>1. failures' = failures \/ (failures < MaxFailures /\ failures' = failures + 1)
    BY DEF Local, FindArtifact, ParseSucceeds, ParseFails, FindHost,
           ReadyForArtifact, RemoveReady, PurgeArtifacts, ClearArtifacts, bounds
  <2>2. QED
    BY <2>1, RegistryAssumption DEF IInv, TypeOK
<1>5. /\ hosts' \in [Keys -> {"absent", "creating", "ready"}]
      /\ \A k \in Keys : hosts'[k] = hosts[k] \/ (hosts[k] = "ready" /\ hosts'[k] = "absent")
  BY <1>3 DEF IInv, TypeOK
<1>6. \E stage \in Stages \ {"creating", "waiting"} : pc' = [pc EXCEPT ![c] = stage]
  BY <1>2 DEF Stages
<1>7. pc' \in [Callers -> Stages]
  BY <1>6 DEF IInv, TypeOK
<1>8. TypeOK'
  BY <1>1, <1>4, <1>5, <1>7 DEF IInv, TypeOK, generations, started
<1>9. QED
  BY <1>1, <1>5, <1>6, <1>8 DEF IInv, Parked, Moves

LEMMA MoveStep ==
  ASSUME IInv, NEW c \in Callers, Moves(c), TypeOK'
  PROVE  IInv'
<1>1. PICK stage \in Stages \ {"creating", "waiting"} :
        pc' = [pc EXCEPT ![c] = stage]
  BY DEF Moves
<1>2. \A d \in Callers, k \in Keys : IsCreating(d, k)' <=> IsCreating(d, k)
  BY <1>1 DEF IInv, TypeOK, Moves, IsCreating
<1>3. \A k \in Keys : hosts'[k] = "creating" <=> hosts[k] = "creating"
  BY DEF Moves
<1>4. Marked' /\ Alone'
  BY <1>2, <1>3 DEF IInv, Marked, Alone
<1>5. Parked'
  BY <1>1 DEF IInv, TypeOK, Parked, Moves
<1>6. OwnMark'
  <2> SUFFICES ASSUME NEW d \in Callers, pc'[d] = "creating"
               PROVE  slotGeneration'[key'[d]] = ownGeneration'[d]
    BY DEF OwnMark
  <2>1. d # c /\ pc[d] = "creating"
    BY <1>1 DEF IInv, TypeOK
  <2>2. QED
    BY <2>1 DEF IInv, OwnMark, Moves, generations, started
<1>7. NothingFromBeforeClear'
  BY DEF IInv, NothingFromBeforeClear, ReadyKeys, Moves, generations, started
<1>8. QED
  BY <1>4, <1>5, <1>6, <1>7 DEF IInv

LEMMA WaitStep ==
  ASSUME IInv, NEW c \in Callers, WaitForCreator(c)
  PROVE  IInv'
<1> USE DEF IInv, WaitForCreator, Goto, hostCache, asked, started, bounds
<1>1. TypeOK'
  BY DEF TypeOK, Stages
<1>2. \A d \in Callers, k \in Keys : IsCreating(d, k)' <=> IsCreating(d, k)
  BY DEF TypeOK, IsCreating
<1>3. Parked' /\ OwnMark'
  BY DEF TypeOK, Parked, OwnMark
<1>4. Marked' /\ Alone'
  BY <1>2 DEF Marked, Alone
<1>5. NothingFromBeforeClear'
  BY DEF NothingFromBeforeClear, ReadyKeys
<1>6. QED
  BY <1>1, <1>3, <1>4, <1>5

(* The slot was absent, so nobody was creating the host of that key.       *)
LEMMA StartStep ==
  ASSUME IInv, NEW c \in Callers, StartCreating(c)
  PROVE  IInv'
<1> USE DEF IInv, StartCreating, Goto, asked, bounds
<1>1. TypeOK'
  BY DEF TypeOK, Stages
<1>2. key[c] \in Keys /\ pc[c] = "lookup" /\ key' = key
  BY DEF TypeOK
<1>3. \A d \in Callers : ~IsCreating(d, key[c])
  BY <1>2 DEF Marked
<1>4. \A d \in Callers, k \in Keys :
        IsCreating(d, k)' <=> IsCreating(d, k) \/ (d = c /\ k = key[c])
  BY <1>2 DEF TypeOK, IsCreating
<1>5. \A k \in Keys : hosts'[k] = IF k = key[c] THEN "creating" ELSE hosts[k]
  BY <1>2 DEF TypeOK
<1>6. Marked'
  BY <1>4, <1>5 DEF Marked
<1>7. Alone'
  BY <1>3, <1>4 DEF Alone
<1>8. Parked'
  BY <1>2 DEF TypeOK, Parked
<1>9. OwnMark'
  <2> SUFFICES ASSUME NEW d \in Callers, pc'[d] = "creating"
               PROVE  slotGeneration'[key[d]] = ownGeneration'[d]
    BY <1>2 DEF OwnMark
  <2>1. CASE d = c
    BY <1>2, <2>1 DEF TypeOK
  <2>2. CASE d # c
    <3>1. pc[d] = "creating" /\ key[d] \in Keys
      BY <2>2 DEF TypeOK
    <3>2. key[d] # key[c]
      BY <1>3, <3>1 DEF IsCreating
    <3>3. QED
      BY <1>2, <2>2, <3>1, <3>2 DEF TypeOK, OwnMark
  <2>3. QED
    BY <2>1, <2>2
<1>10. NothingFromBeforeClear'
  BY <1>5 DEF NothingFromBeforeClear, ReadyKeys
<1>11. QED
  BY <1>1, <1>6, <1>7, <1>8, <1>9, <1>10

(* Whatever becomes of the creation, the creator's mark goes; the host is  *)
(* published only in the generation its creation started in, and the       *)
(* evictions only make room.                                               *)
Published(c) ==
  hosts'[key[c]] = "ready" =>
    startedIn' = [startedIn EXCEPT ![key[c]] = ownGeneration[c]]
    /\ ownGeneration[c] = generation

LEMMA EndEffect ==
  ASSUME IInv, NEW c \in Callers, CreationSucceeds(c) \/ CreationFails(c)
  PROVE  /\ pc[c] = "creating" /\ key[c] \in Keys /\ c \notin waiters
         /\ key' = key /\ digest' = digest /\ waiters' = {}
         /\ pc' = [d \in Callers |-> IF d = c THEN "out"
                                     ELSE IF d \in waiters THEN "lookup" ELSE pc[d]]
         /\ UNCHANGED generations /\ ownGeneration' = ownGeneration
         /\ removals' = removals /\ failures' \in 0..MaxFailures
         /\ hosts' \in [Keys -> {"absent", "creating", "ready"}]
         /\ hosts'[key[c]] # "creating"
         /\ \A k \in Keys \ {key[c]} :
              hosts'[k] = hosts[k] \/ (hosts[k] = "ready" /\ hosts'[k] = "absent")
         /\ startedIn' \in [Keys -> Nat]
         /\ \A k \in Keys \ {key[c]} : startedIn'[k] = startedIn[k]
         /\ Published(c)
<1>1. /\ pc[c] = "creating" /\ key[c] \in Keys /\ c \notin waiters
      /\ ownGeneration[c] \in Nat /\ OwnSlot(c)
  <2>1. pc[c] = "creating"
    BY DEF CreationSucceeds, CreationFails
  <2>2. key[c] \in Keys /\ ownGeneration[c] \in Nat /\ c \notin waiters
    BY <2>1 DEF IInv, TypeOK, Parked
  <2>3. OwnSlot(c)
    BY <2>1, <2>2 DEF IInv, Marked, IsCreating, OwnMark, OwnSlot
  <2>4. QED
    BY <2>1, <2>2, <2>3
<1>2. CASE CreationSucceeds(c)
  <2>1. /\ key' = key /\ digest' = digest /\ waiters' = {}
        /\ pc' = [d \in Callers |-> IF d = c THEN "out"
                                    ELSE IF d \in waiters THEN "lookup" ELSE pc[d]]
        /\ UNCHANGED generations /\ ownGeneration' = ownGeneration
        /\ removals' = removals /\ failures' = failures
        /\ startedIn' = [startedIn EXCEPT ![key[c]] = ownGeneration[c]]
    BY <1>2 DEF CreationSucceeds, NotifyAll, asked, bounds
  <2>2. startedIn' \in [Keys -> Nat]
        /\ \A k \in Keys \ {key[c]} : startedIn'[k] = startedIn[k]
    BY <1>1, <2>1 DEF IInv, TypeOK
  <2>3. CASE ShouldPublish(c)
    <3> DEFINE published == [hosts EXCEPT ![key[c]] = "ready"]
               gone == Excess(published, Touched(order, key[c]))
    <3>1. hosts' = [k \in Keys |-> IF k \in gone THEN "absent" ELSE published[k]]
      BY <1>2, <2>3 DEF CreationSucceeds
    <3>2. gone \subseteq ReadyKeys(published)
      BY DEF Excess
    <3>3. QED
      BY <1>1, <2>1, <2>2, <2>3, <3>1, <3>2
      DEF IInv, TypeOK, ReadyKeys, Published, ShouldPublish
  <2>4. CASE ~ShouldPublish(c)
    <3>1. hosts' = [hosts EXCEPT ![key[c]] = "absent"]
      BY <1>2, <2>4 DEF CreationSucceeds
    <3>2. QED
      BY <1>1, <2>1, <2>2, <3>1 DEF IInv, TypeOK, Published
  <2>5. QED
    BY <2>3, <2>4
<1>3. CASE CreationFails(c)
  <2>1. failures' \in 0..MaxFailures
    BY <1>3, RegistryAssumption DEF IInv, TypeOK, CreationFails
  <2>2. hosts' = [hosts EXCEPT ![key[c]] = "absent"]
    BY <1>1, <1>3 DEF CreationFails
  <2>3. QED
    BY <1>1, <1>3, <2>1, <2>2
    DEF IInv, TypeOK, CreationFails, NotifyAll, asked, started, generations, Published
<1>4. QED
  BY <1>2, <1>3

LEMMA EndStep ==
  ASSUME IInv, NEW c \in Callers, CreationSucceeds(c) \/ CreationFails(c)
  PROVE  IInv'
<1> USE EndEffect
<1>1. TypeOK'
  <2>1. pc' \in [Callers -> Stages]
    BY DEF IInv, TypeOK, Stages
  <2>2. QED
    BY <2>1 DEF IInv, TypeOK, generations
<1>2. \A d \in Callers, k \in Keys : IsCreating(d, k)' <=> IsCreating(d, k) /\ d # c
  BY DEF IInv, Parked, IsCreating
<1>3. \A d \in Callers : IsCreating(d, key[c]) => d = c
  BY DEF IInv, Alone, IsCreating
<1>4. Marked'
  <2> SUFFICES ASSUME NEW k \in Keys
               PROVE  hosts'[k] = "creating" <=> \E d \in Callers : IsCreating(d, k)'
    BY DEF Marked
  <2>1. CASE k = key[c]
    BY <1>2, <1>3, <2>1
  <2>2. CASE k # key[c]
    <3>1. hosts'[k] = "creating" <=> hosts[k] = "creating"
      BY <2>2
    <3>2. ~IsCreating(c, k)
      BY <2>2 DEF IsCreating
    <3>3. QED
      BY <1>2, <3>1, <3>2 DEF IInv, Marked
  <2>3. QED
    BY <2>1, <2>2
<1>5. Parked' /\ Alone'
  BY <1>2 DEF IInv, Parked, Alone
<1>6. OwnMark'
  <2> SUFFICES ASSUME NEW d \in Callers, pc'[d] = "creating"
               PROVE  slotGeneration[key[d]] = ownGeneration[d]
    BY DEF OwnMark, generations
  <2>1. pc[d] = "creating"
    BY DEF IInv, Parked
  <2>2. QED
    BY <2>1 DEF IInv, OwnMark
<1>7. NothingFromBeforeClear'
  <2> SUFFICES ASSUME NEW k \in Keys, hosts'[k] = "ready"
               PROVE  startedIn'[k] = generation
    BY DEF NothingFromBeforeClear, ReadyKeys, generations
  <2>1. CASE k = key[c]
    BY <2>1 DEF Published, IInv, TypeOK
  <2>2. CASE k # key[c]
    BY <2>2 DEF IInv, NothingFromBeforeClear, ReadyKeys
  <2>3. QED
    BY <2>1, <2>2
<1>8. QED
  BY <1>1, <1>4, <1>5, <1>6, <1>7 DEF IInv

(* clear leaves the marks, and nothing that is ready.                      *)
LEMMA ClearStep ==
  ASSUME IInv, NEW c \in Callers, Clear(c)
  PROVE  IInv'
<1> USE DEF IInv, Clear, Goto, asked, started
<1>1. removals' \in 0..MaxRemovals /\ generation' \in Nat
  BY RegistryAssumption DEF TypeOK
<1>2. /\ hosts' \in [Keys -> {"absent", "creating", "ready"}]
      /\ \A k \in Keys : hosts'[k] # "ready"
      /\ \A k \in Keys : hosts'[k] = "creating" <=> hosts[k] = "creating"
  BY DEF TypeOK
<1>3. TypeOK'
  BY <1>1, <1>2 DEF TypeOK, Stages
<1>4. \A d \in Callers, k \in Keys : IsCreating(d, k)' <=> IsCreating(d, k)
  BY DEF TypeOK, IsCreating
<1>5. Marked' /\ Alone'
  BY <1>2, <1>4 DEF Marked, Alone
<1>6. Parked' /\ OwnMark'
  BY DEF TypeOK, Parked, OwnMark
<1>7. NothingFromBeforeClear'
  BY <1>2 DEF NothingFromBeforeClear, ReadyKeys
<1>8. QED
  BY <1>3, <1>5, <1>6, <1>7

LEMMA NotifyStep ==
  ASSUME IInv, NEW c \in Callers, ClearNotifies(c)
  PROVE  IInv'
<1> USE DEF IInv, ClearNotifies, NotifyAll, hostCache, asked, started, bounds
<1>1. TypeOK'
  BY DEF TypeOK, Stages
<1>2. \A d \in Callers, k \in Keys : IsCreating(d, k)' <=> IsCreating(d, k)
  BY DEF TypeOK, Parked, IsCreating
<1>3. Marked' /\ Alone'
  BY <1>2 DEF Marked, Alone
<1>4. Parked' /\ OwnMark'
  BY DEF TypeOK, Parked, OwnMark
<1>5. NothingFromBeforeClear'
  BY DEF NothingFromBeforeClear, ReadyKeys
<1>6. QED
  BY <1>1, <1>3, <1>4, <1>5

LEMMA StutterStep ==
  ASSUME IInv, UNCHANGED vars
  PROVE  IInv'
BY DEF IInv, TypeOK, Parked, Marked, Alone, OwnMark, IsCreating,
       NothingFromBeforeClear, ReadyKeys, vars, hostCache, callers, bounds

-----------------------------------------------------------------------------

LEMMA StepIInv == IInv /\ [Next]_vars => IInv'
<1> SUFFICES ASSUME IInv, [Next]_vars PROVE IInv'
  OBVIOUS
<1>1. ASSUME NEW c \in Callers, Local(c) PROVE IInv'
  BY <1>1, LocalMoves, MoveStep
<1>2. ASSUME NEW c \in Callers, Asks(c) PROVE IInv'
  BY <1>2, AskMoves, MoveStep
<1>3. ASSUME NEW c \in Callers, RegistryStep(c) PROVE IInv'
  BY <1>1, <1>3, WaitStep, StartStep, EndStep, NotifyStep DEF RegistryStep, Local
<1>4. QED
  BY <1>2, <1>3, ClearStep, StutterStep DEF Next, Asks

THEOREM Invariance == Spec => []IInv
BY InitIInv, StepIInv, PTL DEF Spec

(* The host cache, the callers and the generations have their types.       *)
THEOREM TypeCorrect == Spec => []TypeOK
<1>1. IInv => TypeOK
  BY DEF IInv
<1>2. QED
  BY Invariance, <1>1, PTL

(* A host whose creation began before a clear is never in the cache after  *)
(* it, however removals, clears and other creations pass in between.       *)
THEOREM ClearIsFinal == Spec => []NothingFromBeforeClear
<1>1. IInv => NothingFromBeforeClear
  BY DEF IInv
<1>2. QED
  BY Invariance, <1>1, PTL

(* A key being created has one creator, and the slot carries its           *)
(* generation: the comparison in should_publish never finds another's.     *)
THEOREM OneCreator == Spec => []OneCreatorPerKey
<1>1. IInv => SingleFlight({k \in Keys : hosts[k] = "creating"})
  BY Flight DEF IInv, Marked
<1>2. ASSUME IInv, NEW c \in Callers, pc[c] = "creating" PROVE OwnSlot(c)
  BY <1>2 DEF IInv, TypeOK, Marked, IsCreating, OwnMark, OwnSlot
<1>3. IInv => OneCreatorPerKey
  BY <1>1, <1>2 DEF OneCreatorPerKey
<1>4. QED
  BY Invariance, <1>3, PTL

-----------------------------------------------------------------------------
(* The two LRU caches.                                                     *)

LruOrder(s, S, cached) ==
  s \in Seq(S) /\ Distinct(s) /\ Elements(s) = cached

ArtifactsInv ==
  /\ LruOrder(artifactOrder, Digests, artifacts)
  /\ Cardinality(artifacts) <= MaxArtifacts

HostsInv ==
  /\ LruOrder(order, Keys, ReadyKeys(hosts))
  /\ Cardinality(ReadyKeys(hosts)) <= MaxReady

LEMMA TouchedFacts ==
  ASSUME NEW S, NEW s \in Seq(S), Distinct(s), NEW x \in S
  PROVE  LruOrder(Touched(s, x), S, Elements(s) \cup {x})
<1>1. Without(s, x) \in Seq(S) /\ Distinct(Without(s, x))
      /\ Elements(Without(s, x)) = Elements(s) \ {x}
  BY WithoutFacts
<1>2. Append(Without(s, x), x) \in Seq(S)
  BY <1>1, AppendFacts
<1>3. Distinct(Append(Without(s, x), x))
  <2>1. x \notin Elements(Without(s, x))
    BY <1>1
  <2>2. QED
    BY <1>1, <2>1, AppendFacts
<1>4. Elements(Append(Without(s, x), x)) = Elements(Without(s, x)) \cup {x}
  BY <1>1, AppendFacts
<1>5. QED
  BY <1>1, <1>2, <1>3, <1>4 DEF LruOrder, Touched

(* The eviction leaves a part of the order that is no longer than allowed. *)
LEMMA EvictFacts ==
  ASSUME NEW s \in Seq(Digests), Distinct(s)
  PROVE  /\ LruOrder(Evict(s), Digests, Elements(Evict(s)))
         /\ Cardinality(Elements(Evict(s))) <= MaxArtifacts
<1>1. Len(s) \in Nat /\ MaxArtifacts \in Nat
  BY WarmedHostsAssumption
<1>2. Evict(s) \in Seq(Digests) /\ Distinct(Evict(s)) /\ Len(Evict(s)) <= MaxArtifacts
  <2>1. CASE Len(s) > MaxArtifacts
    <3> DEFINE k == Len(s) - MaxArtifacts
               t == [i \in 1..MaxArtifacts |-> s[i + k]]
    <3>1. k \in Nat /\ \A i \in 1..MaxArtifacts : i + k \in 1..Len(s)
      BY <1>1, <2>1
    <3>2. Evict(s) = SubSeq(s, k + 1, Len(s))
      BY <2>1 DEF Evict
    <3>3. SubSeq(s, k + 1, Len(s)) = t
      <4>1. Len(s) - (k + 1) + 1 = MaxArtifacts
        BY <1>1, <3>1
      <4>2. SubSeq(s, k + 1, Len(s)) =
              [i \in 1..(Len(s) - (k + 1) + 1) |-> s[i + (k + 1) - 1]]
        BY <1>1, <3>1
      <4>3. \A i \in 1..MaxArtifacts : i + (k + 1) - 1 = i + k
        BY <3>1
      <4>4. QED
        BY <4>1, <4>2, <4>3
    <3>4. \A i \in 1..MaxArtifacts : s[i + k] \in Digests
      BY <3>1
    <3>5. t \in Seq(Digests) /\ Len(t) = MaxArtifacts
      BY <1>1, <3>4
    <3>6. \A i, j \in 1..MaxArtifacts : s[i + k] = s[j + k] => i = j
      BY <1>1, <3>1 DEF Distinct
    <3>7. Distinct(t)
      BY <3>5, <3>6 DEF Distinct
    <3> HIDE DEF t
    <3>8. Evict(s) = t
      BY <3>2, <3>3
    <3>9. QED
      BY <1>1, <3>5, <3>7, <3>8
  <2>2. CASE ~(Len(s) > MaxArtifacts)
    BY <1>1, <2>2 DEF Evict
  <2>3. QED
    BY <2>1, <2>2
<1>3. Cardinality(Elements(Evict(s))) = Len(Evict(s))
  BY <1>2, DistinctLen
<1>4. QED
  BY <1>2, <1>3 DEF LruOrder

LEMMA ReadyFinite ==
  ASSUME NEW h
  PROVE  /\ IsFiniteSet(ReadyKeys(h)) /\ Cardinality(ReadyKeys(h)) \in Nat
         /\ \A T \in SUBSET ReadyKeys(h) :
              Cardinality(T) \in Nat /\ Cardinality(T) <= Cardinality(ReadyKeys(h))
<1>1. ReadyKeys(h) \in SUBSET Keys /\ IsFiniteSet(Keys)
  BY WarmedHostsAssumption DEF ReadyKeys
<1>2. IsFiniteSet(ReadyKeys(h)) /\ Cardinality(ReadyKeys(h)) \in Nat
  BY <1>1, FS_Subset, FS_CardinalityType
<1>3. ASSUME NEW T \in SUBSET ReadyKeys(h)
      PROVE  Cardinality(T) \in Nat /\ Cardinality(T) <= Cardinality(ReadyKeys(h))
  <2>1. IsFiniteSet(T) /\ Cardinality(T) <= Cardinality(ReadyKeys(h))
    BY <1>2, FS_Subset
  <2>2. QED
    BY <2>1, FS_CardinalityType
<1>4. QED
  BY <1>2, <1>3

(* One host too many: the first of the order goes.                         *)
LEMMA MakeRoom ==
  ASSUME NEW h, NEW s, LruOrder(s, Keys, ReadyKeys(h)),
         Cardinality(ReadyKeys(h)) <= MaxReady + 1
  PROVE  Cardinality(ReadyKeys(h) \ Excess(h, s)) <= MaxReady
<1> DEFINE R == ReadyKeys(h)
<1>1. MaxReady \in Nat \ {0}
  BY WarmedHostsAssumption
<1>2. IsFiniteSet(R) /\ Cardinality(R) \in Nat
  BY ReadyFinite
<1>3. CASE Cardinality(R) <= MaxReady
  <2>1. R \ Excess(h, s) \in SUBSET R
    OBVIOUS
  <2>2. Cardinality(R \ Excess(h, s)) \in Nat
        /\ Cardinality(R \ Excess(h, s)) <= Cardinality(R)
    BY <2>1, ReadyFinite
  <2>3. QED
    BY <1>1, <1>2, <1>3, <2>2
<1>4. CASE Cardinality(R) = MaxReady + 1
  <2>1. s \in Seq(Keys) /\ Elements(s) = R /\ R # {}
    <3>1. Cardinality(R) # 0
      BY <1>1, <1>4
    <3>2. QED
      BY <3>1, FS_EmptySet DEF LruOrder
  <2>2. 1 \in 1..Len(s) /\ s[1] \in R
    BY <2>1 DEF Elements
  <2>3. {j \in 1..1 : s[j] \in R} = {1}
    BY <2>2
  <2>4. Cardinality({j \in 1..1 : s[j] \in R}) + MaxReady <= Cardinality(R)
    BY <1>1, <1>4, <2>3, FS_Singleton
  <2>5. s[1] \in Excess(h, s)
    BY <2>2, <2>4 DEF Excess
  <2>6. Cardinality(R \ {s[1]}) = MaxReady /\ R \ {s[1]} \in SUBSET R
    BY SMTT(20), <1>1, <1>2, <1>4, <2>2, FS_RemoveElement
  <2>7. IsFiniteSet(R \ {s[1]}) /\ R \ Excess(h, s) \in SUBSET (R \ {s[1]})
    BY <1>2, <2>5, <2>6, FS_Subset
  <2>8. Cardinality(R \ Excess(h, s)) <= Cardinality(R \ {s[1]})
    BY <2>7, FS_Subset
  <2>9. QED
    BY <2>6, <2>8
<1>5. QED
  BY <1>1, <1>2, <1>3, <1>4

LEMMA InitCaches == Init => ArtifactsInv /\ HostsInv
<1> SUFFICES ASSUME Init PROVE ArtifactsInv /\ HostsInv
  OBVIOUS
<1>1. artifactOrder = <<>> /\ artifacts = {} /\ order = <<>> /\ ReadyKeys(hosts) = {}
  BY DEF Init, ReadyKeys
<1>2. \A S : LruOrder(<<>>, S, {})
  BY DEF LruOrder, Distinct, Elements
<1>3. MaxReady \in Nat /\ MaxArtifacts \in Nat /\ Cardinality({}) = 0
  BY WarmedHostsAssumption, FS_EmptySet
<1>4. QED
  BY <1>1, <1>2, <1>3 DEF ArtifactsInv, HostsInv

LEMMA ArtifactsStep ==
  ASSUME IInv, ArtifactsInv, [Next]_vars
  PROVE  ArtifactsInv'
<1>1. /\ artifactOrder \in Seq(Digests) /\ Distinct(artifactOrder)
      /\ Elements(artifactOrder) = artifacts
      /\ IsFiniteSet(artifacts) /\ Cardinality(artifacts) \in Nat
      /\ MaxArtifacts \in Nat
  <2>1. artifactOrder \in Seq(Digests) /\ Elements(artifactOrder) = artifacts
    BY DEF ArtifactsInv, LruOrder
  <2>2. IsFiniteSet(artifacts)
    BY <2>1, DistinctLen
  <2>3. QED
    BY <2>1, <2>2, FS_CardinalityType, WarmedHostsAssumption DEF ArtifactsInv, LruOrder
<1>2. ASSUME UNCHANGED artifactCache PROVE ArtifactsInv'
  BY <1>2 DEF ArtifactsInv, artifactCache
<1>3. ASSUME NEW d \in artifacts, artifacts' = artifacts,
             artifactOrder' = Touched(artifactOrder, d)
      PROVE  ArtifactsInv'
  <2>1. d \in Digests /\ artifacts \cup {d} = artifacts
    BY <1>1 DEF Elements
  <2>2. LruOrder(Touched(artifactOrder, d), Digests, artifacts)
    <3>1. LruOrder(Touched(artifactOrder, d), Digests, Elements(artifactOrder) \cup {d})
      BY <1>1, <2>1, TouchedFacts
    <3>2. QED
      BY <1>1, <2>1, <3>1
  <2>3. QED
    BY <1>3, <2>2 DEF ArtifactsInv
(* Elements taken out of the order and of the cache alike.                 *)
<1>4. ASSUME artifactOrder' \in Seq(Digests), Distinct(artifactOrder'),
             Elements(artifactOrder') = artifacts', artifacts' \in SUBSET artifacts
      PROVE  ArtifactsInv'
  <2>1. IsFiniteSet(artifacts') /\ Cardinality(artifacts') <= Cardinality(artifacts)
    BY <1>1, <1>4, FS_Subset
  <2>2. Cardinality(artifacts') \in Nat
    BY <2>1, FS_CardinalityType
  <2>3. QED
    BY <1>1, <1>4, <2>1, <2>2 DEF ArtifactsInv, LruOrder
<1>5. ASSUME NEW c \in Callers, ParseSucceeds(c) PROVE ArtifactsInv'
  <2>1. digest[c] \in Digests
    BY DEF IInv, TypeOK
  <2>2. CASE digest[c] \in artifacts
    BY <1>3, <1>5, <2>2 DEF ParseSucceeds
  <2>3. CASE digest[c] \notin artifacts
    <3> DEFINE t == Touched(artifactOrder, digest[c])
    <3>1. artifactOrder' = Evict(t) /\ artifacts' = Elements(Evict(t))
      BY <1>5, <2>3 DEF ParseSucceeds
    <3>2. t \in Seq(Digests) /\ Distinct(t)
      BY <1>1, <2>1, TouchedFacts DEF LruOrder
    <3> HIDE DEF t
    <3>3. LruOrder(Evict(t), Digests, Elements(Evict(t)))
      BY <3>2, EvictFacts
    <3>4. Cardinality(Elements(Evict(t))) <= MaxArtifacts
      BY <3>2, EvictFacts
    <3>5. QED
      BY <3>1, <3>3, <3>4 DEF ArtifactsInv
  <2>4. QED
    BY <2>2, <2>3
<1>6. ASSUME NEW c \in Callers, FindArtifact(c) PROVE ArtifactsInv'
  BY <1>2, <1>3, <1>6 DEF FindArtifact, artifactCache
<1>7. ASSUME NEW c \in Callers, NEW d \in Digests, ReadyForBytes(c, d)
      PROVE  ArtifactsInv'
  BY <1>2, <1>3, <1>7 DEF ReadyForBytes, artifactCache
<1>8. ASSUME NEW c \in Callers, NEW d \in Digests, RemoveForBytes(c, d)
      PROVE  ArtifactsInv'
  <2>1. artifactOrder' = Without(artifactOrder, d) /\ artifacts' = artifacts \ {d}
    BY <1>8 DEF RemoveForBytes
  <2>2. Without(artifactOrder, d) \in Seq(Digests)
    BY <1>1, WithoutFacts
  <2>3. Elements(Without(artifactOrder, d)) = artifacts \ {d}
    BY <1>1, WithoutFacts
  <2>4. Distinct(Without(artifactOrder, d))
    BY <1>1, WithoutFacts
  <2>5. QED
    BY <1>4, <2>1, <2>2, <2>3, <2>4
<1>9. ASSUME NEW c \in Callers, PurgeArtifacts(c) PROVE ArtifactsInv'
  <2> DEFINE T == {d \in Digests : KeyOf[d] # key[c]}
  <2>1. artifactOrder' = Retained(artifactOrder, T)
        /\ artifacts' = {d \in artifacts : KeyOf[d] # key[c]}
    BY <1>9 DEF PurgeArtifacts
  <2>2. artifacts \in SUBSET Digests
    BY <1>1 DEF Elements
  <2>3. artifacts' = artifacts \cap T
    BY <2>1, <2>2
  <2> HIDE DEF T
  <2>4. Retained(artifactOrder, T) \in Seq(Digests)
    BY <1>1, RetainedFacts
  <2>5. Elements(Retained(artifactOrder, T)) = Elements(artifactOrder) \cap T
    BY <1>1, RetainedFacts
  <2>6. Distinct(Retained(artifactOrder, T))
    BY <1>1, RetainedFacts
  <2>7. QED
    BY <1>1, <1>4, <2>1, <2>3, <2>4, <2>5, <2>6
<1>10. ASSUME NEW c \in Callers, ClearArtifacts(c) PROVE ArtifactsInv'
  <2>1. artifactOrder' = <<>> /\ artifacts' = {}
    BY <1>10 DEF ClearArtifacts
  <2>2. <<>> \in Seq(Digests) /\ Distinct(<<>>) /\ Elements(<<>>) = {}
    BY DEF Distinct, Elements
  <2>3. QED
    BY <1>4, <2>1, <2>2
<1>11. ASSUME NEW c \in Callers,
              \/ ParseFails(c) \/ FindHost(c) \/ WaitForCreator(c)
              \/ StartCreating(c) \/ CreationSucceeds(c) \/ CreationFails(c)
              \/ ReadyForArtifact(c) \/ RemoveReady(c) \/ ClearNotifies(c)
              \/ Clear(c)
       PROVE  ArtifactsInv'
  BY <1>2, <1>11 DEF ParseFails, FindHost, WaitForCreator, StartCreating,
     CreationSucceeds, CreationFails, ReadyForArtifact, RemoveReady,
     ClearNotifies, Clear
<1>12. ASSUME NEW c \in Callers, NEW d \in Digests,
              HostForBytes(c, d) \/ HostForArtifact(c, d) \/ RemoveForArtifact(c, d)
       PROVE  ArtifactsInv'
  BY <1>2, <1>12 DEF HostForBytes, HostForArtifact, RemoveForArtifact
<1>13. CASE UNCHANGED vars
  BY <1>2, <1>13 DEF vars
<1>14. QED
  BY <1>5, <1>6, <1>7, <1>8, <1>9, <1>10, <1>11, <1>12, <1>13
  DEF Next, RegistryStep

LEMMA HostsStep ==
  ASSUME IInv, HostsInv, [Next]_vars
  PROVE  HostsInv'
<1> DEFINE R == ReadyKeys(hosts)
<1>1. /\ order \in Seq(Keys) /\ Distinct(order) /\ Elements(order) = R
      /\ MaxReady \in Nat \ {0} /\ R \in SUBSET Keys
      /\ Cardinality(R) \in Nat /\ IsFiniteSet(R)
  BY WarmedHostsAssumption, ReadyFinite DEF HostsInv, LruOrder, ReadyKeys
<1>2. ASSUME ReadyKeys(hosts') = R, order' = order PROVE HostsInv'
  BY <1>2 DEF HostsInv
<1>3. ASSUME NEW k \in R, hosts' = hosts, order' = Touched(order, k) PROVE HostsInv'
  <2>1. k \in Keys /\ R \cup {k} = R
    BY <1>1
  <2>2. LruOrder(Touched(order, k), Keys, Elements(order) \cup {k})
    BY <1>1, <2>1, TouchedFacts
  <2>3. QED
    BY <1>1, <1>3, <2>1, <2>2 DEF HostsInv
<1>4. ASSUME NEW k \in Keys, order' = Without(order, k), ReadyKeys(hosts') = R \ {k}
      PROVE  HostsInv'
  <2>1. Without(order, k) \in Seq(Keys)
    BY <1>1, WithoutFacts
  <2>2. Elements(Without(order, k)) = R \ {k}
    BY <1>1, WithoutFacts
  <2>3. Distinct(Without(order, k))
    BY <1>1, WithoutFacts
  <2>4. R \ {k} \in SUBSET R
    OBVIOUS
  <2>5. Cardinality(R \ {k}) \in Nat /\ Cardinality(R \ {k}) <= Cardinality(R)
    BY <2>4, ReadyFinite
  <2>6. QED
    BY <1>1, <1>4, <2>1, <2>2, <2>3, <2>5 DEF HostsInv, LruOrder
<1>5. ASSUME NEW c \in Callers, CreationSucceeds(c) \/ CreationFails(c)
      PROVE  HostsInv'
  <2>1. pc[c] = "creating" /\ key[c] \in Keys
    BY <1>5 DEF CreationSucceeds, CreationFails, IInv, TypeOK
  <2>2. OwnSlot(c) /\ hosts[key[c]] = "creating" /\ key[c] \notin R
    BY <2>1 DEF IInv, Marked, IsCreating, OwnMark, OwnSlot, ReadyKeys
  <2>3. ASSUME hosts' = [hosts EXCEPT ![key[c]] = "absent"],
               order' = Without(order, key[c])
        PROVE  HostsInv'
    <3>1. ReadyKeys(hosts') = R \ {key[c]}
      BY <2>1, <2>2, <2>3 DEF ReadyKeys, IInv, TypeOK
    <3>2. QED
      BY <1>4, <2>1, <2>3, <3>1
  <2>4. CASE CreationSucceeds(c) /\ ShouldPublish(c)
    <3> DEFINE published == [hosts EXCEPT ![key[c]] = "ready"]
               touched == Touched(order, key[c])
               gone == Excess(published, touched)
    <3>1. /\ hosts' = [k \in Keys |-> IF k \in gone THEN "absent" ELSE published[k]]
          /\ order' = Retained(touched, Keys \ gone)
      BY <2>4 DEF CreationSucceeds
    <3>2. ReadyKeys(published) = R \cup {key[c]}
      BY <2>1 DEF ReadyKeys, IInv, TypeOK
    <3>3. LruOrder(touched, Keys, ReadyKeys(published))
      <4>1. LruOrder(touched, Keys, Elements(order) \cup {key[c]})
        BY <1>1, <2>1, TouchedFacts
      <4>2. QED
        BY <1>1, <3>2, <4>1
    <3>4. Cardinality(ReadyKeys(published)) <= MaxReady + 1
      <4>1. Cardinality(R \cup {key[c]}) = Cardinality(R) + 1
        BY <1>1, <2>2, FS_AddElement
      <4>2. Cardinality(R) <= MaxReady
        BY DEF HostsInv
      <4> HIDE DEF R, published
      <4>3. QED
        BY <1>1, <3>2, <4>1, <4>2
    <3> HIDE DEF touched
    <3>5. Cardinality(ReadyKeys(published) \ gone) <= MaxReady
      BY <3>3, <3>4, MakeRoom
    <3>6. ReadyKeys(hosts') = ReadyKeys(published) \ gone
      BY <3>1 DEF ReadyKeys
    <3> HIDE DEF gone, published
    <3>7. touched \in Seq(Keys) /\ Distinct(touched)
          /\ Elements(touched) = ReadyKeys(published)
          /\ ReadyKeys(published) \in SUBSET Keys
      BY <3>3 DEF LruOrder, ReadyKeys
    <3>8. Retained(touched, Keys \ gone) \in Seq(Keys)
      BY <3>7, RetainedFacts
    <3>9. Elements(Retained(touched, Keys \ gone)) = Elements(touched) \cap (Keys \ gone)
      BY <3>7, RetainedFacts
    <3>10. Distinct(Retained(touched, Keys \ gone))
      BY <3>7, RetainedFacts
    <3>11. Elements(order') = ReadyKeys(hosts')
      BY <3>1, <3>6, <3>7, <3>9
    <3>12. QED
      BY <3>1, <3>5, <3>6, <3>8, <3>10, <3>11 DEF HostsInv, LruOrder
  <2>5. CASE CreationSucceeds(c) /\ ~ShouldPublish(c)
    BY <2>3, <2>5 DEF CreationSucceeds
  <2>6. CASE CreationFails(c)
    BY <2>2, <2>3, <2>6 DEF CreationFails
  <2>7. QED
    BY <1>5, <2>4, <2>5, <2>6
<1>6. ASSUME NEW c \in Callers, FindHost(c) PROVE HostsInv'
  <2>1. key[c] \in R
    BY <1>6 DEF FindHost, ReadyKeys, IInv, TypeOK
  <2>2. QED
    BY <1>3, <1>6, <2>1 DEF FindHost
<1>7. ASSUME NEW c \in Callers, ReadyForArtifact(c) PROVE HostsInv'
  <2>1. hosts[key[c]] = "ready" => key[c] \in R
    BY DEF ReadyKeys, IInv, TypeOK
  <2>2. QED
    BY <1>2, <1>3, <1>7, <2>1 DEF ReadyForArtifact
<1>8. ASSUME NEW c \in Callers, StartCreating(c) PROVE HostsInv'
  <2>1. order' = order /\ ReadyKeys(hosts') = R
    BY <1>8 DEF StartCreating, ReadyKeys, IInv, TypeOK
  <2>2. QED
    BY <1>2, <2>1
<1>9. ASSUME NEW c \in Callers, RemoveReady(c) PROVE HostsInv'
  <2>1. CASE hosts[key[c]] = "ready"
    <3>1. key[c] \in Keys /\ order' = Without(order, key[c])
      BY <1>9, <2>1 DEF RemoveReady, IInv, TypeOK
    <3>2. ReadyKeys(hosts') = R \ {key[c]}
      BY <1>9, <2>1 DEF RemoveReady, ReadyKeys, IInv, TypeOK
    <3>3. QED
      BY <1>4, <3>1, <3>2
  <2>2. CASE hosts[key[c]] # "ready"
    BY <1>2, <1>9, <2>2 DEF RemoveReady
  <2>3. QED
    BY <2>1, <2>2
<1>10. ASSUME NEW c \in Callers, Clear(c) PROVE HostsInv'
  <2>1. order' = <<>> /\ ReadyKeys(hosts') = {}
    BY <1>10 DEF Clear, ReadyKeys, IInv, TypeOK
  <2>2. <<>> \in Seq(Keys) /\ Distinct(<<>>) /\ Elements(<<>>) = {}
    BY DEF Distinct, Elements
  <2>3. Cardinality({}) <= MaxReady
    BY <1>1, FS_EmptySet
  <2>4. QED
    BY <2>1, <2>2, <2>3 DEF HostsInv, LruOrder
<1>11. ASSUME NEW c \in Callers,
              \/ FindArtifact(c) \/ ParseSucceeds(c) \/ ParseFails(c)
              \/ WaitForCreator(c) \/ PurgeArtifacts(c) \/ ClearArtifacts(c)
              \/ ClearNotifies(c)
       PROVE  HostsInv'
  BY <1>2, <1>11 DEF FindArtifact, ParseSucceeds, ParseFails, WaitForCreator,
     PurgeArtifacts, ClearArtifacts, ClearNotifies, hostCache
<1>12. ASSUME NEW c \in Callers, NEW d \in Digests,
              \/ HostForBytes(c, d) \/ HostForArtifact(c, d) \/ ReadyForBytes(c, d)
              \/ RemoveForBytes(c, d) \/ RemoveForArtifact(c, d)
       PROVE  HostsInv'
  BY <1>2, <1>12 DEF HostForBytes, HostForArtifact, ReadyForBytes, RemoveForBytes,
     RemoveForArtifact, hostCache
<1>13. CASE UNCHANGED vars
  BY <1>2, <1>13 DEF vars, hostCache
<1>14. QED
  BY <1>5, <1>6, <1>7, <1>8, <1>9, <1>10, <1>11, <1>12, <1>13
  DEF Next, RegistryStep

(* The caches and their orders agree and keep their limits, however many   *)
(* archives, keys and callers there are: the evictions have to remove one  *)
(* entry only, since no insertion starts from a cache above its limit.     *)
THEOREM CachesStayConsistent == Spec => []CachesConsistent
<1>1. IInv /\ (ArtifactsInv /\ HostsInv) /\ [Next]_vars => (ArtifactsInv /\ HostsInv)'
  BY ArtifactsStep, HostsStep
<1>2. ArtifactsInv /\ HostsInv => CachesConsistent
  BY DEF ArtifactsInv, HostsInv, LruOrder, CachesConsistent
<1>3. QED
  BY Invariance, InitCaches, <1>1, <1>2, PTL DEF Spec

(***************************************************************************)
(* PoolRegistry                                                            *)
(***************************************************************************)

(* A slot is marked while somebody creates its pool, and by one only.      *)
PoolsMarked == \A k \in Keys :
  pools[k] = Creating <=> \E c \in Callers : IsCreating(c, k)

PoolsInv == PoolsTypeOK /\ Parked /\ PoolsMarked /\ Alone

LEMMA PoolsInitInv == PoolsInit => PoolsInv
<1> SUFFICES ASSUME PoolsInit PROVE PoolsInv
  OBVIOUS
<1> USE DEF PoolsInit
<1>1. /\ failures \in 0..MaxFailures /\ removals \in 0..MaxRemovals
      /\ nextPool \in Nat /\ waiters \subseteq Callers
  BY RegistryAssumption
<1>2. /\ pools \in [Keys -> Pool \cup {Absent, Creating}]
      /\ handlers \in [Keys -> Pool \cup {Absent}]
      /\ got \in [Callers -> Pool \cup {Absent}]
  OBVIOUS
<1>3. pc \in [Callers -> PoolStages] /\ goal \in [Callers -> {"pool", "handler"}]
  BY DEF PoolStages
<1>4. PoolsTypeOK
  BY <1>1, <1>2, <1>3 DEF PoolsTypeOK
<1>5. Parked /\ Alone
  BY DEF Parked, Alone, IsCreating
<1>6. PoolsMarked
  BY DEF PoolsMarked, IsCreating, Absent, Creating
<1>7. QED
  BY <1>4, <1>5, <1>6 DEF PoolsInv

-----------------------------------------------------------------------------
(* The steps, by what they do to the callers and to the slots.             *)

(* A caller that neither creates nor starts to moves on by itself.         *)
PoolsMoves(c) ==
  /\ pc[c] \notin {"creating"} /\ c \notin waiters
  /\ \E stage \in PoolStages \ {"creating", "waiting"} :
       pc' = [pc EXCEPT ![c] = stage]
  /\ pools' = pools /\ waiters' = waiters
  /\ \A d \in Callers : d # c => key'[d] = key[d]

PoolsLocal(c) ==
  \/ CachedHandler(c) \/ FindPool(c)
  \/ HandlerPrepared(c) \/ HandlerFails(c) \/ PublishHandler(c)
  \/ \E k \in Keys : AskForPool(c, k) \/ AskForHandler(c, k)

LEMMA PoolsLocalMoves ==
  ASSUME PoolsInv, NEW c \in Callers, PoolsLocal(c)
  PROVE  PoolsMoves(c)
<1>1. /\ pc[c] # "creating" /\ pc[c] # "waiting"
      /\ pools' = pools /\ waiters' = waiters
      /\ \E stage \in PoolStages \ {"creating", "waiting"} :
           pc' = [pc EXCEPT ![c] = stage]
  BY DEF PoolsLocal, CachedHandler, FindPool, HandlerPrepared, HandlerFails,
         PublishHandler, AskForPool, AskForHandler, Goto, AfterPool, PoolStages,
         tables
<1>2. \A d \in Callers : d # c => key'[d] = key[d]
  BY DEF PoolsInv, PoolsTypeOK, PoolsLocal, CachedHandler, FindPool,
         HandlerPrepared, HandlerFails, PublishHandler, AskForPool,
         AskForHandler, wanted
<1>3. QED
  BY <1>1, <1>2 DEF PoolsInv, Parked, PoolsMoves

LEMMA LocalTypes ==
  ASSUME PoolsInv, NEW c \in Callers, PoolsLocal(c)
  PROVE  PoolsTypeOK'
<1> USE DEF PoolsInv, PoolsTypeOK, tables, wanted, bounds
<1>1. pc' \in [Callers -> PoolStages] /\ waiters' \subseteq Callers
      /\ pools' \in [Keys -> Pool \cup {Absent, Creating}]
  BY PoolsLocalMoves DEF PoolsMoves
<1>2. key' \in [Callers -> Keys] /\ goal' \in [Callers -> {"pool", "handler"}]
  BY DEF PoolsLocal, CachedHandler, FindPool, HandlerPrepared, HandlerFails,
         PublishHandler, AskForPool, AskForHandler
<1>3. got' \in [Callers -> Pool \cup {Absent}]
  BY DEF PoolsLocal, CachedHandler, FindPool, HandlerPrepared, HandlerFails,
         PublishHandler, AskForPool, AskForHandler, Take
<1>4. handlers' \in [Keys -> Pool \cup {Absent}]
  BY DEF PoolsLocal, CachedHandler, FindPool, HandlerPrepared, HandlerFails,
         PublishHandler, AskForPool, AskForHandler
<1>5. nextPool' \in Nat /\ removals' \in 0..MaxRemovals
  BY DEF PoolsLocal, CachedHandler, FindPool, HandlerPrepared, HandlerFails,
         PublishHandler, AskForPool, AskForHandler
<1>6. failures' \in 0..MaxFailures
  BY RegistryAssumption
  DEF PoolsLocal, CachedHandler, FindPool, HandlerPrepared, HandlerFails,
      PublishHandler, AskForPool, AskForHandler
<1>7. QED
  BY <1>1, <1>2, <1>3, <1>4, <1>5, <1>6

LEMMA LocalStep ==
  ASSUME PoolsInv, NEW c \in Callers, PoolsLocal(c)
  PROVE  PoolsInv'
<1>1. PoolsTypeOK'
  BY LocalTypes
<1>2. PICK stage \in PoolStages \ {"creating", "waiting"} :
        pc' = [pc EXCEPT ![c] = stage]
  BY PoolsLocalMoves DEF PoolsMoves
<1>3. \A d \in Callers, k \in Keys : IsCreating(d, k)' <=> IsCreating(d, k)
  BY <1>2, PoolsLocalMoves DEF PoolsInv, PoolsTypeOK, PoolsMoves, IsCreating
<1>4. Parked'
  BY <1>2, PoolsLocalMoves DEF PoolsInv, PoolsTypeOK, Parked, PoolsMoves
<1>5. PoolsMarked' /\ Alone'
  BY <1>3, PoolsLocalMoves DEF PoolsInv, PoolsMarked, Alone, PoolsMoves
<1>6. QED
  BY <1>1, <1>4, <1>5 DEF PoolsInv

LEMMA PoolsWaitStep ==
  ASSUME PoolsInv, NEW c \in Callers, WaitForPool(c)
  PROVE  PoolsInv'
<1> USE DEF PoolsInv, WaitForPool, Goto, tables, wanted, bounds
<1>1. PoolsTypeOK'
  BY DEF PoolsTypeOK, PoolStages
<1>2. \A d \in Callers, k \in Keys : IsCreating(d, k)' <=> IsCreating(d, k)
  BY DEF PoolsTypeOK, IsCreating
<1>3. Parked'
  BY DEF PoolsTypeOK, Parked
<1>4. PoolsMarked' /\ Alone'
  BY <1>2 DEF PoolsMarked, Alone
<1>5. QED
  BY <1>1, <1>3, <1>4

(* The slot was Absent, so nobody was creating the pool of that key.       *)
LEMMA PoolsStartStep ==
  ASSUME PoolsInv, NEW c \in Callers, StartPool(c)
  PROVE  PoolsInv'
<1> USE DEF PoolsInv, StartPool, Goto, wanted, bounds
<1>1. PoolsTypeOK'
  BY DEF PoolsTypeOK, PoolStages
<1>2. key[c] \in Keys /\ pc[c] = "lookup" /\ key' = key
  BY DEF PoolsTypeOK
<1>3. \A d \in Callers : ~IsCreating(d, key[c])
  BY <1>2 DEF PoolsMarked, Absent, Creating
<1>4. \A d \in Callers, k \in Keys :
        IsCreating(d, k)' <=> IsCreating(d, k) \/ (d = c /\ k = key[c])
  BY <1>2 DEF PoolsTypeOK, IsCreating
<1>5. Parked'
  BY <1>2 DEF PoolsTypeOK, Parked
<1>6. PoolsMarked'
  <2>1. \A k \in Keys : pools'[k] = IF k = key[c] THEN Creating ELSE pools[k]
    BY <1>2 DEF PoolsTypeOK
  <2>2. QED
    BY <1>4, <2>1 DEF PoolsMarked
<1>7. Alone'
  BY <1>3, <1>4 DEF Alone
<1>8. QED
  BY <1>1, <1>5, <1>6, <1>7

(* The creator leaves, and takes the mark with it.                         *)
LEMMA PoolsEndStep ==
  ASSUME PoolsInv, NEW c \in Callers, PoolCreated(c) \/ PoolFails(c)
  PROVE  PoolsInv'
<1> USE DEF PoolsInv, NotifyAll
<1>1. /\ pc[c] = "creating" /\ key[c] \in Keys /\ key' = key /\ goal' = goal
      /\ handlers' = handlers /\ waiters' = {} /\ c \notin waiters
      /\ removals' = removals
  BY DEF PoolsTypeOK, Parked, PoolCreated, PoolFails, wanted, bounds
<1>2. /\ nextPool' \in Nat /\ failures' \in 0..MaxFailures
      /\ got' \in [Callers -> Pool \cup {Absent}]
      /\ \E pool \in Pool \cup {Absent} : pools' = [pools EXCEPT ![key[c]] = pool]
  <2>1. CASE PoolCreated(c)
    <3>1. nextPool' \in Pool
      BY <2>1 DEF PoolsTypeOK, PoolCreated, Pool
    <3>2. QED
      BY <2>1, <3>1 DEF PoolsTypeOK, PoolCreated, Take, Pool, bounds
  <2>2. CASE PoolFails(c)
    <3>1. failures' \in 0..MaxFailures
      BY <2>2, RegistryAssumption DEF PoolsTypeOK, PoolFails
    <3>2. pools' = [pools EXCEPT ![key[c]] = Absent] /\ got' = got
          /\ nextPool' = nextPool
      BY <2>2 DEF PoolFails
    <3>3. QED
      BY <3>1, <3>2 DEF PoolsTypeOK
  <2>3. QED
    BY <2>1, <2>2
<1>3. PICK pool \in Pool \cup {Absent} : pools' = [pools EXCEPT ![key[c]] = pool]
  BY <1>2
<1>4. PICK stage \in {"out", "preparing"} :
        pc' = [d \in Callers |-> IF d = c THEN stage
                                 ELSE IF d \in waiters THEN "lookup" ELSE pc[d]]
  <2>1. CASE PoolCreated(c)
    BY <2>1 DEF PoolCreated, AfterPool
  <2>2. CASE PoolFails(c)
    BY <2>2 DEF PoolFails
  <2>3. QED
    BY <2>1, <2>2
<1>5. pc' \in [Callers -> PoolStages]
  BY <1>4 DEF PoolsTypeOK, PoolStages
<1>6. pools' \in [Keys -> Pool \cup {Absent, Creating}]
  BY <1>1, <1>3 DEF PoolsTypeOK
<1>7. PoolsTypeOK'
  BY <1>1, <1>2, <1>5, <1>6 DEF PoolsTypeOK
<1>8. \A d \in Callers, k \in Keys : IsCreating(d, k)' <=> IsCreating(d, k) /\ d # c
  BY <1>1, <1>4 DEF PoolsTypeOK, Parked, IsCreating
<1>9. \A d \in Callers : IsCreating(d, key[c]) => d = c
  BY <1>1 DEF Alone, IsCreating
<1>10. pool # Creating
  BY DEF Pool, Absent, Creating
<1>11. PoolsMarked'
  <2> SUFFICES ASSUME NEW k \in Keys
               PROVE  pools'[k] = Creating <=> \E d \in Callers : IsCreating(d, k)'
    BY DEF PoolsMarked
  <2>1. CASE k = key[c]
    BY <1>1, <1>3, <1>8, <1>9, <1>10, <2>1 DEF PoolsTypeOK
  <2>2. CASE k # key[c]
    BY <1>1, <1>3, <1>8, <2>2 DEF PoolsTypeOK, PoolsMarked, IsCreating
  <2>3. QED
    BY <2>1, <2>2
<1>12. Parked' /\ Alone'
  BY <1>1, <1>8 DEF Parked, Alone
<1>13. QED
  BY <1>7, <1>11, <1>12

(* Only a stored pool is removed, never a mark.                            *)
LEMMA RemoveStep ==
  ASSUME PoolsInv, NEW c \in Callers, NEW k \in Keys, RemovePool(c, k)
  PROVE  PoolsInv'
<1> USE DEF PoolsInv, RemovePool, wanted
<1>1. removals' \in 0..MaxRemovals
  BY RegistryAssumption DEF PoolsTypeOK
<1>2. PoolsTypeOK'
  BY <1>1 DEF PoolsTypeOK
<1>3. \A d \in Callers, j \in Keys : IsCreating(d, j)' <=> IsCreating(d, j)
  BY DEF IsCreating
<1>4. \A j \in Keys : pools'[j] = Creating <=> pools[j] = Creating
  BY DEF PoolsTypeOK, Pool, Absent, Creating
<1>5. QED
  BY <1>2, <1>3, <1>4 DEF Parked, PoolsMarked, Alone

LEMMA PoolsStutterStep ==
  ASSUME PoolsInv, UNCHANGED poolVars
  PROVE  PoolsInv'
BY DEF PoolsInv, PoolsTypeOK, Parked, PoolsMarked, Alone, IsCreating, poolVars

-----------------------------------------------------------------------------

LEMMA PoolsStepInv == PoolsInv /\ [PoolsNext]_poolVars => PoolsInv'
<1> SUFFICES ASSUME PoolsInv, [PoolsNext]_poolVars PROVE PoolsInv'
  OBVIOUS
<1>1. ASSUME NEW c \in Callers, PoolRegistryStep(c) PROVE PoolsInv'
  BY <1>1, LocalStep, PoolsWaitStep, PoolsStartStep, PoolsEndStep DEF 
                                                                      PoolRegistryStep,
                                                                      PoolsLocal
<1>2. ASSUME NEW c \in Callers, NEW k \in Keys,
             AskForPool(c, k) \/ AskForHandler(c, k) \/ RemovePool(c, k)
      PROVE  PoolsInv'
  BY <1>2, LocalStep, RemoveStep DEF PoolsLocal
<1>3. QED
  BY <1>1, <1>2, PoolsStutterStep DEF PoolsNext

THEOREM PoolsInvariance == PoolsSpec => []PoolsInv
BY PoolsInitInv, PoolsStepInv, PTL DEF PoolsSpec

(* Each variable has its type: the maps hold pools that were created.      *)
THEOREM PoolsTypeCorrect == PoolsSpec => []PoolsTypeOK
<1>1. PoolsInv => PoolsTypeOK
  BY DEF PoolsInv
<1>2. QED
  BY PoolsInvariance, <1>1, PTL

(* However many callers ask for a key at once, one of them creates its     *)
(* pool, and the mark goes when that caller is done.                       *)
THEOREM PoolsOneCreator == PoolsSpec => []OneCreatorPerPool
<1>1. PoolsInv => OneCreatorPerPool
  BY Flight DEF PoolsInv, PoolsMarked, OneCreatorPerPool
<1>2. QED
  BY PoolsInvariance, <1>1, PTL

(* A pool that was stored, or a handler that was cached, stays until its   *)
(* key is removed; a removal takes both.                                   *)
THEOREM EntriesStay == PoolsSpec => NothingIsReplaced
<1> DEFINE Stays ==
      \A k \in Keys :
       /\ pools[k] \in Pool => pools'[k] \in {pools[k], Absent}
       /\ handlers[k] \in Pool /\ handlers'[k] # handlers[k] =>
            handlers'[k] = Absent /\ pools'[k] = Absent
<1>1. ASSUME PoolsInv, PoolsNext PROVE Stays
  <2> USE <1>1 DEF PoolsInv, PoolsTypeOK, tables
  <2>1. ASSUME NEW c \in Callers, PoolsLocal(c), ~PublishHandler(c) PROVE Stays
    BY <2>1 DEF PoolsLocal, CachedHandler, FindPool, HandlerPrepared,
                HandlerFails, AskForPool, AskForHandler
  <2>2. ASSUME NEW c \in Callers, PublishHandler(c) PROVE Stays
    BY <2>2 DEF PublishHandler, Pool, Absent
  <2>3. ASSUME NEW c \in Callers, WaitForPool(c) PROVE Stays
    BY <2>3 DEF WaitForPool
  <2>4. ASSUME NEW c \in Callers, StartPool(c) PROVE Stays
    BY <2>4 DEF StartPool, Pool, Absent
  <2>5. ASSUME NEW c \in Callers, PoolCreated(c) \/ PoolFails(c)
        PROVE  Stays
    <3>1. pc[c] = "creating" /\ key[c] \in Keys
      BY <2>5 DEF PoolCreated, PoolFails
    <3>4. pools[key[c]] = Creating
      BY <3>1 DEF PoolsMarked, IsCreating
    <3>2. handlers' = handlers /\ \A k \in Keys : k # key[c] => pools'[k] = pools[k]
      <4>1. CASE PoolCreated(c)
        BY <4>1 DEF PoolCreated
      <4>2. CASE PoolFails(c)
        BY <4>2 DEF PoolFails
      <4>3. QED
        BY <2>5, <4>1, <4>2
    <3>3. QED
      BY <3>1, <3>2, <3>4 DEF Pool, Creating
  <2>6. ASSUME NEW c \in Callers, NEW k \in Keys, RemovePool(c, k) PROVE Stays
    BY <2>6 DEF RemovePool
  <2>7. QED
    <3> HIDE DEF PoolsInv, PoolsTypeOK, Stays
    <3> QED
      BY <2>1, <2>2, <2>3, <2>4, <2>5, <2>6 DEF PoolsNext, PoolRegistryStep,
                                                PoolsLocal
<1>2. ASSUME PoolsInv, [PoolsNext]_poolVars PROVE [Stays]_poolVars
  BY <1>1, <1>2
<1>3. QED
  BY PoolsInvariance, <1>2, PTL DEF PoolsSpec, NothingIsReplaced

-----------------------------------------------------------------------------
(* Bundles: what is read, made, selected and prepared of them              *)

(* What has been read keeps the limits, and no path is outside.            *)
InLimits(entries, l) ==
  /\ entries \in Seq(AnyEntry)
  /\ l \in Limits \cup {DefaultLimits}
  /\ Len(entries) <= l.entries /\ SizeOf(entries) <= l.total
  /\ \A i \in 1..Len(entries) :
       entries[i].size <= l.entry /\ entries[i].path # Outside

Reading ==
  reading # Unset =>
    /\ reading = [left |-> reading.left, entries |-> reading.entries,
                  total |-> reading.total, limits |-> reading.limits,
                  module |-> reading.module]
    /\ reading.left \in Seq(AnyRecord)
    /\ InLimits(reading.entries, reading.limits)
    /\ reading.total = SizeOf(reading.entries)
    /\ Len(reading.left) + Len(reading.entries) <= reading.limits.entries

(* The entries are those of the first records of an inline bundle.         *)
BegunFrom(entries, as, m) ==
  LET records == InlineRecords(as, m) IN
    /\ \A i, j \in 1..Len(records) : records[i].name = records[j].name => i = j
    /\ Len(entries) <= Len(records)
    /\ \A i \in 1..Len(entries) : entries[i] = EntryOf(records[i])

ReadingInline ==
  reading # Unset /\ reading.module # Unset =>
    \E as \in DOMAIN Dotted, m \in Inline :
      /\ reading.module = Dotted[as]
      /\ BegunFrom(reading.entries, as, m)
      /\ LET records == InlineRecords(as, m)
         IN reading.left = SubSeq(records, Len(reading.entries) + 1, Len(records))

BundlesRead ==
  \A b \in bundles :
    /\ b = [entries |-> b.entries, limits |-> b.limits, module |-> b.module]
    /\ InLimits(b.entries, b.limits)
    /\ b.module # Unset =>
         \E as \in DOMAIN Dotted, m \in Inline :
           /\ b.module = Dotted[as]
           /\ BegunFrom(b.entries, as, m)
           /\ Len(b.entries) = Len(InlineRecords(as, m))

MadeOf(a) ==
  /\ a.bundle \in bundles
  /\ a.manifest = ManifestOf(a.bundle.entries)
  /\ a.fingerprint = Fingerprint(a.bundle.entries)
  /\ a.language = Or(LanguageOf(a.manifest), "python")

Made == \A a \in made : MadeOf(a)

(* Unless it is the default, the profile of a directory that a selection   *)
(* has set is the one selected last.                                       *)
BySelected(c) == c.by \in {Unset, c.profile} \/ c.profile = "default"

Selection ==
  /\ config # Unset =>
       /\ BySelected(config)
       /\ config = [profile |-> config.profile, by |-> config.by,
                    dir |-> config.dir, registered |-> config.registered]
  /\ runtime # Unset => BySelected(runtime)

HandlerOf(h) ==
  /\ h.artifact \in made
  /\ h = [artifact |-> h.artifact, edited |-> h.edited, asked |-> h.asked,
          descriptor |-> h.descriptor]
  /\ ~h.edited /\ h.asked.entrypoint # Unset =>
       h.descriptor = ManifestDefaults(h.artifact, h.asked)
  /\ ~h.edited => DOMAIN h.asked = {"entrypoint", "language", "cpu"}

BundlesInv ==
  /\ Reading /\ ReadingInline /\ BundlesRead /\ Made /\ Selection
  /\ handler # Unset => HandlerOf(handler)
  /\ session # Unset => runtime # Unset /\ session.runtime = runtime
  /\ HotIsCold /\ RunsOnRequestedProfile

-----------------------------------------------------------------------------
(* Paths                                                                   *)

(* The recursion of Entered has a solution: one for each prefix of a name. *)
LEMMA EnteredFacts ==
  ASSUME NEW S, NEW name \in Seq(S)
  PROVE  /\ Entered(name)[0] = <<>>
         /\ \A k \in 1..Len(name) :
              Entered(name)[k] = Enter(Entered(name)[k - 1], name[k])
<1> DEFINE n == Len(name)
           Solves(p, m) ==
             p = [k \in 0..m |-> IF k = 0 THEN <<>> ELSE Enter(p[k - 1], name[k])]
           Solved == {m \in 0..n : \E p : Solves(p, m)}
<1>1. n \in Nat
  OBVIOUS
<1>2. 0 \in Solved
  <2> DEFINE p == [k \in 0..0 |-> <<>>]
  <2>1. Solves(p, 0) /\ 0 \in 0..n
    BY <1>1
  <2> HIDE DEF p, Solves
  <2>2. QED
    BY <2>1
<1>3. ASSUME NEW m \in 0..n, m \in Solved, m # n PROVE m + 1 \in Solved
  <2>1. PICK p : Solves(p, m)
    BY <1>3
  <2> DEFINE q == [k \in 0..m + 1 |-> IF k = m + 1 THEN Enter(p[m], name[m + 1]) ELSE p[k]]
  <2>2. m \in Nat /\ m + 1 \in 0..n
    BY <1>1, <1>3
  <2>3. \A k \in 0..m + 1 :
          q[k] = IF k = 0 THEN <<>> ELSE Enter(q[k - 1], name[k])
    <3>1. \A k \in 0..m : p[k] = IF k = 0 THEN <<>> ELSE Enter(p[k - 1], name[k])
      BY <2>1
    <3>2. \A k \in 0..m : q[k] = p[k]
      BY <2>2
    <3>3. \A k \in 0..m + 1 : k = m + 1 \/ k \in 0..m
      BY <2>2
    <3>4. \A k \in 0..m : k # 0 => k - 1 \in 0..m
      BY <2>2
    <3>5. q[m + 1] = Enter(q[m], name[m + 1])
      BY <2>2
    <3> HIDE DEF q, Solves
    <3>6. ASSUME NEW k \in 0..m
          PROVE  q[k] = IF k = 0 THEN <<>> ELSE Enter(q[k - 1], name[k])
      BY <3>1, <3>2, <3>4
    <3>7. m + 1 # 0 /\ (m + 1) - 1 = m
      BY <2>2
    <3>8. QED
      BY <3>3, <3>5, <3>6, <3>7
  <2>4. Solves(q, m + 1)
    <3>1. q = [k \in 0..m + 1 |-> q[k]]
      OBVIOUS
    <3> HIDE DEF q
    <3>2. QED
      BY <2>3, <3>1
  <2> HIDE DEF q, Solves
  <2>5. QED
    BY <2>2, <2>4
<1>4. n \in Solved
  <2> HIDE DEF Solved
  <2>1. \A k \in 0..n : k \in Solved
    BY <1>1, <1>2, <1>3, CountingUp
  <2>2. QED
    BY <1>1, <2>1
<1>5. Entered(name) = CHOOSE p : Solves(p, n)
  BY DEF Entered
<1>6. Solves(Entered(name), n)
  <2> HIDE DEF Solves
  <2>1. QED
    BY <1>4, <1>5
<1>7. \A k \in 0..n :
        Entered(name)[k] = IF k = 0 THEN <<>> ELSE Enter(Entered(name)[k - 1], name[k])
  BY <1>6
<1>8. QED
  BY <1>1, <1>7

(* A name without "." and ".." is its own path.                            *)
LEMMA PlainPath ==
  ASSUME NEW S, NEW name \in Seq(S), name # <<>>,
         Elements(name) \cap {".", "..", "/"} = {}
  PROVE  NormalizeEntryPath(name) = name
<1> DEFINE n == Len(name)
           Same == {k \in 0..n : Entered(name)[k] = SubSeq(name, 1, k)}
<1>1. n \in Nat \ {0} /\ \A k \in 1..n : name[k] \in S /\ name[k] \notin {".", "..", "/"}
  <2>1. n \in Nat \ {0} /\ \A k \in 1..n : name[k] \in S
    OBVIOUS
  <2>2. \A k \in 1..n : name[k] \in Elements(name)
    BY DEF Elements
  <2>3. QED
    BY <2>1, <2>2
<1>2. 0 \in Same
  <2>1. SubSeq(name, 1, 0) = <<>>
    BY <1>1
  <2>2. Entered(name)[0] = <<>> /\ 0 \in 0..n
    BY <1>1, EnteredFacts
  <2>3. QED
    BY <2>1, <2>2
<1>3. ASSUME NEW k \in 0..n, k \in Same, k # n PROVE k + 1 \in Same
  <2>1. k + 1 \in 1..n /\ (k + 1) - 1 = k
    BY <1>1, <1>3
  <2>2. Entered(name)[k + 1] = Enter(SubSeq(name, 1, k), name[k + 1])
    BY <1>3, <2>1, EnteredFacts
  <2>3. SubSeq(name, 1, k) # Outside
    <3>1. ASSUME SubSeq(name, 1, k) = <<"/">> PROVE FALSE
      <4>1. Len(SubSeq(name, 1, k)) = 1 /\ SubSeq(name, 1, k)[1] = "/"
        <5>1. Len(<<"/">>) = 1 /\ <<"/">>[1] = "/"
          OBVIOUS
        <5>2. QED
          BY <3>1, <5>1
      <4>2. k = 1
        BY <1>1, <1>3, <4>1
      <4>3. SubSeq(name, 1, 1)[1] = name[1]
        BY <1>1
      <4>4. QED
        BY <1>1, <4>1, <4>2, <4>3
    <3>2. QED
      BY <3>1 DEF Outside
  <2>4. Enter(SubSeq(name, 1, k), name[k + 1]) = Append(SubSeq(name, 1, k), name[k + 1])
    BY <1>1, <2>1, <2>3 DEF Enter
  <2>5. Append(SubSeq(name, 1, k), name[k + 1]) = SubSeq(name, 1, k + 1)
    <3>1. SubSeq(name, 1, k) = [i \in 1..k |-> name[i]]
      BY <1>1, <2>1
    <3>2. SubSeq(name, 1, k + 1) = [i \in 1..k + 1 |-> name[i]]
      BY <1>1, <2>1
    <3>3. SubSeq(name, 1, k) \in Seq(S) /\ Len(SubSeq(name, 1, k)) = k
      BY <1>1, <2>1
    <3>4. Append(SubSeq(name, 1, k), name[k + 1])
            = [i \in 1..k + 1 |-> IF i <= k THEN SubSeq(name, 1, k)[i] ELSE name[k + 1]]
      BY <3>3, <1>1, <2>1
    <3>5. \A i \in 1..k + 1 : (IF i <= k THEN SubSeq(name, 1, k)[i] ELSE name[k + 1]) = name[i]
      BY <2>1, <3>1
    <3>6. QED
      BY <3>2, <3>4, <3>5
  <2>6. Entered(name)[k + 1] = SubSeq(name, 1, k + 1)
    BY <2>2, <2>4, <2>5, Zenon
  <2>7. k + 1 \in 0..n
    BY <1>1, <2>1
  <2>8. QED
    BY <2>6, <2>7
<1>4. Entered(name)[n] = SubSeq(name, 1, n)
  <2> HIDE DEF Same
  <2>1. \A k \in 0..n : k \in Same
    BY <1>1, <1>2, <1>3, CountingUp
  <2>2. QED
    BY <1>1, <2>1 DEF Same
<1>5. SubSeq(name, 1, n) = name
  OBVIOUS
<1>6. Head(name) # "/"
  BY <1>1
<1>7. QED
  BY <1>4, <1>5, <1>6 DEF NormalizeEntryPath

Occurs(name, T, k) == {i \in 1..k : name[i] \in T}

LEMMA OccursFacts ==
  ASSUME NEW name, NEW T, NEW k \in Nat
  PROVE  /\ Occurs(name, T, 0) = {}
         /\ IsFiniteSet(Occurs(name, T, k)) /\ Cardinality(Occurs(name, T, k)) \in Nat
         /\ Cardinality(Occurs(name, T, k + 1))
              = Cardinality(Occurs(name, T, k)) + (IF name[k + 1] \in T THEN 1 ELSE 0)
<1>1. Occurs(name, T, 0) = {}
  BY DEF Occurs
<1>2. IsFiniteSet(Occurs(name, T, k)) /\ Cardinality(Occurs(name, T, k)) \in Nat
  <2>1. 1 \in Int /\ k \in Int
    OBVIOUS
  <2>2. IsFiniteSet(1..k)
    BY <2>1, FS_Interval
  <2>3. QED
    BY <2>2, FS_Subset, FS_CardinalityType DEF Occurs
<1>3. k + 1 \notin Occurs(name, T, k)
  BY DEF Occurs
<1>4. CASE name[k + 1] \in T
  <2>1. Occurs(name, T, k + 1) = Occurs(name, T, k) \cup {k + 1}
    BY <1>4 DEF Occurs
  <2>2. Cardinality(Occurs(name, T, k) \cup {k + 1}) = Cardinality(Occurs(name, T, k)) + 1
    BY <1>2, <1>3, FS_AddElement
  <2>3. QED
    BY <1>1, <1>2, <1>4, <2>1, <2>2
<1>5. CASE name[k + 1] \notin T
  <2>1. Occurs(name, T, k + 1) = Occurs(name, T, k)
    BY <1>5 DEF Occurs
  <2>2. QED
    BY <1>1, <1>2, <1>5, <2>1
<1>6. QED
  BY <1>4, <1>5

(* Who is outside stays there, so that the path of a name that is accepted *)
(* has, after each component, as many of them as were entered and not left.*)
LEMMA AcceptedNamesStayInside ==
  ASSUME NEW S, NEW name \in Seq(S), NormalizeEntryPath(name) # Outside
  PROVE  NeverLeaves(name)
<1> DEFINE n == Len(name)
           Left(k) == Cardinality(Occurs(name, {".."}, k))
           Skipped(k) == Cardinality(Occurs(name, {".", ".."}, k))
           Inside == {j \in 0..n : Entered(name)[n - j] # Outside}
           Deep == {k \in 0..n : /\ Entered(name)[k] \in Seq(S)
                                 /\ Len(Entered(name)[k]) = (k - Skipped(k)) - Left(k)}
<1>1. n \in Nat /\ \A k \in 1..n : name[k] \in S
  OBVIOUS
<1>2. Entered(name)[n] # Outside
  BY DEF NormalizeEntryPath
<1>3. \A j \in 0..n : j \in Inside
  <2>1. 0 \in Inside
    BY <1>1, <1>2
  <2>2. ASSUME NEW j \in 0..n, j \in Inside, j # n PROVE j + 1 \in Inside
    <3>1. n - j \in 1..n /\ (n - j) - 1 = n - (j + 1) /\ j + 1 \in 0..n
      BY <1>1, <2>2
    <3>2. Entered(name)[n - j] = Enter(Entered(name)[n - (j + 1)], name[n - j])
      BY <3>1, EnteredFacts
    <3>3. Entered(name)[n - (j + 1)] # Outside
      BY <2>2, <3>2 DEF Enter
    <3>4. QED
      BY <3>1, <3>3
  <2> HIDE DEF Inside
  <2>3. QED
    BY <1>1, <2>1, <2>2, CountingUp
<1>4. \A k \in 0..n : Entered(name)[k] # Outside
  <2> SUFFICES ASSUME NEW k \in 0..n PROVE Entered(name)[k] # Outside
    OBVIOUS
  <2>1. n - k \in 0..n /\ n - (n - k) = k
    BY <1>1
  <2>2. QED
    BY <1>3, <2>1
<1>5. \A k \in Nat : Left(k) \in Nat /\ Skipped(k) \in Nat
  BY OccursFacts
<1>6. \A k \in 0..n : k \in Deep
  <2>1. 0 \in Deep
    <3>1. Entered(name)[0] = <<>> /\ 0 \in 0..n
      BY <1>1, EnteredFacts
    <3>2. Occurs(name, {".."}, 0) = {} /\ Occurs(name, {".", ".."}, 0) = {}
      BY DEF Occurs
    <3>3. Left(0) = 0 /\ Skipped(0) = 0
      BY <3>2, FS_EmptySet
    <3>4. <<>> \in Seq(S) /\ Len(<<>>) = 0
      OBVIOUS
    <3> HIDE DEF Left, Skipped
    <3>5. (0 - Skipped(0)) - Left(0) = 0
      BY <3>3
    <3>6. Entered(name)[0] \in Seq(S) /\ Len(Entered(name)[0]) = (0 - Skipped(0)) - Left(0)
      BY <3>1, <3>4, <3>5
    <3>7. QED
      BY <3>1, <3>6
  <2>2. ASSUME NEW k \in 0..n, k \in Deep, k # n PROVE k + 1 \in Deep
    <3> DEFINE p == Entered(name)[k]
               c == name[k + 1]
    <3>1. k \in Nat /\ k + 1 \in 1..n /\ (k + 1) - 1 = k /\ k + 1 \in 0..n
      BY <1>1, <2>2
    <3>2. p \in Seq(S) /\ Len(p) = (k - Skipped(k)) - Left(k) /\ c \in S
      BY <1>1, <2>2, <3>1
    <3>3. Entered(name)[k + 1] = Enter(p, c)
      BY <3>1, EnteredFacts
    <3>4. p # Outside /\ Enter(p, c) # Outside
      BY <1>4, <3>1, <3>3
    <3>5. /\ Left(k + 1) = Left(k) + (IF c \in {".."} THEN 1 ELSE 0)
          /\ Skipped(k + 1) = Skipped(k) + (IF c \in {".", ".."} THEN 1 ELSE 0)
          /\ Left(k) \in Nat /\ Skipped(k) \in Nat
      BY SMTT(20), <3>1, OccursFacts
    <3> HIDE DEF Left, Skipped, p, c
    <3>6. /\ Enter(p, c) \in Seq(S)
          /\ Len(Enter(p, c)) = ((k + 1) - Skipped(k + 1)) - Left(k + 1)
      <4>1. CASE c = "."
        <5>1. Enter(p, c) = p
          BY <3>4, <4>1 DEF Enter
        <5>2. c \in {".", ".."} /\ c \notin {".."}
          BY <4>1
        <5>3. QED
          BY <3>1, <3>2, <3>5, <5>1, <5>2
      <4>2. CASE c = ".."
        <5>1. p # <<>> /\ Enter(p, c) = Front(p)
          BY <3>4, <4>2 DEF Enter
        <5>2. Front(p) \in Seq(S) /\ Len(Front(p)) = Len(p) - 1
          BY <3>2, <5>1, PopFacts DEF Front
        <5>3. QED
          BY <3>1, <3>2, <3>5, <4>2, <5>1, <5>2, SMTT(20)
      <4>3. CASE c \notin {".", ".."}
        <5>1. Enter(p, c) = Append(p, c)
          BY <3>4, <4>3 DEF Enter
        <5>2. Append(p, c) \in Seq(S) /\ Len(Append(p, c)) = Len(p) + 1
          BY <3>2
        <5>3. QED
          BY <3>1, <3>2, <3>5, <4>3, <5>1, <5>2
      <4>4. QED
        BY <4>1, <4>2, <4>3
    <3>7. QED
      BY <3>1, <3>3, <3>6
  <2> HIDE DEF Deep
  <2>3. QED
    BY <1>1, <2>1, <2>2, CountingUp
<1>7. ASSUME NEW k \in DOMAIN name PROVE Left(k) <= k - Skipped(k)
  <2>1. k \in 0..n /\ k \in Nat
    BY <1>1
  <2>2. Len(Entered(name)[k]) \in Nat /\ Len(Entered(name)[k]) = (k - Skipped(k)) - Left(k)
    BY <1>6, <2>1
  <2>3. Left(k) \in Nat /\ Skipped(k) \in Nat
    BY <1>5, <2>1
  <2> HIDE DEF Left, Skipped
  <2>4. QED
    BY <2>1, <2>2, <2>3
<1>8. QED
  BY <1>7 DEF NeverLeaves, Occurs

-----------------------------------------------------------------------------
(* Manifests                                                               *)

LEMMA Trimmed ==
  ASSUME NEW words \in Seq(Word)
  PROVE  /\ TrimAll(words) \in Seq(Word) /\ Len(TrimAll(words)) = Len(words)
         /\ \A i \in 1..Len(words) : TrimAll(words)[i].key = words[i].key
         /\ TrimAll(TrimAll(words)) = TrimAll(words)
<1>1. DOMAIN words = 1..Len(words) /\ Len(words) \in Nat /\ \A i \in 1..Len(words) : words[i] \in Word
  OBVIOUS
<1>2. \A w \in Word : Trim(w) \in Word /\ Trim(w).key = w.key /\ Trim(Trim(w)) = Trim(w)
  BY DEF Trim, Word
<1>3. TrimAll(words) = [i \in 1..Len(words) |-> Trim(words[i])]
  BY <1>1 DEF TrimAll
<1>4. TrimAll(words) \in Seq(Word) /\ Len(TrimAll(words)) = Len(words)
  BY <1>1, <1>2, <1>3
<1>5. \A i \in 1..Len(words) : TrimAll(words)[i].key = words[i].key
  BY <1>1, <1>2, <1>3
<1>6. DOMAIN TrimAll(words) = 1..Len(words)
  BY <1>3
<1>7. TrimAll(TrimAll(words)) = [i \in 1..Len(words) |-> Trim(TrimAll(words)[i])]
  BY <1>6 DEF TrimAll
<1>8. \A i \in 1..Len(words) : Trim(TrimAll(words)[i]) = TrimAll(words)[i]
  BY <1>1, <1>2, <1>3
<1>9. TrimAll(words) = [i \in 1..Len(words) |-> TrimAll(words)[i]]
  BY <1>3
<1>10. QED
  BY <1>4, <1>5, <1>7, <1>8, <1>9

(* Every key is there once, and doing it again changes nothing.            *)
LEMMA NothingRepeats ==
  ASSUME NEW words \in Seq(Word)
  PROVE  /\ WithoutRepeats(words) \in Seq(Word)
         /\ IsInjective(KeysOf(WithoutRepeats(words)))
         /\ WithoutRepeats(WithoutRepeats(words)) = WithoutRepeats(words)
<1> DEFINE Firsts(s) == {i \in 1..Len(s) : \A j \in 1..(i - 1) : s[j].key # s[i].key}
           K == Firsts(words)
           kept == Kept(words, K)
           r == WithoutRepeats(words)
<1>1. Len(words) \in Nat /\ K \in SUBSET (1..Len(words)) /\ K \in SUBSET Int
  OBVIOUS
<1>2. \A i, j \in K : words[i].key = words[j].key => i = j
  <2> SUFFICES ASSUME NEW i \in K, NEW j \in K, i < j PROVE words[i].key # words[j].key
    BY <1>1
  <2>1. i \in 1..(j - 1)
    BY <1>1
  <2>2. QED
    BY <2>1
<1>3. r = TrimAll(kept)
  BY DEF WithoutRepeats
<1> HIDE DEF K
<1>4. IsFiniteSet(K) /\ kept \in Seq(Word) /\ Len(kept) = Cardinality(K) /\ Cardinality(K) \in Nat
  BY <1>1, KeptFacts
<1>5. \A n \in 1..Cardinality(K) : kept[n] = words[Nth(K, n)] /\ Nth(K, n) \in K /\ Rank(K, Nth(K, n)) = n
  BY <1>1, <1>4, NthSmallest DEF Kept
<1> HIDE DEF kept
<1>6. \A m, n \in 1..Len(kept) : kept[m].key = kept[n].key => m = n
  <2> SUFFICES ASSUME NEW m \in 1..Len(kept), NEW n \in 1..Len(kept), kept[m].key = kept[n].key
               PROVE  m = n
    OBVIOUS
  <2>1. Nth(K, m) = Nth(K, n)
    BY <1>2, <1>4, <1>5
  <2>2. QED
    BY <1>4, <1>5, <2>1
<1>7. r \in Seq(Word) /\ Len(r) = Len(kept) /\ \A i \in 1..Len(kept) : r[i].key = kept[i].key
  BY <1>3, <1>4, Trimmed
<1>8. \A m, n \in 1..Len(r) : r[m].key = r[n].key => m = n
  BY <1>6, <1>7
<1> HIDE DEF r
<1>9. IsInjective(KeysOf(r))
  <2>1. KeysOf(r) = [i \in 1..Len(r) |-> r[i].key]
    BY <1>7 DEF KeysOf
  <2>2. QED
    BY <1>8, <2>1 DEF IsInjective
<1>10. Firsts(r) = 1..Len(r)
  <2>1. \A i \in 1..Len(r) : \A j \in 1..(i - 1) : j \in 1..Len(r) /\ j # i
    BY <1>7
  <2>2. QED
    BY <1>8, <2>1
<1>11. WithoutRepeats(r) = TrimAll(Kept(r, Firsts(r)))
  BY DEF WithoutRepeats
<1>12. Kept(r, 1..Len(r)) = r
  BY <1>7, KeptFacts
<1>13. TrimAll(r) = r
  BY <1>3, <1>4, Trimmed
<1>14. QED
  BY <1>7, <1>9, <1>10, <1>11, <1>12, <1>13 DEF r

LEMMA NormalizePyodideOnce ==
  ASSUME NEW m \in Manifest
  PROVE  NormalizePyodide(NormalizePyodide(m.pyodide)) = NormalizePyodide(m.pyodide)
<1> DEFINE p == m.pyodide
<1>1. CASE NormalizePyodide(p) = Unset
  BY <1>1 DEF NormalizePyodide
<1>2. CASE NormalizePyodide(p) # Unset
  <2>1. p # Unset /\ p \in [version : {Unset} \cup STRING,
                            profile : {Unset} \cup Word, preload : Seq(Word)]
    BY <1>2 DEF Manifest, NormalizePyodide
  <2> DEFINE v == p.version
             a == NormalizeProfile(p.profile)
             b == WithoutRepeats(p.preload)
             q == [version |-> v, profile |-> a, preload |-> b]
  <2>2. NormalizeProfile(a) = a
    BY DEF NormalizeProfile, Lower
  <2>3. WithoutRepeats(b) = b
    BY <2>1, NothingRepeats
  <2>4. NormalizePyodide(p) = q
    BY <2>1 DEF NormalizePyodide
  <2> HIDE DEF p, v, a, b
  <2>5. [q EXCEPT !.profile = a, !.preload = b] = q
    <3>1. /\ q = [f \in {"version", "profile", "preload"} |-> q[f]]
          /\ q.profile = a /\ q.preload = b
      OBVIOUS
    <3> HIDE DEF q
    <3>2. QED
      BY <3>1
  <2>6. [q EXCEPT !.profile = NormalizeProfile(@), !.preload = WithoutRepeats(@)]
          = [q EXCEPT !.profile = NormalizeProfile(a), !.preload = WithoutRepeats(b)]
    OBVIOUS
  <2>7. NormalizePyodide(q) = q
    BY <2>2, <2>3, <2>5, <2>6 DEF NormalizePyodide
  <2>8. QED
    BY <2>4, <2>7 DEF p
<1>3. QED
  BY <1>1, <1>2

LEMMA NormalizeNetworkOnce ==
  ASSUME NEW m \in Manifest
  PROVE  NormalizeNetwork(NormalizeNetwork(m.network)) = NormalizeNetwork(m.network)
<1> DEFINE w == m.network
<1>1. CASE NormalizeNetwork(w) = Unset
  BY <1>1 DEF NormalizeNetwork
<1>2. CASE NormalizeNetwork(w) # Unset
  <2>1. w # Unset /\ w \in [allow : Seq(Word), bounds : SUBSET Nat]
    BY <1>2 DEF Manifest, NormalizeNetwork
  <2> DEFINE a == WithoutRepeats(w.allow)
             q == [allow |-> a, bounds |-> w.bounds]
  <2>2. WithoutRepeats(a) = a
    BY <2>1, NothingRepeats
  <2>3. NormalizeNetwork(w) = q
    BY <2>1 DEF NormalizeNetwork
  <2> HIDE DEF w, a
  <2>4. [q EXCEPT !.allow = WithoutRepeats(@)] = [q EXCEPT !.allow = WithoutRepeats(a)]
    OBVIOUS
  <2>5. NormalizeNetwork(q) = q
    BY <2>2, <2>4 DEF NormalizeNetwork
  <2>6. QED
    BY <2>3, <2>5 DEF w
<1>3. QED
  BY <1>1, <1>2

(* A manifest is read back as it was written.                              *)
LEMMA NormalizeOnce ==
  ASSUME NEW m \in Manifest
  PROVE  /\ Normalize(Normalize(m)) = Normalize(m)
         /\ IsInjective(KeysOf(Normalize(m).packages))
<1>1. /\ m.entrypoint \in Seq(Word) /\ m.packages \in Seq(Word)
      /\ m.capabilities \in Seq(Word)
  BY DEF Manifest
<1>2. /\ TrimAll(TrimAll(m.entrypoint)) = TrimAll(m.entrypoint)
      /\ WithoutRepeats(WithoutRepeats(m.packages)) = WithoutRepeats(m.packages)
      /\ WithoutRepeats(WithoutRepeats(m.capabilities)) = WithoutRepeats(m.capabilities)
  BY <1>1, Trimmed, NothingRepeats
<1> DEFINE New == [entrypoint |-> TrimAll(m.entrypoint),
                   packages |-> WithoutRepeats(m.packages),
                   capabilities |-> WithoutRepeats(m.capabilities),
                   pyodide |-> NormalizePyodide(m.pyodide),
                   network |-> NormalizeNetwork(m.network)]
<1>3. Normalize(m) = [f \in DOMAIN m |-> IF f \in DOMAIN New THEN New[f] ELSE m[f]]
  <2>1. m = [f \in {"schema", "language", "entrypoint", "packages", "capabilities",
                    "pyodide", "network", "cpu", "quota"} |-> m[f]]
    BY DEF Manifest
  <2> DEFINE e == TrimAll(m.entrypoint)
             p == WithoutRepeats(m.packages)
             c == WithoutRepeats(m.capabilities)
             y == NormalizePyodide(m.pyodide)
             n == NormalizeNetwork(m.network)
  <2>2. Normalize(m) = [m EXCEPT !.entrypoint = e, !.packages = p, !.capabilities = c,
                                 !.pyodide = y, !.network = n]
    BY <2>1 DEF Normalize
  <2>3. New = [entrypoint |-> e, packages |-> p, capabilities |-> c, pyodide |-> y,
               network |-> n]
    OBVIOUS
  <2> HIDE DEF e, p, c, y, n, New
  <2>4. /\ DOMAIN New = {"entrypoint", "packages", "capabilities", "pyodide", "network"}
        /\ New.entrypoint = e /\ New.packages = p /\ New.capabilities = c
        /\ New.pyodide = y /\ New.network = n
    BY <2>3
  <2>5. QED
    BY <2>1, <2>2, <2>4
<1>4. DOMAIN Normalize(m) = DOMAIN m /\ DOMAIN New \subseteq DOMAIN m
  BY <1>3 DEF Manifest
<1>5. \A f \in DOMAIN New : Normalize(m)[f] = New[f]
  BY <1>3, <1>4
<1>6. /\ Normalize(m).entrypoint = TrimAll(m.entrypoint)
      /\ Normalize(m).packages = WithoutRepeats(m.packages)
      /\ Normalize(m).capabilities = WithoutRepeats(m.capabilities)
      /\ Normalize(m).pyodide = NormalizePyodide(m.pyodide)
      /\ Normalize(m).network = NormalizeNetwork(m.network)
  BY <1>5
<1> HIDE DEF New
<1>7. ASSUME NEW k, k = [f \in DOMAIN k |-> k[f]],
             TrimAll(k.entrypoint) = k.entrypoint, WithoutRepeats(k.packages) = k.packages,
             WithoutRepeats(k.capabilities) = k.capabilities,
             NormalizePyodide(k.pyodide) = k.pyodide, NormalizeNetwork(k.network) = k.network
      PROVE  Normalize(k) = k
  BY <1>7 DEF Normalize
<1>8. Normalize(m) = [f \in DOMAIN Normalize(m) |-> Normalize(m)[f]]
  BY <1>3
<1>9. Normalize(Normalize(m)) = Normalize(m)
  BY <1>2, <1>6, <1>7, <1>8, NormalizePyodideOnce, NormalizeNetworkOnce
<1>10. QED
  BY <1>1, <1>6, <1>9, NothingRepeats

-----------------------------------------------------------------------------
(* Archives and inline bundles                                             *)

LEMMA SizesAdd ==
  ASSUME NEW S, NEW entries \in Seq(S), NEW e \in S, e.size \in 0..Largest
  PROVE  /\ SizeOf(<<>>) = 0 /\ SizeOf(entries) \in Nat
         /\ SizeOf(Append(entries, e)) = SizeOf(entries) + e.size
<1> DEFINE n == Len(entries)
           Own == {n + 1} \X (1..e.size)
<1>1. n \in Nat /\ Largest \in Nat /\ e.size \in Nat
  BY BundlesAssumption
<1>2. ASSUME NEW k \in Nat PROVE IsFiniteSet(1..k) /\ Cardinality(1..k) = k
  <2>1. IsFiniteSet(1..k) /\ Cardinality(1..k) = IF 1 > k THEN 0 ELSE (k - 1) + 1
    <3>1. 1 \in Int /\ k \in Int
      OBVIOUS
    <3>2. QED
      BY <3>1, FS_Interval
  <2>2. QED
    BY <2>1
<1>3. SizeOf(<<>>) = 0
  <2>1. BytesOf(<<>>) = {}
    BY DEF BytesOf
  <2>2. QED
    BY <2>1, FS_EmptySet DEF SizeOf
<1>4. IsFiniteSet(BytesOf(entries)) /\ SizeOf(entries) \in Nat
  <2>1. IsFiniteSet((1..n) \X (1..Largest))
    BY <1>1, <1>2, FS_Product
  <2>2. BytesOf(entries) \in SUBSET ((1..n) \X (1..Largest))
    BY DEF BytesOf
  <2>3. QED
    BY <2>1, <2>2, FS_Subset, FS_CardinalityType DEF SizeOf
<1>5. IsFiniteSet(Own) /\ Cardinality(Own) = e.size
  <2>1. IsFiniteSet({n + 1}) /\ Cardinality({n + 1}) = 1
    BY FS_Singleton
  <2>2. IsFiniteSet(1..e.size) /\ Cardinality(1..e.size) = e.size
    BY <1>1, <1>2
  <2>3. IsFiniteSet(Own) /\ Cardinality(Own) = Cardinality({n + 1}) * Cardinality(1..e.size)
    BY <2>1, <2>2, FS_Product
  <2>4. QED
    BY <1>1, <2>1, <2>2, <2>3
<1>6. BytesOf(Append(entries, e)) = BytesOf(entries) \cup Own
  <2> DEFINE t == Append(entries, e)
  <2>1. Len(t) = n + 1 /\ t[n + 1] = e /\ \A i \in 1..n : t[i] = entries[i]
    OBVIOUS
  <2>2. 1..(n + 1) = (1..n) \cup {n + 1} /\ n + 1 \notin 1..n
    BY <1>1
  <2> HIDE DEF t
  <2>3. ASSUME NEW b
        PROVE  b \in BytesOf(t) <=> b \in BytesOf(entries) \/ b \in Own
    <3>1. b \in BytesOf(t) <=> b \in (1..(n + 1)) \X (1..Largest) /\ b[2] <= t[b[1]].size
      BY <2>1 DEF BytesOf
    <3>2. b \in BytesOf(entries) <=> b \in (1..n) \X (1..Largest) /\ b[2] <= entries[b[1]].size
      BY DEF BytesOf
    <3>3. b \in Own <=> b \in {n + 1} \X (1..Largest) /\ b[2] <= e.size
      BY <1>1
    <3>4. b \in (1..(n + 1)) \X (1..Largest)
            <=> b \in (1..n) \X (1..Largest) \/ b \in {n + 1} \X (1..Largest)
      BY <2>2
    <3>5. b \in (1..n) \X (1..Largest) => t[b[1]] = entries[b[1]] /\ b[1] # n + 1
      BY <2>1, <2>2
    <3>6. b \in {n + 1} \X (1..Largest) => t[b[1]] = e
      BY <2>1
    <3> HIDE DEF Own
    <3>7. QED
      BY <3>1, <3>2, <3>3, <3>4, <3>5, <3>6
  <2>4. QED
    BY <2>3 DEF t
<1>7. BytesOf(entries) \cap Own = {}
  BY <1>1 DEF BytesOf
<1>8. Cardinality(BytesOf(entries) \cup Own)
        = Cardinality(BytesOf(entries)) + Cardinality(Own) - Cardinality(BytesOf(entries) \cap Own)
  BY <1>4, <1>5, FS_Union
<1>9. Cardinality(BytesOf(entries) \cap Own) = 0
  BY <1>7, FS_EmptySet
<1> HIDE DEF Own
<1>10. QED
  BY <1>1, <1>3, <1>4, <1>5, <1>6, <1>8, <1>9 DEF SizeOf

LEMMA SeqOfElements ==
  ASSUME NEW S, NEW s \in Seq(S)
  PROVE  s \in Seq(Elements(s))
<1>1. \A i \in 1..Len(s) : s[i] \in Elements(s)
  BY DEF Elements
<1>2. Len(s) \in Nat /\ s = [i \in 1..Len(s) |-> s[i]]
  OBVIOUS
<1>3. QED
  BY <1>1, <1>2

LEMMA InlineRecordFacts ==
  ASSUME NEW as \in DOMAIN Dotted, NEW m
  PROVE  LET module == Dotted[as]
             n == Len(module)
             records == Assembled(module, m)
         IN /\ n \in Nat \ {0} /\ module \in Seq(Elements(module))
            /\ records \in Seq(Elements(records)) /\ Len(records) = n + 1
            /\ \A k \in 1..(n - 1) : records[k] = File(Package(module, k), Unset, 0)
            /\ records[n] = File(ModulePath(module), Unset, 1)
            /\ records[n + 1] = File(ManifestPath, m, 1)
<1> DEFINE module == Dotted[as]
           n == Len(module)
           packages == [k \in 1..(n - 1) |-> File(Package(module, k), Unset, 0)]
           rest == <<File(ModulePath(module), Unset, 1), File(ManifestPath, m, 1)>>
           records == Assembled(module, m)
           F(k) == IF k <= n - 1 THEN packages[k] ELSE rest[k - (n - 1)]
<1>1. module \in Seq(Elements(module)) /\ module # <<>>
  BY BundlesAssumption
<1>2. n \in Nat \ {0}
  BY <1>1, PopFacts
<1>3. records = packages \o rest
  BY DEF Assembled, InitModules
<1> HIDE DEF n, module
<1>4. Len(packages) = n - 1 /\ Len(rest) = 2
  BY <1>2
<1>5. /\ packages \o rest \in Seq(Elements(packages \o rest)) /\ Len(packages \o rest) = n + 1
      /\ \A k \in 1..(n + 1) : (packages \o rest)[k] = F(k)
  <2> DEFINE T == {packages[k] : k \in 1..(n - 1)} \cup {rest[1], rest[2]}
  <2>1. packages \in Seq(T) /\ rest \in Seq(T)
    BY <1>2
  <2>2. Len(packages) + Len(rest) = n + 1
    BY <1>2, <1>4
  <2> HIDE DEF packages, rest, T
  <2>3. /\ packages \o rest \in Seq(T) /\ Len(packages \o rest) = n + 1
        /\ \A k \in 1..(n + 1) : (packages \o rest)[k] = F(k)
    <3>1. packages \o rest \in Seq(T) /\ Len(packages \o rest) = n + 1
      BY <2>1, <2>2
    <3>2. \A k \in 1..(Len(packages) + Len(rest)) :
            (packages \o rest)[k]
              = IF k <= Len(packages) THEN packages[k] ELSE rest[k - Len(packages)]
      BY <2>1
    <3>3. QED
      BY <1>2, <1>4, <2>2, <3>1, <3>2
  <2> HIDE DEF F
  <2>4. QED
    BY <2>3, SeqOfElements
<1>6. /\ \A k \in 1..(n - 1) : F(k) = File(Package(module, k), Unset, 0)
      /\ F(n) = File(ModulePath(module), Unset, 1)
      /\ F(n + 1) = File(ManifestPath, m, 1)
  BY <1>2
<1> HIDE DEF packages, rest, F
<1>7. /\ records \in Seq(Elements(records)) /\ Len(records) = n + 1
      /\ \A k \in 1..(n + 1) : records[k] = F(k)
  BY <1>3, <1>5
<1> HIDE DEF records
<1>8. \A k \in 1..(n - 1) : k \in 1..(n + 1)
  BY <1>2
<1>9. n \in 1..(n + 1) /\ n + 1 \in 1..(n + 1)
  BY <1>2
<1>10. QED
  BY <1>1, <1>2, <1>6, <1>7, <1>8, <1>9 DEF records, n, module

PlainName(name) ==
  /\ name \in Seq(Elements(name)) /\ name # <<>>
  /\ Elements(name) \cap {".", "..", "/"} = {}

LEMMA AppendIsPlain ==
  ASSUME NEW S, S \cap {".", "..", "/"} = {}, NEW s \in Seq(S),
         NEW c, c \notin {".", "..", "/"}
  PROVE  PlainName(Append(s, c))
<1> DEFINE t == Append(s, c)
<1>1. t \in Seq(S \cup {c}) /\ Len(t) = Len(s) + 1 /\ Len(s) \in Nat
  OBVIOUS
<1> HIDE DEF t
<1>2. t \in Seq(Elements(t))
  BY <1>1, SeqOfElements
<1>3. t # <<>>
  BY <1>1
<1>4. \A i \in 1..Len(t) : t[i] \in S \cup {c}
  BY <1>1
<1>5. Elements(t) \subseteq S \cup {c}
  BY <1>4 DEF Elements
<1>6. QED
  BY <1>2, <1>3, <1>5 DEF PlainName, t

LEMMA InlineNames ==
  ASSUME NEW as \in DOMAIN Dotted, NEW m,
         NEW r \in Elements(Assembled(Dotted[as], m))
  PROVE  PlainName(r.name) /\ r.size \in 0..Largest /\ ~r.dir
<1> DEFINE module == Dotted[as]
           n == Len(module)
           records == Assembled(module, m)
           S == Elements(module)
<1>1. /\ n \in Nat \ {0} /\ module \in Seq(S)
      /\ Len(records) = n + 1
      /\ \A k \in 1..(n - 1) : records[k] = File(Package(module, k), Unset, 0)
      /\ records[n] = File(ModulePath(module), Unset, 1)
      /\ records[n + 1] = File(ManifestPath, m, 1)
  BY InlineRecordFacts
<1>2. S \cap {".", "..", "/"} = {} /\ \A c \in S : FileOf[c] \notin {".", "..", "/"}
  BY BundlesAssumption
<1>3. Largest \in Nat \ {0}
  BY BundlesAssumption
<1> HIDE DEF module, n, S
<1>4. \A k \in 1..(n - 1) : PlainName(Package(module, k))
  <2> SUFFICES ASSUME NEW k \in 1..(n - 1) PROVE PlainName(Package(module, k))
    OBVIOUS
  <2>1. SubSeq(module, 1, k) \in Seq(S)
    BY <1>1 DEF n
  <2>2. QED
    BY <1>2, <2>1, AppendIsPlain DEF Package
<1>5. PlainName(ModulePath(module))
  <2>1. module # <<>> /\ Front(module) \in Seq(S) /\ Last(module) \in S
    BY <1>1 DEF n, Front, Last
  <2>2. QED
    BY <1>2, <2>1, AppendIsPlain DEF ModulePath
<1>6. PlainName(ManifestPath)
  <2>1. ManifestPath = Append(<<>>, "aardvark.manifest.json") /\ <<>> \in Seq({})
    BY DEF ManifestPath
  <2>2. {} \cap {".", "..", "/"} = {} /\ "aardvark.manifest.json" \notin {".", "..", "/"}
    OBVIOUS
  <2>3. PlainName(Append(<<>>, "aardvark.manifest.json"))
    BY <2>1, <2>2, AppendIsPlain
  <2>4. QED
    BY <2>1, <2>3
<1>7. PICK k \in 1..(n + 1) : r = records[k]
  BY <1>1 DEF Elements, module
<1>8. k \in 1..(n - 1) \/ k = n \/ k = n + 1
  BY <1>1
<1>9. PlainName(r.name) /\ r.size \in {0, 1} /\ ~r.dir
  <2>1. \A name, text, size :
          /\ File(name, text, size).name = name /\ File(name, text, size).size = size
          /\ File(name, text, size).dir = FALSE
    BY DEF File
  <2>2. CASE k \in 1..(n - 1)
    <3>1. r = File(Package(module, k), Unset, 0)
      BY <1>1, <1>7, <2>2
    <3>2. QED
      BY <1>4, <2>1, <2>2, <3>1
  <2>3. CASE k = n
    <3>1. r = File(ModulePath(module), Unset, 1)
      BY <1>1, <1>7, <2>3
    <3>2. QED
      BY <1>5, <2>1, <3>1
  <2>4. CASE k = n + 1
    <3>1. r = File(ManifestPath, m, 1)
      BY <1>1, <1>7, <2>4
    <3>2. QED
      BY <1>6, <2>1, <3>1
  <2>5. QED
    BY <1>8, <2>2, <2>3, <2>4
<1>10. QED
  BY <1>3, <1>9

LEMMA RecordFacts ==
  ASSUME NEW r \in AnyRecord
  PROVE  r.size \in 0..Largest /\ r.name \in Seq(Elements(r.name))
<1>1. CASE \E a \in Archive : r \in Elements(a.records)
  BY <1>1, BundlesAssumption
<1>2. CASE \E as \in DOMAIN Dotted, m \in Inline : r \in Elements(InlineRecords(as, m))
  BY <1>2, InlineNames DEF InlineRecords, PlainName
<1>3. \/ \E a \in Archive : r \in Elements(a.records)
      \/ \E as \in DOMAIN Dotted, m \in Inline : r \in Elements(InlineRecords(as, m))
  <2>1. CASE r \in GivenRecord
    BY <2>1 DEF GivenRecord
  <2>2. CASE r \in WrittenRecord
    <3>1. PICK as \in DOMAIN Dotted : r \in RecordFor(as)
      BY <2>2 DEF WrittenRecord
    <3>2. PICK m \in Inline : r \in Elements(InlineRecords(as, m))
      BY <3>1 DEF RecordFor
    <3>3. QED
      BY <3>2
  <2>3. QED
    BY <2>1, <2>2 DEF AnyRecord
<1>4. QED
  BY <1>1, <1>2, <1>3

LEMMA EntryFacts ==
  ASSUME NEW e \in AnyEntry
  PROVE  /\ e.size \in 0..Largest /\ e.path = NormalizeEntryPath(e.name)
         /\ e.path # Outside => NeverLeaves(e.name)
<1>1. PICK r \in AnyRecord : e = EntryOf(r)
  BY DEF AnyEntry
<1>2. e.size = r.size /\ e.name = r.name /\ e.path = NormalizeEntryPath(r.name)
  BY <1>1 DEF EntryOf
<1>3. r.size \in 0..Largest /\ r.name \in Seq(Elements(r.name))
  BY RecordFacts
<1>4. e.path # Outside => NeverLeaves(e.name)
  BY <1>2, <1>3, AcceptedNamesStayInside
<1>5. QED
  BY <1>2, <1>3, <1>4

-----------------------------------------------------------------------------
(* The bytes that are hashed                                               *)

(* What two sequences one after the other are made of.                     *)
LEMMA ConcatAt ==
  ASSUME NEW S, NEW s \in Seq(S), NEW t \in Seq(S)
  PROVE  /\ s \o t \in Seq(S) /\ Len(s \o t) = Len(s) + Len(t)
         /\ \A i \in 1..Len(s) : (s \o t)[i] = s[i]
         /\ \A i \in 1..Len(t) : (s \o t)[Len(s) + i] = t[i]
<1>1. s \o t \in Seq(S) /\ Len(s \o t) = Len(s) + Len(t)
  OBVIOUS
<1>2. \A i \in 1..Len(s) : (s \o t)[i] = s[i]
  OBVIOUS
<1>3. \A i \in 1..Len(t) : (s \o t)[Len(s) + i] = t[i]
  OBVIOUS
<1>4. QED
  BY <1>1, <1>2, <1>3

LEMMA SameElements ==
  ASSUME NEW S, NEW s \in Seq(S), NEW t \in Seq(S), Len(s) = Len(t),
         \A i \in 1..Len(s) : s[i] = t[i]
  PROVE  s = t
OBVIOUS

(* Two sequences that agree as far as both go also do so where their parts  *)
(* begin.                                                                  *)
LEMMA AgreeingStarts ==
  ASSUME NEW S, NEW s \in Seq(S), NEW t \in Seq(S), NEW u \in Seq(S), NEW v \in Seq(S),
         Agree(s \o u, t \o v)
  PROVE  Agree(s, t) /\ (Len(s) = Len(t) => s = t /\ Agree(u, v))
<1>1. /\ DOMAIN (s \o u) = 1..Len(s) + Len(u) /\ DOMAIN s = 1..Len(s) /\ DOMAIN u = 1..Len(u)
      /\ Len(s) \in Nat /\ Len(u) \in Nat
      /\ \A i \in 1..Len(s) : (s \o u)[i] = s[i]
      /\ \A i \in 1..Len(u) : (s \o u)[Len(s) + i] = u[i]
  BY ConcatAt
<1>2. /\ DOMAIN (t \o v) = 1..Len(t) + Len(v) /\ DOMAIN t = 1..Len(t) /\ DOMAIN v = 1..Len(v)
      /\ Len(t) \in Nat /\ Len(v) \in Nat
      /\ \A i \in 1..Len(t) : (t \o v)[i] = t[i]
      /\ \A i \in 1..Len(v) : (t \o v)[Len(t) + i] = v[i]
  BY ConcatAt
<1>3. ASSUME NEW i \in DOMAIN s \cap DOMAIN t PROVE s[i] = t[i]
  <2>1. i \in 1..Len(s) /\ i \in 1..Len(t)
    BY <1>1, <1>2, <1>3
  <2>2. i \in DOMAIN (s \o u) \cap DOMAIN (t \o v)
    BY <1>1, <1>2, <2>1
  <2>3. QED
    BY <1>1, <1>2, <2>1, <2>2 DEF Agree
<1>4. ASSUME Len(s) = Len(t) PROVE s = t
  BY <1>1, <1>2, <1>3, <1>4, SameElements
<1>5. ASSUME Len(s) = Len(t), NEW i \in DOMAIN u \cap DOMAIN v PROVE u[i] = v[i]
  <2>1. i \in 1..Len(u) /\ i \in 1..Len(v) /\ i \in Nat
    BY <1>1, <1>2, <1>5
  <2>2. Len(s) + i \in DOMAIN (s \o u) \cap DOMAIN (t \o v)
    BY <1>1, <1>2, <1>5, <2>1
  <2>3. (s \o u)[Len(s) + i] = u[i] /\ (t \o v)[Len(s) + i] = v[i]
    BY <1>1, <1>2, <1>5, <2>1
  <2>4. QED
    BY <2>2, <2>3 DEF Agree
<1>6. QED
  BY <1>3, <1>4, <1>5 DEF Agree

(* Three parts after each other are found again when the second ones are as*)
(* long as each other and no first part goes on as the other's second.     *)
LEMMA Parsed ==
  ASSUME NEW p \in Seq(Nat), NEW l \in Seq(Nat), NEW c \in Seq(Nat),
         NEW q \in Seq(Nat), NEW m \in Seq(Nat), NEW d \in Seq(Nat), Len(l) = Len(m),
         Agree((p \o l) \o c, (q \o m) \o d),
         ~(Len(p) < Len(q) /\ Agree(p \o l, q)), ~(Len(q) < Len(p) /\ Agree(q \o m, p))
  PROVE  p = q /\ l = m /\ Agree(c, d)
<1> DEFINE s == p \o l
           t == q \o m
<1>1. /\ s \in Seq(Nat) /\ Len(s) = Len(p) + Len(l) /\ DOMAIN s = 1..Len(s)
      /\ \A i \in 1..Len(p) : s[i] = p[i]
  <2>1. s \in Seq(Nat)
    BY ConcatAt
  <2>2. Len(s) = Len(p) + Len(l) /\ \A i \in 1..Len(p) : s[i] = p[i]
    BY ConcatAt
  <2> HIDE DEF s
  <2>3. DOMAIN s = 1..Len(s)
    BY <2>1
  <2>4. QED
    BY <2>1, <2>2, <2>3
<1>2. /\ t \in Seq(Nat) /\ Len(t) = Len(q) + Len(m) /\ DOMAIN t = 1..Len(t)
      /\ \A i \in 1..Len(q) : t[i] = q[i]
  <2>1. t \in Seq(Nat)
    BY ConcatAt
  <2>2. Len(t) = Len(q) + Len(m) /\ \A i \in 1..Len(q) : t[i] = q[i]
    BY ConcatAt
  <2> HIDE DEF t
  <2>3. DOMAIN t = 1..Len(t)
    BY <2>1
  <2>4. QED
    BY <2>1, <2>2, <2>3
<1>3. /\ DOMAIN p = 1..Len(p) /\ Len(p) \in Nat /\ DOMAIN q = 1..Len(q) /\ Len(q) \in Nat
      /\ DOMAIN l = 1..Len(l) /\ Len(l) \in Nat /\ DOMAIN m = 1..Len(m)
  OBVIOUS
<1>4. s = t /\ Len(p) = Len(q) => p = q /\ Agree(l, m)
  <2> SUFFICES ASSUME s = t, Len(p) = Len(q) PROVE p = q /\ Agree(l, m)
    OBVIOUS
  <2>1. Agree(p \o l, q \o m)
    BY DEF Agree
  <2>2. QED
    BY <2>1, AgreeingStarts
<1>5. /\ Agree(s \o c, t \o d)
      /\ ~(Len(p) < Len(q) /\ Agree(s, q)) /\ ~(Len(q) < Len(p) /\ Agree(t, p))
  OBVIOUS
<1> HIDE DEF s, t
<1>6. Agree(s, t) /\ (Len(s) = Len(t) => s = t /\ Agree(c, d))
  BY <1>1, <1>2, <1>5, AgreeingStarts
<1>7. Agree(s, q)
  BY <1>1, <1>2, <1>3, <1>6 DEF Agree
<1>8. Agree(t, p)
  BY <1>1, <1>2, <1>3, <1>6 DEF Agree
<1>9. Len(p) = Len(q)
  <2>1. ~(Len(p) < Len(q)) /\ ~(Len(q) < Len(p))
    BY <1>5, <1>7, <1>8
  <2>2. Len(p) \in Nat /\ Len(q) \in Nat
    BY <1>3
  <2>3. QED
    BY <2>1, <2>2
<1>10. s = t /\ Agree(c, d)
  BY <1>1, <1>2, <1>3, <1>6, <1>9
<1>11. p = q /\ Agree(l, m)
  BY <1>4, <1>9, <1>10
<1>12. l = m
  BY <1>3, <1>11, SameElements, ZenonT(30) DEF Agree
<1>13. QED
  BY <1>10, <1>11, <1>12

Inside(entries) ==
  entries \in Seq(AnyEntry) /\ \A i \in 1..Len(entries) : entries[i].path # Outside

Width == Len(LengthBytes[0])

LEMMA EncodedFacts ==
  ASSUME NEW e \in AnyEntry, e.path # Outside
  PROVE  LET path == PathBytes[e.path]
             length == LengthBytes[e.size]
             data == DataBytes[<<e.size, e.text>>]
         IN /\ e.path \in DOMAIN PathBytes /\ <<e.size, e.text>> \in DOMAIN DataBytes
            /\ e.size \in 0..Largest /\ e.size \in Nat
            /\ path \in Seq(Nat) /\ length \in Seq(Nat) /\ data \in Seq(Nat)
            /\ Width \in Nat \ {0} /\ Len(length) = Width /\ Len(data) = e.size
            /\ path \o length \in Seq(Nat) /\ Encoded(e) = (path \o length) \o data
            /\ Encoded(e) \in Seq(Nat) /\ Len(Encoded(e)) # 0
<1> DEFINE path == PathBytes[e.path]
           length == LengthBytes[e.size]
           data == DataBytes[<<e.size, e.text>>]
           start == path \o length
<1>1. e.size \in 0..Largest
  BY EntryFacts
<1>2. Largest \in Nat /\ e.size \in Nat
  <2>1. Largest \in Nat
    BY BundlesAssumption
  <2>2. QED
    BY <1>1, <2>1
<1>3. e.path \in DOMAIN PathBytes /\ <<e.size, e.text>> \in DOMAIN DataBytes
  BY EncodingAssumption
<1>4. path \in Seq(Nat)
  BY <1>3, EncodingAssumption
<1>5. length \in Seq(Nat) /\ Len(length) = Width
  BY <1>1, EncodingAssumption DEF Width
<1>6. Width \in Nat \ {0}
  <2>1. 0 \in 0..Largest
    BY <1>2
  <2>2. QED
    BY <2>1, EncodingAssumption DEF Width
<1>7. data \in Seq(Nat) /\ Len(data) = e.size
  BY EncodingAssumption
<1>8. Encoded(e) = start \o data
  BY DEF Encoded
<1> HIDE DEF path, length, data
<1>9. start \in Seq(Nat) /\ Len(start) = Len(path) + Width
  BY <1>4, <1>5, ConcatAt
<1> HIDE DEF start
<1>10. Encoded(e) \in Seq(Nat) /\ Len(Encoded(e)) = Len(start) + e.size
  <2>1. start \o data \in Seq(Nat) /\ Len(start \o data) = Len(start) + Len(data)
    BY <1>7, <1>9, ConcatAt
  <2>2. QED
    BY <1>7, <1>8, <2>1
<1>11. Len(Encoded(e)) # 0
  <2>1. Len(path) \in Nat
    BY <1>4
  <2>2. QED
    BY <1>2, <1>6, <1>9, <1>10, <2>1
<1>12. QED
  BY <1>1, <1>2, <1>3, <1>4, <1>5, <1>6, <1>7, <1>8, <1>9, <1>10, <1>11
     DEF path, length, data, start

(* Files whose bytes agree as far as both go, and of which no path takes   *)
(* in the other's length, are the same.                                    *)
LEMMA EncodingTells ==
  ASSUME NEW e \in AnyEntry, NEW f \in AnyEntry, e.path # Outside, f.path # Outside,
         ~GoesOn(e, f), ~GoesOn(f, e),
         Agree(Encoded(e), Encoded(f))
  PROVE  /\ e.path = f.path /\ e.size = f.size /\ e.text = f.text
         /\ Encoded(e) = Encoded(f)
<1> DEFINE p == PathBytes[e.path]
           q == PathBytes[f.path]
           l == LengthBytes[e.size]
           m == LengthBytes[f.size]
           c == DataBytes[<<e.size, e.text>>]
           d == DataBytes[<<f.size, f.text>>]
<1>1. /\ e.path \in DOMAIN PathBytes /\ <<e.size, e.text>> \in DOMAIN DataBytes
      /\ e.size \in 0..Largest /\ p \in Seq(Nat) /\ l \in Seq(Nat) /\ c \in Seq(Nat)
      /\ Len(l) = Width /\ Len(c) = e.size
      /\ p \o l \in Seq(Nat) /\ Encoded(e) = (p \o l) \o c
  BY EncodedFacts
<1>2. /\ f.path \in DOMAIN PathBytes /\ <<f.size, f.text>> \in DOMAIN DataBytes
      /\ f.size \in 0..Largest /\ q \in Seq(Nat) /\ m \in Seq(Nat) /\ d \in Seq(Nat)
      /\ Len(m) = Width /\ Len(d) = f.size
      /\ q \o m \in Seq(Nat) /\ Encoded(f) = (q \o m) \o d
  BY EncodedFacts
<1>3. ~(Len(p) < Len(q) /\ Agree(p \o l, q)) /\ ~(Len(q) < Len(p) /\ Agree(q \o m, p))
  BY DEF GoesOn
<1>4. IsInjective(PathBytes) /\ IsInjective(DataBytes) /\ IsInjective(LengthBytes)
      /\ DOMAIN LengthBytes = 0..Largest
  BY EncodingAssumption
<1>5. /\ p = q => e.path = f.path
      /\ l = m => e.size = f.size
      /\ c = d => <<e.size, e.text>> = <<f.size, f.text>>
  BY <1>1, <1>2, <1>4 DEF IsInjective
<1> HIDE DEF p, q, l, m, c, d
<1>6. p = q /\ l = m /\ Agree(c, d)
  <2>1. Agree((p \o l) \o c, (q \o m) \o d)
    BY <1>1, <1>2
  <2>2. Len(l) = Len(m)
    BY <1>1, <1>2
  <2>3. QED
    BY <1>1, <1>2, <1>3, <2>1, <2>2, Parsed, SMTT(30)
<1>7. c = d
  <2>1. DOMAIN c = 1..Len(c) /\ DOMAIN d = 1..Len(d) /\ Len(c) = Len(d)
    BY <1>1, <1>2, <1>5, <1>6
  <2>2. QED
    BY <1>1, <1>2, <1>6, <2>1, SameElements DEF Agree
<1>8. e.size = f.size /\ e.text = f.text /\ e.path = f.path
  BY <1>5, <1>6, <1>7
<1>9. Encoded(e) = Encoded(f)
  BY <1>1, <1>2, <1>6, <1>7
<1>10. QED
  BY <1>8, <1>9

(* Sorting by paths keeps the files, and the order of those of one path.   *)
LEMMA InOrderFacts ==
  ASSUME NEW entries, Inside(entries)
  PROVE  LET s == InOrder(entries)
         IN /\ Inside(s) /\ Len(s) = Len(entries)
            /\ \E pos \in [1..Len(entries) -> 1..Len(entries)] :
                 /\ \A n \in 1..Len(entries) : s[n] = entries[pos[n]]
                 /\ \A p \in 1..Len(entries) : \E n \in 1..Len(entries) : pos[n] = p
                 /\ \A m, n \in 1..Len(entries) :
                      m < n /\ s[m].path = s[n].path => pos[m] < pos[n]
<1> DEFINE L == 1..Len(entries)
           byPath == PathRank(entries)
           s == InOrder(entries)
           C(i) == {j \in L : EarlierPath(entries[j], entries[i])}
<1>1. entries \in Seq(AnyEntry) /\ Len(entries) \in Nat
  BY DEF Inside
<1>2. byPath = [i \in L |-> Cardinality(C(i))]
  BY DEF PathRank
<1>3. byPath \in Seq(Int) /\ Len(byPath) = Len(entries)
  <2>1. IsFiniteSet(L)
    BY <1>1, FS_Interval
  <2>2. \A i \in L : Cardinality(C(i)) \in Nat
    <3> SUFFICES ASSUME NEW i \in L PROVE Cardinality(C(i)) \in Nat
      OBVIOUS
    <3>1. C(i) \in SUBSET L
      OBVIOUS
    <3> HIDE DEF C
    <3>2. QED
      BY <2>1, <3>1, FS_Subset, FS_CardinalityType
  <2> HIDE DEF C, byPath
  <2>3. QED
    BY <1>1, <1>2, <2>2
<1>4. \A i, j \in L : entries[i].path = entries[j].path => byPath[i] = byPath[j]
  <2>1. \A i, j \in L : entries[i].path = entries[j].path => C(i) = C(j)
    BY DEF EarlierPath
  <2> HIDE DEF C, byPath
  <2>2. QED
    BY <1>2, <2>1
<1> HIDE DEF byPath
<1>5. PICK pos \in [L -> L] :
        /\ SortedBy(entries, byPath) = [n \in L |-> entries[pos[n]]]
        /\ \A m, n \in L : pos[m] = pos[n] => m = n
        /\ \A p \in L : \E n \in L : pos[n] = p
        /\ \A m, n \in L : m < n => byPath[pos[m]] <= byPath[pos[n]]
        /\ \A m, n \in L : m < n /\ byPath[pos[m]] = byPath[pos[n]] => pos[m] < pos[n]
  BY <1>1, <1>3, SortedByFacts, ZenonT(30)
<1>6. s = [n \in L |-> entries[pos[n]]]
  BY <1>5 DEF InOrder, byPath
<1> HIDE DEF s
<1>7. /\ s \in Seq(AnyEntry) /\ Len(s) = Len(entries)
      /\ \A n \in L : s[n] = entries[pos[n]] /\ pos[n] \in L
  <2>1. \A n \in L : pos[n] \in L /\ entries[pos[n]] \in AnyEntry
    BY <1>1, <1>5
  <2>2. \A n \in L : s[n] = entries[pos[n]]
    BY <1>6
  <2>3. s \in [1..Len(entries) -> AnyEntry]
    BY <1>6, <2>1
  <2>4. s \in Seq(AnyEntry) /\ Len(s) = Len(entries)
    BY <1>1, <2>3
  <2>5. QED
    BY <2>1, <2>2, <2>4
<1>8. Inside(s)
  <2>1. \A n \in L : s[n].path # Outside
    BY <1>7 DEF Inside
  <2>2. QED
    BY <1>7, <2>1 DEF Inside
<1>9. \A m, n \in L : m < n /\ s[m].path = s[n].path => pos[m] < pos[n]
  <2> SUFFICES ASSUME NEW m \in L, NEW n \in L, m < n, s[m].path = s[n].path
               PROVE  pos[m] < pos[n]
    OBVIOUS
  <2>1. pos[m] \in L /\ pos[n] \in L /\ entries[pos[m]].path = entries[pos[n]].path
    BY <1>7
  <2>2. byPath[pos[m]] = byPath[pos[n]]
    BY <1>4, <2>1
  <2>3. QED
    BY <1>5, <2>2
<1>10. QED
  BY <1>5, <1>7, <1>8, <1>9 DEF s

(* The recursion of Hashed has a solution: one for each number of files.   *)
LEMMA HashedSteps ==
  ASSUME NEW entries, Inside(entries)
  PROVE  LET s == InOrder(entries)
             h == Hashed(entries)
         IN /\ h[0] = <<>>
            /\ \A k \in 1..Len(entries) : h[k] = h[k - 1] \o Encoded(s[k])
<1> DEFINE n == Len(entries)
           s == InOrder(entries)
           Solves(p, m) ==
             p = [k \in 0..m |-> IF k = 0 THEN <<>> ELSE p[k - 1] \o Encoded(s[k])]
           Solved == {m \in 0..n : \E p : Solves(p, m)}
<1>1. n \in Nat
  BY DEF Inside
<1>2. 0 \in Solved
  <2> DEFINE p == [k \in 0..0 |-> <<>>]
  <2>1. Solves(p, 0) /\ 0 \in 0..n
    BY <1>1
  <2> HIDE DEF p, Solves
  <2>2. QED
    BY <2>1
<1>3. ASSUME NEW m \in 0..n, m \in Solved, m # n PROVE m + 1 \in Solved
  <2>1. PICK p : Solves(p, m)
    BY <1>3
  <2> DEFINE q == [k \in 0..m + 1 |-> IF k = m + 1 THEN p[m] \o Encoded(s[m + 1]) ELSE p[k]]
  <2>2. m \in Nat /\ m + 1 \in 0..n
    BY <1>1, <1>3
  <2> HIDE DEF s
  <2>3. \A k \in 0..m + 1 :
          q[k] = IF k = 0 THEN <<>> ELSE q[k - 1] \o Encoded(s[k])
    <3>1. \A k \in 0..m : p[k] = IF k = 0 THEN <<>> ELSE p[k - 1] \o Encoded(s[k])
      BY <2>1
    <3>2. \A k \in 0..m : q[k] = p[k]
      BY <2>2
    <3>3. \A k \in 0..m + 1 : k = m + 1 \/ k \in 0..m
      BY <2>2
    <3>4. \A k \in 0..m : k # 0 => k - 1 \in 0..m
      BY <2>2
    <3>5. q[m + 1] = q[m] \o Encoded(s[m + 1])
      <4>1. m \in 0..m /\ m + 1 \in 0..m + 1
        BY <2>2
      <4>2. q[m] = p[m]
        BY <3>2, <4>1
      <4>3. q[m + 1] = p[m] \o Encoded(s[m + 1])
        BY <4>1
      <4> HIDE DEF q
      <4>4. QED
        BY <4>2, <4>3
    <3> HIDE DEF q, Solves
    <3>6. ASSUME NEW k \in 0..m
          PROVE  q[k] = IF k = 0 THEN <<>> ELSE q[k - 1] \o Encoded(s[k])
      BY <3>1, <3>2, <3>4
    <3>7. m + 1 # 0 /\ (m + 1) - 1 = m
      BY <2>2
    <3>8. QED
      BY <3>3, <3>5, <3>6, <3>7
  <2>4. Solves(q, m + 1)
    <3>1. q = [k \in 0..m + 1 |-> q[k]]
      OBVIOUS
    <3> HIDE DEF q
    <3>2. QED
      BY <2>3, <3>1
  <2> HIDE DEF q, Solves
  <2>5. QED
    BY <2>2, <2>4
<1>4. n \in Solved
  <2> HIDE DEF Solved
  <2>1. \A k \in 0..n : k \in Solved
    BY <1>1, <1>2, <1>3, CountingUp
  <2>2. QED
    BY <1>1, <2>1
<1>5. Hashed(entries) = CHOOSE p : Solves(p, n)
  BY DEF Hashed
<1>6. Solves(Hashed(entries), n)
  <2> HIDE DEF Solves
  <2>1. QED
    BY <1>4, <1>5
<1> HIDE DEF s
<1>7. \A k \in 0..n :
        Hashed(entries)[k] =
          IF k = 0 THEN <<>> ELSE Hashed(entries)[k - 1] \o Encoded(s[k])
  BY <1>6
<1>8. Hashed(entries)[0] = <<>>
  BY <1>1, <1>7
<1>9. ASSUME NEW k \in 1..n
      PROVE  Hashed(entries)[k] = Hashed(entries)[k - 1] \o Encoded(s[k])
  <2>1. k \in 0..n /\ k # 0
    BY <1>1
  <2>2. QED
    BY <1>7, <2>1
<1>10. QED
  BY <1>8, <1>9 DEF s

(* What was hashed before begins what is hashed in the end.                *)
LEMMA HashedFacts ==
  ASSUME NEW entries, Inside(entries)
  PROVE  LET s == InOrder(entries)
             h == Hashed(entries)
             n == Len(entries)
         IN /\ n \in Nat /\ h[0] = <<>> /\ h[n] \in Seq(Nat)
            /\ \A k \in 0..n : /\ h[k] \in Seq(Nat)
                               /\ Len(h[k]) <= Len(h[n]) /\ Agree(h[k], h[n])
            /\ \A k \in 1..n : /\ k - 1 \in 0..n /\ h[k] = h[k - 1] \o Encoded(s[k])
                               /\ Encoded(s[k]) \in Seq(Nat)
                               /\ Len(h[k - 1]) < Len(h[k])
<1> DEFINE n == Len(entries)
           s == InOrder(entries)
           h == Hashed(entries)
           Begins(t, u) == Len(t) <= Len(u) /\ Agree(t, u)
           G == {m \in 0..n : h[m] \in Seq(Nat)
                              /\ \A k \in 0..m : h[k] \in Seq(Nat) /\ Begins(h[k], h[m])}
<1>1. n \in Nat /\ h[0] = <<>> /\ \A k \in 1..n : h[k] = h[k - 1] \o Encoded(s[k])
  <2>1. n \in Nat
    BY DEF Inside
  <2>2. h[0] = <<>> /\ \A k \in 1..n : h[k] = h[k - 1] \o Encoded(s[k])
    BY HashedSteps
  <2>3. QED
    BY <2>1, <2>2
<1>2. \A k \in 1..n : Encoded(s[k]) \in Seq(Nat) /\ Len(Encoded(s[k])) # 0
  <2>1. \A k \in 1..n : s[k] \in AnyEntry /\ s[k].path # Outside
    BY InOrderFacts DEF Inside
  <2> HIDE DEF s
  <2>2. QED
    BY <2>1, EncodedFacts
<1> HIDE DEF n, s, h
<1>3. 0 \in G
  <2>1. \A k \in 0..0 : k = 0
    OBVIOUS
  <2>2. <<>> \in Seq(Nat) /\ Begins(<<>>, <<>>)
    BY DEF Agree
  <2>3. 0 \in 0..n /\ h[0] \in Seq(Nat)
    BY <1>1, <2>2
  <2> HIDE DEF Begins
  <2>4. \A k \in 0..0 : h[k] \in Seq(Nat) /\ Begins(h[k], h[0])
    BY <1>1, <2>1, <2>2
  <2>5. QED
    BY <2>3, <2>4
<1>4. ASSUME NEW m \in 0..n, m \in G, m # n PROVE m + 1 \in G
  <2> DEFINE b == Encoded(s[m + 1])
  <2>1. m + 1 \in 1..n /\ m + 1 \in 0..n /\ (m + 1) - 1 = m
    BY <1>1, <1>4
  <2>2. h[m] \in Seq(Nat) /\ \A k \in 0..m : h[k] \in Seq(Nat) /\ Begins(h[k], h[m])
    BY <1>4
  <2>3. b \in Seq(Nat) /\ h[m + 1] = h[m] \o b
    BY <1>1, <1>2, <2>1
  <2> HIDE DEF b
  <2>4. /\ h[m + 1] \in Seq(Nat) /\ Len(h[m + 1]) = Len(h[m]) + Len(b)
        /\ \A i \in 1..Len(h[m]) : h[m + 1][i] = h[m][i]
    BY <2>2, <2>3, ConcatAt
  <2>5. ASSUME NEW t \in Seq(Nat), Begins(t, h[m]) PROVE Begins(t, h[m + 1])
    <3>1. /\ DOMAIN t = 1..Len(t) /\ DOMAIN h[m] = 1..Len(h[m])
          /\ Len(t) \in Nat /\ Len(h[m]) \in Nat /\ Len(b) \in Nat /\ Len(t) <= Len(h[m])
      BY <2>2, <2>3, <2>5
    <3>2. \A i \in 1..Len(t) : i \in 1..Len(h[m]) /\ t[i] = h[m][i]
      BY <2>5, <3>1 DEF Agree
    <3>3. Len(t) <= Len(h[m + 1])
      BY <2>4, <3>1
    <3>4. QED
      BY <2>4, <3>1, <3>2, <3>3 DEF Agree
  <2>6. Begins(h[m + 1], h[m + 1])
    <3>1. Len(h[m + 1]) \in Nat
      BY <2>4
    <3>2. QED
      BY <3>1 DEF Agree
  <2>7. \A k \in 0..m + 1 : k = m + 1 \/ k \in 0..m
    BY <1>1
  <2> HIDE DEF Begins
  <2>8. QED
    BY <2>1, <2>2, <2>4, <2>5, <2>6, <2>7
<1>5. n \in G
  <2> HIDE DEF G
  <2>1. \A k \in 0..n : k \in G
    BY <1>1, <1>3, <1>4, CountingUp
  <2>2. QED
    BY <1>1, <2>1
<1>6. h[n] \in Seq(Nat) /\ \A k \in 0..n : /\ h[k] \in Seq(Nat)
                                            /\ Len(h[k]) <= Len(h[n]) /\ Agree(h[k], h[n])
  BY <1>5
<1>7. ASSUME NEW k \in 1..n
      PROVE  /\ k - 1 \in 0..n /\ h[k] = h[k - 1] \o Encoded(s[k])
             /\ Encoded(s[k]) \in Seq(Nat) /\ Len(h[k - 1]) < Len(h[k])
  <2> DEFINE b == Encoded(s[k])
  <2>1. k - 1 \in 0..n /\ h[k] = h[k - 1] \o b
    <3>1. k - 1 \in 0..n
      BY <1>1
    <3>2. QED
      BY <1>1, <3>1
  <2>2. b \in Seq(Nat) /\ Len(b) # 0
    BY <1>2
  <2> HIDE DEF b
  <2>3. h[k - 1] \in Seq(Nat)
    BY <1>6, <2>1
  <2>4. Len(h[k]) = Len(h[k - 1]) + Len(b)
    BY <2>1, <2>2, <2>3, ConcatAt
  <2>5. Len(b) \in Nat /\ Len(h[k - 1]) \in Nat
    BY <2>2, <2>3
  <2>6. Len(h[k - 1]) < Len(h[k])
    BY <2>2, <2>4, <2>5
  <2>7. QED
    BY <2>1, <2>2, <2>6 DEF b
<1>8. QED
  BY <1>1, <1>6, <1>7 DEF n, s, h

Alike(e, f) == e.path = f.path /\ e.size = f.size /\ e.text = f.text

(* The same bytes were hashed of the same files, unless they are ambiguous.*)
LEMMA FingerprintTells ==
  ASSUME NEW x, NEW y, Inside(x), Inside(y), Fingerprint(x) = Fingerprint(y),
         ~Ambiguous(x, y)
  PROVE  /\ Len(x) = Len(y)
         /\ \A k \in 1..Len(x) : Alike(InOrder(x)[k], InOrder(y)[k])
<1> DEFINE n == Len(x)
           m == Len(y)
           s == InOrder(x)
           t == InOrder(y)
           g == Hashed(x)
           h == Hashed(y)
           G == {k \in 0..n : /\ k <= m /\ g[k] = h[k]
                              /\ \A i \in 1..k : Alike(s[i], t[i])}
<1>1. /\ n \in Nat /\ g[0] = <<>> /\ g[n] \in Seq(Nat)
      /\ \A k \in 0..n : g[k] \in Seq(Nat) /\ Len(g[k]) <= Len(g[n]) /\ Agree(g[k], g[n])
      /\ \A k \in 1..n : /\ k - 1 \in 0..n /\ g[k] = g[k - 1] \o Encoded(s[k])
                         /\ Encoded(s[k]) \in Seq(Nat) /\ Len(g[k - 1]) < Len(g[k])
  BY HashedFacts
<1>2. /\ m \in Nat /\ h[0] = <<>> /\ h[m] \in Seq(Nat)
      /\ \A k \in 0..m : h[k] \in Seq(Nat) /\ Len(h[k]) <= Len(h[m]) /\ Agree(h[k], h[m])
      /\ \A k \in 1..m : /\ k - 1 \in 0..m /\ h[k] = h[k - 1] \o Encoded(t[k])
                         /\ Encoded(t[k]) \in Seq(Nat) /\ Len(h[k - 1]) < Len(h[k])
  BY HashedFacts
<1>3. g[n] = h[m]
  BY DEF Fingerprint
<1>4. /\ s \in Seq(AnyEntry) /\ Len(s) = n /\ \A k \in 1..n : s[k] \in AnyEntry /\ s[k].path # Outside
      /\ t \in Seq(AnyEntry) /\ Len(t) = m /\ \A k \in 1..m : t[k] \in AnyEntry /\ t[k].path # Outside
  <2>1. Inside(s) /\ Len(s) = n
    BY InOrderFacts
  <2>2. Inside(t) /\ Len(t) = m
    BY InOrderFacts
  <2> HIDE DEF s, t, n, m
  <2>3. QED
    BY <2>1, <2>2 DEF Inside
<1>5. \A k \in DOMAIN s \cap DOMAIN t : ~GoesOn(s[k], t[k]) /\ ~GoesOn(t[k], s[k])
  BY DEF Ambiguous
<1> HIDE DEF n, m, s, t, g, h
<1>6. ASSUME NEW k \in 0..n, k \in G, k # n PROVE k + 1 \in G
  <2>1. k + 1 \in 1..n /\ k + 1 \in 0..n /\ (k + 1) - 1 = k /\ k \in Nat
    BY <1>1, <1>6
  <2>2. k <= m /\ g[k] = h[k] /\ \A i \in 1..k : Alike(s[i], t[i])
    BY <1>6
  <2>3. k # m
    <3>1. Len(g[k]) < Len(g[k + 1]) /\ Len(g[k + 1]) <= Len(g[n])
      BY <1>1, <2>1
    <3>2. Len(g[k]) \in Nat /\ Len(g[k + 1]) \in Nat /\ Len(g[n]) \in Nat
      <4>1. g[k] \in Seq(Nat) /\ g[k + 1] \in Seq(Nat) /\ g[n] \in Seq(Nat)
        BY <1>1, <2>1
      <4>2. QED
        BY <4>1
    <3>3. Len(g[k]) # Len(g[n])
      BY <3>1, <3>2
    <3>4. QED
      BY <1>3, <2>2, <3>3
  <2>4. k + 1 \in 1..m /\ k + 1 \in 0..m /\ k + 1 <= m
    BY <1>2, <2>1, <2>2, <2>3
  <2> DEFINE b == Encoded(s[k + 1])
             c == Encoded(t[k + 1])
             u == g[k + 1]
             v == h[k + 1]
             w == g[n]
  <2>5. /\ b \in Seq(Nat) /\ c \in Seq(Nat) /\ u = g[k] \o b /\ v = g[k] \o c
        /\ g[k] \in Seq(Nat) /\ u \in Seq(Nat) /\ v \in Seq(Nat) /\ w \in Seq(Nat)
    BY <1>1, <1>2, <2>1, <2>2, <2>4
  <2>6. Len(u) <= Len(w) /\ Agree(u, w) /\ Agree(v, w)
    BY <1>1, <1>2, <1>3, <2>1, <2>4
  <2> HIDE DEF b, c, u, v, w
  <2>7. Agree(u, v)
    <3>1. DOMAIN u \subseteq DOMAIN w
      <4>1. /\ DOMAIN u = 1..Len(u) /\ DOMAIN w = 1..Len(w)
            /\ Len(u) \in Nat /\ Len(w) \in Nat
        BY <2>5
      <4>2. QED
        BY <2>6, <4>1
    <3>2. QED
      BY <2>6, <3>1 DEF Agree
  <2>8. Agree(b, c)
    BY <2>5, <2>7, AgreeingStarts
  <2>9. Alike(s[k + 1], t[k + 1]) /\ b = c
    <3>1. k + 1 \in DOMAIN s \cap DOMAIN t
      BY <1>4, <2>1, <2>4
    <3>2. ~GoesOn(s[k + 1], t[k + 1]) /\ ~GoesOn(t[k + 1], s[k + 1])
      BY <1>5, <3>1
    <3>3. /\ s[k + 1] \in AnyEntry /\ s[k + 1].path # Outside
          /\ t[k + 1] \in AnyEntry /\ t[k + 1].path # Outside
      BY <1>4, <2>1, <2>4
    <3>4. Agree(Encoded(s[k + 1]), Encoded(t[k + 1]))
      BY <2>8 DEF b, c
    <3>5. QED
      BY <3>2, <3>3, <3>4, EncodingTells DEF b, c, Alike
  <2>10. g[k + 1] = h[k + 1]
    BY <2>5, <2>9 DEF u, v
  <2>11. \A i \in 1..k + 1 : i = k + 1 \/ i \in 1..k
    BY <2>1
  <2>12. QED
    BY <2>1, <2>2, <2>4, <2>9, <2>10, <2>11
<1>7. n \in G
  <2>1. 0 \in G
    BY <1>1, <1>2
  <2> HIDE DEF G
  <2>2. \A k \in 0..n : k \in G
    BY <1>1, <1>6, <2>1, CountingUp
  <2>3. QED
    BY <1>1, <2>2
<1>8. n <= m /\ g[n] = h[n] /\ \A i \in 1..n : Alike(s[i], t[i])
  BY <1>7
<1>9. n = m
  <2>1. SUFFICES ASSUME n # m PROVE FALSE
    OBVIOUS
  <2>2. n + 1 \in 1..m /\ n + 1 \in 0..m /\ (n + 1) - 1 = n /\ n \in 0..m
    BY <1>1, <1>2, <1>8, <2>1
  <2>3. Len(h[n]) < Len(h[n + 1]) /\ Len(h[n + 1]) <= Len(h[m])
    BY <1>2, <2>2
  <2>4. Len(h[n]) \in Nat /\ Len(h[n + 1]) \in Nat /\ Len(h[m]) \in Nat
    <3>1. h[n] \in Seq(Nat) /\ h[n + 1] \in Seq(Nat) /\ h[m] \in Seq(Nat)
      BY <1>2, <2>2
    <3>2. QED
      BY <3>1
  <2>5. Len(h[n]) # Len(h[m])
    BY <2>3, <2>4
  <2>6. QED
    BY <1>3, <1>8, <2>5
<1>10. QED
  BY <1>8, <1>9 DEF n, m, s, t

(* Where a path comes first and last in the archive, it also does once the *)
(* files are in order.                                                     *)
LEMMA FirstAndLast ==
  ASSUME NEW entries, Inside(entries), NEW path
  PROVE  LET s == InOrder(entries)
             files == FilesAt(entries, path)
         IN /\ path \in PathsOf(entries) <=> \E k \in 1..Len(entries) : s[k].path = path
            /\ path \notin PathsOf(entries) => files = <<>>
            /\ path \in PathsOf(entries) =>
                 /\ files # <<>>
                 /\ \E lo, hi \in 1..Len(entries) :
                      /\ s[lo].path = path /\ s[hi].path = path
                      /\ \A k \in 1..Len(entries) : s[k].path = path => lo <= k /\ k <= hi
                      /\ files[1] = s[lo]
                      /\ Last(Contents(entries, path)) = <<s[hi].size, s[hi].text>>
<1> DEFINE N == Len(entries)
           s == InOrder(entries)
           K == {i \in 1..Len(entries) : entries[i].path = path}
           files == FilesAt(entries, path)
<1>1. /\ entries \in Seq(AnyEntry) /\ N \in Nat /\ DOMAIN entries = 1..N
      /\ K \in SUBSET (1..N) /\ files = Kept(entries, K)
  BY DEF Inside, FilesAt
<1>2. PICK pos \in [1..N -> 1..N] :
        /\ \A n \in 1..N : s[n] = entries[pos[n]]
        /\ \A p \in 1..N : \E n \in 1..N : pos[n] = p
        /\ \A m, n \in 1..N : m < n /\ s[m].path = s[n].path => pos[m] < pos[n]
  BY InOrderFacts
<1>3. path \in PathsOf(entries) <=> K # {}
  BY <1>1 DEF PathsOf
<1>4. path \in PathsOf(entries) <=> \E k \in 1..N : s[k].path = path
  <2>1. ASSUME NEW k \in 1..N, s[k].path = path PROVE K # {}
    BY <1>2, <2>1
  <2>2. ASSUME NEW p \in K PROVE \E k \in 1..N : s[k].path = path
    BY <1>2
  <2> HIDE DEF K, s, N
  <2>3. QED
    BY <1>3, <2>1, <2>2
<1>5. files \in Seq(AnyEntry) /\ Len(files) = Cardinality(K) /\ IsFiniteSet(K)
  <2> HIDE DEF K, files
  <2>1. QED
    BY <1>1, KeptFacts
<1>6. Contents(entries, path) = [i \in 1..Len(files) |-> <<files[i].size, files[i].text>>]
  BY DEF Contents
<1>7. \A n \in 1..N : s[n].path = path => pos[n] \in K
  BY <1>2
<1>8. \A p \in K : \E n \in 1..N : pos[n] = p /\ s[n] = entries[p] /\ s[n].path = path
  BY <1>2
<1> HIDE DEF N, s, K, files
<1>9. CASE K = {}
  <2>1. Len(files) = 0
    BY <1>5, <1>9, FS_EmptySet
  <2>2. files = <<>>
    BY <1>5, <2>1
  <2>3. QED
    BY <1>3, <1>4, <1>9, <2>2 DEF N, s, files
<1>10. CASE K # {}
  <2>1. PICK a, z \in K : /\ \A k \in K : a <= k /\ k <= z
                          /\ files[1] = entries[a] /\ files[Cardinality(K)] = entries[z]
    BY <1>1, <1>10, KeptEnds DEF N
  <2>2. PICK lo \in 1..N : pos[lo] = a /\ s[lo] = entries[a] /\ s[lo].path = path
    BY <1>8
  <2>3. PICK hi \in 1..N : pos[hi] = z /\ s[hi] = entries[z] /\ s[hi].path = path
    BY <1>8
  <2>4. ASSUME NEW k \in 1..N, s[k].path = path PROVE lo <= k /\ k <= hi
    <3>1. pos[k] \in K /\ pos[lo] <= pos[k] /\ pos[k] <= pos[hi]
      BY <1>7, <2>1, <2>2, <2>3, <2>4
    <3>2. pos[k] \in Int /\ pos[lo] \in Int /\ pos[hi] \in Int
      <4>1. pos[k] \in 1..N /\ pos[lo] \in 1..N /\ pos[hi] \in 1..N
        BY <1>2
      <4>2. QED
        BY <1>1, <4>1
    <3>3. ~(k < lo) /\ ~(hi < k)
      <4>1. k < lo => pos[k] < pos[lo]
        BY <1>2, <2>2, <2>4
      <4>2. hi < k => pos[hi] < pos[k]
        BY <1>2, <2>3, <2>4
      <4>3. QED
        BY <3>1, <3>2, <4>1, <4>2
    <3>4. QED
      BY <1>1, <3>3
  <2>5. Len(files) \in Nat /\ Len(files) # 0
    BY <1>5, <1>10, FS_EmptySet, FS_CardinalityType
  <2>6. files # <<>>
    BY <2>5
  <2>7. Last(Contents(entries, path)) = <<s[hi].size, s[hi].text>>
    <3> DEFINE c == [i \in 1..Len(files) |-> <<files[i].size, files[i].text>>]
    <3>1. Len(c) = Len(files) /\ Len(files) \in 1..Len(files)
      BY <2>5
    <3>2. c[Len(c)] = <<files[Len(files)].size, files[Len(files)].text>>
      BY <3>1
    <3>3. Last(c) = c[Len(c)]
      BY DEF Last
    <3>4. QED
      BY <1>5, <1>6, <2>1, <2>3, <3>2, <3>3
  <2>8. /\ files[1] = s[lo]
        /\ \A k \in 1..N : s[k].path = path => lo <= k /\ k <= hi
    BY <2>1, <2>2, <2>4
  <2>9. QED
    BY <1>3, <1>4, <1>10, <2>2, <2>3, <2>6, <2>7, <2>8 DEF N, s, files
<1>11. QED
  BY <1>9, <1>10

(* Bundles with the same files in order look the same to hosts and guests. *)
LEMMA SameInOrder ==
  ASSUME NEW x, NEW y, Inside(x), Inside(y), Len(x) = Len(y),
         \A k \in 1..Len(x) : Alike(InOrder(x)[k], InOrder(y)[k])
  PROVE  Mounted(x) = Mounted(y) /\ ManifestOf(x) = ManifestOf(y)
<1> DEFINE N == Len(x)
           s == InOrder(x)
           t == InOrder(y)
<1>1. /\ N \in Nat /\ Len(y) = N
      /\ \A k \in 1..N : /\ s[k].path = t[k].path
                         /\ s[k].size = t[k].size /\ s[k].text = t[k].text
  BY DEF Inside, Alike
<1>2. \A path : /\ path \in PathsOf(x) <=> \E k \in 1..N : s[k].path = path
                /\ path \in PathsOf(y) <=> \E k \in 1..N : t[k].path = path
  BY FirstAndLast
<1> HIDE DEF s, t, N
<1>3. PathsOf(x) = PathsOf(y)
  <2>1. \A path : path \in PathsOf(x) <=> path \in PathsOf(y)
    BY <1>1, <1>2
  <2>2. QED
    BY <2>1
<1>4. ASSUME NEW path \in PathsOf(x)
      PROVE  /\ Last(Contents(x, path)) = Last(Contents(y, path))
             /\ FilesAt(x, path) # <<>> /\ FilesAt(y, path) # <<>>
             /\ FilesAt(x, path)[1].text = FilesAt(y, path)[1].text
  <2>1. PICK a, z \in 1..N :
          /\ s[a].path = path /\ s[z].path = path
          /\ \A k \in 1..N : s[k].path = path => a <= k /\ k <= z
          /\ FilesAt(x, path)[1] = s[a]
          /\ Last(Contents(x, path)) = <<s[z].size, s[z].text>>
    BY FirstAndLast DEF s, N
  <2>2. PICK b, w \in 1..N :
          /\ t[b].path = path /\ t[w].path = path
          /\ \A k \in 1..N : t[k].path = path => b <= k /\ k <= w
          /\ FilesAt(y, path)[1] = t[b]
          /\ Last(Contents(y, path)) = <<t[w].size, t[w].text>>
    BY <1>3, FirstAndLast DEF t, N
  <2>3. a <= b /\ b <= a /\ z <= w /\ w <= z
    BY <1>1, <2>1, <2>2
  <2>4. a = b /\ z = w
    BY <1>1, <2>3
  <2>5. FilesAt(x, path) # <<>> /\ FilesAt(y, path) # <<>>
    BY <1>3, FirstAndLast
  <2>6. QED
    BY <1>1, <2>1, <2>2, <2>4, <2>5
<1>5. Mounted(x) = Mounted(y)
  BY <1>3, <1>4 DEF Mounted
<1>6. ManifestOf(x) = ManifestOf(y)
  <2>1. CASE ManifestPath \in PathsOf(x)
    BY <1>4, <2>1 DEF ManifestOf
  <2>2. CASE ManifestPath \notin PathsOf(x)
    <3>1. FilesAt(x, ManifestPath) = <<>> /\ FilesAt(y, ManifestPath) = <<>>
      BY <1>3, <2>2, FirstAndLast
    <3>2. QED
      BY <3>1 DEF ManifestOf
  <2>3. QED
    BY <2>1, <2>2
<1>7. QED
  BY <1>5, <1>6

-----------------------------------------------------------------------------
(* Inline bundles, and what is read, made and prepared step by step        *)

(* The archive an inline module is written to has the module, the packages *)
(* above it, and a manifest that is read back unchanged.                   *)
LEMMA InlineBundle ==
  ASSUME NEW as \in DOMAIN Dotted, NEW m \in Inline, NEW S, NEW entries \in Seq(S),
         BegunFrom(entries, as, m), Len(entries) = Len(InlineRecords(as, m))
  PROVE  LET module == Dotted[as]
         IN /\ \A k \in 1..(Len(module) - 1) :
                 Append(SubSeq(module, 1, k), "__init__.py") \in PathsOf(entries)
            /\ ModulePath(module) \in PathsOf(entries)
            /\ ManifestOf(entries) = Last(entries).text
            /\ IsInjective(KeysOf(ManifestOf(entries).packages))
<1> DEFINE module == Dotted[as]
           n == Len(module)
           records == Assembled(module, Normalize(m))
           K == {i \in 1..Len(entries) : entries[i].path = ManifestPath}
<1>1. /\ n \in Nat \ {0} /\ module \in Seq(Elements(module))
      /\ Len(records) = n + 1
      /\ \A k \in 1..(n - 1) : records[k] = File(Package(module, k), Unset, 0)
      /\ records[n] = File(ModulePath(module), Unset, 1)
      /\ records[n + 1] = File(ManifestPath, Normalize(m), 1)
  BY InlineRecordFacts
<1>2. /\ Len(entries) = n + 1 /\ DOMAIN entries = 1..(n + 1)
      /\ \A i \in 1..(n + 1) : entries[i] = EntryOf(records[i])
      /\ \A i, j \in 1..(n + 1) : records[i].name = records[j].name => i = j
  <2>1. InlineRecords(as, m) = records
    BY DEF InlineRecords
  <2>2. /\ \A i, j \in 1..Len(records) : records[i].name = records[j].name => i = j
        /\ \A i \in 1..Len(entries) : entries[i] = EntryOf(records[i])
    BY <2>1 DEF BegunFrom
  <2> HIDE DEF records
  <2>3. DOMAIN entries = 1..Len(entries) /\ Len(entries) = Len(records)
    BY <2>1
  <2>4. QED
    BY <1>1, <2>2, <2>3
<1>3. \A i \in 1..(n + 1) : PlainName(records[i].name)
  <2>1. \A i \in 1..(n + 1) : records[i] \in Elements(records)
    BY <1>1 DEF Elements
  <2> HIDE DEF n
  <2>2. QED
    BY <2>1, InlineNames
<1>4. \A i \in 1..(n + 1) : /\ entries[i].path = records[i].name
                            /\ entries[i].text = records[i].text
  <2>1. \A i \in 1..(n + 1) : NormalizeEntryPath(records[i].name) = records[i].name
    BY <1>3, PlainPath DEF PlainName
  <2>2. \A r : EntryOf(r).path = NormalizeEntryPath(r.name) /\ EntryOf(r).text = r.text
    BY DEF EntryOf
  <2> HIDE DEF n, records, module
  <2>3. QED
    BY <1>2, <2>1, <2>2
<1>5. \A name, text, size : /\ File(name, text, size).name = name
                            /\ File(name, text, size).text = text
  BY DEF File
<1> HIDE DEF n, records, module
<1>6. n \in 1..(n + 1) /\ n + 1 \in 1..(n + 1) /\ \A k \in 1..(n - 1) : k \in 1..(n + 1)
  BY <1>1
<1>7. /\ \A k \in 1..(n - 1) : Package(module, k) \in PathsOf(entries)
      /\ ModulePath(module) \in PathsOf(entries)
  <2>1. \A i \in 1..(n + 1) : records[i].name \in PathsOf(entries)
    BY <1>2, <1>4 DEF PathsOf
  <2>2. \A k \in 1..(n - 1) : records[k].name = Package(module, k)
    BY <1>1, <1>5
  <2>3. records[n].name = ModulePath(module)
    BY <1>1, <1>5
  <2>4. QED
    BY <1>6, <2>1, <2>2, <2>3
<1>9. /\ entries[n + 1].path = ManifestPath /\ entries[n + 1].text = Normalize(m)
      /\ \A i \in 1..(n + 1) : entries[i].path = ManifestPath => i = n + 1
  BY <1>1, <1>2, <1>4, <1>5, <1>6
<1>10. K = {n + 1} /\ K \in SUBSET (1..Len(entries))
  BY <1>2, <1>6, <1>9
<1>11. FilesAt(entries, ManifestPath) = Kept(entries, K)
  BY DEF FilesAt
<1> HIDE DEF K
<1>12. /\ Kept(entries, K) \in Seq(S) /\ Len(Kept(entries, K)) = 1
       /\ Elements(Kept(entries, K)) = {entries[n + 1]}
  <2>1. Cardinality(K) = 1
    BY <1>10, FS_Singleton
  <2>2. /\ Kept(entries, K) \in Seq(S) /\ Len(Kept(entries, K)) = Cardinality(K)
        /\ Elements(Kept(entries, K)) = {entries[k] : k \in K}
    BY <1>10, KeptFacts
  <2>3. QED
    BY <1>10, <2>1, <2>2
<1>13. Kept(entries, K) # <<>> /\ Kept(entries, K)[1] = entries[n + 1]
  <2>1. 1 \in 1..Len(Kept(entries, K))
    BY <1>12
  <2>2. Kept(entries, K)[1] \in Elements(Kept(entries, K))
    BY <2>1 DEF Elements
  <2>3. QED
    BY SMTT(20), <1>12, <2>2
<1>14. ManifestOf(entries) = Normalize(Normalize(m))
  BY <1>9, <1>11, <1>13 DEF ManifestOf
<1>15. m \in Manifest
  BY BundlesAssumption
<1>16. Last(entries).text = Normalize(m)
  BY <1>2, <1>9 DEF Last
<1>17. QED
  BY <1>7, <1>14, <1>15, <1>16, NormalizeOnce DEF Package, module, n

-----------------------------------------------------------------------------
(* Reading keeps to the limits                                             *)

LEMMA LimitFacts ==
  ASSUME NEW l \in Limits \cup {DefaultLimits}
  PROVE  /\ l.entries \in 0..Largest /\ l.entry \in 0..Largest /\ l.total \in 0..Largest
         /\ Largest \in Nat \ {0}
<1>1. {l.archive, l.entries, l.entry, l.total} \subseteq 0..Largest
  BY BundlesAssumption
<1>2. Largest \in Nat \ {0}
  BY BundlesAssumption
<1>3. QED
  BY <1>1, <1>2

(* One byte more than is allowed is read to see that a file is too large;  *)
(* where that cannot be added, no file is.                                 *)
LEMMA AcceptedFits ==
  ASSUME NEW r \in AnyRecord, reading.limits \in Limits \cup {DefaultLimits},
         reading.total \in Nat, reading.total <= reading.limits.total, Accepted(r)
  PROVE  /\ r.size <= reading.limits.entry
         /\ reading.total + r.size <= reading.limits.total
         /\ Plus(reading.total, r.size) = reading.total + r.size
         /\ EntryOf(r) \in AnyEntry /\ EntryOf(r).path # Outside
         /\ EntryOf(r).size = r.size /\ r.size \in 0..Largest
<1> DEFINE l == reading.limits
           t == reading.total
           limit == ReadLimit(l, t)
<1>1. l.entry \in 0..Largest /\ l.total \in 0..Largest /\ Largest \in Nat \ {0}
  BY LimitFacts
<1>2. r.size \in 0..Largest
  BY RecordFacts
<1>3. limit \in 0..Largest /\ limit <= l.entry /\ limit <= l.total - t
  BY <1>1 DEF ReadLimit, Least
<1>4. Least(r.size, Plus(limit, 1)) <= limit /\ NormalizeEntryPath(r.name) # Outside
  BY DEF Accepted
<1> HIDE DEF limit
<1>5. r.size <= limit
  BY <1>1, <1>2, <1>3, <1>4 DEF Least, Plus
<1>6. t + r.size <= l.total
  BY <1>1, <1>2, <1>3, <1>5
<1>7. EntryOf(r) \in AnyEntry
  BY DEF AnyEntry
<1>8. EntryOf(r).path = NormalizeEntryPath(r.name) /\ EntryOf(r).size = r.size
  BY DEF EntryOf
<1>9. QED
  BY <1>1, <1>2, <1>3, <1>4, <1>5, <1>6, <1>7, <1>8 DEF Plus

LEMMA OneMoreEntry ==
  ASSUME NEW entries, NEW l, InLimits(entries, l), NEW e \in AnyEntry, e.path # Outside,
         Len(entries) + 1 <= l.entries, e.size <= l.entry, SizeOf(entries) + e.size <= l.total
  PROVE  /\ InLimits(Append(entries, e), l)
         /\ SizeOf(Append(entries, e)) = SizeOf(entries) + e.size
         /\ Len(Append(entries, e)) = Len(entries) + 1
<1> DEFINE t == Append(entries, e)
<1>1. entries \in Seq(AnyEntry) /\ e.size \in 0..Largest
  BY EntryFacts DEF InLimits
<1>2. SizeOf(t) = SizeOf(entries) + e.size
  BY <1>1, SizesAdd
<1>3. /\ t \in Seq(AnyEntry) /\ Len(t) = Len(entries) + 1 /\ Len(entries) \in Nat
      /\ t[Len(entries) + 1] = e /\ \A i \in 1..Len(entries) : t[i] = entries[i]
  BY <1>1
<1> HIDE DEF t
<1>4. \A i \in 1..Len(t) : i \in 1..Len(entries) \/ i = Len(entries) + 1
  BY <1>3
<1>5. \A i \in 1..Len(t) : t[i].size <= l.entry /\ t[i].path # Outside
  BY <1>3, <1>4 DEF InLimits
<1>6. InLimits(t, l)
  BY <1>2, <1>3, <1>5 DEF InLimits
<1>7. QED
  BY <1>2, <1>3, <1>6 DEF t

LEMMA NothingRead ==
  ASSUME NEW l \in Limits \cup {DefaultLimits}
  PROVE  InLimits(<<>>, l) /\ SizeOf(<<>>) = 0
<1>1. SizeOf(<<>>) = 0
  <2>1. BytesOf(<<>>) = {}
    BY DEF BytesOf
  <2>2. QED
    BY <2>1, FS_EmptySet DEF SizeOf
<1>2. <<>> \in Seq(AnyEntry) /\ Len(<<>>) = 0
  OBVIOUS
<1>3. QED
  BY <1>1, <1>2, LimitFacts DEF InLimits

LEMMA RestOfRecords ==
  ASSUME NEW S, NEW s \in Seq(S), NEW k \in Nat, k < Len(s)
  PROVE  LET rest == SubSeq(s, k + 1, Len(s))
         IN /\ rest # <<>> /\ Head(rest) = s[k + 1]
            /\ Tail(rest) = SubSeq(s, k + 2, Len(s))
<1> DEFINE n == Len(s)
           rest == SubSeq(s, k + 1, n)
           more == SubSeq(s, k + 2, n)
<1>1. n \in Nat /\ n - k \in Nat \ {0} /\ n - (k + 1) \in Nat
  OBVIOUS
<1>2. /\ rest \in Seq(S) /\ Len(rest) = n - k
      /\ \A i \in 1..(n - k) : rest[i] = s[k + i]
  BY <1>1
<1>3. /\ more \in Seq(S) /\ Len(more) = n - (k + 1)
      /\ \A i \in 1..(n - (k + 1)) : more[i] = s[(k + 1) + i]
  BY <1>1
<1> HIDE DEF rest, more, n
<1>4. rest # <<>> /\ Head(rest) = s[k + 1]
  BY <1>1, <1>2
<1>5. /\ Tail(rest) \in Seq(S) /\ Len(Tail(rest)) = n - (k + 1)
      /\ \A i \in 1..(n - (k + 1)) : Tail(rest)[i] = rest[i + 1]
  BY <1>1, <1>2, <1>4, TailFacts
<1>6. \A i \in 1..(n - (k + 1)) : Tail(rest)[i] = more[i]
  BY <1>1, <1>2, <1>3, <1>5
<1>7. Tail(rest) = more
  BY <1>3, <1>5, <1>6
<1>8. QED
  BY <1>4, <1>7 DEF rest, more, n

-----------------------------------------------------------------------------
(* The steps                                                               *)

LEMMA OnlyReading ==
  ASSUME BundlesInv, UNCHANGED Unread, Reading', ReadingInline'
  PROVE  BundlesInv'
<1> USE DEF Unread
<1>1. BundlesRead' /\ Made' /\ Selection'
  BY DEF BundlesInv, BundlesRead, Made, MadeOf, Selection, BySelected, InLimits
<1>2. (handler # Unset => HandlerOf(handler))'
  BY DEF BundlesInv, HandlerOf
<1>3. HotIsCold' /\ RunsOnRequestedProfile'
  BY DEF BundlesInv, HotIsCold, RunsOnRequestedProfile, Plan, OfManifest
<1>4. (session # Unset => runtime # Unset /\ session.runtime = runtime)'
  BY DEF BundlesInv
<1>5. QED
  BY <1>1, <1>2, <1>3, <1>4 DEF BundlesInv

LEMMA NoLongerReading ==
  ASSUME reading' = Unset
  PROVE  Reading' /\ ReadingInline'
BY DEF Reading, ReadingInline

LEMMA Starts ==
  ASSUME NEW l \in Limits \cup {DefaultLimits}, NEW records \in Seq(AnyRecord), NEW module,
         reading = Unset, StartReading(records, l, module),
         module # Unset =>
           \E as \in DOMAIN Dotted, m \in Inline :
             /\ module = Dotted[as] /\ records = InlineRecords(as, m)
             /\ \A i, j \in 1..Len(records) : records[i].name = records[j].name => i = j
  PROVE  Reading' /\ ReadingInline'
<1>1. CASE Len(records) > l.entries
  <2>1. reading' = Unset
    BY <1>1, LimitFacts DEF StartReading
  <2>2. QED
    BY <2>1, NoLongerReading
<1>2. CASE Len(records) <= l.entries
  <2>1. reading' = [left |-> records, entries |-> <<>>, total |-> 0, limits |-> l,
                    module |-> module]
    BY <1>2 DEF StartReading, NoReading
  <2>2. InLimits(<<>>, l) /\ SizeOf(<<>>) = 0
    BY NothingRead
  <2>3. Len(records) \in Nat /\ Len(<<>>) = 0
    OBVIOUS
  <2>4. /\ reading'.left = records /\ reading'.entries = <<>> /\ reading'.total = 0
        /\ reading'.limits = l /\ reading'.module = module
    BY <2>1
  <2>5. Reading'
    BY <1>2, <2>1, <2>2, <2>3, <2>4 DEF Reading, InLimits
  <2>6. ASSUME NEW as \in DOMAIN Dotted, NEW m \in Inline, records = InlineRecords(as, m),
               \A i, j \in 1..Len(records) : records[i].name = records[j].name => i = j
        PROVE  /\ BegunFrom(<<>>, as, m)
               /\ records = SubSeq(records, Len(<<>>) + 1, Len(records))
    <3>1. BegunFrom(<<>>, as, m)
      <4>1. Len(<<>>) <= Len(records) /\ \A i \in 1..Len(<<>>) : FALSE
        BY <2>3
      <4>2. QED
        BY <2>6, <4>1 DEF BegunFrom
    <3>2. SubSeq(records, 1, Len(records)) = records
      OBVIOUS
    <3>3. Len(<<>>) + 1 = 1
      OBVIOUS
    <3>4. QED
      BY <3>1, <3>2, <3>3
  <2>7. ReadingInline'
    BY <2>4, <2>6 DEF ReadingInline, BegunFrom
  <2>8. QED
    BY <2>5, <2>7
<1>3. QED
  BY <1>1, <1>2, LimitFacts

LEMMA FromArchiveStep ==
  ASSUME BundlesInv, NEW a \in Archive, NEW l \in Limits,
         FromZipBytes(a, l) \/ FromReader(a, l)
  PROVE  BundlesInv'
<1>1. UNCHANGED Unread /\ reading = Unset
  BY DEF FromZipBytes, FromReader, Unread, Reads
<1>2. a.records \in Seq(AnyRecord)
  <2>1. a.records \in Seq(Elements(a.records))
    BY BundlesAssumption
  <2>2. Elements(a.records) \subseteq GivenRecord
    BY DEF GivenRecord
  <2>3. QED
    BY <2>1, <2>2 DEF AnyRecord
<1>3. StartReading(a.records, l, Unset) \/ UNCHANGED reading
  BY DEF FromZipBytes, FromReader
<1>4. Reading' /\ ReadingInline'
  BY <1>1, <1>2, <1>3, Starts, NoLongerReading
<1>5. QED
  BY <1>1, <1>4, OnlyReading

LEMMA FromInlineStep ==
  ASSUME BundlesInv, NEW m \in Inline, FromInlinePython(m)
  PROVE  BundlesInv'
<1> DEFINE as == m.entrypoint[1].as
           records == InlineRecords(as, m)
<1>1. UNCHANGED Unread /\ reading = Unset
  BY DEF FromInlinePython, Unread, Reads
<1>2. /\ IsInjective([i \in DOMAIN records |-> records[i].name])
      /\ StartReading(records, DefaultLimits, Dotted[as])
  BY DEF FromInlinePython, InlineRecords
<1>3. as \in DOMAIN Dotted
  BY BundlesAssumption DEF FromInlinePython, WellFormed
<1>4. records \in Seq(Elements(records)) /\ DOMAIN records = 1..Len(records)
  BY <1>3, InlineRecordFacts DEF InlineRecords
<1>5. records \in Seq(AnyRecord)
  <2>1. Elements(records) \subseteq WrittenRecord
    <3>1. Elements(records) \subseteq RecordFor(as)
      BY DEF RecordFor
    <3>2. RecordFor(as) \subseteq WrittenRecord
      BY <1>3 DEF WrittenRecord
    <3>3. QED
      BY <3>1, <3>2
  <2> HIDE DEF records
  <2>2. QED
    BY <1>4, <2>1 DEF AnyRecord
<1> HIDE DEF as, records
<1>6. \A i, j \in 1..Len(records) : records[i].name = records[j].name => i = j
  BY <1>2, <1>4 DEF IsInjective
<1>7. Reading' /\ ReadingInline'
  BY <1>1, <1>2, <1>3, <1>5, <1>6, Starts DEF records
<1>8. QED
  BY <1>1, <1>7, OnlyReading

LEMMA ReadRecordStep ==
  ASSUME BundlesInv, ReadRecord
  PROVE  BundlesInv'
<1> DEFINE r == Head(reading.left)
           l == reading.limits
           old == reading.entries
<1>1. /\ UNCHANGED Unread /\ reading # Unset /\ reading.left # <<>>
      /\ \/ r.dir /\ reading' = [reading EXCEPT !.left = Tail(@)]
         \/ /\ ~r.dir /\ Accepted(r)
            /\ reading' = [reading EXCEPT !.left = Tail(@),
                                          !.entries = Append(@, EntryOf(r)),
                                          !.total = Plus(@, r.size)]
         \/ reading' = Unset
  BY DEF ReadRecord
<1>2. /\ reading = [left |-> reading.left, entries |-> reading.entries,
                    total |-> reading.total, limits |-> reading.limits,
                    module |-> reading.module]
      /\ reading.left \in Seq(AnyRecord) /\ InLimits(old, l)
      /\ reading.total = SizeOf(old)
      /\ Len(reading.left) + Len(old) <= l.entries
  BY <1>1 DEF BundlesInv, Reading
<1>3. /\ Len(reading.left) \in Nat \ {0} /\ r \in AnyRecord
      /\ Tail(reading.left) \in Seq(AnyRecord)
      /\ Len(Tail(reading.left)) = Len(reading.left) - 1
  BY <1>1, <1>2, TailFacts
<1>4. /\ old \in Seq(AnyEntry) /\ l \in Limits \cup {DefaultLimits}
      /\ Len(old) \in Nat /\ SizeOf(old) <= l.total /\ l.entries \in Nat
  BY <1>2, LimitFacts DEF InLimits
<1>5. SizeOf(old) \in Nat
  <2>1. EntryOf(r) \in AnyEntry
    BY <1>3 DEF AnyEntry
  <2>2. EntryOf(r).size \in 0..Largest
    BY <2>1, EntryFacts
  <2>3. QED
    BY <1>4, <2>1, <2>2, SizesAdd
<1>6. ASSUME reading.module # Unset
      PROVE  \E as \in DOMAIN Dotted, m \in Inline :
               LET records == InlineRecords(as, m)
               IN /\ reading.module = Dotted[as] /\ BegunFrom(old, as, m)
                  /\ Len(old) < Len(records) /\ r = records[Len(old) + 1]
                  /\ Tail(reading.left) = SubSeq(records, Len(old) + 2, Len(records))
                  /\ ~r.dir
  <2>1. PICK as \in DOMAIN Dotted, m \in Inline :
          LET records == InlineRecords(as, m)
          IN /\ reading.module = Dotted[as] /\ BegunFrom(old, as, m)
             /\ reading.left = SubSeq(records, Len(old) + 1, Len(records))
    BY <1>1, <1>6 DEF BundlesInv, ReadingInline
  <2> DEFINE records == InlineRecords(as, m)
  <2>2. records \in Seq(Elements(records))
    BY InlineRecordFacts DEF InlineRecords
  <2>3. Len(old) <= Len(records) /\ reading.left = SubSeq(records, Len(old) + 1, Len(records))
    BY <2>1 DEF BegunFrom
  <2> HIDE DEF records
  <2>4. Len(old) < Len(records)
    <3>1. Len(records) \in Nat /\ Len(old) \in 0..Len(records)
      BY <1>4, <2>2, <2>3
    <3>2. Len(SubSeq(records, Len(old) + 1, Len(records))) = Len(records) - Len(old)
      BY <2>2, <3>1, DropFacts
    <3>3. QED
      BY <1>3, <1>4, <2>3, <3>1, <3>2
  <2>5. /\ r = records[Len(old) + 1]
        /\ Tail(reading.left) = SubSeq(records, Len(old) + 2, Len(records))
    BY <1>4, <2>2, <2>3, <2>4, RestOfRecords
  <2>6. Len(old) + 1 \in 1..Len(records)
    BY <1>4, <2>2, <2>4
  <2>7. r \in Elements(records)
    BY <2>5, <2>6 DEF Elements
  <2>8. ~r.dir
    <3>1. r \in Elements(Assembled(Dotted[as], Normalize(m)))
      BY <2>7 DEF records, InlineRecords
    <3>2. QED
      BY <3>1, InlineNames
  <2>9. QED
    BY <2>1, <2>4, <2>5, <2>8 DEF records
<1>7. CASE r.dir /\ reading' = [reading EXCEPT !.left = Tail(@)]
  <2>1. reading' = [left |-> Tail(reading.left), entries |-> old, total |-> reading.total,
                    limits |-> l, module |-> reading.module]
    BY <1>2, <1>7
  <2>2. /\ reading'.left = Tail(reading.left) /\ reading'.entries = old
        /\ reading'.total = reading.total /\ reading'.limits = l
        /\ reading'.module = reading.module
    BY <2>1
  <2>3. Reading'
    <3>1. Len(Tail(reading.left)) + Len(old) <= l.entries
      BY <1>2, <1>3, <1>4
    <3>2. QED
      BY <1>2, <1>3, <2>1, <2>2, <3>1 DEF Reading, InLimits
  <2>4. ReadingInline'
    BY <1>6, <1>7, <2>2 DEF ReadingInline
  <2>5. QED
    BY <1>1, <2>3, <2>4, OnlyReading
<1>8. CASE /\ ~r.dir /\ Accepted(r)
           /\ reading' = [reading EXCEPT !.left = Tail(@),
                                         !.entries = Append(@, EntryOf(r)),
                                         !.total = Plus(@, r.size)]
  <2> DEFINE e == EntryOf(r)
             new == Append(old, e)
  <2>1. reading' = [left |-> Tail(reading.left), entries |-> new,
                    total |-> Plus(reading.total, r.size), limits |-> l,
                    module |-> reading.module]
    BY <1>2, <1>8
  <2>2. /\ reading'.left = Tail(reading.left) /\ reading'.entries = new
        /\ reading'.total = Plus(reading.total, r.size) /\ reading'.limits = l
        /\ reading'.module = reading.module
    BY <2>1
  <2>3. /\ r.size <= l.entry /\ SizeOf(old) + r.size <= l.total
        /\ Plus(reading.total, r.size) = SizeOf(old) + r.size
        /\ e \in AnyEntry /\ e.path # Outside /\ e.size = r.size
    BY <1>2, <1>3, <1>4, <1>5, <1>8, AcceptedFits
  <2>4. Len(old) + 1 <= l.entries
    BY <1>2, <1>3, <1>4
  <2> HIDE DEF e
  <2>5. /\ InLimits(new, l) /\ SizeOf(new) = SizeOf(old) + e.size
        /\ Len(new) = Len(old) + 1
    BY <1>2, <2>3, <2>4, OneMoreEntry
  <2>6. \A i \in 1..Len(old) : new[i] = old[i]
    BY <1>4
  <2>7. new[Len(old) + 1] = e
    BY <1>4
  <2> HIDE DEF new
  <2>8. Reading'
    <3>1. Len(Tail(reading.left)) + Len(new) <= l.entries
      BY <1>2, <1>3, <1>4, <2>5
    <3>2. reading'.total = SizeOf(new)
      BY <2>2, <2>3, <2>5
    <3>3. InLimits(reading'.entries, reading'.limits)
      BY <2>2, <2>5
    <3>4. Len(reading'.left) + Len(reading'.entries) <= reading'.limits.entries
      BY <2>2, <3>1
    <3>5. reading' = [left |-> reading'.left, entries |-> reading'.entries,
                      total |-> reading'.total, limits |-> reading'.limits,
                      module |-> reading'.module]
      BY <2>1, <2>2
    <3>6. QED
      BY <1>3, <2>2, <3>2, <3>3, <3>4, <3>5 DEF Reading, InLimits
  <2>9. ReadingInline'
    <3> SUFFICES ASSUME reading.module # Unset
                 PROVE  \E as \in DOMAIN Dotted, m \in Inline :
                          /\ reading.module = Dotted[as]
                          /\ BegunFrom(new, as, m)
                          /\ Tail(reading.left)
                               = SubSeq(InlineRecords(as, m), Len(new) + 1,
                                        Len(InlineRecords(as, m)))
      BY <2>2 DEF ReadingInline, BegunFrom
    <3>1. PICK as \in DOMAIN Dotted, m \in Inline :
            LET records == InlineRecords(as, m)
            IN /\ reading.module = Dotted[as] /\ BegunFrom(old, as, m)
               /\ Len(old) < Len(records) /\ r = records[Len(old) + 1]
               /\ Tail(reading.left) = SubSeq(records, Len(old) + 2, Len(records))
      BY <1>6
    <3> DEFINE records == InlineRecords(as, m)
    <3>2. /\ \A i, j \in 1..Len(records) : records[i].name = records[j].name => i = j
          /\ \A i \in 1..Len(old) : old[i] = EntryOf(records[i])
      BY <3>1 DEF BegunFrom
    <3>3. Len(records) \in Nat
      <4>1. records \in Seq(Elements(records))
        BY InlineRecordFacts DEF InlineRecords
      <4> HIDE DEF records
      <4>2. QED
        BY <4>1
    <3>4. /\ Len(old) < Len(records) /\ r = records[Len(old) + 1]
          /\ Tail(reading.left) = SubSeq(records, Len(old) + 2, Len(records))
      BY <3>1
    <3> HIDE DEF records
    <3>5. \A i \in 1..Len(new) : new[i] = EntryOf(records[i])
      <4>1. \A i \in 1..Len(new) : i \in 1..Len(old) \/ i = Len(old) + 1
        BY <1>4, <2>5
      <4>2. e = EntryOf(records[Len(old) + 1])
        BY <3>4 DEF e
      <4>3. QED
        BY <2>6, <2>7, <3>2, <4>1, <4>2
    <3>6. Len(new) <= Len(records) /\ Len(new) + 1 = Len(old) + 2
      BY <1>4, <2>5, <3>3, <3>4
    <3>7. BegunFrom(new, as, m)
      BY <3>2, <3>5, <3>6 DEF BegunFrom, records
    <3>8. QED
      BY <3>1, <3>6, <3>7
  <2>10. QED
    BY <1>1, <2>8, <2>9, OnlyReading
<1>9. CASE reading' = Unset
  BY <1>1, <1>9, NoLongerReading, OnlyReading
<1>10. QED
  BY <1>1, <1>7, <1>8, <1>9

LEMMA ReadFailsStep ==
  ASSUME BundlesInv, ReadFails
  PROVE  BundlesInv'
<1>1. UNCHANGED Unread /\ reading' = Unset
  BY DEF ReadFails
<1>2. QED
  BY <1>1, NoLongerReading, OnlyReading

LEMMA EndReadingStep ==
  ASSUME BundlesInv, EndReading
  PROVE  BundlesInv'
<1> DEFINE b == [entries |-> reading.entries, limits |-> reading.limits,
                 module |-> reading.module]
<1>1. /\ reading # Unset /\ reading.left = <<>> /\ reading' = Unset
      /\ bundles' = bundles \/ bundles' = bundles \cup {b}
      /\ UNCHANGED <<made, config, runtime, handler, session>>
  BY DEF EndReading
<1>2. Reading' /\ ReadingInline'
  BY <1>1, NoLongerReading
<1>3. b.module # Unset =>
        \E as \in DOMAIN Dotted, m \in Inline :
          /\ b.module = Dotted[as] /\ BegunFrom(b.entries, as, m)
          /\ Len(b.entries) = Len(InlineRecords(as, m))
  <2> SUFFICES ASSUME b.module # Unset
               PROVE  \E as \in DOMAIN Dotted, m \in Inline :
                        /\ b.module = Dotted[as] /\ BegunFrom(b.entries, as, m)
                        /\ Len(b.entries) = Len(InlineRecords(as, m))
    OBVIOUS
  <2>1. PICK as \in DOMAIN Dotted, m \in Inline :
          LET records == InlineRecords(as, m)
          IN /\ reading.module = Dotted[as] /\ BegunFrom(reading.entries, as, m)
             /\ <<>> = SubSeq(records, Len(reading.entries) + 1, Len(records))
    BY <1>1 DEF BundlesInv, ReadingInline
  <2> DEFINE records == InlineRecords(as, m)
             k == Len(reading.entries)
  <2>2. records \in Seq(Elements(records))
    BY InlineRecordFacts DEF InlineRecords
  <2>3. k <= Len(records) /\ <<>> = SubSeq(records, k + 1, Len(records))
    BY <2>1 DEF BegunFrom
  <2>4. k \in Nat
    BY <1>1 DEF BundlesInv, Reading, InLimits
  <2> HIDE DEF records, k
  <2>5. Len(records) \in Nat /\ Len(<<>>) = 0 /\ k \in 0..Len(records)
    BY <2>2, <2>3, <2>4
  <2>6. Len(<<>>) = Len(records) - k
    BY <2>2, <2>3, <2>5, DropFacts
  <2>7. k = Len(records)
    BY <2>4, <2>5, <2>6
  <2>8. QED
    BY <2>1, <2>7 DEF records, k
<1>4. InLimits(b.entries, b.limits)
  BY <1>1 DEF BundlesInv, Reading
<1>5. b = [entries |-> b.entries, limits |-> b.limits, module |-> b.module]
  OBVIOUS
<1> HIDE DEF b
<1>6. BundlesRead'
  BY <1>1, <1>3, <1>4, <1>5 DEF BundlesInv, BundlesRead, InLimits, BegunFrom
<1>7. Made' /\ Selection' /\ (handler # Unset => HandlerOf(handler))'
  BY <1>1 DEF BundlesInv, Made, MadeOf, Selection, BySelected, HandlerOf
<1>8. /\ HotIsCold' /\ RunsOnRequestedProfile'
      /\ (session # Unset => runtime # Unset /\ session.runtime = runtime)'
  BY <1>1 DEF BundlesInv, HotIsCold, RunsOnRequestedProfile, Plan, OfManifest
<1>9. QED
  BY <1>2, <1>6, <1>7, <1>8 DEF BundlesInv

LEMMA FromBundleStep ==
  ASSUME BundlesInv, NEW b \in bundles, NEW entrypoint, FromBundle(b, entrypoint)
  PROVE  BundlesInv'
<1> DEFINE m == ManifestOf(b.entries)
           a == [bundle |-> b, manifest |-> m, fingerprint |-> Fingerprint(b.entries),
                 entrypoint |-> IF entrypoint = Unset THEN EntrypointOf(m) ELSE entrypoint,
                 language |-> IF m = Unset \/ m.language = Unset THEN "python"
                              ELSE m.language,
                 profile |-> ProfileOf(m)]
<1>1. /\ made' = made \cup {a}
      /\ UNCHANGED <<reading, bundles, config, runtime, handler, session>>
  BY DEF FromBundle
<1>2. MadeOf(a)
  <2> HIDE DEF m
  <2>1. /\ a.bundle = b /\ a.manifest = m /\ a.fingerprint = Fingerprint(b.entries)
        /\ a.language = IF m = Unset \/ m.language = Unset THEN "python" ELSE m.language
    OBVIOUS
  <2>2. a.language = Or(LanguageOf(m), "python")
    BY <2>1 DEF Or, LanguageOf
  <2> HIDE DEF a
  <2>3. QED
    BY <2>1, <2>2 DEF MadeOf, m
<1> HIDE DEF a, m
<1>3. Made'
  BY <1>1, <1>2 DEF BundlesInv, Made, MadeOf
<1>4. Reading' /\ ReadingInline' /\ BundlesRead' /\ Selection'
  BY <1>1 DEF BundlesInv, Reading, ReadingInline, BundlesRead, Selection, BySelected,
              InLimits, BegunFrom
<1>5. (handler # Unset => HandlerOf(handler))'
  BY <1>1 DEF BundlesInv, HandlerOf
<1>6. /\ HotIsCold' /\ RunsOnRequestedProfile'
      /\ (session # Unset => runtime # Unset /\ session.runtime = runtime)'
  BY <1>1 DEF BundlesInv, HotIsCold, RunsOnRequestedProfile, Plan, OfManifest
<1>7. QED
  BY <1>3, <1>4, <1>5, <1>6 DEF BundlesInv

LEMMA OnlySelecting ==
  ASSUME BundlesInv, UNCHANGED <<reading, bundles, made, handler, session>>,
         runtime = Unset, Selection'
  PROVE  BundlesInv'
<1>1. Reading' /\ ReadingInline' /\ BundlesRead' /\ Made'
  BY DEF BundlesInv, Reading, ReadingInline, BundlesRead, Made, MadeOf, InLimits, BegunFrom
<1>2. (handler # Unset => HandlerOf(handler))'
  BY DEF BundlesInv, HandlerOf
<1>3. session' = Unset
  BY DEF BundlesInv
<1>4. HotIsCold' /\ RunsOnRequestedProfile'
  BY <1>3 DEF HotIsCold, RunsOnRequestedProfile
<1>5. QED
  BY <1>1, <1>2, <1>3, <1>4 DEF BundlesInv

(* What a selection of p leaves: its directory, if one is registered; only *)
(* the default needs none.                                                 *)
LEMMA SelectedFacts ==
  ASSUME BundlesInv, config # Unset, NEW p, Selectable(p)
  PROVE  /\ BySelected(Selected(p))
         /\ Selected(p) = [profile |-> Selected(p).profile, by |-> Selected(p).by,
                           dir |-> Selected(p).dir, registered |-> Selected(p).registered]
<1>1. /\ config = [profile |-> config.profile, by |-> config.by,
                   dir |-> config.dir, registered |-> config.registered]
      /\ BySelected(config)
  BY DEF BundlesInv, Selection
<1>2. CASE config.registered[p] = Unset
  <2>1. p = "default"
    BY <1>2 DEF Selectable
  <2>2. Selected(p) = [profile |-> p, by |-> config.by,
                       dir |-> config.dir, registered |-> config.registered]
    BY <1>1, <1>2 DEF Selected
  <2>3. QED
    BY <2>1, <2>2 DEF BySelected
<1>3. CASE config.registered[p] # Unset
  <2>1. Selected(p) = [profile |-> p, by |-> p, dir |-> config.registered[p],
                       registered |-> config.registered]
    BY <1>1, <1>3 DEF Selected
  <2>2. QED
    BY <2>1 DEF BySelected
<1>4. QED
  BY <1>2, <1>3

LEMMA ConfigStep ==
  ASSUME BundlesInv,
         \/ NewConfig
         \/ \E p \in ProfileName, d \in Directory : RegisterProfile(p, d)
         \/ \E d \in Directory \cup {Unset} : SetDirectory(d)
         \/ \E p \in ProfileName : SelectProfile(p)
  PROVE  BundlesInv'
<1> DEFINE Good(c) == /\ BySelected(c)
                      /\ c = [profile |-> c.profile, by |-> c.by, dir |-> c.dir,
                              registered |-> c.registered]
<1>1. UNCHANGED Unconfigured /\ runtime = Unset
  BY DEF NewConfig, RegisterProfile, SetDirectory, SelectProfile, Configures, Unconfigured
<1>2. config # Unset => Good(config)
  BY DEF BundlesInv, Selection
<1>3. Good(config')
  <2>1. CASE NewConfig
    <3>1. config' \in Environment
      BY <2>1 DEF NewConfig
    <3>2. PICK d, given :
            config' = [profile |-> Unset, by |-> Unset, dir |-> d,
                       registered |-> [p \in ProfileName |->
                         IF p \in DOMAIN given THEN given[p]
                         ELSE IF p = "default" THEN d ELSE Unset]]
      BY <3>1 DEF Environment
    <3>3. QED
      BY <3>2 DEF BySelected
  <2>2. ASSUME NEW p \in ProfileName, NEW d \in Directory, RegisterProfile(p, d)
        PROVE  Good(config')
    <3>1. config # Unset /\ config' = [config EXCEPT !.registered[p] = d]
      BY <2>2 DEF RegisterProfile, Configures
    <3>2. config' = [profile |-> config.profile, by |-> config.by, dir |-> config.dir,
                     registered |-> [config.registered EXCEPT ![p] = d]]
      BY <1>2, <3>1
    <3>3. QED
      BY <1>2, <3>1, <3>2 DEF BySelected
  <2>3. ASSUME NEW d, SetDirectory(d)
        PROVE  Good(config')
    <3>1. config # Unset /\ config' = [config EXCEPT !.dir = d, !.by = Unset]
      BY <2>3 DEF SetDirectory, Configures
    <3>2. config' = [profile |-> config.profile, by |-> Unset, dir |-> d,
                     registered |-> config.registered]
      BY <1>2, <3>1
    <3>3. QED
      BY <3>2 DEF BySelected
  <2>4. ASSUME NEW p \in ProfileName, SelectProfile(p)
        PROVE  Good(config')
    <3>1. config # Unset /\ Selectable(p) /\ config' = Selected(p)
      BY <2>4 DEF SelectProfile, Configures
    <3>2. QED
      BY <3>1, SelectedFacts
  <2> HIDE DEF Good
  <2>5. QED
    BY <2>1, <2>2, <2>3, <2>4
<1>4. Selection'
  BY <1>1, <1>3 DEF BundlesInv, Selection, BySelected, Unconfigured
<1>5. QED
  BY <1>1, <1>4, OnlySelecting DEF Unconfigured

LEMMA RuntimeStep ==
  ASSUME BundlesInv, NEW language,
         \/ NewRuntime(language)
         \/ \E b \in bundles : NewForBundle(b, language)
         \/ \E a \in made : NewForArtifact(a, language)
  PROVE  BundlesInv'
<1>1. \E c : Start(c, language) /\ BySelected(c)
  <2>1. BySelected(config) /\ config # Unset
    BY DEF BundlesInv, Selection, NewRuntime, NewForBundle, NewForArtifact, StartFor, Configures
  <2>2. ASSUME NEW p, StartFor(p, language) PROVE \E c : Start(c, language) /\ BySelected(c)
    <3>1. Start(config, language) \/ (Selectable(p) /\ Start(Selected(p), language))
      BY <2>2 DEF StartFor
    <3>2. QED
      BY <2>1, <3>1, SelectedFacts
  <2>3. QED
    BY <2>1, <2>2 DEF NewRuntime, NewForBundle, NewForArtifact
<1>2. /\ UNCHANGED <<reading, bundles, made, handler, session>> /\ runtime = Unset
  BY DEF NewRuntime, NewForBundle, NewForArtifact, StartFor, Configures
<1>3. PICK c : Start(c, language) /\ BySelected(c)
  BY <1>1
<1>4. /\ config' = Unset
      /\ runtime'.profile = c.profile /\ runtime'.by = c.by
  BY <1>3 DEF Start
<1>5. Selection'
  BY <1>3, <1>4 DEF Selection, BySelected
<1>6. QED
  BY <1>2, <1>5, OnlySelecting

LEMMA PrepareHandlerStep ==
  ASSUME BundlesInv, NEW a \in made, NEW d \in Descriptor \cup {Unset}, PrepareHandler(a, d)
  PROVE  BundlesInv'
<1> DEFINE said == Or(d, Nameless)
           first == Or(d, [Nameless EXCEPT !.entrypoint = a.entrypoint])
<1>1. /\ handler' = [artifact |-> a, edited |-> FALSE, asked |-> said,
                     descriptor |-> ManifestDefaults(a, first)]
      /\ UNCHANGED <<reading, bundles, made, config, runtime, session>>
  BY DEF PrepareHandler
<1>2. DOMAIN said = {"entrypoint", "language", "cpu"}
  BY BundlesAssumption DEF Or, Nameless
<1>3. said.entrypoint # Unset => said = first
  BY DEF Or, Nameless
<1> HIDE DEF said, first
<1>4. HandlerOf(handler)'
  BY <1>1, <1>2, <1>3 DEF HandlerOf, ManifestDefaults, CpuOf, Or
<1>5. Reading' /\ ReadingInline' /\ BundlesRead' /\ Made' /\ Selection'
  BY <1>1 DEF BundlesInv, Reading, ReadingInline, BundlesRead, Made, MadeOf, Selection,
              BySelected, InLimits, BegunFrom
<1>6. /\ HotIsCold' /\ RunsOnRequestedProfile'
      /\ (session # Unset => runtime # Unset /\ session.runtime = runtime)'
  BY <1>1 DEF BundlesInv, HotIsCold, RunsOnRequestedProfile, Plan, OfManifest
<1>7. QED
  BY <1>4, <1>5, <1>6 DEF BundlesInv

LEMMA EditHandlerStep ==
  ASSUME BundlesInv, NEW cpu, EditHandler(cpu)
  PROVE  BundlesInv'
<1>1. /\ handler # Unset /\ HandlerOf(handler)
      /\ handler' = [handler EXCEPT !.descriptor.cpu = cpu, !.edited = TRUE]
      /\ UNCHANGED <<reading, bundles, made, config, runtime, session>>
  BY DEF EditHandler, BundlesInv
<1>2. handler' = [artifact |-> handler.artifact, edited |-> TRUE, asked |-> handler.asked,
                  descriptor |-> [handler.descriptor EXCEPT !.cpu = cpu]]
  BY <1>1 DEF HandlerOf
<1>3. HandlerOf(handler)'
  BY <1>1, <1>2 DEF HandlerOf
<1>4. Reading' /\ ReadingInline' /\ BundlesRead' /\ Made' /\ Selection'
  BY <1>1 DEF BundlesInv, Reading, ReadingInline, BundlesRead, Made, MadeOf, Selection,
              BySelected, InLimits, BegunFrom
<1>5. /\ HotIsCold' /\ RunsOnRequestedProfile'
      /\ (session # Unset => runtime # Unset /\ session.runtime = runtime)'
  BY <1>1 DEF BundlesInv, HotIsCold, RunsOnRequestedProfile, Plan, OfManifest
<1>6. QED
  BY <1>3, <1>4, <1>5 DEF BundlesInv

LEMMA OnlyPreparing ==
  ASSUME BundlesInv, UNCHANGED Unprepared, runtime # Unset,
         session'.runtime = runtime, HotIsCold', RunsOnRequestedProfile'
  PROVE  BundlesInv'
<1> USE DEF Unprepared
<1>1. Reading' /\ ReadingInline' /\ BundlesRead' /\ Made' /\ Selection'
  BY DEF BundlesInv, Reading, ReadingInline, BundlesRead, Made, MadeOf, Selection,
         BySelected, InLimits, BegunFrom
<1>2. (handler # Unset => HandlerOf(handler))'
  BY DEF BundlesInv, HandlerOf
<1>3. QED
  BY <1>1, <1>2 DEF BundlesInv

(* A profile that validation accepts is the one selected, or the default.  *)
LEMMA AcceptedProfile ==
  ASSUME BundlesInv, runtime # Unset, NEW m, ProfileAccepted(m)
  PROVE  ProfileOf(m) \in {Unset, "default"} \/ runtime.by \in {ProfileOf(m), Unset}
BY DEF BundlesInv, Selection, BySelected, ProfileAccepted, Or

LEMMA PlainStep ==
  ASSUME BundlesInv, NEW b, NEW d, PrepareWithDescriptor(b, d)
  PROVE  BundlesInv'
<1>1. /\ UNCHANGED Unprepared /\ runtime # Unset
      /\ Prepared("plain", b, d, Plain(d), FALSE)
  BY DEF PrepareWithDescriptor, Runs
<1>2. session'.how = "plain" /\ session'.runtime = runtime
  BY <1>1 DEF Prepared
<1>3. HotIsCold' /\ RunsOnRequestedProfile'
  BY <1>2 DEF HotIsCold, RunsOnRequestedProfile
<1>4. QED
  BY <1>1, <1>2, <1>3, OnlyPreparing

LEMMA ManifestStep ==
  ASSUME BundlesInv, NEW b, NEW d, PrepareWithManifest(b, d)
  PROVE  BundlesInv'
<1> DEFINE m == ManifestOf(b.entries)
<1>1. /\ UNCHANGED Unprepared /\ runtime # Unset
      /\ ProfileAccepted(m)
      /\ Prepared("manifest", b, d, OfManifest(m, d), FALSE)
  BY DEF PrepareWithManifest, Runs
<1>2. session'.how = "manifest" /\ session'.runtime = runtime /\ session'.bundle = b
  BY <1>1 DEF Prepared
<1>3. HotIsCold'
  BY <1>2 DEF HotIsCold
<1>4. RunsOnRequestedProfile'
  <2>1. ProfileOf(m) \in {Unset, "default"} \/ runtime.by \in {ProfileOf(m), Unset}
    BY <1>1, AcceptedProfile
  <2>2. QED
    BY <1>2, <2>1 DEF RunsOnRequestedProfile
<1>5. QED
  BY <1>1, <1>2, <1>3, <1>4, OnlyPreparing

(* What a handler asks for, with the defaults of its artifact, is planned  *)
(* as preparing it with the manifest would plan it.                        *)
LEMMA DefaultsAgree ==
  ASSUME NEW a, NEW said, runtime.language = "python",
         DOMAIN said = {"entrypoint", "language", "cpu"}, said.entrypoint # Unset,
         a.language = Or(LanguageOf(a.manifest), "python")
  PROVE  Plan(ManifestDefaults(a, said)) = Plan(OfManifest(a.manifest, said))
<1> DEFINE d == ManifestDefaults(a, said)
           o == OfManifest(a.manifest, said)
<1>1. /\ d.entrypoint = said.entrypoint
      /\ d.language = Or(said.language, a.language)
      /\ d.cpu = Or(CpuOf(a.manifest), said.cpu)
  BY DEF ManifestDefaults
<1>2. /\ o.entrypoint = Or(said.entrypoint, EntrypointOf(a.manifest))
      /\ o.language = Or(Or(said.language, LanguageOf(a.manifest)), "python")
      /\ o.cpu = Or(CpuOf(a.manifest), said.cpu)
  BY DEF OfManifest, Heeded
<1> HIDE DEF d, o
<1>3. o.entrypoint = d.entrypoint /\ o.cpu = d.cpu
  BY <1>1, <1>2 DEF Or
<1>4. o.language = d.language
  BY <1>1, <1>2 DEF Or
<1>5. Plan(d) = Plan(o)
  BY <1>3, <1>4 DEF Plan
<1>6. QED
  BY <1>5 DEF d, o

LEMMA HandlerSessionStep ==
  ASSUME BundlesInv, PrepareHandlerSession
  PROVE  BundlesInv'
<1> DEFINE a == handler.artifact
           d == handler.descriptor
           m == a.manifest
<1>1. /\ UNCHANGED Unprepared /\ runtime # Unset /\ HandlerOf(handler)
      /\ ProfileAccepted(m)
  BY DEF PrepareHandlerSession, Runs, BundlesInv
<1>2. MadeOf(a)
  BY <1>1 DEF HandlerOf, BundlesInv, Made
<1>3. \/ Prepared("hot", a.bundle, handler.asked, d, handler.edited)
      \/ Prepared("cold", a.bundle, handler.asked, OfManifest(m, d), handler.edited)
      \/ Prepared("cold", a.bundle, handler.asked, Plain(d), handler.edited)
  BY DEF PrepareHandlerSession
<1>4. /\ session'.runtime = runtime /\ session'.bundle = a.bundle
      /\ session'.asked = handler.asked /\ session'.edited = handler.edited
      /\ session'.how # "plain"
      /\ session'.how = "hot" => session'.plan = Plan(d)
  <2>1. CASE Prepared("hot", a.bundle, handler.asked, d, handler.edited)
    BY <2>1 DEF Prepared
  <2>2. ASSUME NEW plan, Prepared("cold", a.bundle, handler.asked, plan, handler.edited)
        PROVE  /\ session'.runtime = runtime /\ session'.bundle = a.bundle
               /\ session'.asked = handler.asked /\ session'.edited = handler.edited
               /\ session'.how = "cold"
    BY <2>2 DEF Prepared
  <2>3. QED
    BY <1>3, <2>1, <2>2
<1>5. m = ManifestOf(a.bundle.entries)
  BY <1>2 DEF MadeOf
<1>6. RunsOnRequestedProfile'
  <2>1. ProfileOf(m) \in {Unset, "default"} \/ runtime.by \in {ProfileOf(m), Unset}
    BY <1>1, AcceptedProfile
  <2> HIDE DEF m
  <2>2. QED
    BY <1>4, <1>5, <2>1 DEF RunsOnRequestedProfile
<1>7. HotIsCold'
  <2> SUFFICES ASSUME session'.how = "hot", ~session'.edited,
                      session'.runtime.language = "python",
                      session'.asked.entrypoint # Unset
               PROVE  session'.plan =
                        Plan(OfManifest(ManifestOf(session'.bundle.entries), session'.asked))
    BY <1>1 DEF HotIsCold, Plan, OfManifest, Unprepared
  <2>1. /\ handler.asked.entrypoint # Unset /\ ~handler.edited
        /\ runtime.language = "python"
    BY <1>4
  <2>2. /\ d = ManifestDefaults(a, handler.asked)
        /\ DOMAIN handler.asked = {"entrypoint", "language", "cpu"}
    BY <1>1, <2>1 DEF HandlerOf
  <2>3. a.language = Or(LanguageOf(m), "python")
    BY <1>2 DEF MadeOf
  <2>4. Plan(ManifestDefaults(a, handler.asked)) = Plan(OfManifest(m, handler.asked))
    BY <2>1, <2>2, <2>3, DefaultsAgree
  <2> HIDE DEF a, d, m
  <2>5. QED
    BY <1>4, <1>5, <2>2, <2>4
<1>8. QED
  BY <1>1, <1>4, <1>6, <1>7, OnlyPreparing

LEMMA BundlesStart == BundlesInit => BundlesInv
BY DEF BundlesInit, BundlesInv, Reading, ReadingInline, BundlesRead, Made, Selection,
       HotIsCold, RunsOnRequestedProfile

LEMMA BundlesStutter == BundlesInv /\ UNCHANGED bundlesVars => BundlesInv'
<1> SUFFICES ASSUME BundlesInv, UNCHANGED bundlesVars
             PROVE  BundlesInv'
  OBVIOUS
<1>1. /\ UNCHANGED Unread /\ reading' = reading /\ runtime' = runtime
  BY DEF bundlesVars, Unread
<1>2. Reading' /\ ReadingInline'
  BY <1>1 DEF BundlesInv, Reading, ReadingInline, InLimits, BegunFrom
<1>3. QED
  BY <1>1, <1>2, OnlyReading

LEMMA BundlesStep ==
  ASSUME BundlesInv, BundlesNext
  PROVE  BundlesInv'
<1>1. ASSUME NEW a \in Archive, NEW l \in Limits, FromZipBytes(a, l) \/ FromReader(a, l)
      PROVE  BundlesInv'
  BY <1>1, FromArchiveStep
<1>2. ASSUME NEW m \in Inline, FromInlinePython(m) PROVE BundlesInv'
  BY <1>2, FromInlineStep
<1>3. CASE ReadRecord
  BY <1>3, ReadRecordStep
<1>4. CASE ReadFails
  BY <1>4, ReadFailsStep
<1>5. CASE EndReading
  BY <1>5, EndReadingStep
<1>6. ASSUME NEW b \in bundles, NEW entrypoint, FromBundle(b, entrypoint) PROVE BundlesInv'
  BY <1>6, FromBundleStep
<1>7. ASSUME NewConfig \/ (\E p \in ProfileName, d \in Directory : RegisterProfile(p, d))
             \/ (\E d \in Directory \cup {Unset} : SetDirectory(d))
             \/ (\E p \in ProfileName : SelectProfile(p))
      PROVE  BundlesInv'
  BY <1>7, ConfigStep
<1>8. ASSUME NEW language,
             NewRuntime(language) \/ (\E b \in bundles : NewForBundle(b, language))
             \/ (\E a \in made : NewForArtifact(a, language))
      PROVE  BundlesInv'
  BY <1>8, RuntimeStep
<1>9. ASSUME NEW b, NEW d, PrepareWithDescriptor(b, d) PROVE BundlesInv'
  BY <1>9, PlainStep
<1>10. ASSUME NEW b, NEW d, PrepareWithManifest(b, d) PROVE BundlesInv'
  BY <1>10, ManifestStep
<1>11. ASSUME NEW a \in made, NEW d \in Descriptor \cup {Unset}, PrepareHandler(a, d)
       PROVE  BundlesInv'
  BY <1>11, PrepareHandlerStep
<1>12. ASSUME NEW cpu, EditHandler(cpu) PROVE BundlesInv'
  BY <1>12, EditHandlerStep
<1>13. CASE PrepareHandlerSession
  BY <1>13, HandlerSessionStep
<1>14. QED
  BY <1>1, <1>2, <1>3, <1>4, <1>5, <1>6, <1>7, <1>8, <1>9, <1>10, <1>11, <1>12, <1>13
     DEF BundlesNext

(* Everything that is read, made, selected and prepared of bundles.        *)
THEOREM BundlesInvariance == BundlesSpec => []BundlesInv
<1>1. BundlesInv /\ [BundlesNext]_bundlesVars => BundlesInv'
  BY BundlesStep, BundlesStutter
<1>2. QED
  BY BundlesStart, <1>1, PTL DEF BundlesSpec

(* No archive, whatever sizes it declares, leaves more in memory than the  *)
(* limits it was read with allow, nor a file whose name climbs out.        *)
THEOREM ReadingKeepsLimits == BundlesSpec => []WithinLimits
<1>1. BundlesInv => WithinLimits
  <2> SUFFICES ASSUME BundlesInv, NEW b \in bundles
               PROVE  /\ Len(b.entries) <= b.limits.entries
                      /\ SizeOf(b.entries) <= b.limits.total
                      /\ \A i \in DOMAIN b.entries :
                           /\ b.entries[i].size <= b.limits.entry
                           /\ NeverLeaves(b.entries[i].name)
    BY DEF WithinLimits
  <2>1. InLimits(b.entries, b.limits)
    BY DEF BundlesInv, BundlesRead
  <2>2. DOMAIN b.entries = 1..Len(b.entries)
        /\ \A i \in DOMAIN b.entries : b.entries[i] \in AnyEntry
    BY <2>1 DEF InLimits
  <2>3. \A i \in DOMAIN b.entries : NeverLeaves(b.entries[i].name)
    BY <2>1, <2>2, EntryFacts DEF InLimits
  <2>4. QED
    BY <2>1, <2>2, <2>3 DEF InLimits
<1>2. QED
  BY BundlesInvariance, <1>1, PTL

(* Whoever skips mounting a bundle of the fingerprint that is mounted, or  *)
(* takes the pool of it, has the same files, manifest and language, unless *)
(* a path of one bundle takes in bytes of a length of the other.           *)
THEOREM FingerprintsTellBundles == BundlesSpec => []SameFingerprintSameBundle
<1>1. BundlesInv => SameFingerprintSameBundle
  <2> SUFFICES ASSUME BundlesInv, NEW a \in made, NEW o \in made,
                      a.fingerprint = o.fingerprint,
                      ~Ambiguous(a.bundle.entries, o.bundle.entries)
               PROVE  /\ Mounted(a.bundle.entries) = Mounted(o.bundle.entries)
                      /\ a.manifest = o.manifest /\ a.language = o.language
    BY DEF SameFingerprintSameBundle
  <2>1. \A x \in made : /\ Inside(x.bundle.entries)
                        /\ x.manifest = ManifestOf(x.bundle.entries)
                        /\ x.fingerprint = Fingerprint(x.bundle.entries)
                        /\ x.language = Or(LanguageOf(x.manifest), "python")
    BY DEF BundlesInv, Made, MadeOf, BundlesRead, InLimits, Inside
  <2> DEFINE x == a.bundle.entries
             y == o.bundle.entries
  <2>2. Inside(x) /\ Inside(y) /\ Fingerprint(x) = Fingerprint(y) /\ ~Ambiguous(x, y)
    BY <2>1
  <2> HIDE DEF x, y
  <2>3. /\ Len(x) = Len(y)
        /\ \A k \in 1..Len(x) : Alike(InOrder(x)[k], InOrder(y)[k])
    BY <2>2, FingerprintTells
  <2>4. Mounted(x) = Mounted(y) /\ ManifestOf(x) = ManifestOf(y)
    BY <2>2, <2>3, SameInOrder
  <2>5. QED
    BY <2>1, <2>4 DEF x, y
<1>2. QED
  BY BundlesInvariance, <1>1, PTL

(* What InlinePythonOptions writes can be imported, and says of itself     *)
(* what was asked for.                                                     *)
THEOREM InlineStaysImportable == BundlesSpec => []InlineIsImportable
<1>1. BundlesInv => InlineIsImportable
  <2> SUFFICES ASSUME BundlesInv, NEW a \in made, a.bundle.module # Unset
               PROVE  LET module == a.bundle.module IN
                        /\ \A k \in 1..(Len(module) - 1) :
                             Append(SubSeq(module, 1, k), "__init__.py")
                               \in PathsOf(a.bundle.entries)
                        /\ ModulePath(module) \in PathsOf(a.bundle.entries)
                        /\ a.manifest = Last(a.bundle.entries).text
                        /\ IsInjective(KeysOf(a.manifest.packages))
    BY DEF InlineIsImportable
  <2>1. /\ a.bundle \in bundles /\ a.manifest = ManifestOf(a.bundle.entries)
        /\ a.bundle.entries \in Seq(AnyEntry)
    BY DEF BundlesInv, Made, MadeOf, BundlesRead, InLimits
  <2>2. PICK as \in DOMAIN Dotted, m \in Inline :
          /\ a.bundle.module = Dotted[as] /\ BegunFrom(a.bundle.entries, as, m)
          /\ Len(a.bundle.entries) = Len(InlineRecords(as, m))
    BY <2>1 DEF BundlesInv, BundlesRead
  <2>3. QED
    BY <2>1, <2>2, InlineBundle
<1>2. QED
  BY BundlesInvariance, <1>1, PTL

(* A handler's session is the one that preparing its bundle would give.    *)
THEOREM HotSessionsAreCold == BundlesSpec => []HotIsCold
<1>1. BundlesInv => HotIsCold
  BY DEF BundlesInv
<1>2. QED
  BY BundlesInvariance, <1>1, PTL

(* Whatever was registered, set and selected before, no bundle runs on the *)
(* distribution selected for another profile than it asks for.             *)
THEOREM BundlesRunOnTheirProfile == BundlesSpec => []RunsOnRequestedProfile
<1>1. BundlesInv => RunsOnRequestedProfile
  BY DEF BundlesInv
<1>2. QED
  BY BundlesInvariance, <1>1, PTL
=================================================================================
