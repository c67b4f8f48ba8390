---------------------------- MODULE BundlePoolProofs ----------------------------
(***************************************************************************)
(* Proofs about BundlePool, for any callers, sizes, queue limits and any   *)
(* number of failures, guard rails exceeded and changes of size.           *)
(***************************************************************************)
EXTENDS BundlePool, SubsequenceProofs, TLAPS

Stages == {"out", "acquire", "locking", "waiting", "woken", "snapshot",
           "reserve", "starting", "calling", "releasing", "settling",
           "readDesired", "ensure", "acquireAll", "shrink", "setMax"}

Results == {"ok", "atCapacity", "queueFull", "notStarted", "failed",
            "invalid", "panicked", "internal"}

Guard == [index : Nat, isolate : Nat]

TypeOK ==
  /\ slots \in Seq(Nat) /\ idle \in Seq(Nat)
  /\ active \in Int /\ creating \in Int /\ waiting \in Nat
  /\ maxSize \in Nat /\ desired \in Nat /\ nextId \in Nat \ {0}
  /\ queueMode \in {"Block", "FailFast"}
  /\ waiters \in Seq(Callers)
  /\ pc \in [Callers -> Stages]
  /\ job \in [Callers -> {"call", "warm", "resize", "setDesired"}]
  /\ leases \in [Callers -> Seq(Guard)]
  /\ limit \in [Callers -> Nat] /\ at \in [Callers -> Nat]
  /\ target \in [Callers -> Nat \cup {Lease}]
  /\ result \in [Callers -> Results]
  /\ trimmed \in BOOLEAN
  /\ failures \in Nat /\ adjustments \in Nat

(* Which operation a caller is in at each stage, and which guards it has.  *)
Leasing == {"acquire", "locking", "waiting", "woken"}
Spawning == {"snapshot", "reserve", "starting"}

ControlOf(c) ==
  /\ pc[c] \in Leasing => job[c] = "call" /\ target[c] = Lease /\ leases[c] = <<>>
  /\ pc[c] \in Spawning /\ target[c] = Lease => job[c] = "call" /\ leases[c] = <<>>
  /\ job[c] # "call" => leases[c] = <<>>
  /\ pc[c] = "out" => leases[c] = <<>>
  /\ pc[c] \in {"calling", "releasing", "settling"} =>
       job[c] = "call" /\ leases[c] # <<>>
  /\ pc[c] \in {"ensure", "shrink", "setMax"} => target[c] # Lease
  /\ pc[c] = "readDesired" => job[c] \in {"call", "warm"}
  /\ pc[c] = "acquireAll" => job[c] = "warm"
  /\ pc[c] = "shrink" => job[c] \in {"resize", "setDesired"}
  /\ pc[c] = "setMax" => job[c] = "resize"

Control == \A c \in Callers : ControlOf(c)

(* The wait set is what the stages say.                                    *)
Parked ==
  Distinct(waiters) /\ Elements(waiters) = {c \in Callers : pc[c] = "waiting"}

(* Isolates are numbered, and no number is used twice.                     *)
Numbered ==
  /\ \A i \in 1..Len(slots) : slots[i] < nextId
  /\ \A i, j \in LiveSlots : slots[i] = slots[j] => i = j

(* Reservations: each caller that creates has an empty slot of its own.    *)
Reserved ==
  /\ \A c \in Callers : pc[c] = "starting" =>
       at[c] \in 1..Len(slots) /\ slots[at[c]] = None
  /\ \A c, d \in Callers : pc[c] = "starting" /\ pc[d] = "starting" /\ at[c] = at[d]
       => c = d

(* The guards of a caller: their slots hold the isolates they were made    *)
(* for, each another one.                                                  *)
Indices(guards) == {guards[n].index : n \in 1..Len(guards)}

Held(c) == Indices(leases[c])

GuardsSit(guards) ==
  /\ \A n \in 1..Len(guards) : slots[guards[n].index] = guards[n].isolate
  /\ \A m, n \in 1..Len(guards) : guards[m].index = guards[n].index => m = n

(* Each slot with an isolate is on the idle stack, once, or behind one     *)
(* guard; no other slot is.                                                *)
Placed ==
  /\ \A c \in Callers : GuardsSit(leases[c])
  /\ \A c, d \in Callers : c # d => Held(c) \cap Held(d) = {}
  /\ \A c \in Callers : Held(c) \cap Elements(idle) = {}
  /\ Distinct(idle)
  /\ LiveSlots = Elements(idle) \cup UNION {Held(c) : c \in Callers}

Sound == Reserved /\ Placed /\ active = Cardinality(LiveSlots) /\ NoPanic

(* As long as nobody changes the size, it is the one the pool began with.  *)
Unadjusted ==
  adjustments = 0 =>
    /\ maxSize = InitialMax
    /\ \A c \in Callers :
         /\ job[c] \in {"call", "warm"}
         /\ pc[c] \in {"locking", "reserve"} => limit[c] = InitialMax
    /\ WithinMaxSize

(* Callers that will look at the idle stack without being notified.        *)
Looking == {c \in Callers : pc[c] \in {"acquire", "locking", "woken"}}

NothingLeft ==
  failures = 0 /\ adjustments = 0 /\ ~trimmed =>
    (waiters # <<>> => /\ Available <= Cardinality(Awake)
                       /\ Len(idle) <= Cardinality(Looking))

IInv ==
  /\ TypeOK /\ Control /\ Parked /\ Numbered
  /\ ~trimmed => Sound
  /\ CallersCounted /\ Unadjusted /\ NothingLeft

-----------------------------------------------------------------------------
(* What the operators of the model return.                                 *)

LEMMA LenIsZero ==
  ASSUME NEW S, NEW s \in Seq(S)
  PROVE  Len(s) \in Nat /\ (Len(s) = 0 <=> s = <<>>) /\ (s = <<>> => Elements(s) = {})
BY DEF Elements

(* Only the empty slots after the last isolate go.                         *)
LEMMA TrimFacts ==
  ASSUME NEW s \in Seq(Nat)
  PROVE  /\ PopTrailingNone(s) \in Seq(Nat)
         /\ Len(PopTrailingNone(s)) \in 0..Len(s)
         /\ \A i \in 1..Len(PopTrailingNone(s)) : PopTrailingNone(s)[i] = s[i]
         /\ \A i \in 1..Len(s) : s[i] # None => i \in 1..Len(PopTrailingNone(s))
<1> DEFINE K == {i \in 1..Len(s) : s[i] # None}
           Last(n) == /\ n > 0 => s[n] # None
                      /\ \A i \in n+1..Len(s) : s[i] = None
           n == CHOOSE k \in 0..Len(s) : Last(k)
<1>1. Len(s) \in Nat
  OBVIOUS
<1>2. \E k \in 0..Len(s) : Last(k)
  <2>1. CASE K = {}
    <3>1. Last(0) /\ 0 \in 0..Len(s)
      BY <1>1, <2>1
    <3>2. QED
      BY <3>1
  <2>2. CASE K # {}
    <3>1. K \in SUBSET Int /\ K \in SUBSET (1..Len(s))
      OBVIOUS
    <3>2. IsFiniteSet(K)
      BY <3>1, KeptFacts
    <3> HIDE DEF K
    <3>3. PICK k \in K : \A j \in K : j <= k
      BY <2>2, <3>1, <3>2, Greatest
    <3>4. k \in 0..Len(s) /\ Last(k)
      BY <1>1, <3>1, <3>3 DEF K
    <3>5. QED
      BY <3>4
  <2>3. QED
    BY <2>1, <2>2
<1>3. n \in 0..Len(s) /\ Last(n)
  BY <1>2
<1>4. PopTrailingNone(s) = SubSeq(s, 1, n)
  BY DEF PopTrailingNone
<1> HIDE DEF n
<1>5. SubSeq(s, 1, n) = [i \in 1..n |-> s[i]]
  BY <1>1, <1>3
<1>6. \A i \in 1..n : s[i] \in Nat
  BY <1>1, <1>3
<1>7. [i \in 1..n |-> s[i]] \in Seq(Nat) /\ Len([i \in 1..n |-> s[i]]) = n
  BY <1>3, <1>6
<1>8. \A i \in 1..Len(s) : s[i] # None => i \in 1..n
  BY <1>1, <1>3
<1>9. QED
  BY <1>3, <1>4, <1>5, <1>7, <1>8

(* The isolates in a sequence of slots.                                    *)
LiveIn(s) == {i \in 1..Len(s) : s[i] # None}

LEMMA LiveFinite ==
  ASSUME NEW s \in Seq(Nat)
  PROVE  /\ LiveIn(s) \subseteq 1..Len(s) /\ Len(s) \in Nat
         /\ IsFiniteSet(LiveIn(s)) /\ Cardinality(LiveIn(s)) \in Nat
<1>1. LiveIn(s) \in SUBSET (1..Len(s)) /\ Len(s) \in Nat
  BY DEF LiveIn
<1>2. IsFiniteSet(LiveIn(s)) /\ Cardinality(LiveIn(s)) \in 0..Len(s)
  BY <1>1, KeptFacts
<1>3. QED
  BY <1>1, <1>2

LEMMA TrimKeepsLive ==
  ASSUME NEW s \in Seq(Nat)
  PROVE  /\ LiveIn(PopTrailingNone(s)) = LiveIn(s)
         /\ \A i \in LiveIn(s) : PopTrailingNone(s)[i] = s[i]
<1> DEFINE t == PopTrailingNone(s)
<1>1. /\ t \in Seq(Nat) /\ Len(t) \in 0..Len(s) /\ Len(s) \in Nat
      /\ \A i \in 1..Len(t) : t[i] = s[i]
      /\ \A i \in 1..Len(s) : s[i] # None => i \in 1..Len(t)
  BY TrimFacts
<1> HIDE DEF t
<1>2. 1..Len(t) \subseteq 1..Len(s)
  BY <1>1
<1>3. QED
  BY <1>1, <1>2 DEF LiveIn, t

(* notify_one: the caller parked longest is woken, if there is one.        *)
LEMMA NotifyFacts ==
  ASSUME TypeOK, Parked, NEW c \in Callers, NEW stage \in Stages \ {"waiting"},
         pc[c] # "waiting", NotifyOne(c, stage)
  PROVE  /\ pc' \in [Callers -> Stages] /\ pc'[c] = stage
         /\ waiters' \in Seq(Callers)
         /\ waiters = <<>> => waiters' = <<>> /\ \A d \in Callers \ {c} : pc'[d] = pc[d]
         /\ waiters # <<>> =>
              /\ Head(waiters) \in Callers \ {c}
              /\ pc[Head(waiters)] = "waiting" /\ pc'[Head(waiters)] = "woken"
              /\ \A d \in Callers \ {c, Head(waiters)} : pc'[d] = pc[d]
         /\ Parked'
<1>1. CASE waiters = <<>>
  BY <1>1 DEF NotifyOne, Goto, TypeOK, Parked
<1>2. CASE waiters # <<>>
  <2> DEFINE h == Head(waiters)
  <2>1. /\ waiters \in Seq(Callers) /\ Distinct(waiters)
        /\ Elements(waiters) = {d \in Callers : pc[d] = "waiting"}
    BY DEF TypeOK, Parked
  <2>2. h \in Callers /\ h \in Elements(waiters) /\ Tail(waiters) \in Seq(Callers)
    BY <1>2, <2>1, TailFacts
  <2>3. Elements(waiters) = {h} \cup Elements(Tail(waiters))
    BY <1>2, <2>1, TailFacts
  <2>4. h \notin Elements(Tail(waiters)) /\ Distinct(Tail(waiters))
    BY <1>2, <2>1, TailFacts
  <2> HIDE DEF h
  <2>5. h # c /\ pc[h] = "waiting"
    BY <2>1, <2>2
  <2>6. pc' = [pc EXCEPT ![c] = stage, ![h] = "woken"] /\ waiters' = Tail(waiters)
    BY <1>2 DEF NotifyOne, h
  <2>7. /\ pc' \in [Callers -> Stages] /\ pc'[c] = stage /\ pc'[h] = "woken"
        /\ \A d \in Callers \ {c, h} : pc'[d] = pc[d]
    BY <2>2, <2>5, <2>6 DEF TypeOK, Stages
  <2>8. Elements(waiters') = {d \in Callers : pc'[d] = "waiting"}
    BY <2>1, <2>2, <2>3, <2>4, <2>5, <2>6, <2>7
  <2>9. QED
    BY <1>2, <2>2, <2>4, <2>5, <2>6, <2>7, <2>8 DEF Parked, h
<1>3. QED
  BY <1>1, <1>2

(* Callers counted: one more, one less.                                    *)
LEMMA CallersFinite ==
  ASSUME NEW S \in SUBSET Callers
  PROVE  /\ IsFiniteSet(S) /\ Cardinality(S) \in Nat
         /\ \A c \in Callers \ S : Cardinality(S \cup {c}) = Cardinality(S) + 1
         /\ \A c \in S : Cardinality(S \ {c}) = Cardinality(S) - 1
         /\ \A T \in SUBSET S : Cardinality(T) <= Cardinality(S)
<1>1. IsFiniteSet(S)
  BY FS_Subset, BundlePoolAssumption
<1>2. \A c \in Callers \ S : Cardinality(S \cup {c}) = Cardinality(S) + 1
  BY <1>1, FS_AddElement
<1>3. \A c \in S : Cardinality(S \ {c}) = Cardinality(S) - 1
  BY <1>1, FS_RemoveElement
<1>4. \A T \in SUBSET S : Cardinality(T) <= Cardinality(S)
  BY <1>1, FS_Subset
<1>5. Cardinality(S) \in Nat
  BY <1>1, FS_CardinalityType
<1>6. QED
  BY <1>1, <1>2, <1>3, <1>4, <1>5

-----------------------------------------------------------------------------
(* Types                                                                   *)

(* What most steps leave alone.                                            *)
LEMMA QuietTypes ==
  ASSUME TypeOK, UNCHANGED <<state, queue, nextId, history, leases, failures>>,
         pc' \in [Callers -> Stages], result' \in [Callers -> Results],
         job' \in [Callers -> {"call", "warm", "resize", "setDesired"}],
         limit' \in [Callers -> Nat], at' \in [Callers -> Nat],
         target' \in [Callers -> Nat \cup {Lease}],
         maxSize' \in Nat, desired' \in Nat, adjustments' \in Nat
  PROVE  TypeOK'
BY DEF TypeOK, state, queue, history

LEMMA QuietStepTypes ==
  ASSUME TypeOK, Control, NEW c \in Callers,
         \/ CallHandler(c) \/ ReadLimit(c) \/ ChooseSpawn(c)
         \/ RefuseFailFast(c) \/ RefuseQueueFull(c)
         \/ SnapshotOptions(c) \/ ReserveRefused(c)
         \/ ReadDesired(c) \/ Grow(c) \/ Grown(c)
         \/ WarmAll(c) \/ AcquireAllRefused(c)
         \/ (\E n \in Sizes : Resize(c, n) \/ SetDesiredSize(c, n))
         \/ ShrinkRefused(c) \/ ShrinkUnneeded(c) \/ SetMax(c)
  PROVE  TypeOK'
<1> USE DEF options, plan, bounds
<1> USE QuietTypes
<1>1. /\ pc \in [Callers -> Stages] /\ result \in [Callers -> Results]
      /\ job \in [Callers -> {"call", "warm", "resize", "setDesired"}]
      /\ limit \in [Callers -> Nat] /\ at \in [Callers -> Nat]
      /\ target \in [Callers -> Nat \cup {Lease}]
      /\ maxSize \in Nat /\ desired \in Nat /\ adjustments \in Nat
  BY DEF TypeOK
<1>2. CASE CallHandler(c)
  BY <1>1, <1>2 DEF CallHandler, Return, Stages, Results
<1>3. CASE ReadLimit(c)
  BY <1>1, <1>3 DEF ReadLimit, Goto, Stages
<1>4. CASE ChooseSpawn(c)
  BY <1>1, <1>4 DEF ChooseSpawn, Goto, Stages
<1>5. CASE RefuseFailFast(c)
  BY <1>1, <1>5 DEF RefuseFailFast, Return, Stages, Results
<1>6. CASE RefuseQueueFull(c)
  BY <1>1, <1>6 DEF RefuseQueueFull, Return, Stages, Results
<1>7. CASE SnapshotOptions(c)
  BY <1>1, <1>7 DEF SnapshotOptions, Goto, Stages
<1>8. CASE ReserveRefused(c)
  BY <1>1, <1>8 DEF ReserveRefused, NotSpawned, NextCall, Goto, Return, Stages, Results
<1>9. CASE ReadDesired(c)
  BY <1>1, <1>9 DEF ReadDesired, Goto, Stages
<1>10. CASE Grow(c)
  BY <1>1, <1>10 DEF Grow, Goto, Stages
<1>11. CASE Grown(c)
  <2>1. job[c] \in {"call", "warm", "resize", "setDesired"}
    BY <1>1
  <2>2. (CASE job[c] = "call" -> NextCall(leases[c])
           [] job[c] = "warm" -> "acquireAll"
           [] job[c] = "resize" -> "out"
           [] job[c] = "setDesired" -> "shrink") \in Stages
    BY <2>1 DEF NextCall, Stages
  <2>3. QED
    BY <1>1, <1>11, <2>2 DEF Grown, Goto
<1>12. CASE WarmAll(c)
  BY <1>1, <1>12 DEF WarmAll, Return, Stages, Results
<1>13. CASE AcquireAllRefused(c)
  BY <1>1, <1>13 DEF AcquireAllRefused, Return, Stages, Results
<1>14. ASSUME NEW n \in Sizes, Resize(c, n) PROVE TypeOK'
  <2>1. n \in Nat /\ MaxAdjustments \in Nat
    BY BundlePoolAssumption
  <2>2. QED
    BY <1>1, <1>14, <2>1 DEF Resize, Return, Stages, Results
<1>15. ASSUME NEW n \in Sizes, SetDesiredSize(c, n) PROVE TypeOK'
  <2>1. n \in Nat /\ MaxAdjustments \in Nat
    BY BundlePoolAssumption
  <2>2. QED
    BY <1>1, <1>15, <2>1 DEF SetDesiredSize, Return, Stages, Results
<1>16. CASE ShrinkRefused(c)
  BY <1>1, <1>16 DEF ShrinkRefused, Return, Stages, Results
<1>17. CASE ShrinkUnneeded(c)
  BY <1>1, <1>17 DEF ShrinkUnneeded, AfterShrink, Goto, Stages
<1>18. CASE SetMax(c)
  <2>1. target[c] \in Nat
    BY <1>1, <1>18 DEF SetMax, Control, ControlOf
  <2>2. desired' \in Nat
    BY <1>1, <1>18, <2>1 DEF SetMax
  <2>3. target' = [target EXCEPT ![c] = desired'] /\ maxSize' = target[c]
        /\ pc' = [pc EXCEPT ![c] = "ensure"]
    BY <1>18 DEF SetMax, Goto
  <2>4. UNCHANGED <<state, queue, nextId, job, leases, limit, at, result, bounds, history>>
    BY <1>18 DEF SetMax
  <2>5. target' \in [Callers -> Nat \cup {Lease}] /\ pc' \in [Callers -> Stages]
    BY <1>1, <2>2, <2>3 DEF Stages
  <2>6. QED
    BY <1>1, <2>1, <2>2, <2>3, <2>4, <2>5
<1>19. QED
  BY <1>2, <1>3, <1>4, <1>5, <1>6, <1>7, <1>8, <1>9, <1>10, <1>11, <1>12,
     <1>13, <1>14, <1>15, <1>16, <1>17, <1>18

LEMMA QueueStepTypes ==
  ASSUME TypeOK, Parked, NEW c \in Callers, Park(c) \/ WakeUp(c) \/ PopIdle(c)
  PROVE  TypeOK'
<1> USE DEF options, plan, bounds, history
<1>1. CASE Park(c)
  <2>1. waiters' \in Seq(Callers) /\ waiting' \in Nat
    BY <1>1 DEF Park, TypeOK
  <2>2. QED
    BY <1>1, <2>1 DEF Park, TypeOK, Goto, Stages, state
<1>2. CASE WakeUp(c)
  <2>1. waiting' \in Nat
    BY <1>2 DEF WakeUp, TypeOK
  <2>2. QED
    BY <1>2, <2>1 DEF WakeUp, TypeOK, Goto, Stages, state
<1>3. CASE PopIdle(c)
  <2>1. idle' \in Seq(Nat) /\ idle[Len(idle)] \in Nat
    <3>1. idle \in Seq(Nat) /\ idle # <<>>
      BY <1>3 DEF PopIdle, TypeOK
    <3>2. QED
      BY <1>3, <3>1, PopFacts DEF PopIdle
  <2> DEFINE i == idle[Len(idle)]
  <2>2. leases' \in [Callers -> Seq(Guard)] /\ pc' \in [Callers -> Stages]
        /\ result' \in [Callers -> Results]
    <3>1. CASE Live(i)
      <4>1. slots[i] \in Nat
        BY SMTT(20), <3>1 DEF Live, TypeOK
      <4>2. leases' = [leases EXCEPT ![c] = <<[index |-> i, isolate |-> slots[i]]>>]
            /\ pc' = [pc EXCEPT ![c] = "calling"] /\ result' = [result EXCEPT ![c] = "ok"]
        BY <1>3, <3>1 DEF PopIdle, Return
      <4>3. <<[index |-> i, isolate |-> slots[i]]>> \in Seq(Guard)
        BY <2>1, <4>1 DEF Guard
      <4>4. QED
        BY <4>2, <4>3 DEF TypeOK, Stages, Results
    <3>2. CASE ~Live(i)
      BY <1>3, <3>2 DEF PopIdle, Return, TypeOK, Stages, Results
    <3>3. QED
      BY <3>1, <3>2
  <2>3. QED
    BY <1>3, <2>1, <2>2 DEF PopIdle, TypeOK, queue
<1>4. QED
  BY <1>1, <1>2, <1>3

LEMMA SpawnStepTypes ==
  ASSUME TypeOK, Parked, NEW c \in Callers,
         Reserve(c) \/ StartSucceeds(c) \/ StartFails(c)
  PROVE  TypeOK'
<1> USE DEF options, plan, bounds, history
<1>1. CASE Reserve(c)
  <2>1. slots' \in Seq(Nat) /\ creating' \in Int /\ Len(slots) + 1 \in Nat
    BY <1>1 DEF Reserve, TypeOK, None
  <2>2. QED
    BY <1>1, <2>1 DEF Reserve, TypeOK, Goto, Stages, queue
<1>2. CASE StartSucceeds(c)
  <2>1. pc[c] = "starting" /\ nextId' \in Nat \ {0} /\ at[c] \in Nat
    BY <1>2 DEF StartSucceeds, TypeOK
  <2>2. UNCHANGED <<waiting, options, job, plan, bounds, history>>
    BY <1>2 DEF StartSucceeds
  <2>3. CASE at[c] > Len(slots)
    <3>1. StoreOutOfBounds(c) /\ UNCHANGED leases
      BY <1>2, <2>3 DEF StartSucceeds
    <3>2. QED
      BY <2>1, <2>2, <3>1 DEF StoreOutOfBounds, Return, Unwind, TypeOK, Stages, Results
  <2>4. CASE ~(at[c] > Len(slots))
    <3>1. /\ creating' = creating - 1 /\ slots' = [slots EXCEPT ![at[c]] = nextId]
          /\ active' = active + 1 /\ UNCHANGED result
          /\ IF target[c] = Lease
             THEN /\ leases' = [leases EXCEPT ![c] =
                                  <<[index |-> at[c], isolate |-> nextId]>>]
                  /\ Goto(c, "calling")
                  /\ UNCHANGED <<idle, waiters>>
             ELSE /\ idle' = Append(idle, at[c])
                  /\ NotifyOne(c, "ensure")
                  /\ UNCHANGED leases
      BY <1>2, <2>4 DEF StartSucceeds
    <3>2. slots' \in Seq(Nat) /\ creating' \in Int /\ active' \in Int
      <4>1. slots \in Seq(Nat) /\ nextId \in Nat
        BY DEF TypeOK
      <4>2. [slots EXCEPT ![at[c]] = nextId] \in Seq(Nat)
        BY <4>1, ReplaceFacts
      <4>3. QED
        BY <3>1, <4>2 DEF TypeOK
    <3>3. /\ leases' \in [Callers -> Seq(Guard)] /\ pc' \in [Callers -> Stages]
          /\ idle' \in Seq(Nat) /\ waiters' \in Seq(Callers)
      <4>1. CASE target[c] = Lease
        <5>1. <<[index |-> at[c], isolate |-> nextId]>> \in Seq(Guard)
          BY <2>1 DEF Guard, TypeOK
        <5>2. leases' \in [Callers -> Seq(Guard)]
          BY <3>1, <4>1, <5>1 DEF TypeOK
        <5>3. pc' \in [Callers -> Stages]
          BY <3>1, <4>1 DEF Goto, TypeOK, Stages
        <5>4. QED
          BY <3>1, <4>1, <5>2, <5>3 DEF TypeOK
      <4>2. CASE target[c] # Lease
        <5>1. NotifyOne(c, "ensure") /\ "ensure" \in Stages \ {"waiting"} /\ pc[c] # "waiting"
          BY <2>1, <3>1, <4>2 DEF Stages
        <5>2. pc' \in [Callers -> Stages] /\ waiters' \in Seq(Callers)
          BY <5>1, NotifyFacts
        <5>3. idle' \in Seq(Nat)
          <6>1. idle \in Seq(Nat) /\ idle' = Append(idle, at[c])
            BY <3>1, <4>2 DEF TypeOK
          <6>2. QED
            BY <2>1, <6>1, AppendFacts
        <5>4. QED
          BY <3>1, <4>2, <5>2, <5>3 DEF TypeOK
      <4>3. QED
        BY <4>1, <4>2
    <3>4. QED
      BY <2>1, <2>2, <3>1, <3>2, <3>3 DEF TypeOK
  <2>5. QED
    BY <2>3, <2>4
<1>3. CASE StartFails(c)
  <2>1. failures' \in Nat /\ creating' \in Int
    BY <1>3 DEF StartFails, StoreOutOfBounds, TypeOK
  <2>2. slots' \in Seq(Nat)
    <3>1. CASE at[c] > Len(slots)
      BY <1>3, <3>1 DEF StartFails, StoreOutOfBounds, TypeOK
    <3>2. CASE at[c] = Len(slots) /\ ~(at[c] > Len(slots))
      <4>1. slots' = SubSeq(slots, 1, Len(slots) - 1)
        BY <1>3, <3>2 DEF StartFails
      <4>2. CASE slots = <<>>
        BY <4>1, <4>2
      <4>3. CASE slots # <<>>
        BY <4>1, <4>3, PopFacts DEF TypeOK
      <4>4. QED
        BY <4>2, <4>3
    <3>3. CASE at[c] # Len(slots) /\ ~(at[c] > Len(slots))
      <4>1. slots \in Seq(Nat) /\ None \in Nat
        BY DEF TypeOK, None
      <4>2. [slots EXCEPT ![at[c]] = None] \in Seq(Nat)
        BY <4>1, ReplaceFacts
      <4>3. QED
        BY <1>3, <3>3, <4>2 DEF StartFails
    <3>4. QED
      BY <3>1, <3>2, <3>3
  <2>3. pc' \in [Callers -> Stages] /\ result' \in [Callers -> Results]
    BY <1>3 DEF StartFails, StoreOutOfBounds, NotSpawned, NextCall, Unwind, Goto,
                Return, TypeOK, Stages, Results
  <2>4. QED
    BY <1>3, <2>1, <2>2, <2>3 DEF StartFails, StoreOutOfBounds, TypeOK
<1>4. QED
  BY <1>1, <1>2, <1>3

(* release_slot: the guard's index goes on the stack.                      *)
Releasing == {"calling", "releasing", "settling"}

LEMMA ReleaseFacts ==
  ASSUME TypeOK, Control, NEW c \in Callers, pc[c] \in Releasing, NEW stage,
         ReleaseSlot(c, stage)
  PROVE  /\ leases[c] \in Seq(Guard) /\ leases[c] # <<>>
         /\ Head(leases[c]) \in Guard /\ Head(leases[c]) = leases[c][1]
         /\ Head(leases[c]).index \in Nat
         /\ idle' = Append(idle, Head(leases[c]).index) /\ idle' \in Seq(Nat)
         /\ leases' \in [Callers -> Seq(Guard)] /\ leases'[c] = Tail(leases[c])
         /\ \A d \in Callers \ {c} : leases'[d] = leases[d]
         /\ NotifyOne(c, stage)
         /\ UNCHANGED <<slots, active, creating, waiting, maxSize, desired, nextId,
                        job, limit, at, target, queueMode, trimmed, breaches,
                        failures, adjustments>>
<1>1. leases[c] \in Seq(Guard) /\ leases[c] # <<>> /\ idle \in Seq(Nat)
  BY DEF TypeOK, Control, ControlOf, Releasing
<1>2. Head(leases[c]) \in Guard /\ Tail(leases[c]) \in Seq(Guard)
      /\ Head(leases[c]) = leases[c][1]
  BY <1>1, TailFacts
<1>3. Head(leases[c]).index \in Nat
  BY <1>2 DEF Guard
<1>4. /\ idle' = Append(idle, Head(leases[c]).index)
      /\ leases' = [leases EXCEPT ![c] = Tail(leases[c])]
      /\ NotifyOne(c, stage)
      /\ UNCHANGED <<slots, active, creating, waiting, maxSize, desired, nextId,
                     job, limit, at, target, queueMode, trimmed, breaches,
                     failures, adjustments>>
  BY DEF ReleaseSlot, options, plan, bounds, history
<1>5. Append(idle, Head(leases[c]).index) \in Seq(Nat)
  BY <1>1, <1>3, AppendFacts
<1>6. leases' \in [Callers -> Seq(Guard)] /\ leases'[c] = Tail(leases[c])
      /\ \A d \in Callers \ {c} : leases'[d] = leases[d]
  BY <1>2, <1>4 DEF TypeOK
<1>7. QED
  BY <1>1, <1>2, <1>3, <1>4, <1>5, <1>6

LEMMA ReleaseTypes ==
  ASSUME TypeOK, Control, Parked, NEW c \in Callers,
         CallReturns(c) \/ CallFails(c) \/ DropUnused(c) \/ Settle(c)
  PROVE  /\ pc[c] \in Releasing
         /\ \E stage \in {"out", "calling", "releasing"} :
              /\ ReleaseSlot(c, stage)
              /\ stage = "out" <=> Tail(leases[c]) = <<>>
         /\ UNCHANGED result \/ result' = [result EXCEPT ![c] = "failed"]
         /\ TypeOK'
<1>1. pc[c] \in Releasing
  BY DEF CallReturns, CallFails, DropUnused, Settle, Releasing
<1>2. UNCHANGED result \/ result' = [result EXCEPT ![c] = "failed"]
  BY DEF CallReturns, CallFails, DropUnused, Settle
<1>3. PICK stage \in {"out", "calling", "releasing"} :
        ReleaseSlot(c, stage) /\ (stage = "out" <=> Tail(leases[c]) = <<>>)
  BY DEF CallReturns, CallFails, DropUnused, Settle, NextCall, Unwind
<1>4. NotifyOne(c, stage) /\ stage \in Stages \ {"waiting"} /\ pc[c] # "waiting"
  BY <1>1, <1>3 DEF ReleaseSlot, Stages, Releasing
<1>5. pc' \in [Callers -> Stages] /\ waiters' \in Seq(Callers)
  BY <1>4, NotifyFacts
<1>6. idle' \in Seq(Nat) /\ leases' \in [Callers -> Seq(Guard)]
      /\ UNCHANGED <<slots, active, creating, waiting, maxSize, desired, nextId,
                     job, limit, at, target, queueMode, trimmed, breaches,
                     failures, adjustments>>
  BY <1>1, <1>3, ReleaseFacts
<1>7. TypeOK'
  BY <1>2, <1>5, <1>6 DEF TypeOK, Results
<1>8. QED
  BY <1>1, <1>2, <1>3, <1>7

(* The slot of an isolate is emptied, and the vector trimmed.              *)
LEMMA QuarantineFacts ==
  ASSUME TypeOK, Control, NEW c \in Callers, Quarantine(c)
  PROVE  /\ leases[c] \in Seq(Guard) /\ leases[c] # <<>>
         /\ Head(leases[c]) \in Guard /\ Head(leases[c]) = leases[c][1]
         /\ Head(leases[c]).index \in LiveSlots
         /\ LiveSlots' = LiveSlots \ {Head(leases[c]).index}
         /\ \A i \in LiveSlots' : slots'[i] = slots[i]
         /\ slots' \in Seq(Nat)
         /\ \A i \in 1..Len(slots') : slots'[i] = None \/ slots'[i] = slots[i]
         /\ Len(slots') <= Len(slots)
         /\ \A i \in 1..Len(slots') :
              i \in 1..Len(slots) /\ (slots[i] = None => slots'[i] = None)
         /\ active' = active - 1
         /\ idle' \in Seq(Nat)
         /\ Elements(idle') = Elements(idle) \ {Head(leases[c]).index}
         /\ Distinct(idle) => Distinct(idle')
         /\ Len(idle') <= Len(idle)
         /\ leases' \in [Callers -> Seq(Guard)] /\ leases'[c] = Tail(leases[c])
         /\ \A d \in Callers \ {c} : leases'[d] = leases[d]
<1> DEFINE i == Head(leases[c]).index
           e == [slots EXCEPT ![i] = None]
<1>1. leases[c] \in Seq(Guard) /\ leases[c] # <<>> /\ idle \in Seq(Nat)
      /\ slots \in Seq(Nat) /\ None \in Nat
  BY DEF Quarantine, TypeOK, Control, ControlOf, None
<1>2. Head(leases[c]) \in Guard /\ Tail(leases[c]) \in Seq(Guard)
      /\ Head(leases[c]) = leases[c][1]
  BY <1>1, TailFacts
<1>3. i \in Nat /\ i \in LiveSlots
  BY <1>2 DEF Guard, Quarantine, Live, LiveSlots
<1>4. /\ slots' = PopTrailingNone(e) /\ active' = active - 1
      /\ idle' = Without(idle, i) /\ leases' = [leases EXCEPT ![c] = Tail(leases[c])]
  BY DEF Quarantine
<1> HIDE DEF i
<1>5. e \in Seq(Nat) /\ Len(e) = Len(slots)
      /\ \A j \in 1..Len(slots) : e[j] = IF j = i THEN None ELSE slots[j]
  <2>1. e \in Seq(Nat)
    BY <1>1, ReplaceFacts
  <2>2. Len(e) = Len(slots)
    BY <1>1, ReplaceFacts
  <2>3. \A j \in 1..Len(slots) : e[j] = IF j = i THEN None ELSE slots[j]
    BY <1>1, ReplaceFacts
  <2>4. QED
    BY <2>1, <2>2, <2>3
<1> HIDE DEF e
<1>6. LiveIn(e) = LiveSlots \ {i}
  BY <1>5 DEF LiveIn, LiveSlots
<1>7. LiveIn(slots') = LiveIn(e) /\ \A j \in LiveIn(e) : slots'[j] = e[j]
  BY <1>4, <1>5, TrimKeepsLive
<1>8. slots' \in Seq(Nat) /\ Len(slots') \in 0..Len(e)
      /\ \A j \in 1..Len(slots') : slots'[j] = e[j]
  BY <1>4, <1>5, TrimFacts
<1>9. LiveSlots' = LiveIn(slots')
  BY DEF LiveSlots, LiveIn
<1>10. LiveSlots' = LiveSlots \ {i} /\ \A j \in LiveSlots' : slots'[j] = slots[j]
  BY <1>5, <1>6, <1>7, <1>9 DEF LiveIn
<1>11. Len(slots') <= Len(slots) /\ 1..Len(slots') \subseteq 1..Len(slots)
  BY <1>1, <1>5, <1>8
<1>12. \A j \in 1..Len(slots') :
         /\ slots'[j] = None \/ slots'[j] = slots[j]
         /\ j \in 1..Len(slots) /\ (slots[j] = None => slots'[j] = None)
  BY <1>5, <1>8, <1>11
<1>13. Without(idle, i) \in Seq(Nat) /\ Len(Without(idle, i)) <= Len(idle)
  BY <1>1, WithoutFacts
<1>14. Elements(Without(idle, i)) = Elements(idle) \ {i}
  BY <1>1, WithoutFacts
<1>15. Distinct(idle) => Distinct(Without(idle, i))
  BY <1>1, WithoutFacts
<1>16. leases' \in [Callers -> Seq(Guard)] /\ leases'[c] = Tail(leases[c])
       /\ \A d \in Callers \ {c} : leases'[d] = leases[d]
  BY <1>2, <1>4 DEF TypeOK
<1>17. QED
  BY <1>1, <1>2, <1>3, <1>4, <1>8, <1>10, <1>11, <1>12, <1>13, <1>14, <1>15, <1>16
  DEF i

(* The list that shrinking walks down: every isolate once, each newer than *)
(* the ones that come after it.                                            *)
LEMMA NewestFirstFacts ==
  ASSUME TypeOK, Numbered
  PROVE  /\ IsFiniteSet(LiveSlots) /\ Cardinality(LiveSlots) \in Nat
         /\ NewestFirst \in [1..Cardinality(LiveSlots) -> LiveSlots]
         /\ \A m, n \in 1..Cardinality(LiveSlots) :
              m < n => slots[NewestFirst[m]] > slots[NewestFirst[n]]
         /\ \A i \in LiveSlots :
              \E n \in 1..Cardinality(LiveSlots) : NewestFirst[n] = i
<1> DEFINE N == Cardinality(LiveSlots)
           key == [n \in 1..Len(Listed) |-> -slots[Listed[n]]]
<1>1. slots \in Seq(Nat) /\ LiveSlots = LiveIn(slots)
  BY DEF TypeOK, LiveSlots, LiveIn
<1>2. IsFiniteSet(LiveSlots) /\ N \in Nat
  BY <1>1, LiveFinite, FS_CardinalityType
<1>3. LiveSlots \in SUBSET Int /\ \A i \in LiveSlots : slots[i] \in Int
  BY <1>1 DEF LiveIn
<1>4. \A i, j \in LiveSlots : slots[i] = slots[j] => i = j
  BY DEF Numbered
<1>5. /\ \A k \in LiveSlots : Rank(LiveSlots, k) \in 1..N
                              /\ Nth(LiveSlots, Rank(LiveSlots, k)) = k
      /\ \A n \in 1..N : Nth(LiveSlots, n) \in LiveSlots
      /\ \A m, n \in 1..N : m < n => Nth(LiveSlots, m) < Nth(LiveSlots, n)
  BY <1>2, <1>3, NthSmallest
<1>6. Listed \in Seq(LiveSlots) /\ Len(Listed) = N
      /\ \A n \in 1..N : Listed[n] = Nth(LiveSlots, n)
  BY <1>2, <1>5 DEF Listed
<1>7. \A m, n \in 1..N : Listed[m] = Listed[n] => m = n
  <2> SUFFICES ASSUME NEW m \in 1..N, NEW n \in 1..N, Listed[m] = Listed[n], m # n
               PROVE  FALSE
    OBVIOUS
  <2>1. Nth(LiveSlots, m) = Nth(LiveSlots, n) /\ Nth(LiveSlots, m) \in Int
    BY <1>3, <1>5, <1>6
  <2>2. m < n \/ n < m
    BY <1>2
  <2>3. QED
    BY <1>5, <2>1, <2>2
<1>8. \A i \in LiveSlots : \E n \in 1..N : Listed[n] = i
  BY <1>5, <1>6
<1>9. key \in Seq(Int) /\ Len(key) = Len(Listed)
      /\ \A n \in 1..N : key[n] = -slots[Listed[n]]
  <2>1. \A n \in 1..N : -slots[Listed[n]] \in Int
    <3>1. \A n \in 1..N : Listed[n] \in LiveSlots
      BY <1>5, <1>6
    <3>2. \A x \in Int : -x \in Int
      OBVIOUS
    <3>3. QED
      BY <1>3, <3>1, <3>2
  <2>2. key = [n \in 1..N |-> -slots[Listed[n]]]
    BY <1>6
  <2> HIDE DEF key
  <2>3. QED
    BY <1>2, <1>6, <2>1, <2>2
<1>10. NewestFirst = SortedBy(Listed, key)
  BY DEF NewestFirst
<1> HIDE DEF N, key
<1>11. PICK pos \in [1..N -> 1..N] :
         /\ SortedBy(Listed, key) = [n \in 1..N |-> Listed[pos[n]]]
         /\ \A m, n \in 1..N : pos[m] = pos[n] => m = n
         /\ \A p \in 1..N : \E n \in 1..N : pos[n] = p
         /\ \A m, n \in 1..N : m < n => key[pos[m]] <= key[pos[n]]
  <2>1. Len(key) = Len(Listed) /\ Len(Listed) = N
    BY <1>6, <1>9
  <2>2. \E pos \in [1..Len(Listed) -> 1..Len(Listed)] :
          /\ SortedBy(Listed, key) = [n \in 1..Len(Listed) |-> Listed[pos[n]]]
          /\ \A m, n \in 1..Len(Listed) : pos[m] = pos[n] => m = n
          /\ \A p \in 1..Len(Listed) : \E n \in 1..Len(Listed) : pos[n] = p
          /\ \A m, n \in 1..Len(Listed) : m < n => key[pos[m]] <= key[pos[n]]
    <3> HIDE DEF NewestFirst
    <3>1. QED
      BY <1>6, <1>9, <2>1, SortedByFacts
  <2>3. QED
    BY <2>1, <2>2
<1>12. NewestFirst = [n \in 1..N |-> Listed[pos[n]]]
       /\ \A n \in 1..N : pos[n] \in 1..N
  BY <1>10, <1>11
<1>13. NewestFirst \in [1..N -> LiveSlots]
       /\ \A n \in 1..N : NewestFirst[n] = Listed[pos[n]]
  <2>1. \A n \in 1..N : Listed[n] \in LiveSlots
    BY <1>5, <1>6
  <2>2. QED
    BY <1>12, <2>1
<1>14. ASSUME NEW m \in 1..N, NEW n \in 1..N, m < n
       PROVE  slots[NewestFirst[m]] > slots[NewestFirst[n]]
  <2>1. NewestFirst[m] \in LiveSlots /\ NewestFirst[n] \in LiveSlots
    BY <1>13
  <2>2. slots[NewestFirst[m]] \in Int /\ slots[NewestFirst[n]] \in Int
    BY <1>3, <2>1
  <2>3. key[pos[m]] = -slots[NewestFirst[m]] /\ key[pos[n]] = -slots[NewestFirst[n]]
    BY <1>9, <1>12, <1>13
  <2>4. slots[NewestFirst[m]] >= slots[NewestFirst[n]]
    <3>1. key[pos[m]] <= key[pos[n]]
      BY <1>11, <1>14
    <3>2. QED
      BY <2>2, <2>3, <3>1
  <2>5. NewestFirst[m] # NewestFirst[n]
    <3>1. m # n
      BY <1>2, <1>14 DEF N
    <3>2. pos[m] # pos[n]
      BY <1>11, <3>1
    <3>3. QED
      BY <1>7, <1>12, <1>13, <3>2
  <2>6. QED
    BY <1>4, <2>1, <2>2, <2>4, <2>5
<1>15. \A i \in LiveSlots : \E n \in 1..N : NewestFirst[n] = i
  <2> SUFFICES ASSUME NEW i \in LiveSlots PROVE \E n \in 1..N : NewestFirst[n] = i
    OBVIOUS
  <2>1. PICK p \in 1..N : Listed[p] = i
    BY <1>8
  <2>2. PICK n \in 1..N : pos[n] = p
    BY <1>11
  <2>3. QED
    BY <1>13, <2>1, <2>2
<1>16. QED
  BY <1>2, <1>13, <1>14, <1>15 DEF N

(* The isolates at the front of that list are the newest ones.             *)
LEMMA RemovableFacts ==
  ASSUME TypeOK, Numbered, NEW n \in 0..Cardinality(LiveSlots)
  PROVE  /\ Removable(n) \in SUBSET LiveSlots /\ Cardinality(Removable(n)) = n
         /\ \A i \in Removable(n), j \in LiveSlots \ Removable(n) :
              slots[i] > slots[j]
<1> DEFINE N == Cardinality(LiveSlots)
           f == NewestFirst
           g == [k \in 1..n |-> f[k]]
<1>1. /\ IsFiniteSet(LiveSlots) /\ N \in Nat
      /\ f \in [1..N -> LiveSlots]
      /\ \A k, m \in 1..N : k < m => slots[f[k]] > slots[f[m]]
      /\ \A i \in LiveSlots : \E k \in 1..N : f[k] = i
  BY NewestFirstFacts
<1>2. slots \in Seq(Nat) /\ \A i \in LiveSlots : slots[i] \in Int
  BY DEF TypeOK, LiveSlots
<1>3. Removable(n) = {f[k] : k \in 1..n}
  BY DEF Removable
<1> HIDE DEF N, f
<1>4. n \in Nat /\ n <= N /\ 1..n \subseteq 1..N
  BY <1>1 DEF N
<1>5. Removable(n) \in SUBSET LiveSlots
  BY <1>1, <1>3, <1>4
<1>6. \A k, m \in 1..N : f[k] = f[m] => k = m
  <2> SUFFICES ASSUME NEW k \in 1..N, NEW m \in 1..N, f[k] = f[m], k # m PROVE FALSE
    OBVIOUS
  <2>1. k < m \/ m < k
    BY <1>1
  <2>2. slots[f[k]] \in Int
    BY <1>1, <1>2
  <2>3. QED
    BY <1>1, <2>1, <2>2
<1>7. Cardinality(Removable(n)) = n
  <2>1. g \in [1..n -> Removable(n)] /\ \A k \in 1..n : g[k] = f[k]
    BY <1>3
  <2> HIDE DEF g
  <2>2. g \in Bijection(1..n, Removable(n))
    <3>1. \A k, m \in 1..n : g[k] = g[m] => k = m
      BY <1>4, <1>6, <2>1
    <3>2. \A i \in Removable(n) : \E k \in 1..n : g[k] = i
      BY <1>3, <2>1
    <3>3. QED
      BY <2>1, <3>1, <3>2 DEF Bijection, Injection, IsInjective, Surjection
  <2>3. ExistsBijection(1..n, Removable(n))
    BY <2>2 DEF ExistsBijection
  <2>4. 1 \in Int /\ n \in Int /\ (1 > n => n = 0)
    BY <1>4
  <2>5. /\ IsFiniteSet(1..n)
        /\ Cardinality(1..n) = IF 1 > n THEN 0 ELSE n - 1 + 1
    BY <2>4, FS_Interval
  <2>6. Cardinality(Removable(n)) = Cardinality(1..n)
    BY <2>3, <2>5, FS_Bijection
  <2>7. QED
    BY <1>4, <2>5, <2>6
<1>8. ASSUME NEW i \in Removable(n), NEW j \in LiveSlots \ Removable(n)
      PROVE  slots[i] > slots[j]
  <2>1. PICK k \in 1..n : f[k] = i
    BY <1>3
  <2>2. PICK m \in 1..N : f[m] = j
    BY <1>1
  <2>3. ~(m \in 1..n)
    BY <1>3, <2>2
  <2>4. k \in 1..N /\ k < m
    BY <1>1, <1>4, <2>3
  <2>5. QED
    BY <1>1, <2>1, <2>2, <2>4
<1>9. QED
  BY <1>5, <1>7, <1>8

LEMMA ShrinkFacts ==
  ASSUME TypeOK, Control, Numbered, NEW c \in Callers, Shrink(c)
  PROVE  \E gone \in SUBSET LiveSlots :
           /\ active' = target[c] /\ active' < active
           /\ active' = active - Cardinality(gone)
           /\ \A i \in gone, j \in LiveSlots \ gone : slots[i] > slots[j]
           /\ gone \subseteq Elements(idle)
           /\ LiveSlots' = LiveSlots \ gone
           /\ \A i \in LiveSlots' : slots'[i] = slots[i]
           /\ slots' \in Seq(Nat) /\ Len(slots') <= Len(slots)
           /\ \A i \in 1..Len(slots') :
                i \in 1..Len(slots) /\ (slots'[i] = None \/ slots'[i] = slots[i])
                /\ (slots[i] = None => slots'[i] = None)
           /\ idle' \in Seq(Nat) /\ Len(idle') <= Len(idle)
           /\ Elements(idle') = Elements(idle) \ gone
           /\ Distinct(idle) => Distinct(idle')
<1> DEFINE n == active - target[c]
           gone == Removable(n)
           e == Emptied(gone)
<1>1. slots \in Seq(Nat) /\ idle \in Seq(Nat) /\ active \in Int /\ None \in Nat
      /\ LiveSlots = LiveIn(slots) /\ Len(slots) \in Nat
  BY DEF TypeOK, None, LiveSlots, LiveIn
<1>2. target[c] \in Nat
  BY DEF Shrink, TypeOK, Control, ControlOf
<1>3. /\ active > target[c] /\ n <= Cardinality(LiveSlots) /\ gone \subseteq Elements(idle)
      /\ idle' = Retained(idle, Elements(idle) \ gone)
      /\ active' = active - n /\ slots' = PopTrailingNone(e)
  BY DEF Shrink
<1>4. Cardinality(LiveSlots) \in Nat
  BY <1>1, LiveFinite
<1>5. n \in 0..Cardinality(LiveSlots) /\ active' = target[c] /\ active' < active
  BY <1>1, <1>2, <1>3, <1>4
<1> HIDE DEF n
<1>6. gone \in SUBSET LiveSlots /\ Cardinality(gone) = n
      /\ \A i \in gone, j \in LiveSlots \ gone : slots[i] > slots[j]
  BY <1>5, RemovableFacts
<1> HIDE DEF gone
<1>7. e \in Seq(Nat) /\ Len(e) = Len(slots)
      /\ \A j \in 1..Len(slots) : e[j] = IF j \in gone THEN None ELSE slots[j]
  <2>1. \A j \in 1..Len(slots) : (IF j \in gone THEN None ELSE slots[j]) \in Nat
    BY <1>1
  <2>2. e = [j \in 1..Len(slots) |-> IF j \in gone THEN None ELSE slots[j]]
    BY DEF Emptied
  <2> HIDE DEF e
  <2>3. QED
    BY <1>1, <2>1, <2>2
<1> HIDE DEF e
<1>8. LiveIn(e) = LiveSlots \ gone
  BY <1>7 DEF LiveIn, LiveSlots
<1>9. LiveIn(slots') = LiveIn(e) /\ \A j \in LiveIn(e) : slots'[j] = e[j]
  BY <1>3, <1>7, TrimKeepsLive
<1>10. slots' \in Seq(Nat) /\ Len(slots') \in 0..Len(e)
       /\ \A j \in 1..Len(slots') : slots'[j] = e[j]
  BY <1>3, <1>7, TrimFacts
<1>11. LiveSlots' = LiveIn(slots')
  BY DEF LiveSlots, LiveIn
<1>12. LiveSlots' = LiveSlots \ gone /\ \A j \in LiveSlots' : slots'[j] = slots[j]
  BY <1>7, <1>8, <1>9, <1>11 DEF LiveIn
<1>13. Len(slots') <= Len(slots) /\ 1..Len(slots') \subseteq 1..Len(slots)
  BY <1>1, <1>7, <1>10
<1>14. \A i \in 1..Len(slots') :
         i \in 1..Len(slots) /\ (slots'[i] = None \/ slots'[i] = slots[i])
         /\ (slots[i] = None => slots'[i] = None)
  BY <1>7, <1>10, <1>13
<1> DEFINE keep == Elements(idle) \ gone
<1>15. Retained(idle, keep) \in Seq(Nat) /\ Len(Retained(idle, keep)) <= Len(idle)
  BY <1>1, RetainedFacts
<1>16. Elements(Retained(idle, keep)) = Elements(idle) \cap keep
  BY <1>1, RetainedFacts
<1>17. Distinct(idle) => Distinct(Retained(idle, keep))
  BY <1>1, RetainedFacts
<1>18. QED
  <2> USE <1>6
  <2> WITNESS gone \in SUBSET LiveSlots
  <2>1. Elements(idle') = Elements(idle) \ gone
    BY <1>3, <1>16
  <2>2. active' = active - Cardinality(gone)
    BY <1>3, <1>6
  <2>3. QED
    BY <1>3, <1>5, <1>6, <1>10, <1>12, <1>13, <1>14, <1>15, <1>17, <2>1, <2>2

(* acquire_all_idle_slots: a guard for each index on the stack.            *)
LEMMA AcquireAllFacts ==
  ASSUME TypeOK, NEW c \in Callers, AcquireAll(c)
  PROVE  /\ Sorted(idle) \in Seq(Int) /\ Len(Sorted(idle)) = Len(idle)
         /\ Len(idle) \in Nat
         /\ Elements(Sorted(idle)) = Elements(idle)
         /\ Distinct(idle) => Distinct(Sorted(idle))
         /\ leases' \in [Callers -> Seq(Guard)]
         /\ \A d \in Callers \ {c} : leases'[d] = leases[d]
         /\ Len(leases'[c]) = Len(idle)
         /\ \A n \in 1..Len(idle) :
              /\ Sorted(idle)[n] \in Elements(idle)
              /\ leases'[c][n] = [index |-> Sorted(idle)[n],
                                  isolate |-> slots[Sorted(idle)[n]]]
         /\ idle' = <<>> /\ Elements(idle') = {} /\ Distinct(idle')
<1> DEFINE t == [n \in 1..Len(idle) |->
                   [index |-> Sorted(idle)[n], isolate |-> slots[Sorted(idle)[n]]]]
<1>1. idle \in Seq(Nat) /\ idle \in Seq(Int) /\ Len(idle) \in Nat
  BY DEF TypeOK
<1>2. Sorted(idle) \in Seq(Int) /\ Len(Sorted(idle)) = Len(idle)
  BY <1>1, SortedFacts
<1>3. Elements(Sorted(idle)) = Elements(idle)
  BY <1>1, SortedFacts
<1>4. Distinct(idle) => Distinct(Sorted(idle))
  BY <1>1, SortedFacts
<1>5. \A n \in 1..Len(idle) : Sorted(idle)[n] \in Elements(idle)
  BY <1>2, <1>3 DEF Elements
<1>6. \A i \in Elements(idle) : i \in Nat /\ slots[i] \in Nat
  <2>1. slots \in Seq(Nat) /\ \A i \in Elements(idle) : i \in 1..Len(slots)
    BY DEF AcquireAll, Live, TypeOK
  <2>2. QED
    BY <2>1
<1>7. \A n \in 1..Len(idle) :
        [index |-> Sorted(idle)[n], isolate |-> slots[Sorted(idle)[n]]] \in Guard
  BY <1>5, <1>6 DEF Guard
<1>8. t \in Seq(Guard) /\ Len(t) = Len(idle)
  BY <1>1, <1>7
<1>9. leases' = [leases EXCEPT ![c] = t] /\ idle' = <<>>
  BY DEF AcquireAll
<1>10. leases'[c] = t /\ leases' \in [Callers -> Seq(Guard)]
       /\ \A d \in Callers \ {c} : leases'[d] = leases[d]
  <2> HIDE DEF t
  <2>1. QED
    BY <1>8, <1>9 DEF TypeOK
<1>11. Elements(<<>>) = {} /\ Distinct(<<>>)
  BY DEF Elements, Distinct
<1>12. QED
  BY <1>1, <1>2, <1>3, <1>4, <1>5, <1>8, <1>9, <1>10, <1>11

LEMMA SlotStepTypes ==
  ASSUME TypeOK, Control, Parked, Numbered, NEW c \in Callers,
         \/ Quarantine(c) \/ QuarantineNothing(c) \/ Shrink(c)
         \/ AcquireAll(c) \/ AcquireAllFails(c)
  PROVE  TypeOK'
<1> USE DEF options, plan, bounds
<1>1. CASE Quarantine(c)
  <2>1. NotifyOne(c, "readDesired") /\ "readDesired" \in Stages \ {"waiting"}
        /\ pc[c] # "waiting"
    BY <1>1 DEF Quarantine, Stages
  <2>2. pc' \in [Callers -> Stages] /\ waiters' \in Seq(Callers)
    BY <2>1, NotifyFacts
  <2>3. slots' \in Seq(Nat) /\ idle' \in Seq(Nat) /\ leases' \in [Callers -> Seq(Guard)]
    BY <1>1, QuarantineFacts
  <2>4. QED
    BY SMTT(20), <1>1, <2>2, <2>3 DEF Quarantine, Recorded, TypeOK
<1>2. CASE QuarantineNothing(c)
  <2>1. pc[c] = "calling"
        /\ UNCHANGED <<idle, active, creating, waiting, options, nextId, job, leases,
                       plan, result, failures, adjustments>>
        /\ UNCHANGED queueMode /\ trimmed' \in BOOLEAN
    BY <1>2 DEF QuarantineNothing, Recorded, TypeOK
  <2>2. slots' \in Seq(Nat) /\ pc' \in [Callers -> Stages] /\ waiters' \in Seq(Callers)
    <3>1. CASE Goto(c, "settling") /\ UNCHANGED <<slots, waiters>>
      BY <3>1 DEF Goto, TypeOK, Stages
    <3>2. CASE slots' = PopTrailingNone(slots) /\ NotifyOne(c, "settling")
      <4>1. NotifyOne(c, "settling") /\ "settling" \in Stages \ {"waiting"}
            /\ pc[c] # "waiting"
        BY <2>1, <3>2 DEF Stages
      <4>2. pc' \in [Callers -> Stages] /\ waiters' \in Seq(Callers)
        BY <4>1, NotifyFacts
      <4>3. QED
        BY <3>2, <4>2, TrimFacts DEF TypeOK
    <3>3. QED
      BY <1>2, <3>1, <3>2 DEF QuarantineNothing
  <2>3. QED
    BY <2>1, <2>2 DEF TypeOK
<1>3. CASE Shrink(c)
  <2>1. slots' \in Seq(Nat) /\ idle' \in Seq(Nat) /\ active' = target[c]
    BY <1>3, ShrinkFacts
  <2>2. pc' \in [Callers -> Stages]
    BY <1>3 DEF Shrink, Goto, AfterShrink, Stages, TypeOK
  <2>3. target[c] \in Nat
    BY <1>3 DEF Shrink, TypeOK, Control, ControlOf
  <2>4. UNCHANGED <<creating, queue, options, nextId, job, leases, plan, result,
                    bounds, queueMode>> /\ trimmed' \in BOOLEAN
    BY <1>3 DEF Shrink, Recorded, TypeOK
  <2>5. QED
    BY <2>1, <2>2, <2>3, <2>4 DEF TypeOK, queue
<1>4. CASE AcquireAll(c)
  <2>1. leases' \in [Callers -> Seq(Guard)] /\ idle' = <<>>
    BY <1>4, AcquireAllFacts
  <2>2. QED
    BY <1>4, <2>1 DEF AcquireAll, Goto, NextCall, TypeOK, Stages, queue, history
<1>5. CASE AcquireAllFails(c)
  BY <1>5 DEF AcquireAllFails, Return, TypeOK, Stages, Results, queue, history
<1>6. QED
  BY <1>1, <1>2, <1>3, <1>4, <1>5

LEMMA StepTypes ==
  ASSUME TypeOK, Control, Parked, Numbered, [Next]_vars
  PROVE  TypeOK'
<1>1. CASE UNCHANGED vars
  BY <1>1 DEF vars, state, queue, options, history, bounds, TypeOK
<1>2. ASSUME NEW c \in Callers, PoolStep(c) PROVE TypeOK'
  BY <1>2, QuietStepTypes, QueueStepTypes, SpawnStepTypes, ReleaseTypes, SlotStepTypes
  DEF PoolStep
<1>3. QED
  BY <1>1, <1>2, QuietStepTypes DEF Next

-----------------------------------------------------------------------------
(* The wait set, the counters of the callers and the stages.               *)

Step(c) ==
  \/ PoolStep(c) \/ CallHandler(c) \/ WarmAll(c)
  \/ \E n \in Sizes : Resize(c, n) \/ SetDesiredSize(c, n)

LEMMA StepIsNext == ASSUME NEW c \in Callers, Step(c) PROVE Next
BY DEF Step, Next

Steady == Stages \ {"waiting", "woken", "starting"}

(* A step that concerns neither the queue nor a creation ...               *)
Moves(c) ==
  /\ pc[c] \in Steady
  /\ \E stage \in Steady : pc' = [pc EXCEPT ![c] = stage]
  /\ waiters' = waiters /\ waiting' = waiting /\ creating' = creating

(* ... and one that may wake a caller.                                     *)
Notifies(c) ==
  /\ pc[c] \in Steady
  /\ \E stage \in Steady : NotifyOne(c, stage)
  /\ waiting' = waiting /\ creating' = creating

LEMMA StepKinds ==
  ASSUME TypeOK, Control, NEW c \in Callers, Step(c)
  PROVE  \/ Moves(c) \/ Notifies(c) \/ Park(c) \/ WakeUp(c)
         \/ Reserve(c) \/ StartSucceeds(c) \/ StartFails(c)
<1> USE DEF Stages, Steady, queue, state
<1>1. CASE CallHandler(c) \/ WarmAll(c) \/ \E n \in Sizes : Resize(c, n) \/ SetDesiredSize(c, n)
  BY <1>1 DEF Moves, CallHandler, WarmAll, Resize, SetDesiredSize, Return
<1>2. CASE ReadLimit(c) \/ ChooseSpawn(c) \/ SnapshotOptions(c) \/ ReadDesired(c) \/ Grow(c)
  BY <1>2 DEF Moves, ReadLimit, ChooseSpawn, SnapshotOptions, ReadDesired, Grow, Goto
<1>3. CASE RefuseFailFast(c) \/ RefuseQueueFull(c) \/ PopIdle(c)
  BY <1>3 DEF Moves, RefuseFailFast, RefuseQueueFull, Saturated, PopIdle, Return
<1>4. CASE ReserveRefused(c)
  BY <1>4 DEF Moves, ReserveRefused, NotSpawned, NextCall, Goto, Return
<1>5. CASE Grown(c)
  <2>1. job[c] \in {"call", "warm", "resize", "setDesired"}
    BY DEF TypeOK
  <2>2. (CASE job[c] = "call" -> NextCall(leases[c])
           [] job[c] = "warm" -> "acquireAll"
           [] job[c] = "resize" -> "out"
           [] job[c] = "setDesired" -> "shrink") \in Steady
    BY <2>1 DEF NextCall
  <2>3. QED
    BY <1>5, <2>2 DEF Grown, Goto, Moves
<1>6. CASE AcquireAll(c) \/ AcquireAllFails(c) \/ AcquireAllRefused(c)
  BY <1>6 DEF Moves, AcquireAll, AcquireAllFails, AcquireAllRefused, NextCall, Goto, Return
<1>7. CASE ShrinkRefused(c) \/ ShrinkUnneeded(c) \/ SetMax(c)
  BY <1>7 DEF Moves, ShrinkRefused, ShrinkUnneeded, SetMax, AfterShrink, Goto, Return
<1>8. CASE Shrink(c)
  BY <1>8 DEF Moves, Shrink, AfterShrink, Goto
<1>9. CASE CallReturns(c) \/ CallFails(c) \/ DropUnused(c) \/ Settle(c)
  <2>1. /\ pc[c] \in Steady /\ waiting' = waiting /\ creating' = creating
    BY <1>9 DEF CallReturns, CallFails, DropUnused, Settle, ReleaseSlot
  <2>2. \E stage \in Steady : NotifyOne(c, stage)
    BY <1>9 DEF CallReturns, CallFails, DropUnused, Settle, ReleaseSlot, NextCall, Unwind
  <2>3. QED
    BY <2>1, <2>2 DEF Notifies
<1>10. CASE Quarantine(c)
  BY <1>10 DEF Notifies, Quarantine
<1>11. CASE QuarantineNothing(c)
  BY <1>11 DEF Notifies, Moves, QuarantineNothing, Goto
<1>12. QED
  BY <1>1, <1>2, <1>3, <1>4, <1>5, <1>6, <1>7, <1>8, <1>9, <1>10, <1>11
  DEF Step, PoolStep

(* A caller that fails a creation or finds its slot gone leaves it.        *)
LEMMA StartFacts ==
  ASSUME TypeOK, NEW c \in Callers, StartSucceeds(c) \/ StartFails(c)
  PROVE  /\ pc[c] = "starting" /\ creating' = creating - 1 /\ waiting' = waiting
         /\ \/ (\E stage \in Steady : pc' = [pc EXCEPT ![c] = stage]) /\ waiters' = waiters
            \/ \E stage \in Steady : NotifyOne(c, stage)
<1> USE DEF Stages, Steady
<1>1. CASE StartFails(c)
  BY <1>1 DEF StartFails, StoreOutOfBounds, NotSpawned, NextCall, Unwind, Goto, Return
<1>2. CASE StartSucceeds(c) /\ at[c] > Len(slots)
  BY <1>2 DEF StartSucceeds, StoreOutOfBounds, Unwind, Return
<1>3. CASE StartSucceeds(c) /\ ~(at[c] > Len(slots))
  BY <1>3 DEF StartSucceeds, Goto
<1>4. QED
  BY <1>1, <1>2, <1>3

LEMMA StepQueue ==
  ASSUME TypeOK, Control, Parked, CallersCounted, NEW c \in Callers, Step(c)
  PROVE  Parked' /\ CallersCounted'
<1> DEFINE Creators == {d \in Callers : pc[d] = "starting"}
           Queued == {d \in Callers : pc[d] \in {"waiting", "woken"}}
<1>1. /\ pc \in [Callers -> Stages] /\ waiters \in Seq(Callers)
      /\ creating = Cardinality(Creators) /\ waiting = Cardinality(Queued)
      /\ Creators \in SUBSET Callers /\ Queued \in SUBSET Callers
  BY DEF TypeOK, CallersCounted
(* Nobody becomes or stops being a creator, or a member of the queue.      *)
<1>2. ASSUME Creators' = Creators, Queued' = Queued,
             creating' = creating, waiting' = waiting
      PROVE  CallersCounted'
  BY <1>1, <1>2 DEF CallersCounted
<1>3. ASSUME NEW stage \in Steady, pc' = [pc EXCEPT ![c] = stage], waiters' = waiters,
             pc[c] # "waiting"
      PROVE  /\ Parked' /\ Creators' = Creators \ {c} /\ Queued' = Queued \ {c}
  <2>1. /\ stage \notin {"waiting", "woken", "starting"}
        /\ \A d \in Callers : pc'[d] = IF d = c THEN stage ELSE pc[d]
    BY <1>1, <1>3 DEF Steady
  <2>2. QED
    BY <1>1, <1>3, <2>1 DEF Parked
<1>4. ASSUME NEW stage \in Steady, NotifyOne(c, stage), pc[c] # "waiting", pc[c] # "woken"
      PROVE  /\ Parked' /\ Creators' = Creators \ {c} /\ Queued' = Queued
  <2>1. stage \in Stages \ {"waiting"} /\ stage \notin {"woken", "starting"}
    BY DEF Steady
  <2>2. Parked' /\ pc'[c] = stage
    BY <1>4, <2>1, NotifyFacts
  <2>3. \A d \in Callers \ {c} :
          pc'[d] = pc[d] \/ (pc[d] = "waiting" /\ pc'[d] = "woken")
    BY <1>4, <2>1, NotifyFacts
  <2>4. QED
    BY <1>4, <2>1, <2>2, <2>3
<1>5. CASE Moves(c)
  <2>1. PICK stage \in Steady : pc' = [pc EXCEPT ![c] = stage]
    BY <1>5 DEF Moves
  <2>2. waiters' = waiters /\ waiting' = waiting /\ creating' = creating
        /\ pc[c] \notin {"waiting", "woken", "starting"}
    BY <1>5 DEF Moves, Steady
  <2>3. Parked' /\ Creators' = Creators \ {c} /\ Queued' = Queued \ {c}
    BY <1>3, <2>1, <2>2
  <2>4. QED
    BY <1>2, <2>2, <2>3
<1>6. CASE Notifies(c)
  <2>1. PICK stage \in Steady : NotifyOne(c, stage)
    BY <1>6 DEF Notifies
  <2>2. waiting' = waiting /\ creating' = creating
        /\ pc[c] \notin {"waiting", "woken", "starting"}
    BY <1>6 DEF Notifies, Steady
  <2>3. Parked' /\ Creators' = Creators \ {c} /\ Queued' = Queued
    BY <1>4, <2>1, <2>2
  <2>4. QED
    BY <1>2, <2>2, <2>3
<1>7. CASE Park(c)
  <2>1. /\ pc[c] = "locking" /\ pc' = [pc EXCEPT ![c] = "waiting"]
        /\ waiters' = Append(waiters, c) /\ waiting' = waiting + 1
        /\ creating' = creating
    BY <1>7 DEF Park, Saturated, Goto, state
  <2>2. \A d \in Callers : pc'[d] = IF d = c THEN "waiting" ELSE pc[d]
    BY <1>1, <2>1
  <2>3. c \notin Elements(waiters) /\ Distinct(waiters)
    BY <2>1 DEF Parked
  <2>4. Distinct(Append(waiters, c))
    BY <1>1, <2>3, AppendFacts
  <2>5. Elements(Append(waiters, c)) = Elements(waiters) \cup {c}
    BY <1>1, AppendFacts
  <2>6. Parked'
    BY <2>1, <2>2, <2>4, <2>5 DEF Parked
  <2>7. Creators' = Creators /\ Queued' = Queued \cup {c} /\ c \in Callers \ Queued
    BY <2>1, <2>2
  <2> HIDE DEF Queued, Creators
  <2>8. Cardinality(Queued \cup {c}) = Cardinality(Queued) + 1
    BY <1>1, <2>7, CallersFinite
  <2>9. QED
    BY <1>1, <2>1, <2>6, <2>7, <2>8 DEF CallersCounted, Queued, Creators
<1>8. CASE WakeUp(c)
  <2>1. /\ pc[c] = "woken" /\ pc' = [pc EXCEPT ![c] = "acquire"]
        /\ waiters' = waiters /\ waiting' = IF waiting = 0 THEN 0 ELSE waiting - 1
        /\ creating' = creating /\ "acquire" \in Steady
    BY <1>8 DEF WakeUp, Goto, state, Steady, Stages
  <2>2. Parked' /\ Creators' = Creators \ {c} /\ Queued' = Queued \ {c}
    BY <1>3, <2>1
  <2>3. Creators' = Creators /\ c \in Queued
    BY <2>1, <2>2
  <2> HIDE DEF Queued, Creators
  <2>4. Cardinality(Queued \ {c}) = Cardinality(Queued) - 1
    BY <1>1, <2>3, CallersFinite
  <2>5. Cardinality(Queued \ {c}) \in Nat
    BY <1>1, CallersFinite
  <2>6. Cardinality(Queued) \in Nat
    BY <1>1, CallersFinite
  <2>7. waiting' = Cardinality(Queued')
    BY <1>1, <2>1, <2>2, <2>4, <2>5, <2>6
  <2>8. QED
    BY <1>1, <2>1, <2>2, <2>3, <2>7 DEF CallersCounted, Queued, Creators
<1>9. CASE Reserve(c)
  <2>1. /\ pc[c] = "reserve" /\ pc' = [pc EXCEPT ![c] = "starting"]
        /\ waiters' = waiters /\ waiting' = waiting /\ creating' = creating + 1
    BY <1>9 DEF Reserve, Goto, queue
  <2>2. \A d \in Callers : pc'[d] = IF d = c THEN "starting" ELSE pc[d]
    BY <1>1, <2>1
  <2>3. Queued' = Queued /\ Creators' = Creators \cup {c} /\ c \in Callers \ Creators
        /\ Parked'
    BY <2>1, <2>2 DEF Parked
  <2> HIDE DEF Queued, Creators
  <2>4. Cardinality(Creators \cup {c}) = Cardinality(Creators) + 1
    BY <1>1, <2>3, CallersFinite
  <2>5. QED
    BY <1>1, <2>1, <2>3, <2>4 DEF CallersCounted, Queued, Creators
<1>10. CASE StartSucceeds(c) \/ StartFails(c)
  <2>1. /\ pc[c] = "starting" /\ creating' = creating - 1 /\ waiting' = waiting
        /\ \/ (\E stage \in Steady : pc' = [pc EXCEPT ![c] = stage]) /\ waiters' = waiters
           \/ \E stage \in Steady : NotifyOne(c, stage)
    BY <1>10, StartFacts
  <2>2. Parked' /\ Creators' = Creators \ {c} /\ Queued' = Queued
    BY <1>3, <1>4, <2>1
  <2>3. c \in Creators
    BY <2>1
  <2> HIDE DEF Queued, Creators
  <2>4. Cardinality(Creators \ {c}) = Cardinality(Creators) - 1
    BY <1>1, <2>3, CallersFinite
  <2>5. QED
    BY <1>1, <2>1, <2>2, <2>4 DEF CallersCounted, Queued, Creators
<1>11. QED
  BY <1>5, <1>6, <1>7, <1>8, <1>9, <1>10, StepKinds

-----------------------------------------------------------------------------
(* A step of one caller changes nothing of the others, but may wake one.   *)

SameFor(d) ==
  /\ job'[d] = job[d] /\ target'[d] = target[d] /\ leases'[d] = leases[d]
  /\ limit'[d] = limit[d] /\ at'[d] = at[d] /\ result'[d] = result[d]

LEMMA OthersSame ==
  ASSUME TypeOK, NEW c \in Callers, Step(c), NEW d \in Callers \ {c}
  PROVE  SameFor(d)
<1>0. /\ job \in [Callers -> {"call", "warm", "resize", "setDesired"}]
      /\ leases \in [Callers -> Seq(Guard)]
      /\ limit \in [Callers -> Nat] /\ at \in [Callers -> Nat]
      /\ target \in [Callers -> Nat \cup {Lease}]
      /\ result \in [Callers -> Results]
  BY DEF TypeOK
<1> USE <1>0 DEF SameFor, plan, Return, Goto
<1>1. CASE CallHandler(c) \/ WarmAll(c) \/ \E n \in Sizes : Resize(c, n) \/ SetDesiredSize(c, n)
  BY <1>1 DEF CallHandler, WarmAll, Resize, SetDesiredSize
<1>2. CASE ReadLimit(c) \/ ChooseSpawn(c) \/ SnapshotOptions(c) \/ ReadDesired(c)
           \/ Grow(c) \/ Grown(c)
  BY <1>2 DEF ReadLimit, ChooseSpawn, SnapshotOptions, ReadDesired, Grow, Grown
<1>3. CASE RefuseFailFast(c) \/ RefuseQueueFull(c) \/ PopIdle(c) \/ Park(c) \/ WakeUp(c)
  BY <1>3 DEF RefuseFailFast, RefuseQueueFull, PopIdle, Park, WakeUp
<1>4. CASE Reserve(c) \/ ReserveRefused(c)
  BY <1>4 DEF Reserve, ReserveRefused, NotSpawned
<1>5. CASE StartSucceeds(c)
  BY <1>5 DEF StartSucceeds, StoreOutOfBounds
<1>6. CASE StartFails(c)
  BY <1>6 DEF StartFails, StoreOutOfBounds, NotSpawned
<1>7. CASE CallReturns(c) \/ CallFails(c) \/ DropUnused(c) \/ Settle(c)
  BY <1>7 DEF CallReturns, CallFails, DropUnused, Settle, ReleaseSlot
<1>8. CASE Quarantine(c)
  BY <1>8 DEF Quarantine
<1>9. CASE QuarantineNothing(c)
  BY <1>9 DEF QuarantineNothing
<1>10. CASE AcquireAll(c)
  BY <1>10 DEF AcquireAll
<1>11. CASE AcquireAllFails(c) \/ AcquireAllRefused(c)
  BY <1>11 DEF AcquireAllFails, AcquireAllRefused
<1>12. CASE ShrinkRefused(c) \/ ShrinkUnneeded(c) \/ SetMax(c)
  BY <1>12 DEF ShrinkRefused, ShrinkUnneeded, SetMax
<1>13. CASE Shrink(c)
  BY <1>13 DEF Shrink
<1>14. QED
  BY <1>1, <1>2, <1>3, <1>4, <1>5, <1>6, <1>7, <1>8, <1>9, <1>10, <1>11,
     <1>12, <1>13 DEF Step, PoolStep

(* Where the others are: a notified caller leaves the wait set.            *)
LEMMA OthersMove ==
  ASSUME TypeOK, Control, Parked, NEW c \in Callers, Step(c), NEW d \in Callers \ {c}
  PROVE  pc'[d] = pc[d] \/ (pc[d] = "waiting" /\ pc'[d] = "woken")
<1>1. \A stage \in Stages : pc' = [pc EXCEPT ![c] = stage] => pc'[d] = pc[d]
  BY DEF TypeOK
<1>2. ASSUME NEW stage \in Steady, NotifyOne(c, stage), pc[c] # "waiting"
      PROVE  pc'[d] = pc[d] \/ (pc[d] = "waiting" /\ pc'[d] = "woken")
  <2>1. stage \in Stages \ {"waiting"}
    BY DEF Steady
  <2>2. QED
    BY <1>2, <2>1, NotifyFacts
<1>3. CASE Moves(c)
  BY <1>1, <1>3 DEF Moves, Steady
<1>4. CASE Notifies(c)
  BY <1>2, <1>4 DEF Notifies, Steady
<1>5. CASE Park(c) \/ WakeUp(c) \/ Reserve(c)
  BY <1>1, <1>5 DEF Park, WakeUp, Reserve, Goto, Stages
<1>6. CASE StartSucceeds(c) \/ StartFails(c)
  <2>1. /\ pc[c] = "starting"
        /\ \/ (\E stage \in Steady : pc' = [pc EXCEPT ![c] = stage])
           \/ \E stage \in Steady : NotifyOne(c, stage)
    BY <1>6, StartFacts
  <2>2. QED
    BY <1>1, <1>2, <2>1 DEF Steady
<1>7. QED
  BY <1>3, <1>4, <1>5, <1>6, StepKinds

(* The stage a caller's own step leaves it in fits its operation.          *)
LEMMA OwnControl ==
  ASSUME TypeOK, Control, Parked, Numbered, NEW c \in Callers, Step(c)
  PROVE  ControlOf(c)'
<1>0. /\ job \in [Callers -> {"call", "warm", "resize", "setDesired"}]
      /\ leases \in [Callers -> Seq(Guard)]
      /\ target \in [Callers -> Nat \cup {Lease}] /\ pc \in [Callers -> Stages]
      /\ ControlOf(c) /\ Lease \notin Nat
  BY DEF TypeOK, Control, Lease
<1> USE <1>0 DEF ControlOf, Leasing, Spawning, plan, Return, Goto
<1>1. CASE CallHandler(c) \/ WarmAll(c)
  BY <1>1 DEF CallHandler, WarmAll
<1>2. ASSUME NEW n \in Sizes, Resize(c, n) \/ SetDesiredSize(c, n) PROVE ControlOf(c)'
  <2>1. n \in Nat
    BY BundlePoolAssumption
  <2>2. QED
    BY <1>2, <2>1 DEF Resize, SetDesiredSize
<1>3. CASE ReadLimit(c) \/ ChooseSpawn(c) \/ SnapshotOptions(c)
  BY <1>3 DEF ReadLimit, ChooseSpawn, SnapshotOptions
<1>4. CASE RefuseFailFast(c) \/ RefuseQueueFull(c) \/ Park(c) \/ WakeUp(c)
  BY <1>4 DEF RefuseFailFast, RefuseQueueFull, Saturated, Park, WakeUp
<1>5. CASE PopIdle(c)
  <2> DEFINE i == idle[Len(idle)]
             g == [index |-> i, isolate |-> slots[i]]
  <2>1. pc[c] = "locking" /\ job' = job /\ target' = target
    BY <1>5 DEF PopIdle
  <2>2. \/ leases' = [leases EXCEPT ![c] = <<g>>] /\ pc' = [pc EXCEPT ![c] = "calling"]
        \/ leases' = leases /\ pc' = [pc EXCEPT ![c] = "out"]
    BY <1>5 DEF PopIdle
  <2>3. <<g>> # <<>>
    OBVIOUS
  <2> HIDE DEF g
  <2>4. job[c] = "call" /\ target[c] = Lease /\ leases[c] = <<>>
    BY <2>1
  <2>5. CASE leases' = [leases EXCEPT ![c] = <<g>>] /\ pc' = [pc EXCEPT ![c] = "calling"]
    <3>1. leases'[c] # <<>> /\ pc'[c] = "calling"
      BY <2>3, <2>5
    <3>2. QED
      BY <2>1, <2>4, <3>1
  <2>6. CASE leases' = leases /\ pc' = [pc EXCEPT ![c] = "out"]
    BY <2>1, <2>4, <2>6
  <2>7. QED
    BY <2>2, <2>5, <2>6
<1>6. CASE ReadDesired(c)
  <2>1. desired \in Nat
    BY DEF TypeOK
  <2>2. QED
    BY <1>6, <2>1 DEF ReadDesired
<1>7. CASE Grow(c) \/ Grown(c)
  BY <1>7 DEF Grow, Grown, NextCall
<1>8. CASE Reserve(c)
  BY <1>8 DEF Reserve
<1>9. CASE ReserveRefused(c)
  BY <1>9 DEF ReserveRefused, NotSpawned, NextCall
<1>10. CASE StartSucceeds(c)
  <2>1. pc[c] = "starting" /\ job' = job /\ target' = target
    BY <1>10 DEF StartSucceeds
  <2>2. CASE at[c] > Len(slots)
    BY <1>10, <2>1, <2>2 DEF StartSucceeds, StoreOutOfBounds, Unwind
  <2>3. CASE ~(at[c] > Len(slots)) /\ target[c] = Lease
    <3> DEFINE g == [index |-> at[c], isolate |-> nextId]
    <3>1. leases' = [leases EXCEPT ![c] = <<g>>] /\ pc' = [pc EXCEPT ![c] = "calling"]
      BY <1>10, <2>3 DEF StartSucceeds
    <3>2. <<g>> # <<>>
      OBVIOUS
    <3> HIDE DEF g
    <3>3. QED
      BY <2>1, <2>3, <3>1, <3>2
  <2>4. CASE ~(at[c] > Len(slots)) /\ target[c] # Lease
    <3>1. NotifyOne(c, "ensure") /\ leases' = leases
      BY <1>10, <2>4 DEF StartSucceeds
    <3>2. "ensure" \in Stages \ {"waiting"} /\ pc[c] # "waiting"
      BY <2>1 DEF Stages
    <3>3. pc'[c] = "ensure"
      BY <3>1, <3>2, NotifyFacts
    <3>4. QED
      BY <2>1, <2>4, <3>1, <3>3
  <2>5. QED
    BY <2>2, <2>3, <2>4
<1>11. CASE StartFails(c)
  BY <1>11 DEF StartFails, StoreOutOfBounds, NotSpawned, NextCall, Unwind
<1>12. CASE CallReturns(c) \/ CallFails(c) \/ DropUnused(c) \/ Settle(c)
  <2>1. pc[c] \in Releasing
    BY <1>12, ReleaseTypes
  <2>2. PICK stage \in {"out", "calling", "releasing"} :
          ReleaseSlot(c, stage) /\ (stage = "out" <=> Tail(leases[c]) = <<>>)
    BY <1>12, ReleaseTypes
  <2>3. leases'[c] = Tail(leases[c]) /\ job' = job /\ target' = target
        /\ NotifyOne(c, stage)
    BY <2>1, <2>2, ReleaseFacts
  <2>4. stage \in Stages \ {"waiting"} /\ pc[c] # "waiting"
    BY <2>1 DEF Releasing, Stages
  <2>5. pc'[c] = stage
    BY <2>3, <2>4, NotifyFacts
  <2>6. QED
    BY <2>1, <2>2, <2>3, <2>5 DEF Releasing
<1>13. CASE Quarantine(c)
  <2>1. pc[c] = "calling" /\ NotifyOne(c, "readDesired") /\ job' = job /\ target' = target
    BY <1>13 DEF Quarantine
  <2>2. "readDesired" \in Stages \ {"waiting"}
    BY DEF Stages
  <2>3. pc'[c] = "readDesired"
    BY <2>1, <2>2, NotifyFacts
  <2>4. QED
    BY <2>1, <2>3
<1>14. CASE QuarantineNothing(c)
  <2>1. pc[c] = "calling" /\ job' = job /\ target' = target /\ leases' = leases
    BY <1>14 DEF QuarantineNothing
  <2>2. "settling" \in Stages \ {"waiting"}
    BY DEF Stages
  <2>3. NotifyOne(c, "settling") => pc'[c] = "settling"
    BY <2>1, <2>2, NotifyFacts
  <2>4. pc'[c] = "settling"
    BY <1>14, <2>3 DEF QuarantineNothing
  <2>5. QED
    BY <2>1, <2>4
<1>15. CASE WarmAll(c) \/ AcquireAllRefused(c) \/ AcquireAllFails(c)
  BY <1>15 DEF WarmAll, AcquireAllRefused, AcquireAllFails
<1>16. CASE AcquireAll(c)
  <2>1. /\ pc[c] = "acquireAll" /\ job' = [job EXCEPT ![c] = "call"]
        /\ target' = target /\ pc' = [pc EXCEPT ![c] = NextCall(idle)]
    BY <1>16 DEF AcquireAll
  <2>2. Len(leases'[c]) = Len(idle) /\ leases' \in [Callers -> Seq(Guard)]
        /\ idle \in Seq(Nat)
    BY <1>16, AcquireAllFacts DEF TypeOK
  <2>3. idle = <<>> <=> leases'[c] = <<>>
    BY <2>2
  <2>4. QED
    BY <2>1, <2>3 DEF NextCall
<1>17. CASE ShrinkRefused(c) \/ ShrinkUnneeded(c)
  BY <1>17 DEF ShrinkRefused, ShrinkUnneeded, AfterShrink
<1>18. CASE Shrink(c)
  BY <1>18 DEF Shrink, AfterShrink
<1>19. CASE SetMax(c)
  <2>1. desired' \in Nat /\ target' = [target EXCEPT ![c] = desired']
    BY <1>19 DEF SetMax, TypeOK
  <2>2. QED
    BY <1>19, <2>1 DEF SetMax
<1>20. QED
  BY <1>1, <1>2, <1>3, <1>4, <1>5, <1>6, <1>7, <1>8, <1>9, <1>10, <1>11,
     <1>12, <1>13, <1>14, <1>15, <1>16, <1>17, <1>18, <1>19 DEF Step, PoolStep

LEMMA StepControl ==
  ASSUME TypeOK, Control, Parked, Numbered, NEW c \in Callers, Step(c)
  PROVE  Control'
<1> SUFFICES ASSUME NEW d \in Callers PROVE ControlOf(d)'
  BY DEF Control
<1>1. CASE d = c
  BY <1>1, OwnControl
<1>2. CASE d # c
  <2>1. SameFor(d) /\ (pc'[d] = pc[d] \/ (pc[d] = "waiting" /\ pc'[d] = "woken"))
    BY <1>2, OthersSame, OthersMove
  <2>2. QED
    BY <2>1 DEF SameFor, Control, ControlOf, Leasing, Spawning
<1>3. QED
  BY <1>1, <1>2

-----------------------------------------------------------------------------
(* The slots.                                                              *)

(* Most steps leave the slots and the isolates' number alone.              *)
LEMMA SlotsStay ==
  ASSUME NEW c \in Callers, Step(c),
         ~Reserve(c), ~StartSucceeds(c), ~StartFails(c),
         ~Quarantine(c), ~QuarantineNothing(c), ~Shrink(c)
  PROVE  UNCHANGED <<slots, active, nextId, trimmed>>
<1> USE DEF state, history
<1>1. CASE CallHandler(c) \/ WarmAll(c) \/ \E n \in Sizes : Resize(c, n) \/ SetDesiredSize(c, n)
  BY <1>1 DEF CallHandler, WarmAll, Resize, SetDesiredSize
<1>2. CASE ReadLimit(c) \/ ChooseSpawn(c) \/ SnapshotOptions(c) \/ ReadDesired(c)
           \/ Grow(c) \/ Grown(c)
  BY <1>2 DEF ReadLimit, ChooseSpawn, SnapshotOptions, ReadDesired, Grow, Grown
<1>3. CASE RefuseFailFast(c) \/ RefuseQueueFull(c) \/ PopIdle(c) \/ Park(c) \/ WakeUp(c)
           \/ ReserveRefused(c)
  BY <1>3 DEF RefuseFailFast, RefuseQueueFull, PopIdle, Park, WakeUp, ReserveRefused
<1>4. CASE CallReturns(c) \/ CallFails(c) \/ DropUnused(c) \/ Settle(c)
  BY <1>4 DEF CallReturns, CallFails, DropUnused, Settle, ReleaseSlot
<1>5. CASE AcquireAll(c) \/ AcquireAllFails(c) \/ AcquireAllRefused(c)
  BY <1>5 DEF AcquireAll, AcquireAllFails, AcquireAllRefused
<1>6. CASE ShrinkRefused(c) \/ ShrinkUnneeded(c) \/ SetMax(c)
  BY <1>6 DEF ShrinkRefused, ShrinkUnneeded, SetMax
<1>7. QED
  BY <1>1, <1>2, <1>3, <1>4, <1>5, <1>6 DEF Step, PoolStep

LEMMA ReserveFacts ==
  ASSUME TypeOK, NEW c \in Callers, Reserve(c)
  PROVE  /\ slots' \in Seq(Nat) /\ Len(slots') = Len(slots) + 1 /\ Len(slots) \in Nat
         /\ \A i \in 1..Len(slots) : slots'[i] = slots[i]
         /\ slots'[Len(slots) + 1] = None
         /\ 1..Len(slots') = (1..Len(slots)) \cup {Len(slots) + 1}
         /\ LiveSlots' = LiveSlots /\ \A i \in LiveSlots : slots'[i] = slots[i]
<1>1. slots \in Seq(Nat) /\ None \in Nat /\ Len(slots) \in Nat
  BY DEF TypeOK, None
<1>2. slots' = Append(slots, None)
  BY DEF Reserve
<1>3. /\ slots' \in Seq(Nat) /\ Len(slots') = Len(slots) + 1
      /\ \A i \in 1..Len(slots) : slots'[i] = slots[i]
      /\ slots'[Len(slots) + 1] = None
  BY <1>1, <1>2
<1>4. 1..Len(slots') = (1..Len(slots)) \cup {Len(slots) + 1}
  BY <1>1, <1>3
<1>5. QED
  BY <1>1, <1>3, <1>4 DEF LiveSlots

LEMMA StoreFacts ==
  ASSUME TypeOK, NEW c \in Callers, StartSucceeds(c), ~(at[c] > Len(slots))
  PROVE  /\ slots' \in Seq(Nat) /\ Len(slots') = Len(slots) /\ nextId' = nextId + 1
         /\ \A i \in 1..Len(slots) : slots'[i] = IF i = at[c] THEN nextId ELSE slots[i]
         /\ creating' = creating - 1 /\ active' = active + 1 /\ result' = result
<1>1. slots \in Seq(Nat) /\ nextId \in Nat
  BY DEF TypeOK
<1>2. /\ slots' = [slots EXCEPT ![at[c]] = nextId] /\ nextId' = nextId + 1
      /\ creating' = creating - 1 /\ active' = active + 1 /\ result' = result
  BY DEF StartSucceeds
<1>3. slots' \in Seq(Nat)
  BY <1>1, <1>2, ReplaceFacts
<1>4. Len(slots') = Len(slots)
  BY <1>1, <1>2, ReplaceFacts
<1>5. \A i \in 1..Len(slots) : slots'[i] = IF i = at[c] THEN nextId ELSE slots[i]
  BY <1>1, <1>2, ReplaceFacts
<1>6. QED
  BY <1>2, <1>3, <1>4, <1>5

(* The reservation of a failed creation is taken back, at the end of the   *)
(* vector, or stays as an empty slot.                                      *)
LEMMA UndoFacts ==
  ASSUME TypeOK, NEW c \in Callers, StartFails(c)
  PROVE  /\ slots' \in Seq(Nat) /\ Len(slots') <= Len(slots)
         /\ \A i \in 1..Len(slots') : i \in 1..Len(slots)
               /\ slots'[i] = IF i = at[c] THEN None ELSE slots[i]
         /\ at[c] # Len(slots) => Len(slots') = Len(slots)
         /\ at[c] = Len(slots) /\ slots # <<>> => Len(slots') = Len(slots) - 1
<1>1. slots \in Seq(Nat) /\ None \in Nat /\ Len(slots) \in Nat /\ at[c] \in Nat
  BY DEF TypeOK, None
<1>2. CASE at[c] > Len(slots)
  <2>1. slots' = slots
    BY <1>2 DEF StartFails, StoreOutOfBounds
  <2>2. QED
    BY <1>1, <1>2, <2>1
<1>3. CASE at[c] = Len(slots)
  <2>1. slots' = SubSeq(slots, 1, Len(slots) - 1)
    BY <1>1, <1>3 DEF StartFails
  <2>2. CASE slots = <<>>
    <3>1. slots' = <<>> /\ Len(slots) = 0
      BY <2>1, <2>2
    <3>2. QED
      BY <1>1, <1>3, <2>2, <3>1
  <2>3. CASE slots # <<>>
    <3>1. slots' \in Seq(Nat) /\ Len(slots') = Len(slots) - 1 /\ Len(slots) # 0
      BY <1>1, <2>1, <2>3, PopFacts
    <3>2. \A i \in 1..Len(slots) - 1 : slots'[i] = slots[i]
      BY <1>1, <2>1, <3>1
    <3>3. QED
      BY <1>1, <1>3, <2>3, <3>1, <3>2
  <2>4. QED
    BY <2>2, <2>3
<1>4. CASE at[c] < Len(slots)
  <2>1. slots' = [slots EXCEPT ![at[c]] = None]
    BY <1>1, <1>4 DEF StartFails
  <2>2. slots' \in Seq(Nat)
    BY <1>1, <2>1, ReplaceFacts
  <2>3. Len(slots') = Len(slots)
    BY <1>1, <2>1, ReplaceFacts
  <2>4. \A i \in 1..Len(slots) : slots'[i] = IF i = at[c] THEN None ELSE slots[i]
    BY <1>1, <2>1, ReplaceFacts
  <2>5. QED
    BY <1>1, <1>4, <2>2, <2>3, <2>4
<1>5. QED
  BY <1>1, <1>2, <1>3, <1>4

LEMMA NothingFacts ==
  ASSUME TypeOK, NEW c \in Callers, QuarantineNothing(c)
  PROVE  /\ slots' \in Seq(Nat) /\ Len(slots') <= Len(slots)
         /\ \A i \in 1..Len(slots') : i \in 1..Len(slots) /\ slots'[i] = slots[i]
         /\ LiveSlots' = LiveSlots /\ \A i \in LiveSlots : slots'[i] = slots[i]
<1>1. slots \in Seq(Nat) /\ Len(slots) \in Nat
  BY DEF TypeOK
<1>2. LiveSlots = LiveIn(slots) /\ LiveSlots' = LiveIn(slots')
  BY DEF LiveSlots, LiveIn
<1>3. CASE slots' = slots
  BY <1>1, <1>2, <1>3
<1>4. CASE slots' = PopTrailingNone(slots)
  <2>1. slots' \in Seq(Nat) /\ Len(slots') \in 0..Len(slots)
        /\ \A i \in 1..Len(slots') : slots'[i] = slots[i]
    BY <1>1, <1>4, TrimFacts
  <2>2. LiveIn(slots') = LiveIn(slots) /\ \A i \in LiveIn(slots) : slots'[i] = slots[i]
    BY <1>1, <1>4, TrimKeepsLive
  <2>3. Len(slots') <= Len(slots) /\ 1..Len(slots') \subseteq 1..Len(slots)
    BY <1>1, <2>1
  <2>4. QED
    BY <1>2, <2>1, <2>2, <2>3
<1>5. QED
  BY <1>3, <1>4 DEF QuarantineNothing

LEMMA StepNumbered ==
  ASSUME TypeOK, Control, Numbered, NEW c \in Callers, Step(c)
  PROVE  Numbered'
<1>1. /\ slots \in Seq(Nat) /\ nextId \in Nat \ {0} /\ Len(slots) \in Nat
      /\ \A i \in 1..Len(slots) : slots[i] \in Nat
  BY DEF TypeOK
(* Isolates only go.                                                       *)
<1>2. ASSUME nextId' = nextId,
             \A i \in 1..Len(slots') :
               i \in 1..Len(slots) /\ (slots'[i] = None \/ slots'[i] = slots[i])
      PROVE  Numbered'
  <2>1. \A i \in 1..Len(slots) : slots[i] < nextId
    BY DEF Numbered
  <2>2. \A i \in 1..Len(slots') : slots'[i] < nextId'
    BY <1>1, <1>2, <2>1 DEF None
  <2>3. \A i \in LiveSlots' : i \in LiveSlots /\ slots'[i] = slots[i]
    BY <1>2 DEF LiveSlots
  <2>4. \A i, j \in LiveSlots' : slots'[i] = slots'[j] => i = j
    BY <2>3 DEF Numbered
  <2>5. QED
    BY <2>2, <2>4 DEF Numbered
<1>3. CASE Reserve(c)
  <2>1. /\ \A i \in 1..Len(slots) : slots'[i] = slots[i]
        /\ slots'[Len(slots) + 1] = None
        /\ 1..Len(slots') = (1..Len(slots)) \cup {Len(slots) + 1}
        /\ LiveSlots' = LiveSlots /\ \A i \in LiveSlots : slots'[i] = slots[i]
    BY <1>3, ReserveFacts
  <2>2. nextId' = nextId
    BY <1>3 DEF Reserve
  <2>3. \A i \in 1..Len(slots') : slots'[i] < nextId'
    BY <1>1, <2>1, <2>2 DEF Numbered, None
  <2>4. QED
    BY <2>1, <2>3 DEF Numbered
<1>4. CASE StartSucceeds(c) /\ at[c] > Len(slots)
  <2>1. slots' = slots /\ nextId' = nextId + 1
    BY <1>4 DEF StartSucceeds, StoreOutOfBounds
  <2>2. QED
    BY <1>1, <2>1 DEF Numbered, LiveSlots
<1>5. CASE StartSucceeds(c) /\ ~(at[c] > Len(slots))
  <2>1. /\ Len(slots') = Len(slots) /\ nextId' = nextId + 1
        /\ \A i \in 1..Len(slots) : slots'[i] = IF i = at[c] THEN nextId ELSE slots[i]
    BY <1>5, StoreFacts
  <2>2. \A i \in 1..Len(slots) : slots[i] < nextId
    BY DEF Numbered
  <2>3. \A i \in 1..Len(slots') : slots'[i] < nextId'
    BY SMTT(20), <1>1, <2>1, <2>2
  <2>4. ASSUME NEW i \in LiveSlots', NEW j \in LiveSlots', slots'[i] = slots'[j]
        PROVE  i = j
    <3>1. i \in 1..Len(slots) /\ j \in 1..Len(slots) /\ slots'[i] # None
      BY <2>1, <2>4 DEF LiveSlots
    <3>2. slots[i] # nextId /\ slots[j] # nextId
      BY <1>1, <2>2, <3>1
    <3>3. CASE i # at[c] /\ j # at[c]
      BY <2>1, <2>4, <3>1, <3>3 DEF Numbered, LiveSlots
    <3>4. QED
      BY <2>1, <2>4, <3>1, <3>2, <3>3
  <2>5. QED
    BY <2>3, <2>4 DEF Numbered
<1>6. CASE StartFails(c)
  <2>1. \A i \in 1..Len(slots') : i \in 1..Len(slots)
          /\ slots'[i] = IF i = at[c] THEN None ELSE slots[i]
    BY <1>6, UndoFacts
  <2>2. nextId' = nextId
    BY <1>6 DEF StartFails
  <2>3. QED
    BY <1>2, <2>1, <2>2
<1>7. CASE Quarantine(c)
  <2>1. \A i \in 1..Len(slots') : slots'[i] = None \/ slots'[i] = slots[i]
    BY <1>7, QuarantineFacts
  <2>2. \A i \in 1..Len(slots') : i \in 1..Len(slots)
    BY <1>7, QuarantineFacts
  <2>3. nextId' = nextId
    BY <1>7 DEF Quarantine
  <2>4. QED
    BY <1>2, <2>1, <2>2, <2>3
<1>8. CASE QuarantineNothing(c)
  <2>1. \A i \in 1..Len(slots') : i \in 1..Len(slots) /\ slots'[i] = slots[i]
    BY <1>8, NothingFacts
  <2>2. nextId' = nextId
    BY <1>8 DEF QuarantineNothing
  <2>3. QED
    BY <1>2, <2>1, <2>2
<1>9. CASE Shrink(c)
  <2>1. \A i \in 1..Len(slots') :
          i \in 1..Len(slots) /\ (slots'[i] = None \/ slots'[i] = slots[i])
    BY <1>9, ShrinkFacts
  <2>2. nextId' = nextId
    BY <1>9 DEF Shrink
  <2>3. QED
    BY <1>2, <2>1, <2>2
<1>10. CASE UNCHANGED <<slots, active, nextId, trimmed>>
  BY <1>10 DEF Numbered, LiveSlots
<1>11. QED
  BY <1>3, <1>4, <1>5, <1>6, <1>7, <1>8, <1>9, <1>10, SlotsStay

LEMMA TrimmedStays ==
  ASSUME TypeOK, NEW c \in Callers, Step(c), ~trimmed'
  PROVE  /\ ~trimmed
         /\ Quarantine(c) \/ QuarantineNothing(c) \/ Shrink(c) =>
              \A d \in Callers : pc'[d] = "starting" => ~(at'[d] > Len(slots'))
<1>1. CASE Quarantine(c) \/ QuarantineNothing(c) \/ Shrink(c)
  BY <1>1 DEF Quarantine, QuarantineNothing, Shrink, Recorded
<1>2. CASE Reserve(c) \/ StartSucceeds(c) \/ StartFails(c)
  BY <1>2 DEF Reserve, StartSucceeds, StartFails, Quarantine, QuarantineNothing,
              Shrink, history
<1>3. QED
  BY <1>1, <1>2, SlotsStay

(* Only a reservation makes a caller a creator.                            *)
LEMMA OnlyReserveStarts ==
  ASSUME TypeOK, Control, Parked, NEW c \in Callers, Step(c), ~Reserve(c)
  PROVE  pc'[c] # "starting"
<1>1. \A stage \in Stages : pc' = [pc EXCEPT ![c] = stage] => pc'[c] = stage
  BY DEF TypeOK
<1>2. ASSUME NEW stage \in Steady, NotifyOne(c, stage), pc[c] # "waiting"
      PROVE  pc'[c] # "starting"
  <2>1. stage \in Stages \ {"waiting"} /\ stage # "starting"
    BY DEF Steady
  <2>2. pc'[c] = stage
    BY <1>2, <2>1, NotifyFacts
  <2>3. QED
    BY <2>1, <2>2
<1>3. CASE Moves(c)
  BY <1>1, <1>3 DEF Moves, Steady
<1>4. CASE Notifies(c)
  BY <1>2, <1>4 DEF Notifies, Steady
<1>5. CASE Park(c) \/ WakeUp(c)
  BY <1>1, <1>5 DEF Park, WakeUp, Goto, Stages
<1>6. CASE StartSucceeds(c) \/ StartFails(c)
  <2>1. /\ pc[c] = "starting"
        /\ \/ (\E stage \in Steady : pc' = [pc EXCEPT ![c] = stage])
           \/ \E stage \in Steady : NotifyOne(c, stage)
    BY <1>6, StartFacts
  <2>2. QED
    BY <1>1, <1>2, <2>1 DEF Steady
<1>7. QED
  BY <1>3, <1>4, <1>5, <1>6, StepKinds

(* A slot stays reserved for its creator until it is stored or given up.   *)
LEMMA StepReserved ==
  ASSUME TypeOK, Control, Parked, Numbered, Reserved, NEW c \in Callers, Step(c),
         ~trimmed'
  PROVE  Reserved'
<1>1. \A d \in Callers \ {c} : pc'[d] = "starting" =>
        /\ pc[d] = "starting" /\ at'[d] = at[d]
        /\ at[d] \in 1..Len(slots) /\ slots[at[d]] = None
  <2>1. \A d \in Callers \ {c} : pc'[d] = "starting" => pc[d] = "starting" /\ at'[d] = at[d]
    BY OthersMove, OthersSame DEF SameFor
  <2>2. QED
    BY <2>1 DEF Reserved
<1>2. Len(slots) \in Nat /\ \A d \in Callers : at[d] \in Nat
  BY DEF TypeOK
<1>3. ASSUME ~Reserve(c),
             \A d \in Callers \ {c} : pc'[d] = "starting" =>
               at[d] \in 1..Len(slots') /\ slots'[at[d]] = None
      PROVE  Reserved'
  <2>1. pc'[c] # "starting"
    BY <1>3, OnlyReserveStarts
  <2>2. \A d, e \in Callers : pc'[d] = "starting" /\ pc'[e] = "starting" /\ at'[d] = at'[e]
          => d = e
    BY <1>1, <2>1 DEF Reserved
  <2>3. \A d \in Callers : pc'[d] = "starting" =>
          at'[d] \in 1..Len(slots') /\ slots'[at'[d]] = None
    BY <1>1, <1>3, <2>1
  <2>4. QED
    BY <2>2, <2>3 DEF Reserved
<1>4. CASE Reserve(c)
  <2>1. /\ Len(slots') = Len(slots) + 1
        /\ \A i \in 1..Len(slots) : slots'[i] = slots[i]
        /\ slots'[Len(slots) + 1] = None
        /\ 1..Len(slots') = (1..Len(slots)) \cup {Len(slots) + 1}
    BY <1>4, ReserveFacts
  <2>2. at'[c] = Len(slots) + 1
    BY <1>4 DEF Reserve, TypeOK
  <2>3. \A d \in Callers \ {c} : pc'[d] = "starting" => at'[d] # at'[c]
    BY <1>1, <1>2, <2>2
  <2>4. \A d, e \in Callers : pc'[d] = "starting" /\ pc'[e] = "starting" /\ at'[d] = at'[e]
          => d = e
    BY <1>1, <2>3 DEF Reserved
  <2>5. \A d \in Callers : pc'[d] = "starting" =>
          at'[d] \in 1..Len(slots') /\ slots'[at'[d]] = None
    BY <1>1, <2>1, <2>2
  <2>6. QED
    BY <2>4, <2>5 DEF Reserved
<1>5. CASE StartSucceeds(c) \/ StartFails(c)
  <2>1. pc[c] = "starting"
    BY <1>5, StartFacts
  <2>2. at[c] \in 1..Len(slots) /\ ~(at[c] > Len(slots))
        /\ \A d \in Callers \ {c} : pc'[d] = "starting" => at[d] # at[c]
    BY <1>1, <1>2, <2>1 DEF Reserved
  <2>3. ~Reserve(c)
    BY <2>1 DEF Reserve
  <2>4. CASE StartSucceeds(c)
    <3>1. Len(slots') = Len(slots)
      BY <2>2, <2>4, StoreFacts
    <3>2. \A i \in 1..Len(slots) : slots'[i] = IF i = at[c] THEN nextId ELSE slots[i]
      BY <2>2, <2>4, StoreFacts
    <3>3. QED
      BY <1>1, <1>3, <2>2, <2>3, <3>1, <3>2
  <2>5. CASE StartFails(c)
    <3>1. \A i \in 1..Len(slots') : slots'[i] = IF i = at[c] THEN None ELSE slots[i]
      BY <2>5, UndoFacts
    <3>2. at[c] # Len(slots) => Len(slots') = Len(slots)
      BY <2>5, UndoFacts
    <3>3. at[c] = Len(slots) => Len(slots') = Len(slots) - 1
      <4>1. slots # <<>>
        BY <2>2
      <4>2. QED
        BY <2>5, <4>1, UndoFacts
    <3>4. \A d \in Callers \ {c} : pc'[d] = "starting" => at[d] \in 1..Len(slots')
      BY <1>1, <1>2, <2>2, <3>2, <3>3
    <3>5. QED
      BY <1>1, <1>3, <2>2, <2>3, <3>1, <3>4
  <2>6. QED
    BY <1>5, <2>4, <2>5
<1>6. CASE Quarantine(c) \/ QuarantineNothing(c) \/ Shrink(c)
  <2>1. \A d \in Callers \ {c} : pc'[d] = "starting" => ~(at[d] > Len(slots'))
    BY <1>1, <1>6, TrimmedStays
  <2>2. ~Reserve(c)
    BY <1>6 DEF Quarantine, QuarantineNothing, Shrink, Reserve
  <2>3. Len(slots') \in Nat
    BY StepTypes, StepIsNext DEF TypeOK
  <2>4. \A i \in 1..Len(slots') : slots[i] = None => slots'[i] = None
    <3>1. CASE Quarantine(c)
      BY <3>1, QuarantineFacts
    <3>2. CASE QuarantineNothing(c)
      BY <3>2, NothingFacts
    <3>3. CASE Shrink(c)
      BY <3>3, ShrinkFacts
    <3>4. QED
      BY <1>6, <3>1, <3>2, <3>3
  <2>5. \A d \in Callers \ {c} : pc'[d] = "starting" => at[d] \in 1..Len(slots')
    BY <1>1, <1>2, <2>1, <2>3
  <2>6. QED
    BY <1>1, <1>3, <2>2, <2>4, <2>5
<1>7. CASE UNCHANGED slots /\ ~Reserve(c)
  BY <1>1, <1>3, <1>7
<1>8. QED
  BY <1>4, <1>5, <1>6, <1>7, SlotsStay

(* Three sets share the slots with an isolate: the idle indices, those     *)
(* behind the guards of one caller, and those of the others.               *)
Others(c) == UNION {Held(d) : d \in Callers \ {c}}

LEMMA PlacedFacts ==
  ASSUME Placed, NEW c \in Callers
  PROVE  /\ LiveSlots = Elements(idle) \cup Held(c) \cup Others(c)
         /\ Held(c) \cap Elements(idle) = {} /\ Others(c) \cap Elements(idle) = {}
         /\ Held(c) \cap Others(c) = {}
         /\ GuardsSit(leases[c]) /\ Distinct(idle)
<1>1. LiveSlots = Elements(idle) \cup UNION {Held(d) : d \in Callers}
  BY DEF Placed
<1>2. UNION {Held(d) : d \in Callers} = Held(c) \cup Others(c)
  BY DEF Others
<1>3. Held(c) \cap Elements(idle) = {} /\ GuardsSit(leases[c]) /\ Distinct(idle)
  BY DEF Placed
<1>4. Others(c) \cap Elements(idle) = {}
  BY DEF Placed, Others
<1>5. Held(c) \cap Others(c) = {}
  BY DEF Placed, Others
<1>6. QED
  BY <1>1, <1>2, <1>3, <1>4, <1>5

(* A step moves slots between the stack and its caller's guards only.      *)
LEMMA PlacedNext ==
  ASSUME Placed, NEW c \in Callers, \A d \in Callers \ {c} : leases'[d] = leases[d],
         GuardsSit(leases[c])', Distinct(idle'),
         Held(c)' \cap Elements(idle') = {},
         Others(c) \cap Elements(idle') = {}, Others(c) \cap Held(c)' = {},
         LiveSlots' = Elements(idle') \cup Held(c)' \cup Others(c),
         \A i \in Others(c) : slots'[i] = slots[i]
  PROVE  Placed'
<1>1. \A d \in Callers \ {c} : Held(d)' = Held(d) /\ Held(d) \subseteq Others(c)
  BY DEF Held, Others
<1>2. ASSUME NEW d \in Callers PROVE GuardsSit(leases[d])'
  <2>1. CASE d = c
    BY <2>1
  <2>2. CASE d # c
    <3>1. leases'[d] = leases[d] /\ GuardsSit(leases[d]) /\ Held(d) \subseteq Others(c)
      BY <1>1, <2>2 DEF Placed
    <3>2. \A n \in 1..Len(leases[d]) : leases[d][n].index \in Others(c)
      BY <3>1 DEF Held, Indices
    <3>3. QED
      BY <3>1, <3>2 DEF GuardsSit
  <2>3. QED
    BY <2>1, <2>2
<1>3. ASSUME NEW d \in Callers, NEW e \in Callers, d # e
      PROVE  Held(d)' \cap Held(e)' = {}
  <2>1. CASE d = c
    BY <1>1, <1>3, <2>1
  <2>2. CASE e = c
    BY <1>1, <1>3, <2>2
  <2>3. CASE d # c /\ e # c
    BY <1>1, <1>3, <2>3 DEF Placed
  <2>4. QED
    BY <2>1, <2>2, <2>3
<1>4. ASSUME NEW d \in Callers PROVE Held(d)' \cap Elements(idle') = {}
  BY <1>1
<1>5. UNION {Held(d)' : d \in Callers} = Held(c)' \cup Others(c)
  BY <1>1 DEF Others
<1>6. LiveSlots' = Elements(idle') \cup UNION {Held(d)' : d \in Callers}
  BY <1>5
<1>7. QED
  BY <1>2, <1>3, <1>4, <1>6 DEF Placed

(* The caller's own guards while it keeps them.                            *)
LEMMA GuardsKept ==
  ASSUME Placed, NEW c \in Callers, leases'[c] = leases[c],
         \A i \in Held(c) : slots'[i] = slots[i]
  PROVE  Held(c)' = Held(c) /\ GuardsSit(leases[c])'
<1>1. GuardsSit(leases[c]) /\ \A n \in 1..Len(leases[c]) : leases[c][n].index \in Held(c)
  BY DEF Placed, Held, Indices
<1>2. QED
  BY <1>1 DEF GuardsSit, Held, Indices

LEMMA NoGuards ==
  ASSUME NEW c \in Callers, leases[c] = <<>>
  PROVE  Held(c) = {}
BY DEF Held, Indices

LEMMA OneGuard ==
  ASSUME NEW c \in Callers, NEW i \in Nat, NEW n,
         leases'[c] = <<[index |-> i, isolate |-> n]>>, slots'[i] = n
  PROVE  Held(c)' = {i} /\ GuardsSit(leases[c])'
<1>1. Len(leases'[c]) = 1 /\ leases'[c][1] = [index |-> i, isolate |-> n]
  BY DEF Held, Indices
<1>2. 1..1 = {1}
  OBVIOUS
<1>3. QED
  BY <1>1, <1>2 DEF Held, Indices, GuardsSit

(* The first guard of a caller is gone.                                    *)
LEMMA GuardDropped ==
  ASSUME TypeOK, Placed, NEW c \in Callers, leases[c] # <<>>,
         leases'[c] = Tail(leases[c]),
         \A i \in Held(c) \ {Head(leases[c]).index} : slots'[i] = slots[i]
  PROVE  /\ Head(leases[c]).index \in Held(c)
         /\ Held(c)' = Held(c) \ {Head(leases[c]).index}
         /\ GuardsSit(leases[c])'
<1> DEFINE g == leases[c]
           t == leases'[c]
<1>1. g \in Seq(Guard) /\ g # <<>> /\ t = Tail(g)
  BY DEF TypeOK
<1>2. /\ \A n \in 1..Len(g) : slots[g[n].index] = g[n].isolate
      /\ \A m, n \in 1..Len(g) : g[m].index = g[n].index => m = n
  BY DEF Placed, GuardsSit
<1>3. Held(c) = Indices(g) /\ Held(c)' = Indices(t)
  BY DEF Held, Indices
<1>4. \A i \in Indices(g) \ {Head(g).index} : slots'[i] = slots[i]
  BY DEF Held
<1> HIDE DEF g, t
<1>5. /\ Len(g) \in Nat \ {0} /\ Head(g) = g[1] /\ Len(t) = Len(g) - 1
      /\ \A n \in 1..Len(g) - 1 : t[n] = g[n + 1]
  BY <1>1, TailFacts
<1>6. \A n \in 1..Len(t) : n + 1 \in 1..Len(g) /\ t[n] = g[n + 1]
  BY <1>5
<1>7. \A n \in 1..Len(g) : n = 1 \/ \E m \in 1..Len(t) : n = m + 1
  <2>1. \A n \in 1..Len(g) : n = 1 \/ n - 1 \in 1..Len(t)
    BY <1>5
  <2>2. \A n \in 1..Len(g) : n = (n - 1) + 1
    BY <1>5
  <2>3. QED
    BY <2>1, <2>2
<1>8. 1 \in 1..Len(g) /\ \A n \in 1..Len(t) : n + 1 # 1 /\ n \in Nat
  BY <1>5
<1>9. Head(g).index \in Indices(g)
  BY <1>5, <1>8 DEF Indices
<1>10. \A n \in 1..Len(t) : t[n].index \in Indices(g) \ {Head(g).index}
  <2>1. ASSUME NEW n \in 1..Len(t)
        PROVE  t[n].index \in Indices(g) /\ t[n].index # Head(g).index
    <3>1. n + 1 \in 1..Len(g) /\ t[n] = g[n + 1] /\ n + 1 # 1
      BY <1>6, <1>8
    <3>2. g[n + 1].index \in Indices(g)
      BY <3>1 DEF Indices
    <3>3. g[n + 1].index # g[1].index
      BY <1>2, <1>8, <3>1
    <3>4. QED
      BY <1>5, <3>1, <3>2, <3>3
  <2>2. QED
    BY <2>1
<1>11. \A i \in Indices(g) \ {Head(g).index} : i \in Indices(t)
  <2>1. ASSUME NEW i \in Indices(g), i # Head(g).index PROVE i \in Indices(t)
    <3>1. PICK n \in 1..Len(g) : i = g[n].index
      BY DEF Indices
    <3>2. PICK m \in 1..Len(t) : n = m + 1
      BY <1>5, <1>7, <2>1, <3>1
    <3>3. t[m].index = i
      BY <1>6, <3>1, <3>2
    <3>4. QED
      BY <3>3 DEF Indices
  <2>2. QED
    BY <2>1
<1>12. Indices(t) = Indices(g) \ {Head(g).index}
  BY <1>10, <1>11 DEF Indices
<1>13. \A n \in 1..Len(t) : slots'[t[n].index] = t[n].isolate
  BY <1>2, <1>4, <1>6, <1>10
<1>14. \A m, n \in 1..Len(t) : t[m].index = t[n].index => m = n
  <2>1. ASSUME NEW m \in 1..Len(t), NEW n \in 1..Len(t), t[m].index = t[n].index
        PROVE  m = n
    <3>1. m + 1 = n + 1
      BY <1>2, <1>6, <2>1
    <3>2. QED
      BY <1>8, <3>1
  <2>2. QED
    BY <2>1
<1>15. GuardsSit(leases[c])'
  BY <1>13, <1>14 DEF GuardsSit, t
<1>16. QED
  BY <1>3, <1>9, <1>12, <1>15 DEF g, t

(* The isolates counted: one more, one less.                               *)
LEMMA LiveCounts ==
  ASSUME TypeOK
  PROVE  /\ IsFiniteSet(LiveSlots) /\ Cardinality(LiveSlots) \in Nat
         /\ \A i : i \notin LiveSlots =>
              Cardinality(LiveSlots \cup {i}) = Cardinality(LiveSlots) + 1
         /\ \A i \in LiveSlots :
              Cardinality(LiveSlots \ {i}) = Cardinality(LiveSlots) - 1
         /\ \A S \in SUBSET LiveSlots :
              Cardinality(LiveSlots \ S) = Cardinality(LiveSlots) - Cardinality(S)
<1>1. IsFiniteSet(LiveSlots) /\ Cardinality(LiveSlots) \in Nat
  <2>1. LiveSlots = LiveIn(slots) /\ slots \in Seq(Nat)
    BY DEF LiveSlots, LiveIn, TypeOK
  <2>2. QED
    BY <2>1, LiveFinite
<1>2. \A i : i \notin LiveSlots =>
        Cardinality(LiveSlots \cup {i}) = Cardinality(LiveSlots) + 1
  BY <1>1, FS_AddElement
<1>3. \A i \in LiveSlots : Cardinality(LiveSlots \ {i}) = Cardinality(LiveSlots) - 1
  BY <1>1, FS_RemoveElement
<1>4. ASSUME NEW S \in SUBSET LiveSlots
      PROVE  Cardinality(LiveSlots \ S) = Cardinality(LiveSlots) - Cardinality(S)
  <2>1. Cardinality(LiveSlots \ S)
          = Cardinality(LiveSlots) - Cardinality(LiveSlots \cap S)
    BY <1>1, FS_Difference
  <2>2. LiveSlots \cap S = S
    OBVIOUS
  <2>3. QED
    BY <2>1, <2>2
<1>5. QED
  BY <1>1, <1>2, <1>3, <1>4

Counted == active = Cardinality(LiveSlots)

LEMMA PopPlaced ==
  ASSUME TypeOK, Control, Placed, NEW c \in Callers, PopIdle(c)
  PROVE  Placed' /\ result'[c] = "ok"
<1> DEFINE i == idle[Len(idle)]
           g == [index |-> i, isolate |-> slots[i]]
<1>1. idle \in Seq(Nat) /\ idle # <<>> /\ slots' = slots
      /\ idle' = SubSeq(idle, 1, Len(idle) - 1) /\ pc[c] = "locking"
  BY DEF PopIdle, TypeOK
<1>2. /\ LiveSlots = Elements(idle) \cup Held(c) \cup Others(c)
      /\ Others(c) \cap Elements(idle) = {} /\ Distinct(idle)
  BY PlacedFacts
<1>3. i \in Elements(idle) /\ Len(idle) \in Nat \ {0} /\ i \in Nat
  BY <1>1, PopFacts
<1>4. Elements(idle') = Elements(idle) \ {i} /\ Distinct(idle')
  BY <1>1, <1>2, PopFacts
<1> HIDE DEF i
<1>5. i \in LiveSlots /\ Live(i)
  BY <1>2, <1>3 DEF LiveSlots, Live
<1>6. leases' = [leases EXCEPT ![c] = <<g>>] /\ result' = [result EXCEPT ![c] = "ok"]
  BY <1>5 DEF PopIdle, Return, i
<1> HIDE DEF g
<1>7. leases'[c] = <<g>> /\ result'[c] = "ok" /\ \A d \in Callers \ {c} : leases'[d] = leases[d]
  BY <1>6 DEF TypeOK
<1>8. Held(c)' = {i} /\ GuardsSit(leases[c])'
  BY <1>1, <1>3, <1>7, OneGuard DEF g
<1>9. Held(c) = {}
  BY <1>1, NoGuards DEF Control, ControlOf, Leasing
<1>10. LiveSlots' = LiveSlots
  BY <1>1 DEF LiveSlots
<1>11. LiveSlots' = Elements(idle') \cup Held(c)' \cup Others(c)
  BY <1>2, <1>3, <1>4, <1>8, <1>9, <1>10
<1>12. /\ Held(c)' \cap Elements(idle') = {} /\ Others(c) \cap Elements(idle') = {}
       /\ Others(c) \cap Held(c)' = {}
  BY <1>2, <1>3, <1>4, <1>8
<1>13. Placed'
  BY <1>1, <1>4, <1>7, <1>8, <1>11, <1>12, PlacedNext
<1>14. QED
  BY <1>7, <1>13

LEMMA ReleasePlaced ==
  ASSUME TypeOK, Control, Parked, Placed, NEW c \in Callers,
         CallReturns(c) \/ CallFails(c) \/ DropUnused(c) \/ Settle(c)
  PROVE  Placed'
<1> DEFINE i == Head(leases[c]).index
<1>1. pc[c] \in Releasing
  BY ReleaseTypes
<1>2. PICK stage \in {"out", "calling", "releasing"} : ReleaseSlot(c, stage)
  BY ReleaseTypes
<1>3. /\ leases[c] # <<>> /\ i \in Nat /\ idle' = Append(idle, i)
      /\ leases'[c] = Tail(leases[c]) /\ \A d \in Callers \ {c} : leases'[d] = leases[d]
      /\ slots' = slots
  BY <1>1, <1>2, ReleaseFacts
<1>4. /\ LiveSlots = Elements(idle) \cup Held(c) \cup Others(c)
      /\ Held(c) \cap Elements(idle) = {} /\ Others(c) \cap Elements(idle) = {}
      /\ Held(c) \cap Others(c) = {} /\ Distinct(idle)
  BY PlacedFacts
<1>5. i \in Held(c) /\ Held(c)' = Held(c) \ {i} /\ GuardsSit(leases[c])'
  BY <1>3, GuardDropped
<1> HIDE DEF i
<1>6. idle \in Seq(Nat) /\ LiveSlots' = LiveSlots
  BY <1>3 DEF TypeOK, LiveSlots
<1>7. Elements(idle') = Elements(idle) \cup {i}
  BY <1>3, <1>6, AppendFacts
<1>8. Distinct(idle')
  BY <1>3, <1>4, <1>5, <1>6, AppendFacts
<1>9. LiveSlots' = Elements(idle') \cup Held(c)' \cup Others(c)
  BY <1>4, <1>5, <1>6, <1>7
<1>10. /\ Held(c)' \cap Elements(idle') = {} /\ Others(c) \cap Elements(idle') = {}
       /\ Others(c) \cap Held(c)' = {}
  BY <1>4, <1>5, <1>7
<1>11. QED
  BY <1>3, <1>5, <1>8, <1>9, <1>10, PlacedNext

LEMMA StorePlaced ==
  ASSUME TypeOK, Control, Placed, Reserved, Counted, NEW c \in Callers, StartSucceeds(c)
  PROVE  Placed' /\ Counted' /\ result' = result
<1> DEFINE i == at[c]
<1>1. pc[c] = "starting" /\ i \in 1..Len(slots) /\ slots[i] = None /\ Len(slots) \in Nat
      /\ i \in Nat /\ ~(i > Len(slots)) /\ nextId \in Nat \ {0} /\ idle \in Seq(Nat)
  BY DEF StartSucceeds, Reserved, TypeOK
<1>2. Len(slots') = Len(slots) /\ active' = active + 1 /\ result' = result
  BY <1>1, StoreFacts
<1>3. \A j \in 1..Len(slots) : slots'[j] = IF j = i THEN nextId ELSE slots[j]
  BY <1>1, StoreFacts
<1>4. /\ LiveSlots = Elements(idle) \cup Held(c) \cup Others(c)
      /\ Held(c) \cap Elements(idle) = {} /\ Others(c) \cap Elements(idle) = {}
      /\ Held(c) \cap Others(c) = {} /\ Distinct(idle)
  BY PlacedFacts
<1>5. IF target[c] = Lease
      THEN /\ leases' = [leases EXCEPT ![c] = <<[index |-> i, isolate |-> nextId]>>]
           /\ idle' = idle
      ELSE /\ idle' = Append(idle, i) /\ leases' = leases
  BY <1>1 DEF StartSucceeds
<1> HIDE DEF i
<1>6. i \notin LiveSlots /\ LiveSlots' = LiveSlots \cup {i} /\ slots'[i] = nextId
      /\ \A j \in LiveSlots : slots'[j] = slots[j]
  BY <1>1, <1>2, <1>3 DEF LiveSlots, None
<1>7. Cardinality(LiveSlots \cup {i}) = Cardinality(LiveSlots) + 1
  BY <1>6, LiveCounts
<1>8. Counted'
  BY <1>2, <1>6, <1>7 DEF Counted
<1>9. CASE target[c] = Lease
  <2> DEFINE g == [index |-> i, isolate |-> nextId]
  <2>1. leases' = [leases EXCEPT ![c] = <<g>>] /\ idle' = idle
    BY <1>5, <1>9
  <2> HIDE DEF g
  <2>2. leases'[c] = <<g>> /\ \A d \in Callers \ {c} : leases'[d] = leases[d]
    BY <2>1 DEF TypeOK
  <2>3. Held(c)' = {i} /\ GuardsSit(leases[c])'
    BY <1>1, <1>6, <2>2, OneGuard DEF g
  <2>4. Held(c) = {}
    BY <1>1, <1>9, NoGuards DEF Control, ControlOf, Spawning
  <2>5. LiveSlots' = Elements(idle') \cup Held(c)' \cup Others(c)
    BY <1>4, <1>6, <2>1, <2>3, <2>4
  <2>6. /\ Held(c)' \cap Elements(idle') = {} /\ Others(c) \cap Elements(idle') = {}
        /\ Others(c) \cap Held(c)' = {}
    BY <1>4, <1>6, <2>1, <2>3
  <2>7. Distinct(idle') /\ \A j \in Others(c) : slots'[j] = slots[j]
    BY <1>4, <1>6, <2>1
  <2>8. QED
    BY <1>2, <1>8, <2>2, <2>3, <2>5, <2>6, <2>7, PlacedNext
<1>10. CASE target[c] # Lease
  <2>1. idle' = Append(idle, i) /\ leases' = leases
    BY <1>5, <1>10
  <2>2. Elements(idle') = Elements(idle) \cup {i}
    BY <1>1, <2>1, AppendFacts
  <2>3. Distinct(idle')
    BY <1>1, <1>4, <1>6, <2>1, AppendFacts
  <2>4. Held(c)' = Held(c) /\ GuardsSit(leases[c])'
    BY <1>4, <1>6, <2>1, GuardsKept
  <2>5. LiveSlots' = Elements(idle') \cup Held(c)' \cup Others(c)
    BY <1>4, <1>6, <2>2, <2>4
  <2>6. /\ Held(c)' \cap Elements(idle') = {} /\ Others(c) \cap Elements(idle') = {}
        /\ Others(c) \cap Held(c)' = {}
    BY <1>4, <1>6, <2>2, <2>4
  <2>7. \A j \in Others(c) : slots'[j] = slots[j]
    BY <1>4, <1>6
  <2>8. QED
    BY <1>2, <1>8, <2>1, <2>3, <2>4, <2>5, <2>6, <2>7, PlacedNext
<1>11. QED
  BY <1>9, <1>10

LEMMA QuarantinePlaced ==
  ASSUME TypeOK, Control, Placed, Counted, NEW c \in Callers, Quarantine(c)
  PROVE  Placed' /\ Counted' /\ result' = result
<1> DEFINE i == Head(leases[c]).index
<1>1. /\ leases[c] # <<>> /\ i \in LiveSlots /\ LiveSlots' = LiveSlots \ {i}
      /\ \A j \in LiveSlots' : slots'[j] = slots[j]
      /\ active' = active - 1 /\ leases'[c] = Tail(leases[c])
      /\ \A d \in Callers \ {c} : leases'[d] = leases[d]
  BY QuarantineFacts
<1>2. Elements(idle') = Elements(idle) \ {i} /\ (Distinct(idle) => Distinct(idle'))
  BY QuarantineFacts
<1>3. /\ LiveSlots = Elements(idle) \cup Held(c) \cup Others(c)
      /\ Held(c) \cap Elements(idle) = {} /\ Others(c) \cap Elements(idle) = {}
      /\ Held(c) \cap Others(c) = {} /\ Distinct(idle)
  BY PlacedFacts
<1>4. \A j \in Held(c) \ {i} : slots'[j] = slots[j]
  BY <1>1, <1>3
<1>5. i \in Held(c) /\ Held(c)' = Held(c) \ {i} /\ GuardsSit(leases[c])'
  BY <1>1, <1>4, GuardDropped
<1>6. result' = result
  BY DEF Quarantine
<1> HIDE DEF i
<1>7. Cardinality(LiveSlots \ {i}) = Cardinality(LiveSlots) - 1
  BY <1>1, LiveCounts
<1>8. Counted'
  BY <1>1, <1>7 DEF Counted
<1>9. LiveSlots' = Elements(idle') \cup Held(c)' \cup Others(c)
  BY <1>1, <1>2, <1>3, <1>5
<1>10. /\ Held(c)' \cap Elements(idle') = {} /\ Others(c) \cap Elements(idle') = {}
       /\ Others(c) \cap Held(c)' = {}
  BY <1>2, <1>3, <1>5
<1>11. \A j \in Others(c) : slots'[j] = slots[j]
  BY <1>1, <1>3, <1>5
<1>12. QED
  BY <1>1, <1>2, <1>3, <1>5, <1>6, <1>8, <1>9, <1>10, <1>11, PlacedNext

LEMMA ShrinkPlaced ==
  ASSUME TypeOK, Control, Numbered, Placed, Counted, NEW c \in Callers, Shrink(c)
  PROVE  Placed' /\ Counted' /\ result' = result
<1>1. PICK gone \in SUBSET LiveSlots :
        /\ active' = active - Cardinality(gone)
        /\ gone \subseteq Elements(idle) /\ LiveSlots' = LiveSlots \ gone
        /\ \A i \in LiveSlots' : slots'[i] = slots[i]
        /\ Elements(idle') = Elements(idle) \ gone
        /\ Distinct(idle) => Distinct(idle')
  BY ShrinkFacts
<1>2. leases' = leases /\ result' = result
  BY DEF Shrink
<1>3. /\ LiveSlots = Elements(idle) \cup Held(c) \cup Others(c)
      /\ Held(c) \cap Elements(idle) = {} /\ Others(c) \cap Elements(idle) = {}
      /\ Held(c) \cap Others(c) = {} /\ Distinct(idle)
  BY PlacedFacts
<1>4. \A i \in Held(c) \cup Others(c) : slots'[i] = slots[i]
  BY <1>1, <1>3
<1>5. Held(c)' = Held(c) /\ GuardsSit(leases[c])'
  BY <1>2, <1>4, GuardsKept
<1>6. Cardinality(LiveSlots \ gone) = Cardinality(LiveSlots) - Cardinality(gone)
  BY LiveCounts
<1>7. Counted'
  BY <1>1, <1>6 DEF Counted
<1>8. LiveSlots' = Elements(idle') \cup Held(c)' \cup Others(c)
  BY <1>1, <1>3, <1>5
<1>9. /\ Held(c)' \cap Elements(idle') = {} /\ Others(c) \cap Elements(idle') = {}
      /\ Others(c) \cap Held(c)' = {}
  BY <1>1, <1>3, <1>5
<1>10. QED
  BY <1>1, <1>2, <1>3, <1>4, <1>5, <1>7, <1>8, <1>9, PlacedNext

LEMMA AcquireAllPlaced ==
  ASSUME TypeOK, Control, Placed, NEW c \in Callers, AcquireAll(c)
  PROVE  Placed' /\ result' = result /\ active' = active
<1> DEFINE s == Sorted(idle)
           t == leases'[c]
           G(n) == [index |-> s[n], isolate |-> slots[s[n]]]
<1>1. s \in Seq(Int) /\ Len(s) = Len(idle) /\ Elements(s) = Elements(idle)
  BY AcquireAllFacts
<1>2. Distinct(idle) => Distinct(s)
  BY AcquireAllFacts
<1>3. /\ \A d \in Callers \ {c} : leases'[d] = leases[d]
      /\ Len(t) = Len(idle)
      /\ \A n \in 1..Len(idle) : t[n] = G(n)
  BY AcquireAllFacts
<1>4. Elements(idle') = {} /\ Distinct(idle')
  BY AcquireAllFacts
<1>5. slots' = slots /\ result' = result /\ active' = active
      /\ pc[c] = "acquireAll"
  BY DEF AcquireAll
<1>6. /\ LiveSlots = Elements(idle) \cup Held(c) \cup Others(c)
      /\ Others(c) \cap Elements(idle) = {} /\ Distinct(idle)
  BY PlacedFacts
<1>7. Held(c) = {}
  BY <1>5, NoGuards DEF Control, ControlOf
<1> HIDE DEF s
<1>8. Elements(s) = {s[n] : n \in 1..Len(idle)}
  BY <1>1 DEF Elements
<1>9. \A m, n \in 1..Len(idle) : s[m] = s[n] => m = n
  BY <1>1, <1>2, <1>6 DEF Distinct
<1>10. /\ Len(leases'[c]) = Len(idle)
       /\ \A n \in 1..Len(idle) :
            leases'[c][n].index = s[n] /\ leases'[c][n].isolate = slots[s[n]]
  <2>1. \A n : G(n).index = s[n] /\ G(n).isolate = slots[s[n]]
    OBVIOUS
  <2> HIDE DEF G
  <2>2. QED
    BY <1>3, <2>1
<1>11. Held(c)' = Elements(idle)
  <2>1. Held(c)' = {leases'[c][n].index : n \in 1..Len(leases'[c])}
    BY DEF Held, Indices
  <2>2. {leases'[c][n].index : n \in 1..Len(leases'[c])} = {s[n] : n \in 1..Len(idle)}
    BY <1>10
  <2>3. QED
    BY <1>1, <1>8, <2>1, <2>2
<1>12. GuardsSit(leases[c])'
  <2>1. \A n \in 1..Len(leases'[c]) :
          slots'[leases'[c][n].index] = leases'[c][n].isolate
    BY <1>5, <1>10
  <2>2. \A m, n \in 1..Len(leases'[c]) :
          leases'[c][m].index = leases'[c][n].index => m = n
    BY <1>9, <1>10
  <2>3. QED
    BY <2>1, <2>2 DEF GuardsSit
<1>13. LiveSlots' = LiveSlots
  BY <1>5 DEF LiveSlots
<1>14. QED
  BY <1>3, <1>4, <1>5, <1>6, <1>7, <1>11, <1>12, <1>13, PlacedNext

(* The other steps move nothing.                                           *)
LEMMA StillPlaced ==
  ASSUME TypeOK, Placed, Counted, NEW c \in Callers,
         UNCHANGED <<idle, leases, active>>, LiveSlots' = LiveSlots,
         \A i \in LiveSlots : slots'[i] = slots[i]
  PROVE  Placed' /\ Counted'
<1>1. /\ LiveSlots = Elements(idle) \cup Held(c) \cup Others(c)
      /\ Held(c) \cap Elements(idle) = {} /\ Others(c) \cap Elements(idle) = {}
      /\ Held(c) \cap Others(c) = {} /\ Distinct(idle)
  BY PlacedFacts
<1>2. Held(c)' = Held(c) /\ GuardsSit(leases[c])'
  BY <1>1, GuardsKept
<1>3. Placed'
  BY <1>1, <1>2, PlacedNext
<1>4. QED
  BY <1>3 DEF Counted

LEMMA UndoLive ==
  ASSUME TypeOK, Reserved, NEW c \in Callers, StartFails(c)
  PROVE  /\ LiveSlots' = LiveSlots /\ \A i \in LiveSlots : slots'[i] = slots[i]
         /\ UNCHANGED <<idle, leases, active>>
         /\ result' = result \/ result' = [result EXCEPT ![c] = "notStarted"]
<1>1. at[c] \in 1..Len(slots) /\ slots[at[c]] = None /\ Len(slots) \in Nat
      /\ slots # <<>> /\ ~(at[c] > Len(slots))
  BY DEF StartFails, Reserved, TypeOK
<1>2. \A i \in 1..Len(slots') : i \in 1..Len(slots)
         /\ slots'[i] = IF i = at[c] THEN None ELSE slots[i]
  BY UndoFacts
<1>3. at[c] # Len(slots) => Len(slots') = Len(slots)
  BY UndoFacts
<1>4. at[c] = Len(slots) => Len(slots') = Len(slots) - 1
  BY <1>1, UndoFacts
<1>5. \A i \in LiveSlots : i \in 1..Len(slots') /\ i # at[c]
  BY <1>1, <1>3, <1>4 DEF LiveSlots
<1>6. LiveSlots' = LiveSlots /\ \A i \in LiveSlots : slots'[i] = slots[i]
  BY <1>1, <1>2, <1>5 DEF LiveSlots
<1>7. UNCHANGED <<idle, leases, active>>
  BY <1>1 DEF StartFails
<1>8. result' = result \/ result' = [result EXCEPT ![c] = "notStarted"]
  BY <1>1 DEF StartFails, NotSpawned, Return
<1>9. QED
  BY <1>6, <1>7, <1>8

LEMMA QuietMoves ==
  ASSUME TypeOK, NEW c \in Callers, Step(c),
         ~PopIdle(c), ~(CallReturns(c) \/ CallFails(c) \/ DropUnused(c) \/ Settle(c)),
         ~Reserve(c), ~StartSucceeds(c), ~StartFails(c), ~Quarantine(c),
         ~QuarantineNothing(c), ~AcquireAll(c), ~AcquireAllFails(c), ~Shrink(c)
  PROVE  /\ UNCHANGED <<idle, leases>>
         /\ \/ result' = result
            \/ \E r \in {"ok", "atCapacity", "queueFull", "invalid"} :
                 result' = [result EXCEPT ![c] = r]
<1> USE DEF state, plan, Return
<1>1. CASE CallHandler(c) \/ WarmAll(c) \/ \E n \in Sizes : Resize(c, n) \/ SetDesiredSize(c, n)
  BY <1>1 DEF CallHandler, WarmAll, Resize, SetDesiredSize
<1>2. CASE ReadLimit(c) \/ ChooseSpawn(c) \/ SnapshotOptions(c) \/ ReadDesired(c)
           \/ Grow(c) \/ Grown(c)
  BY <1>2 DEF ReadLimit, ChooseSpawn, SnapshotOptions, ReadDesired, Grow, Grown
<1>3. CASE RefuseFailFast(c) \/ RefuseQueueFull(c) \/ Park(c) \/ WakeUp(c)
           \/ AcquireAllRefused(c)
  BY <1>3 DEF RefuseFailFast, RefuseQueueFull, Park, WakeUp, AcquireAllRefused
<1>4. CASE ReserveRefused(c)
  BY <1>4 DEF ReserveRefused, NotSpawned
<1>5. CASE ShrinkRefused(c) \/ ShrinkUnneeded(c) \/ SetMax(c)
  BY <1>5 DEF ShrinkRefused, ShrinkUnneeded, SetMax
<1>6. QED
  BY <1>1, <1>2, <1>3, <1>4, <1>5 DEF Step, PoolStep

(* Unless a reserved slot is cut off, the slots, the stack, the guards and *)
(* the counter agree after every step.                                     *)
LEMMA StepSound ==
  ASSUME TypeOK, Control, Parked, Numbered, Sound, NEW c \in Callers, Step(c), ~trimmed'
  PROVE  Sound'
<1>1. Reserved /\ Placed /\ Counted /\ NoPanic
  BY DEF Sound, Counted
<1>2. Reserved'
  BY <1>1, StepReserved
<1>3. ASSUME \/ result' = result
             \/ \E r \in Results \ {"panicked", "internal"} :
                  result' = [result EXCEPT ![c] = r]
      PROVE  NoPanic'
  BY <1>1, <1>3 DEF NoPanic, TypeOK
<1>4. ASSUME Placed', Counted', NoPanic' PROVE Sound'
  BY <1>2, <1>4 DEF Sound, Counted
<1>5. CASE PopIdle(c)
  <2>1. Placed' /\ result'[c] = "ok"
    BY <1>1, <1>5, PopPlaced
  <2>2. \A d \in Callers \ {c} : result'[d] = result[d]
    BY OthersSame DEF SameFor
  <2>3. NoPanic'
    BY <1>1, <2>1, <2>2 DEF NoPanic
  <2>4. Counted'
    BY <1>1, <1>5 DEF PopIdle, Counted, LiveSlots
  <2>5. QED
    BY <1>4, <2>1, <2>3, <2>4
<1>6. CASE CallReturns(c) \/ CallFails(c) \/ DropUnused(c) \/ Settle(c)
  <2>1. Placed'
    BY <1>1, <1>6, ReleasePlaced
  <2>2. UNCHANGED result \/ result' = [result EXCEPT ![c] = "failed"]
    BY <1>6, ReleaseTypes
  <2>3. UNCHANGED <<slots, active>>
    BY <1>6 DEF CallReturns, CallFails, DropUnused, Settle, ReleaseSlot
  <2>4. NoPanic' /\ Counted'
    BY <1>1, <1>3, <2>2, <2>3 DEF Results, Counted, LiveSlots
  <2>5. QED
    BY <1>4, <2>1, <2>4
<1>7. CASE Reserve(c)
  <2>1. LiveSlots' = LiveSlots /\ \A i \in LiveSlots : slots'[i] = slots[i]
    BY <1>7, ReserveFacts
  <2>2. UNCHANGED <<idle, leases, active, result>>
    BY <1>7 DEF Reserve
  <2>3. QED
    BY <1>1, <1>3, <1>4, <2>1, <2>2, StillPlaced
<1>8. CASE StartSucceeds(c)
  BY <1>1, <1>3, <1>4, <1>8, StorePlaced
<1>9. CASE StartFails(c)
  <2>1. /\ LiveSlots' = LiveSlots /\ \A i \in LiveSlots : slots'[i] = slots[i]
        /\ UNCHANGED <<idle, leases, active>>
        /\ result' = result \/ result' = [result EXCEPT ![c] = "notStarted"]
    BY <1>1, <1>9, UndoLive
  <2>2. Placed' /\ Counted' /\ NoPanic'
    BY <1>1, <1>3, <2>1, StillPlaced DEF Results
  <2>3. QED
    BY <1>4, <2>2
<1>10. CASE Quarantine(c)
  BY <1>1, <1>3, <1>4, <1>10, QuarantinePlaced
<1>11. CASE QuarantineNothing(c)
  <2>1. LiveSlots' = LiveSlots /\ \A i \in LiveSlots : slots'[i] = slots[i]
    BY <1>11, NothingFacts
  <2>2. UNCHANGED <<idle, leases, active, result>>
    BY <1>11 DEF QuarantineNothing
  <2>3. QED
    BY <1>1, <1>3, <1>4, <2>1, <2>2, StillPlaced
<1>12. CASE AcquireAll(c)
  <2>1. Placed' /\ result' = result /\ active' = active
    BY <1>1, <1>12, AcquireAllPlaced
  <2>2. slots' = slots
    BY <1>12 DEF AcquireAll
  <2>3. Counted'
    BY <1>1, <2>1, <2>2 DEF Counted, LiveSlots
  <2>4. QED
    BY <1>3, <1>4, <2>1, <2>3
<1>13. ~AcquireAllFails(c)
  <2>1. \A i \in Elements(idle) : Live(i)
    BY <1>1 DEF Placed, LiveSlots, Live
  <2>2. QED
    BY <2>1 DEF AcquireAllFails
<1>14. CASE Shrink(c)
  BY <1>1, <1>3, <1>4, <1>14, ShrinkPlaced
<1>15. ASSUME ~PopIdle(c), ~(CallReturns(c) \/ CallFails(c) \/ DropUnused(c) \/ Settle(c)),
              ~Reserve(c), ~StartSucceeds(c), ~StartFails(c), ~Quarantine(c),
              ~QuarantineNothing(c), ~AcquireAll(c), ~Shrink(c)
       PROVE  Sound'
  <2>1. UNCHANGED <<slots, active>>
    BY <1>15, SlotsStay
  <2>2. UNCHANGED <<idle, leases>>
    BY <1>13, <1>15, QuietMoves
  <2>3. \/ result' = result
        \/ \E r \in {"ok", "atCapacity", "queueFull", "invalid"} :
             result' = [result EXCEPT ![c] = r]
    BY <1>13, <1>15, QuietMoves
  <2>4. NoPanic'
    BY <1>3, <2>3 DEF Results
  <2>5. LiveSlots' = LiveSlots /\ \A i \in LiveSlots : slots'[i] = slots[i]
    BY <2>1 DEF LiveSlots
  <2>6. QED
    BY <1>1, <1>4, <2>1, <2>2, <2>4, <2>5, StillPlaced
<1>16. QED
  BY <1>5, <1>6, <1>7, <1>8, <1>9, <1>10, <1>11, <1>12, <1>14, <1>15

-----------------------------------------------------------------------------
(* The size while nobody changes it.                                       *)

LEMMA OnlyReadersDecide ==
  ASSUME TypeOK, Control, Parked, NEW c \in Callers, Step(c),
         ~ReadLimit(c), ~SnapshotOptions(c)
  PROVE  pc'[c] \notin {"locking", "reserve"}
<1>0. pc \in [Callers -> Stages] /\ job[c] \in {"call", "warm", "resize", "setDesired"}
  BY DEF TypeOK
<1> USE <1>0 DEF Return, Goto
<1>1. CASE CallHandler(c) \/ WarmAll(c) \/ \E n \in Sizes : Resize(c, n) \/ SetDesiredSize(c, n)
  BY <1>1 DEF CallHandler, WarmAll, Resize, SetDesiredSize
<1>2. CASE ChooseSpawn(c) \/ ReadDesired(c) \/ Grow(c)
  BY <1>2 DEF ChooseSpawn, ReadDesired, Grow
<1>3. CASE Grown(c)
  <2>1. (CASE job[c] = "call" -> NextCall(leases[c])
           [] job[c] = "warm" -> "acquireAll"
           [] job[c] = "resize" -> "out"
           [] job[c] = "setDesired" -> "shrink") \notin {"locking", "reserve"}
    BY DEF NextCall
  <2>2. QED
    BY <1>3, <2>1 DEF Grown
<1>4. CASE RefuseFailFast(c) \/ RefuseQueueFull(c) \/ PopIdle(c) \/ Park(c) \/ WakeUp(c)
  BY <1>4 DEF RefuseFailFast, RefuseQueueFull, PopIdle, Park, WakeUp
<1>5. CASE Reserve(c) \/ ReserveRefused(c)
  BY <1>5 DEF Reserve, ReserveRefused, NotSpawned, NextCall
<1>6. ASSUME NEW stage \in Stages \ {"waiting", "locking", "reserve"}, NotifyOne(c, stage),
             pc[c] # "waiting"
      PROVE  pc'[c] \notin {"locking", "reserve"}
  <2>1. pc'[c] = stage
    BY <1>6, NotifyFacts
  <2>2. QED
    BY <2>1
<1>7. CASE StartSucceeds(c)
  <2>1. pc[c] # "waiting"
    BY <1>7 DEF StartSucceeds
  <2>2. "ensure" \in Stages \ {"waiting", "locking", "reserve"}
    BY DEF Stages
  <2>3. CASE at[c] > Len(slots)
    BY <1>7, <2>3 DEF StartSucceeds, StoreOutOfBounds, Unwind
  <2>4. CASE ~(at[c] > Len(slots))
    BY <1>6, <1>7, <2>1, <2>2, <2>4 DEF StartSucceeds
  <2>5. QED
    BY <2>3, <2>4
<1>8. CASE StartFails(c)
  BY <1>8 DEF StartFails, StoreOutOfBounds, NotSpawned, NextCall, Unwind
<1>9. CASE CallReturns(c) \/ CallFails(c) \/ DropUnused(c) \/ Settle(c)
  <2>1. pc[c] \in Releasing
    BY <1>9, ReleaseTypes
  <2>2. PICK stage \in {"out", "calling", "releasing"} : ReleaseSlot(c, stage)
    BY <1>9, ReleaseTypes
  <2>3. NotifyOne(c, stage) /\ stage \in Stages \ {"waiting", "locking", "reserve"}
        /\ pc[c] # "waiting"
    BY <2>1, <2>2 DEF ReleaseSlot, Stages, Releasing
  <2>4. QED
    BY <1>6, <2>3
<1>10. CASE Quarantine(c)
  <2>1. "readDesired" \in Stages \ {"waiting", "locking", "reserve"} /\ pc[c] # "waiting"
        /\ NotifyOne(c, "readDesired")
    BY <1>10 DEF Stages, Quarantine
  <2>2. QED
    BY <1>6, <2>1
<1>11. CASE QuarantineNothing(c)
  <2>1. "settling" \in Stages \ {"waiting", "locking", "reserve"} /\ pc[c] # "waiting"
    BY <1>11 DEF Stages, QuarantineNothing
  <2>2. NotifyOne(c, "settling") \/ Goto(c, "settling")
    BY <1>11 DEF QuarantineNothing
  <2>3. QED
    BY <1>6, <2>1, <2>2
<1>12. CASE AcquireAll(c) \/ AcquireAllFails(c) \/ AcquireAllRefused(c)
  BY <1>12 DEF AcquireAll, AcquireAllFails, AcquireAllRefused, NextCall
<1>13. CASE ShrinkRefused(c) \/ ShrinkUnneeded(c) \/ Shrink(c) \/ SetMax(c)
  BY <1>13 DEF ShrinkRefused, ShrinkUnneeded, Shrink, SetMax, AfterShrink
<1>14. QED
  BY <1>1, <1>2, <1>3, <1>4, <1>5, <1>7, <1>8, <1>9, <1>10, <1>11, <1>12, <1>13
  DEF Step, PoolStep

(* Without a change of size nobody stores another maximum or removes       *)
(* isolates, and only a reservation takes a place.                         *)
LEMMA SizeKept ==
  ASSUME TypeOK, Control, NEW c \in Callers, Step(c), adjustments' = 0,
         adjustments = 0 => job[c] \in {"call", "warm"}
  PROVE  /\ adjustments = 0 /\ maxSize' = maxSize
         /\ job'[c] \in {"call", "warm"}
         /\ ~Shrink(c) /\ ~ShrinkRefused(c) /\ ~ShrinkUnneeded(c) /\ ~SetMax(c)
         /\ \A n \in Sizes : ~Resize(c, n) /\ ~SetDesiredSize(c, n)
         /\ active' + creating' <= active + creating
            \/ (Reserve(c) /\ active' + creating' = active + creating + 1)
<1>0. adjustments \in Nat /\ active \in Int /\ creating \in Int
      /\ job \in [Callers -> {"call", "warm", "resize", "setDesired"}]
  BY DEF TypeOK
<1> USE <1>0 DEF options, bounds, state
<1>1. \A n \in Sizes : ~Resize(c, n) /\ ~SetDesiredSize(c, n)
  BY DEF Resize, SetDesiredSize
<1>2. CASE CallHandler(c) \/ WarmAll(c)
  BY <1>1, <1>2 DEF CallHandler, WarmAll, Control, ControlOf, Shrink, ShrinkRefused,
                    ShrinkUnneeded, SetMax
<1>3. ASSUME adjustments' = adjustments
      PROVE  /\ adjustments = 0 /\ job[c] \in {"call", "warm"}
             /\ ~Shrink(c) /\ ~ShrinkRefused(c) /\ ~ShrinkUnneeded(c) /\ ~SetMax(c)
  BY <1>3 DEF Control, ControlOf, Shrink, ShrinkRefused, ShrinkUnneeded, SetMax
<1>4. CASE ReadLimit(c) \/ ChooseSpawn(c) \/ SnapshotOptions(c) \/ ReadDesired(c)
           \/ Grow(c) \/ Grown(c)
  BY <1>1, <1>3, <1>4 DEF ReadLimit, ChooseSpawn, SnapshotOptions, ReadDesired, Grow, Grown
<1>5. CASE RefuseFailFast(c) \/ RefuseQueueFull(c) \/ PopIdle(c) \/ Park(c) \/ WakeUp(c)
           \/ ReserveRefused(c)
  BY <1>1, <1>3, <1>5 DEF RefuseFailFast, RefuseQueueFull, PopIdle, Park, WakeUp, ReserveRefused
<1>6. CASE Reserve(c)
  BY <1>1, <1>3, <1>6 DEF Reserve
<1>7. CASE StartSucceeds(c) \/ StartFails(c)
  BY <1>1, <1>3, <1>7 DEF StartSucceeds, StartFails, StoreOutOfBounds
<1>8. CASE CallReturns(c) \/ CallFails(c) \/ DropUnused(c) \/ Settle(c)
  BY <1>1, <1>3, <1>8 DEF CallReturns, CallFails, DropUnused, Settle, ReleaseSlot
<1>9. CASE Quarantine(c) \/ QuarantineNothing(c)
  BY <1>1, <1>3, <1>9 DEF Quarantine, QuarantineNothing
<1>10. CASE AcquireAll(c) \/ AcquireAllFails(c) \/ AcquireAllRefused(c)
  BY <1>1, <1>3, <1>10 DEF AcquireAll, AcquireAllFails, AcquireAllRefused
<1>11. CASE ShrinkRefused(c) \/ ShrinkUnneeded(c) \/ Shrink(c) \/ SetMax(c)
  <2>1. adjustments' = adjustments
    BY <1>11 DEF ShrinkRefused, ShrinkUnneeded, Shrink, SetMax
  <2>2. QED
    BY <1>3, <1>11, <2>1
<1>12. QED
  BY <1>1, <1>2, <1>4, <1>5, <1>6, <1>7, <1>8, <1>9, <1>10, <1>11 DEF Step, PoolStep

LEMMA StepUnadjusted ==
  ASSUME TypeOK, Control, Parked, Numbered, Unadjusted, NEW c \in Callers, Step(c)
  PROVE  Unadjusted'
<1> SUFFICES ASSUME adjustments' = 0
             PROVE  /\ maxSize' = InitialMax
                    /\ \A d \in Callers :
                         /\ job'[d] \in {"call", "warm"}
                         /\ pc'[d] \in {"locking", "reserve"} => limit'[d] = InitialMax
                    /\ WithinMaxSize'
  BY DEF Unadjusted
<1>1. adjustments = 0 => job[c] \in {"call", "warm"}
  BY DEF Unadjusted
<1>2. /\ adjustments = 0 /\ maxSize' = maxSize /\ job'[c] \in {"call", "warm"}
      /\ active' + creating' <= active + creating
         \/ (Reserve(c) /\ active' + creating' = active + creating + 1)
  BY <1>1, SizeKept
<1>3. /\ maxSize = InitialMax /\ WithinMaxSize
      /\ \A d \in Callers :
           /\ job[d] \in {"call", "warm"}
           /\ pc[d] \in {"locking", "reserve"} => limit[d] = InitialMax
  BY <1>2 DEF Unadjusted
<1>4. ASSUME NEW d \in Callers \ {c}
      PROVE  /\ job'[d] \in {"call", "warm"}
             /\ pc'[d] \in {"locking", "reserve"} => limit'[d] = InitialMax
  <2>1. SameFor(d) /\ (pc'[d] = pc[d] \/ (pc[d] = "waiting" /\ pc'[d] = "woken"))
    BY OthersSame, OthersMove
  <2>2. QED
    BY <1>3, <2>1 DEF SameFor
<1>5. pc'[c] \in {"locking", "reserve"} => limit'[c] = InitialMax
  <2>1. CASE ReadLimit(c) \/ SnapshotOptions(c)
    BY <1>3, <2>1 DEF ReadLimit, SnapshotOptions, TypeOK
  <2>2. QED
    BY <2>1, OnlyReadersDecide
<1>6. WithinMaxSize'
  <2>1. active \in Int /\ creating \in Int /\ InitialMax \in Nat
        /\ active' \in Int /\ creating' \in Int
    <3>1. active \in Int /\ creating \in Int
      BY DEF TypeOK
    <3>2. InitialMax \in Nat
      BY BundlePoolAssumption
    <3>3. active' \in Int /\ creating' \in Int
      BY StepTypes, StepIsNext DEF TypeOK
    <3>4. QED
      BY <3>1, <3>2, <3>3
  <2>2. maxSize' = InitialMax /\ active + creating <= InitialMax
    BY <1>2, <1>3 DEF WithinMaxSize
  <2>3. active' + creating' <= InitialMax
    <3>1. /\ \A m, n \in Int : m <= n /\ n <= InitialMax => m <= InitialMax
          /\ \A m, n \in Int : m = n + 1 /\ n < InitialMax => m <= InitialMax
      BY <2>1
    <3>2. active' + creating' \in Int /\ active + creating \in Int
      BY <2>1
    <3>3. CASE active' + creating' <= active + creating
      BY <2>2, <3>1, <3>2, <3>3
    <3>4. CASE Reserve(c) /\ active' + creating' = active + creating + 1
      <4>1. active + creating < InitialMax
        BY <1>3, <3>4 DEF Reserve
      <4>2. QED
        BY <3>1, <3>2, <3>4, <4>1
    <3>5. QED
      BY <1>2, <3>3, <3>4
  <2>4. QED
    BY <2>2, <2>3 DEF WithinMaxSize
<1>7. QED
  BY <1>2, <1>3, <1>4, <1>5, <1>6

-----------------------------------------------------------------------------
(* Nobody is parked beside what can be had at once.                        *)

Fine == Available <= Cardinality(Awake) /\ Len(idle) <= Cardinality(Looking)

LEMMA SizesTyped ==
  ASSUME TypeOK
  PROVE  /\ Available \in Int /\ Len(idle) \in Nat
         /\ Awake \in SUBSET Callers /\ Looking \in SUBSET Callers
         /\ Cardinality(Awake) \in Nat /\ Cardinality(Looking) \in Nat
<1>1. Available \in Int /\ Len(idle) \in Nat
  BY DEF TypeOK, Available
<1>2. Awake \in SUBSET Callers /\ Looking \in SUBSET Callers
  BY DEF Awake, Looking
<1>3. Cardinality(Awake) \in Nat /\ Cardinality(Looking) \in Nat
  BY <1>2, CallersFinite
<1>4. QED
  BY <1>1, <1>2, <1>3

LEMMA TypedNext ==
  ASSUME TypeOK'
  PROVE  /\ Available' \in Int /\ Len(idle') \in Nat
         /\ Awake' \in SUBSET Callers /\ Looking' \in SUBSET Callers
         /\ Cardinality(Awake') \in Nat /\ Cardinality(Looking') \in Nat
<1>1. Available' \in Int /\ Len(idle') \in Nat
  BY DEF TypeOK, Available
<1>2. Awake' \in SUBSET Callers /\ Looking' \in SUBSET Callers
  BY DEF Awake, Looking
<1>3. Cardinality(Awake') \in Nat /\ Cardinality(Looking') \in Nat
  BY <1>2, CallersFinite
<1>4. QED
  BY <1>1, <1>2, <1>3

(* The others go on looking.                                               *)
LEMMA OthersLook ==
  ASSUME TypeOK, Control, Parked, NEW c \in Callers, Step(c)
  PROVE  Awake \ {c} \subseteq Awake' /\ Looking \ {c} \subseteq Looking'
<1>1. ASSUME NEW d \in Callers \ {c}
      PROVE  (d \in Awake => d \in Awake') /\ (d \in Looking => d \in Looking')
  <2>1. pc'[d] = pc[d] \/ (pc[d] = "waiting" /\ pc'[d] = "woken")
    BY OthersMove
  <2>2. target'[d] = target[d]
    BY OthersSame DEF SameFor
  <2>3. QED
    BY <2>1, <2>2 DEF Awake, Looking
<1>2. Awake \subseteq Callers /\ Looking \subseteq Callers
  BY DEF Awake, Looking
<1>3. QED
  BY <1>1, <1>2

(* A step that takes or adds nothing.                                      *)
LEMMA FineStays ==
  ASSUME TypeOK, TypeOK', Control, Parked, Fine, NEW c \in Callers, Step(c),
         c \in Awake => c \in Awake', c \in Looking => c \in Looking',
         Available' <= Available, Len(idle') <= Len(idle)
  PROVE  Fine'
<1>1. Awake \subseteq Awake' /\ Looking \subseteq Looking'
  BY OthersLook
<1>2. /\ Available \in Int /\ Len(idle) \in Nat
      /\ Cardinality(Awake) \in Nat /\ Cardinality(Looking) \in Nat
  BY SizesTyped
<1>3. /\ Available' \in Int /\ Len(idle') \in Nat
      /\ Awake' \in SUBSET Callers /\ Looking' \in SUBSET Callers
      /\ Cardinality(Awake') \in Nat /\ Cardinality(Looking') \in Nat
  BY TypedNext
<1>4. Cardinality(Awake) <= Cardinality(Awake')
  BY <1>1, <1>3, CallersFinite
<1>5. Cardinality(Looking) <= Cardinality(Looking')
  BY <1>1, <1>3, CallersFinite
<1>6. QED
  BY <1>2, <1>3, <1>4, <1>5 DEF Fine

(* A caller takes one of what there is.                                    *)
LEMMA FineTaken ==
  ASSUME TypeOK, TypeOK', Control, Parked, Fine, NEW c \in Callers, Step(c),
         c \in Awake, Available' = Available - 1,
         \/ Len(idle') = Len(idle) - 1
         \/ Len(idle') <= Len(idle) /\ (c \in Looking => c \in Looking')
         \/ Len(idle') = 0
  PROVE  Fine'
<1>1. Awake \ {c} \subseteq Awake' /\ Looking \ {c} \subseteq Looking'
  BY OthersLook
<1>2. /\ Available \in Int /\ Len(idle) \in Nat
      /\ Awake \in SUBSET Callers /\ Looking \in SUBSET Callers
      /\ Cardinality(Awake) \in Nat /\ Cardinality(Looking) \in Nat
  BY SizesTyped
<1>3. /\ Available' \in Int /\ Len(idle') \in Nat
      /\ Awake' \in SUBSET Callers /\ Looking' \in SUBSET Callers
      /\ Cardinality(Awake') \in Nat /\ Cardinality(Looking') \in Nat
  BY TypedNext
<1>4. Cardinality(Awake \ {c}) = Cardinality(Awake) - 1
  BY <1>2, CallersFinite
<1>5. Cardinality(Awake \ {c}) <= Cardinality(Awake')
  BY <1>1, <1>3, CallersFinite
<1>6. Available' <= Cardinality(Awake')
  BY <1>2, <1>3, <1>4, <1>5 DEF Fine
<1>7. Len(idle') <= Cardinality(Looking')
  <2>1. CASE Len(idle') = Len(idle) - 1
    <3>1. Cardinality(Looking) - 1 <= Cardinality(Looking \ {c})
      <4>1. CASE c \in Looking
        <5>1. Cardinality(Looking \ {c}) = Cardinality(Looking) - 1
          BY <1>2, <4>1, CallersFinite
        <5>2. QED
          BY <1>2, <5>1
      <4>2. CASE c \notin Looking
        <5>1. Looking \ {c} = Looking
          BY <4>2
        <5>2. Cardinality(Looking \ {c}) = Cardinality(Looking)
          BY <5>1
        <5>3. QED
          BY <1>2, <5>2
      <4>3. QED
        BY <4>1, <4>2
    <3>2. Cardinality(Looking \ {c}) <= Cardinality(Looking')
      BY <1>1, <1>3, CallersFinite
    <3>3. Cardinality(Looking \ {c}) \in Nat
      <4>1. Looking \ {c} \in SUBSET Callers
        BY <1>2
      <4>2. QED
        BY <4>1, CallersFinite
    <3>4. QED
      BY <1>2, <1>3, <2>1, <3>1, <3>2, <3>3 DEF Fine
  <2>2. CASE Len(idle') <= Len(idle) /\ (c \in Looking => c \in Looking')
    <3>1. Looking \subseteq Looking'
      BY <1>1, <2>2
    <3>2. Cardinality(Looking) <= Cardinality(Looking')
      BY <1>3, <3>1, CallersFinite
    <3>3. QED
      BY <1>2, <1>3, <2>2, <3>2 DEF Fine
  <2>3. CASE Len(idle') = 0
    BY <1>3, <2>3
  <2>4. QED
    BY <2>1, <2>2, <2>3
<1>8. QED
  BY <1>6, <1>7 DEF Fine

(* What is added is told to a caller that was parked.                      *)
LEMMA FineTold ==
  ASSUME TypeOK, TypeOK', Control, Parked, Fine, NEW c \in Callers, Step(c),
         NEW stage \in Stages \ {"waiting"}, NotifyOne(c, stage),
         pc[c] \notin Leasing \cup {"snapshot", "reserve"}, waiters # <<>>,
         Available' <= Available + 1, Len(idle') <= Len(idle) + 1
  PROVE  Fine'
<1> DEFINE h == Head(waiters)
<1>1. h \in Callers \ {c} /\ pc[h] = "waiting" /\ pc'[h] = "woken"
  BY NotifyFacts DEF Leasing
<1>2. c \notin Awake /\ c \notin Looking /\ h \notin Awake /\ h \notin Looking
  BY <1>1 DEF Awake, Looking, Leasing
<1>3. target'[h] = Lease
  <2>1. target'[h] = target[h]
    BY <1>1, OthersSame DEF SameFor
  <2>2. target[h] = Lease
    BY <1>1 DEF Control, ControlOf, Leasing
  <2>3. QED
    BY <2>1, <2>2
<1>4. h \in Awake' /\ h \in Looking'
  BY <1>1, <1>3 DEF Awake, Looking
<1> HIDE DEF h
<1>5. Awake \cup {h} \subseteq Awake' /\ Looking \cup {h} \subseteq Looking'
  BY <1>2, <1>4, OthersLook
<1>6. /\ Available \in Int /\ Len(idle) \in Nat
      /\ Awake \in SUBSET Callers /\ Looking \in SUBSET Callers
      /\ Cardinality(Awake) \in Nat /\ Cardinality(Looking) \in Nat
  BY SizesTyped
<1>7. /\ Available' \in Int /\ Len(idle') \in Nat
      /\ Awake' \in SUBSET Callers /\ Looking' \in SUBSET Callers
      /\ Cardinality(Awake') \in Nat /\ Cardinality(Looking') \in Nat
  BY TypedNext
<1>8. Cardinality(Awake \cup {h}) = Cardinality(Awake) + 1
  BY <1>1, <1>2, <1>6, CallersFinite
<1>9. Cardinality(Looking \cup {h}) = Cardinality(Looking) + 1
  BY <1>1, <1>2, <1>6, CallersFinite
<1>10. Cardinality(Awake \cup {h}) <= Cardinality(Awake')
  BY <1>5, <1>7, CallersFinite
<1>11. Cardinality(Looking \cup {h}) <= Cardinality(Looking')
  BY <1>5, <1>7, CallersFinite
<1>12. QED
  BY <1>6, <1>7, <1>8, <1>9, <1>10, <1>11 DEF Fine

(* There is nothing to be had.                                             *)
LEMMA FineEmpty ==
  ASSUME TypeOK', idle' = <<>>, Available' <= 0
  PROVE  Fine'
<1>1. Available' \in Int /\ Cardinality(Awake') \in Nat /\ Cardinality(Looking') \in Nat
  BY TypedNext
<1>2. Len(idle') = 0
  OBVIOUS
<1>3. QED
  BY <1>1, <1>2 DEF Fine

(* The caller that finds no idle isolate goes on to spawn one.             *)
LEMMA FineDry ==
  ASSUME TypeOK, TypeOK', Control, Parked, Fine, NEW c \in Callers, Step(c),
         c \in Awake => c \in Awake', Available' <= Available, Len(idle') = 0
  PROVE  Fine'
<1>1. Awake \subseteq Awake'
  BY OthersLook
<1>2. Available \in Int /\ Cardinality(Awake) \in Nat
  BY SizesTyped
<1>3. /\ Available' \in Int /\ Awake' \in SUBSET Callers
      /\ Cardinality(Awake') \in Nat /\ Cardinality(Looking') \in Nat
  BY TypedNext
<1>4. Cardinality(Awake) <= Cardinality(Awake')
  BY <1>1, <1>3, CallersFinite
<1>5. QED
  BY <1>2, <1>3, <1>4 DEF Fine

(* There is no room: whoever looks for idle isolates is enough.            *)
LEMMA FineFull ==
  ASSUME TypeOK, TypeOK', Control, Control', Parked, Fine, NEW c \in Callers, Step(c),
         c \notin Looking, Len(idle') = Len(idle), Available' <= Len(idle)
  PROVE  Fine'
<1>1. Looking \subseteq Looking'
  BY OthersLook
<1>2. Looking' \subseteq Awake'
  BY DEF Control, ControlOf, Leasing, Looking, Awake
<1>3. Len(idle) \in Nat /\ Cardinality(Looking) \in Nat
  BY SizesTyped
<1>4. /\ Available' \in Int /\ Len(idle') \in Nat
      /\ Awake' \in SUBSET Callers /\ Looking' \in SUBSET Callers
      /\ Cardinality(Awake') \in Nat /\ Cardinality(Looking') \in Nat
  BY TypedNext
<1>5. Cardinality(Looking) <= Cardinality(Looking')
  BY <1>1, <1>4, CallersFinite
<1>6. Cardinality(Looking') <= Cardinality(Awake')
  BY <1>2, <1>4, CallersFinite
<1>7. QED
  BY <1>3, <1>4, <1>5, <1>6 DEF Fine

LEMMA FailuresKept ==
  ASSUME NEW c \in Callers, Step(c), ~StartFails(c)
  PROVE  failures' = failures
<1> USE DEF bounds
<1>1. CASE CallHandler(c) \/ WarmAll(c) \/ \E n \in Sizes : Resize(c, n) \/ SetDesiredSize(c, n)
  BY <1>1 DEF CallHandler, WarmAll, Resize, SetDesiredSize
<1>2. CASE ReadLimit(c) \/ ChooseSpawn(c) \/ SnapshotOptions(c) \/ ReadDesired(c)
           \/ Grow(c) \/ Grown(c)
  BY <1>2 DEF ReadLimit, ChooseSpawn, SnapshotOptions, ReadDesired, Grow, Grown
<1>3. CASE RefuseFailFast(c) \/ RefuseQueueFull(c) \/ PopIdle(c) \/ Park(c) \/ WakeUp(c)
           \/ Reserve(c) \/ ReserveRefused(c) \/ StartSucceeds(c)
  BY <1>3 DEF RefuseFailFast, RefuseQueueFull, PopIdle, Park, WakeUp, Reserve,
              ReserveRefused, StartSucceeds
<1>4. CASE CallReturns(c) \/ CallFails(c) \/ DropUnused(c) \/ Settle(c)
  BY <1>4 DEF CallReturns, CallFails, DropUnused, Settle, ReleaseSlot
<1>5. CASE Quarantine(c) \/ QuarantineNothing(c)
  BY <1>5 DEF Quarantine, QuarantineNothing
<1>6. CASE AcquireAll(c) \/ AcquireAllFails(c) \/ AcquireAllRefused(c)
  BY <1>6 DEF AcquireAll, AcquireAllFails, AcquireAllRefused
<1>7. CASE ShrinkRefused(c) \/ ShrinkUnneeded(c) \/ Shrink(c) \/ SetMax(c)
  BY <1>7 DEF ShrinkRefused, ShrinkUnneeded, Shrink, SetMax
<1>8. QED
  BY <1>1, <1>2, <1>3, <1>4, <1>5, <1>6, <1>7 DEF Step, PoolStep

LEMMA StepNothingLeft ==
  ASSUME TypeOK, TypeOK', Control, Control', Parked, Sound, Unadjusted, NothingLeft,
         NEW c \in Callers, Step(c), failures' = 0, adjustments' = 0, ~trimmed',
         waiters' # <<>>
  PROVE  Fine'
<1>0. /\ pc \in [Callers -> Stages] /\ target \in [Callers -> Nat \cup {Lease}]
      /\ idle \in Seq(Nat) /\ Len(idle) \in Nat /\ failures \in Nat
      /\ active \in Int /\ creating \in Int /\ maxSize \in Nat
      /\ ControlOf(c) /\ Lease \notin Nat /\ Available \in Int
  <2>1. Available \in Int /\ Len(idle) \in Nat
    BY SizesTyped
  <2>2. ControlOf(c) /\ Lease \notin Nat
    BY DEF Control, Lease
  <2>3. QED
    BY <2>1, <2>2 DEF TypeOK
<1>1. /\ adjustments = 0 /\ maxSize' = maxSize
      /\ ~Shrink(c) /\ ~ShrinkRefused(c) /\ ~ShrinkUnneeded(c) /\ ~SetMax(c)
      /\ \A n \in Sizes : ~Resize(c, n) /\ ~SetDesiredSize(c, n)
  BY SizeKept DEF Unadjusted
<1>2. maxSize = InitialMax
      /\ (pc[c] \in {"locking", "reserve"} => limit[c] = maxSize)
  BY <1>1 DEF Unadjusted
<1>3. failures = 0 /\ ~StartFails(c)
  <2>1. ~StartFails(c)
    BY <1>0 DEF StartFails
  <2>2. failures' = failures
    BY <1>1, <2>1, FailuresKept
  <2>3. QED
    BY <2>1, <2>2
<1>4. waiters # <<>> => Fine
  BY <1>1, <1>3, TrimmedStays DEF NothingLeft, Fine
<1>5. ASSUME waiters' = waiters, UNCHANGED <<idle, active, creating>>,
             c \in Awake => c \in Awake', c \in Looking => c \in Looking'
      PROVE  Fine'
  <2>1. Available' = Available /\ Len(idle') = Len(idle)
    BY <1>1, <1>5 DEF Available
  <2>2. QED
    BY <1>0, <1>4, <1>5, <2>1, FineStays
<1>6. CASE CallHandler(c) \/ WarmAll(c)
  <2>1. waiters' = waiters /\ UNCHANGED <<idle, active, creating>> /\ pc[c] = "out"
    BY <1>6 DEF CallHandler, WarmAll, queue, state
  <2>2. QED
    BY <1>5, <2>1 DEF Awake, Looking
<1>7. CASE ReadLimit(c) \/ WakeUp(c) \/ SnapshotOptions(c)
  <2>1. waiters' = waiters /\ UNCHANGED <<idle, active, creating, target>>
    BY <1>7 DEF ReadLimit, WakeUp, SnapshotOptions, queue, state, plan
  <2>2. \/ pc[c] = "acquire" /\ pc'[c] = "locking"
        \/ pc[c] = "woken" /\ pc'[c] = "acquire"
        \/ pc[c] = "snapshot" /\ pc'[c] = "reserve"
    BY <1>0, <1>7 DEF ReadLimit, WakeUp, SnapshotOptions, Goto
  <2>3. QED
    BY <1>5, <2>1, <2>2 DEF Awake, Looking
<1>8. CASE ReadDesired(c) \/ Grow(c) \/ Grown(c) \/ AcquireAllRefused(c)
  <2>1. waiters' = waiters /\ UNCHANGED <<idle, active, creating>>
        /\ pc[c] \in {"readDesired", "ensure", "acquireAll"}
    BY <1>8 DEF ReadDesired, Grow, Grown, AcquireAllRefused, queue, state
  <2>2. QED
    BY <1>5, <2>1 DEF Awake, Looking
<1>9. CASE PopIdle(c)
  <2>1. idle' = SubSeq(idle, 1, Len(idle) - 1) /\ idle # <<>> /\ pc[c] = "locking"
        /\ UNCHANGED <<active, creating, waiters>>
    BY <1>9 DEF PopIdle, queue
  <2>2. Len(idle') = Len(idle) - 1
    BY <1>0, <2>1, PopFacts
  <2>3. Available' = Available - 1
    BY <1>0, <1>1, <2>1, <2>2 DEF Available
  <2>4. c \in Awake
    BY <1>0, <2>1 DEF Awake, ControlOf, Leasing
  <2>5. QED
    BY <1>4, <2>1, <2>2, <2>3, <2>4, FineTaken
<1>10. CASE ChooseSpawn(c)
  <2>1. waiters' = waiters /\ UNCHANGED <<idle, active, creating, target>>
        /\ idle = <<>> /\ pc[c] = "locking" /\ pc'[c] = "snapshot"
    BY <1>0, <1>10 DEF ChooseSpawn, queue, state, plan, Goto
  <2>2. Available' = Available /\ Len(idle') = 0
    BY <1>1, <2>1 DEF Available
  <2>3. c \in Awake => c \in Awake'
    BY <2>1 DEF Awake
  <2>4. QED
    BY <1>0, <1>4, <2>1, <2>2, <2>3, FineDry
<1>11. CASE RefuseFailFast(c) \/ RefuseQueueFull(c) \/ Park(c)
  <2>1. /\ idle = <<>> /\ active + creating >= limit[c] /\ pc[c] = "locking"
        /\ UNCHANGED <<idle, active, creating>>
    BY <1>11 DEF RefuseFailFast, RefuseQueueFull, Park, Saturated, state
  <2>2. active + creating >= maxSize
    BY <1>2, <2>1
  <2>3. Available' = Len(idle) + (maxSize - active - creating) /\ Len(idle) = 0
    BY <1>1, <2>1 DEF Available
  <2>4. Available' <= 0
    BY <1>0, <2>2, <2>3
  <2>5. QED
    BY <2>1, <2>4, FineEmpty
<1>12. CASE Reserve(c)
  <2>1. waiters' = waiters /\ UNCHANGED <<idle, active, target>> /\ pc[c] = "reserve"
        /\ creating' = creating + 1
    BY <1>12 DEF Reserve, queue
  <2>2. Available' = Available - 1 /\ Len(idle') = Len(idle) /\ c \notin Looking
    BY <1>0, <1>1, <2>1 DEF Available, Looking
  <2>3. CASE target[c] = Lease
    <3>1. c \in Awake
      BY <2>1, <2>3 DEF Awake
    <3>2. QED
      BY <1>0, <1>4, <2>1, <2>2, <3>1, FineTaken
  <2>4. CASE target[c] # Lease
    <3>1. c \notin Awake
      BY <2>4 DEF Awake
    <3>2. QED
      BY <1>0, <1>4, <2>1, <2>2, <3>1, FineStays
  <2>5. QED
    BY <2>3, <2>4
<1>13. CASE ReserveRefused(c)
  <2>1. waiters' = waiters /\ UNCHANGED <<idle, active, creating>> /\ pc[c] = "reserve"
        /\ active + creating >= limit[c]
    BY <1>13 DEF ReserveRefused, queue, state
  <2>2. active + creating >= maxSize /\ c \notin Looking
    BY <1>2, <2>1 DEF Looking
  <2>3. Available' = Len(idle) + (maxSize - active - creating) /\ Len(idle') = Len(idle)
    BY <1>1, <2>1 DEF Available
  <2>4. Available' <= Len(idle)
    BY <1>0, <2>2, <2>3
  <2>5. QED
    BY <1>4, <2>1, <2>2, <2>3, <2>4, FineFull
<1>14. CASE StartSucceeds(c)
  <2>1. pc[c] = "starting" /\ ~(at[c] > Len(slots))
    BY SMTT(20), <1>14 DEF StartSucceeds, Sound, Reserved, TypeOK
  <2>2. creating' = creating - 1 /\ active' = active + 1
    BY <1>14, <2>1, StoreFacts
  <2>3. c \notin Awake /\ c \notin Looking
    BY <2>1 DEF Awake, Looking
  <2>4. CASE target[c] = Lease
    <3>1. waiters' = waiters /\ idle' = idle
      BY <1>14, <2>1, <2>4 DEF StartSucceeds
    <3>2. Available' = Available /\ Len(idle') = Len(idle)
      BY <1>0, <1>1, <2>2, <3>1 DEF Available
    <3>3. QED
      BY <1>0, <1>4, <2>3, <3>1, <3>2, FineStays
  <2>5. CASE target[c] # Lease
    <3>1. NotifyOne(c, "ensure") /\ idle' = Append(idle, at[c]) /\ at[c] \in Nat
      BY <1>14, <2>1, <2>5 DEF StartSucceeds, TypeOK
    <3>2. Len(idle') = Len(idle) + 1
      BY <1>0, <3>1
    <3>3. Available' = Available + 1
      BY <1>0, <1>1, <2>2, <3>2 DEF Available
    <3>4. "ensure" \in Stages \ {"waiting"}
      BY DEF Stages
    <3>5. waiters # <<>>
      BY <2>1, <3>1, <3>4, NotifyFacts
    <3>6. pc[c] \notin Leasing \cup {"snapshot", "reserve"}
      BY <2>1 DEF Leasing
    <3>7. QED
      BY <1>0, <1>4, <3>1, <3>2, <3>3, <3>4, <3>5, <3>6, FineTold
  <2>6. QED
    BY <2>4, <2>5
<1>15. CASE CallReturns(c) \/ CallFails(c) \/ DropUnused(c) \/ Settle(c)
  <2>1. pc[c] \in Releasing
    BY <1>15, ReleaseTypes
  <2>2. PICK stage \in {"out", "calling", "releasing"} : ReleaseSlot(c, stage)
    BY <1>15, ReleaseTypes
  <2>3. /\ NotifyOne(c, stage) /\ idle' = Append(idle, Head(leases[c]).index)
        /\ Head(leases[c]).index \in Nat /\ active' = active /\ creating' = creating
    BY <2>1, <2>2, ReleaseFacts
  <2>4. Len(idle') = Len(idle) + 1
    BY <1>0, <2>3
  <2>5. Available' = Available + 1
    BY <1>0, <1>1, <2>3, <2>4 DEF Available
  <2>6. stage \in Stages \ {"waiting"}
    BY DEF Stages
  <2>7. pc[c] \notin Leasing \cup {"snapshot", "reserve"} /\ pc[c] # "waiting"
    BY <2>1 DEF Leasing, Releasing
  <2>8. waiters # <<>>
    BY <2>3, <2>6, <2>7, NotifyFacts
  <2>9. QED
    BY <1>0, <1>4, <2>3, <2>4, <2>5, <2>6, <2>7, <2>8, FineTold
<1>16. CASE Quarantine(c)
  <2>1. NotifyOne(c, "readDesired") /\ pc[c] = "calling" /\ creating' = creating
    BY <1>16 DEF Quarantine
  <2>2. active' = active - 1 /\ Len(idle') <= Len(idle) /\ idle' \in Seq(Nat)
    BY <1>16, QuarantineFacts
  <2>3. Available' <= Available + 1 /\ Len(idle') <= Len(idle) + 1
    BY <1>0, <1>1, <2>1, <2>2 DEF Available
  <2>4. "readDesired" \in Stages \ {"waiting"}
    BY DEF Stages
  <2>5. pc[c] \notin Leasing \cup {"snapshot", "reserve"} /\ pc[c] # "waiting"
    BY <2>1 DEF Leasing
  <2>6. waiters # <<>>
    BY <2>1, <2>4, <2>5, NotifyFacts
  <2>7. QED
    BY <1>4, <2>1, <2>3, <2>4, <2>5, <2>6, FineTold
<1>17. ~QuarantineNothing(c)
  <2>1. SUFFICES ASSUME QuarantineNothing(c) PROVE FALSE
    OBVIOUS
  <2>2. ~Live(Head(leases[c]).index) /\ leases[c] # <<>> /\ leases[c] \in Seq(Guard)
    BY <1>0, <2>1 DEF QuarantineNothing, ControlOf, TypeOK
  <2>3. Head(leases[c]).index \in Held(c)
    <3>1. Head(leases[c]) = leases[c][1] /\ 1 \in 1..Len(leases[c])
      BY <2>2
    <3>2. QED
      BY <3>1 DEF Held, Indices
  <2>4. Head(leases[c]).index \in LiveSlots
    BY <2>3, PlacedFacts DEF Sound
  <2>5. QED
    BY <2>2, <2>4 DEF LiveSlots, Live
<1>18. CASE AcquireAll(c)
  <2>1. waiters' = waiters /\ UNCHANGED <<active, creating>> /\ idle' = <<>>
        /\ pc[c] = "acquireAll"
    BY <1>18 DEF AcquireAll, queue
  <2>2. Len(idle') = 0
    BY <2>1
  <2>3. Available' <= Available /\ Len(idle') <= Len(idle)
    BY <1>0, <1>1, <2>1, <2>2 DEF Available
  <2>4. c \notin Awake /\ c \notin Looking
    BY <2>1 DEF Awake, Looking
  <2>5. QED
    BY <1>4, <2>1, <2>3, <2>4, FineStays
<1>19. ~AcquireAllFails(c)
  <2>1. \A i \in Elements(idle) : Live(i)
    BY DEF Sound, Placed, LiveSlots, Live
  <2>2. QED
    BY <2>1 DEF AcquireAllFails
<1>20. QED
  BY <1>1, <1>3, <1>6, <1>7, <1>8, <1>9, <1>10, <1>11, <1>12, <1>13, <1>14, <1>15,
     <1>16, <1>17, <1>18, <1>19 DEF Step, PoolStep

-----------------------------------------------------------------------------
(* The invariant.                                                          *)

LEMMA InitIInv == Init => IInv
<1> SUFFICES ASSUME Init PROVE IInv
  OBVIOUS
<1> DEFINE L == 1..InitialDesired
<1>1. /\ InitialDesired \in Nat /\ InitialDesired <= InitialMax /\ InitialMax \in Nat
      /\ QueueModes \subseteq {"Block", "FailFast"} /\ IsFiniteSet(Callers)
  BY BundlePoolAssumption
<1>2. /\ slots \in Seq(Nat) /\ idle \in Seq(Nat) /\ Len(slots) = InitialDesired
      /\ Len(idle) = InitialDesired
      /\ \A i \in L : slots[i] = i /\ idle[i] = i
  BY <1>1 DEF Init
<1>3. TypeOK
  <2>1. leases \in [Callers -> Seq(Guard)] /\ waiters \in Seq(Callers)
    BY DEF Init
  <2>2. /\ pc \in [Callers -> Stages] /\ result \in [Callers -> Results]
        /\ job \in [Callers -> {"call", "warm", "resize", "setDesired"}]
        /\ queueMode \in {"Block", "FailFast"}
    BY <1>1 DEF Init, Stages, Results
  <2>3. /\ limit \in [Callers -> Nat] /\ at \in [Callers -> Nat]
        /\ target \in [Callers -> Nat \cup {Lease}]
    BY DEF Init
  <2>4. /\ active \in Int /\ creating \in Int /\ waiting \in Nat
        /\ maxSize \in Nat /\ desired \in Nat /\ nextId \in Nat \ {0}
        /\ failures \in Nat /\ adjustments \in Nat
    BY <1>1 DEF Init
  <2>5. trimmed \in BOOLEAN
    BY DEF Init
  <2>6. QED
    BY <1>2, <2>1, <2>2, <2>3, <2>4, <2>5 DEF TypeOK
<1>4. Control
  BY DEF Init, Control, ControlOf, Leasing, Spawning
<1>5. Parked
  BY DEF Init, Parked, Distinct, Elements
<1>6. LiveSlots = L
  BY <1>1, <1>2 DEF LiveSlots, None
<1>7. Numbered
  BY <1>1, <1>2, <1>6 DEF Numbered, Init
<1>8. Sound
  <2>1. Reserved /\ NoPanic
    BY DEF Init, Reserved, NoPanic
  <2>2. Elements(idle) = L /\ Distinct(idle)
    BY <1>2 DEF Elements, Distinct
  <2>3. \A c \in Callers : leases[c] = <<>> /\ Held(c) = {} /\ GuardsSit(leases[c])
    BY DEF Init, Held, Indices, GuardsSit
  <2>4. UNION {Held(c) : c \in Callers} = {}
    BY <2>3
  <2>5. Placed
    BY <1>6, <2>2, <2>3, <2>4 DEF Placed
  <2>6. Cardinality(L) = InitialDesired
    <3>1. Cardinality(L) = IF 1 > InitialDesired THEN 0 ELSE InitialDesired - 1 + 1
      BY <1>1, FS_Interval
    <3>2. QED
      BY <1>1, <3>1
  <2>7. active = Cardinality(LiveSlots)
    BY <1>6, <2>6 DEF Init
  <2>8. QED
    BY <2>1, <2>5, <2>7 DEF Sound
<1>9. CallersCounted
  <2>1. {c \in Callers : pc[c] = "starting"} = {}
        /\ {c \in Callers : pc[c] \in {"waiting", "woken"}} = {}
    BY DEF Init
  <2>2. creating = 0 /\ waiting = 0
    BY DEF Init
  <2>3. QED
    BY <2>1, <2>2, FS_EmptySet DEF CallersCounted
<1>10. Unadjusted
  BY <1>1 DEF Init, Unadjusted, WithinMaxSize
<1>11. NothingLeft
  BY DEF Init, NothingLeft
<1>12. QED
  BY <1>3, <1>4, <1>5, <1>7, <1>8, <1>9, <1>10, <1>11 DEF IInv

LEMMA NextIInv == IInv /\ [Next]_vars => IInv'
<1> SUFFICES ASSUME IInv, [Next]_vars PROVE IInv'
  OBVIOUS
<1>1. TypeOK /\ Control /\ Parked /\ Numbered /\ (~trimmed => Sound)
      /\ CallersCounted /\ Unadjusted /\ NothingLeft
  BY DEF IInv
<1>2. TypeOK'
  BY <1>1, StepTypes
<1>3. CASE UNCHANGED vars
  <2>1. UNCHANGED <<slots, idle, active, creating, waiters, waiting, maxSize, desired,
                    nextId, pc, job, leases, limit, at, target, result, queueMode,
                    trimmed, breaches, failures, adjustments>>
    BY <1>3 DEF vars, state, queue, options, history, bounds
  <2>2. Control' /\ Parked' /\ Numbered'
    BY <1>1, <2>1 DEF Control, ControlOf, Parked, Numbered, LiveSlots
  <2>3. CallersCounted' /\ Unadjusted'
    BY <1>1, <2>1 DEF CallersCounted, Unadjusted, WithinMaxSize
  <2>4. NothingLeft'
    BY <1>1, <2>1 DEF NothingLeft, Available, Awake, Looking
  <2>5. ~trimmed' => Sound'
    <3>1. LiveSlots' = LiveSlots /\ \A c \in Callers : Held(c)' = Held(c)
      BY <2>1 DEF LiveSlots, Held, Indices
    <3>2. Reserved' <=> Reserved
      BY <2>1 DEF Reserved
    <3>3. NoPanic' <=> NoPanic
      BY <2>1 DEF NoPanic
    <3>4. \A c \in Callers : GuardsSit(leases[c])' <=> GuardsSit(leases[c])
      BY <2>1 DEF GuardsSit
    <3>5. Placed' <=> Placed
      BY <2>1, <3>1, <3>4 DEF Placed
    <3>6. QED
      BY <1>1, <2>1, <3>1, <3>2, <3>3, <3>5 DEF Sound
  <2>6. QED
    BY <1>2, <2>2, <2>3, <2>4, <2>5 DEF IInv
<1>4. ASSUME NEW c \in Callers, Step(c) PROVE IInv'
  <2>1. Control'
    BY <1>1, <1>4, StepControl
  <2>2. Parked' /\ CallersCounted'
    BY <1>1, <1>4, StepQueue
  <2>3. Numbered'
    BY <1>1, <1>4, StepNumbered
  <2>4. ~trimmed' => ~trimmed
    BY <1>1, <1>4, TrimmedStays
  <2>5. ~trimmed' => Sound'
    BY <1>1, <1>4, <2>4, StepSound
  <2>6. Unadjusted'
    BY <1>1, <1>4, StepUnadjusted
  <2>7. NothingLeft'
    <3>1. ASSUME failures' = 0, adjustments' = 0, ~trimmed', waiters' # <<>> PROVE Fine'
      BY <1>1, <1>2, <1>4, <2>1, <2>4, <3>1, StepNothingLeft
    <3>2. QED
      BY <3>1 DEF NothingLeft, Fine
  <2>8. QED
    BY <1>2, <2>1, <2>2, <2>3, <2>5, <2>6, <2>7 DEF IInv
<1>5. QED
  BY <1>3, <1>4 DEF Next, Step

(* The inductive invariant holds in every reachable state: types, the      *)
(* stages of the callers, the wait set, the isolates' numbers, the         *)
(* counters, and what relates slots, stack and guards.                     *)
THEOREM Invariance == Spec => []IInv
<1>1. Init => IInv
  BY InitIInv
<1>2. IInv /\ [Next]_vars => IInv'
  BY NextIInv
<1>3. QED
  BY <1>1, <1>2, PTL DEF Spec

(* Two callers never hold the same isolate, no isolate is lost, guards     *)
(* point at the isolate they were made for and no caller panics or finds   *)
(* an idle index without an isolate, whatever the callers do and however   *)
(* often creations fail, unless a reserved slot is cut off.                *)
THEOREM PoolSound == Spec => []SoundUnlessTrimmed
<1>1. IInv => SoundUnlessTrimmed
  <2> SUFFICES ASSUME IInv, ~trimmed
               PROVE  OneCallPerIsolate /\ NoIsolateLost /\ GuardsMatchSlots /\ NoPanic
    BY DEF SoundUnlessTrimmed
  <2>1. Sound /\ Numbered /\ TypeOK
    BY DEF IInv
  <2>2. /\ \A c \in Callers : \A n \in 1..Len(leases[c]) :
             /\ leases[c][n].index \in Held(c) /\ leases[c][n].index \in LiveSlots
             /\ slots[leases[c][n].index] = leases[c][n].isolate
    <3>1. ASSUME NEW c \in Callers, NEW n \in 1..Len(leases[c])
          PROVE  /\ leases[c][n].index \in Held(c) /\ leases[c][n].index \in LiveSlots
                 /\ slots[leases[c][n].index] = leases[c][n].isolate
      <4>1. leases[c][n].index \in Held(c)
        BY DEF Held, Indices
      <4>2. Held(c) \subseteq LiveSlots /\ GuardsSit(leases[c])
        BY <2>1 DEF Sound, Placed
      <4>3. QED
        BY <4>1, <4>2 DEF GuardsSit
    <3>2. QED
      BY <3>1
  <2>3. GuardsMatchSlots
    BY <2>2 DEF GuardsMatchSlots, Guards, Elements, Live, LiveSlots
  <2>4. ASSUME NEW c \in Callers, NEW d \in Callers,
               NEW m \in 1..Len(leases[c]), NEW n \in 1..Len(leases[d]),
               leases[c][m].isolate = leases[d][n].isolate
        PROVE  c = d /\ m = n
    <3>1. leases[c][m].index = leases[d][n].index
      BY <2>1, <2>2, <2>4 DEF Numbered
    <3>2. leases[c][m].index \in Held(c) /\ leases[d][n].index \in Held(d)
      BY <2>2
    <3>3. c = d
      BY <2>1, <3>1, <3>2 DEF Sound, Placed
    <3>4. GuardsSit(leases[c])
      BY <2>1 DEF Sound, Placed
    <3>5. QED
      BY <3>1, <3>3, <3>4 DEF GuardsSit
  <2>5. ASSUME NEW c \in Callers, NEW g \in Guards(c), NEW i \in Elements(idle), Live(i)
        PROVE  slots[i] # g.isolate
    <3>1. PICK n \in 1..Len(leases[c]) : g = leases[c][n]
      BY DEF Guards, Elements
    <3>2. /\ g.index \in Held(c) /\ g.index \in LiveSlots
          /\ slots[g.index] = g.isolate
      BY <2>2, <3>1
    <3>3. i \in LiveSlots /\ i \notin Held(c)
      BY <2>1, <2>5 DEF Live, LiveSlots, Sound, Placed
    <3>4. QED
      BY <2>1, <3>2, <3>3 DEF Numbered
  <2>6. OneCallPerIsolate
    BY <2>1, <2>4, <2>5 DEF OneCallPerIsolate, Sound, Placed
  <2>7. \A c \in Callers : Held(c) = {g.index : g \in Guards(c)}
    BY DEF Held, Indices, Guards, Elements
  <2>8. UNION {Held(c) : c \in Callers}
          = UNION {{g.index : g \in Guards(c)} : c \in Callers}
    BY <2>7
  <2>9. NoIsolateLost
    BY <2>1, <2>8 DEF NoIsolateLost, Sound, Placed
  <2>10. QED
    BY <2>1, <2>3, <2>6, <2>9 DEF Sound
<1>2. QED
  BY <1>1, Invariance, PTL

(* The counters of creations and waiting callers are right in every        *)
(* reachable state, and as long as nobody changes the size the pool never  *)
(* has and creates more isolates than max_size.                            *)
THEOREM AdmissionSound == Spec => []AdmissionIsSound
<1>1. IInv => AdmissionIsSound
  BY DEF IInv, Unadjusted, AdmissionIsSound
<1>2. QED
  BY <1>1, Invariance, PTL

(* Without failed creations and changes of size, a caller is parked only   *)
(* while awake callers are enough to take every idle isolate and every     *)
(* free place.                                                             *)
THEOREM NobodyStranded == Spec => []StrandedOnlyByFailure
<1>1. IInv => StrandedOnlyByFailure
  BY DEF IInv, NothingLeft, StrandedOnlyByFailure, NoStrandedWaiter
<1>2. QED
  BY <1>1, Invariance, PTL

LEMMA AtShrink ==
  ASSUME NEW c \in Callers, Step(c), pc[c] = "shrink"
  PROVE  Shrink(c) \/ ShrinkRefused(c) \/ ShrinkUnneeded(c)
<1>1. ~CallHandler(c) /\ ~WarmAll(c)
      /\ ~(\E n \in Sizes : Resize(c, n) \/ SetDesiredSize(c, n))
  BY DEF CallHandler, WarmAll, Resize, SetDesiredSize
<1>2. ~ReadLimit(c) /\ ~PopIdle(c) /\ ~ChooseSpawn(c) /\ ~RefuseFailFast(c)
      /\ ~RefuseQueueFull(c) /\ ~Park(c) /\ ~WakeUp(c)
  BY DEF ReadLimit, PopIdle, ChooseSpawn, RefuseFailFast, RefuseQueueFull, Park,
         WakeUp, Saturated
<1>3. ~SnapshotOptions(c) /\ ~Reserve(c) /\ ~ReserveRefused(c)
      /\ ~StartSucceeds(c) /\ ~StartFails(c)
  BY DEF SnapshotOptions, Reserve, ReserveRefused, StartSucceeds, StartFails
<1>4. ~CallReturns(c) /\ ~CallFails(c) /\ ~DropUnused(c) /\ ~Quarantine(c)
      /\ ~QuarantineNothing(c) /\ ~Settle(c)
  BY DEF CallReturns, CallFails, DropUnused, Quarantine, QuarantineNothing, Settle
<1>5. ~ReadDesired(c) /\ ~Grow(c) /\ ~Grown(c)
      /\ ~AcquireAll(c) /\ ~AcquireAllRefused(c) /\ ~AcquireAllFails(c) /\ ~SetMax(c)
  BY DEF ReadDesired, Grow, Grown, AcquireAll, AcquireAllRefused, AcquireAllFails, SetMax
<1>6. QED
  BY <1>1, <1>2, <1>3, <1>4, <1>5 DEF Step, PoolStep

(* What is behind a guard is live and not on the idle stack.               *)
LEMMA InUseFacts ==
  ASSUME Placed
  PROVE  \A i \in LiveSlots : InUse(i) <=> i \notin Elements(idle)
<1> SUFFICES ASSUME NEW i \in LiveSlots PROVE InUse(i) <=> i \notin Elements(idle)
  OBVIOUS
<1>1. InUse(i) <=> \E c \in Callers : i \in Held(c)
  BY DEF InUse, Guards, Elements, Held, Indices
<1>2. QED
  BY <1>1 DEF Placed

(* A refusal: one of the isolates that would have to go is in use.         *)
LEMMA RefusalFacts ==
  ASSUME TypeOK, Control, Numbered, Sound, NEW c \in Callers,
         pc[c] = "shrink", ShrinkRefused(c)
  PROVE  \E i \in LiveSlots :
           /\ InUse(i)
           /\ Cardinality({j \in LiveSlots : slots[j] > slots[i]}) < active - target[c]
<1> DEFINE n == active - target[c]
           top == Removable(n)
<1>1. /\ active = Cardinality(LiveSlots) /\ Placed
      /\ target[c] \in Nat /\ idle \in Seq(Nat)
      /\ slots \in Seq(Nat) /\ \A i \in LiveSlots : slots[i] \in Int
  BY DEF Sound, TypeOK, Control, ControlOf, LiveSlots
<1>2. active > target[c] /\ (\/ n > Len(idle) \/ n > Cardinality(LiveSlots)
                            \/ ~(top \subseteq Elements(idle)))
  BY DEF ShrinkRefused
<1>3. IsFiniteSet(LiveSlots) /\ Cardinality(LiveSlots) \in Nat
  BY NewestFirstFacts
<1>4. n \in 0..Cardinality(LiveSlots) /\ n \in Nat /\ Len(idle) \in Nat
  BY <1>1, <1>2, <1>3
<1> HIDE DEF n
<1>5. top \in SUBSET LiveSlots /\ Cardinality(top) = n
      /\ \A i \in top, j \in LiveSlots \ top : slots[i] > slots[j]
  BY <1>4, RemovableFacts
<1> HIDE DEF top
<1>6. IsFiniteSet(top)
  BY <1>3, <1>5, FS_Subset
<1>7. ~(top \subseteq Elements(idle))
  <2> SUFFICES ASSUME top \subseteq Elements(idle) PROVE FALSE
    OBVIOUS
  <2>1. IsFiniteSet(Elements(idle)) /\ Cardinality(Elements(idle)) <= Len(idle)
        /\ Cardinality(Elements(idle)) \in Nat
    BY <1>1, DistinctLen, FS_CardinalityType
  <2>2. Cardinality(top) <= Cardinality(Elements(idle))
    BY <2>1, FS_Subset
  <2>3. QED
    BY <1>2, <1>3, <1>4, <1>5, <2>1, <2>2
<1>8. PICK i \in top : i \notin Elements(idle)
  BY <1>7
<1>9. i \in LiveSlots /\ InUse(i)
  BY <1>1, <1>5, <1>8, InUseFacts
<1> DEFINE newer == {j \in LiveSlots : slots[j] > slots[i]}
<1>10. newer \in SUBSET (top \ {i})
  <2> SUFFICES ASSUME NEW j \in newer PROVE j \in top /\ j # i
    OBVIOUS
  <2>1. slots[j] \in Int /\ slots[i] \in Int /\ slots[j] > slots[i]
    BY <1>1, <1>9
  <2>2. QED
    BY <1>5, <2>1
<1> HIDE DEF newer
<1>11. IsFiniteSet(top \ {i}) /\ Cardinality(top \ {i}) = n - 1
  BY <1>5, <1>6, FS_RemoveElement
<1>12. Cardinality(newer) \in Nat /\ Cardinality(newer) <= n - 1
  BY <1>10, <1>11, FS_Subset, FS_CardinalityType
<1>13. Cardinality(newer) < n
  BY <1>4, <1>12
<1>14. QED
  BY <1>9, <1>13 DEF newer, n

(* Scaling down drops the newest isolates and none that is in use, down to *)
(* the size asked for, or nothing, because one of those is in use; in any  *)
(* order with calls, warm-ups, quarantines and failing creations, and over *)
(* holes and slots cut off.                                                *)
THEOREM ShrinkingKeepsOldest == Spec => ShrinkKeepsOldest
<1> DEFINE Removes(c) ==
      pc[c] = "shrink" /\ pc'[c] # "shrink" /\ active > target[c] =>
        ShrunkTo(target[c]) \/ TooBusyFor(target[c])
<1>1. ASSUME IInv, [Next]_vars, ~UNCHANGED vars, NEW c \in Callers PROVE Removes(c)
  <2> SUFFICES ASSUME pc[c] = "shrink", pc'[c] # "shrink", active > target[c]
               PROVE  ShrunkTo(target[c]) \/ TooBusyFor(target[c])
    OBVIOUS
  <2>1. TypeOK /\ Control /\ Parked /\ Numbered /\ (~trimmed => Sound)
    BY <1>1 DEF IInv
  <2>2. PICK d \in Callers : Step(d)
    BY <1>1 DEF Next, Step
  <2>3. d = c
    BY <2>1, <2>2, OthersMove
  <2>4. slots \in Seq(Nat) /\ active \in Int /\ target[c] \in Nat
        /\ \A i \in LiveSlots : slots[i] \in Int
    BY <2>1 DEF TypeOK, LiveSlots, Control, ControlOf
  <2>5. Gone = LiveSlots \ LiveSlots'
    BY DEF Gone, Live, LiveSlots
  <2>6. CASE Shrink(c)
    <3>1. PICK gone \in SUBSET LiveSlots :
            /\ active' = target[c] /\ active' = active - Cardinality(gone)
            /\ \A i \in gone, j \in LiveSlots \ gone : slots[i] > slots[j]
            /\ gone \subseteq Elements(idle) /\ LiveSlots' = LiveSlots \ gone
      BY <2>1, <2>6, ShrinkFacts
    <3>2. Gone = gone
      BY <2>5, <3>1
    <3>3. Cardinality(gone) \in Nat
      <4>1. IsFiniteSet(LiveSlots)
        BY <2>1, NewestFirstFacts
      <4>2. QED
        BY <3>1, <4>1, FS_Subset, FS_CardinalityType
    <3>4. Cardinality(Gone) = active - target[c]
      BY <2>4, <3>1, <3>2, <3>3
    <3>5. \A i \in Gone, j \in LiveSlots \ Gone : slots[j] < slots[i]
      BY <2>4, <3>1, <3>2
    <3>6. ~trimmed => \A i \in Gone : ~InUse(i)
      BY <2>1, <3>1, <3>2, InUseFacts DEF Sound
    <3>7. QED
      BY <3>1, <3>4, <3>5, <3>6 DEF ShrunkTo
  <2>7. CASE ShrinkRefused(c)
    <3>1. slots' = slots /\ active' = active
      BY <2>7 DEF ShrinkRefused, state
    <3>2. Gone = {}
      BY <2>5, <3>1 DEF LiveSlots
    <3>3. QED
      BY <2>1, <2>7, <3>1, <3>2, RefusalFacts DEF TooBusyFor
  <2>8. CASE ShrinkUnneeded(c)
    BY <2>4, <2>8 DEF ShrinkUnneeded
  <2>9. QED
    BY <2>2, <2>3, <2>6, <2>7, <2>8, AtShrink
<1>2. IInv /\ [Next]_vars => [\A c \in Callers : Removes(c)]_vars
  BY <1>1
<1>3. QED
  BY <1>2, Invariance, PTL DEF Spec, ShrinkKeepsOldest
===============================================================================
