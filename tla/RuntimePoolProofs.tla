-------------------------- MODULE RuntimePoolProofs --------------------------
(***************************************************************************)
(* Proofs about RuntimePool, for every set of callers and every capacity.  *)
(***************************************************************************)
EXTENDS RuntimePool, FiniteSetTheorems, TLAPS

(* The elements of a queue after its front is popped.                      *)
LEMMA TailElements ==
  ASSUME NEW S, NEW s \in Seq(S), s # <<>>
  PROVE  /\ Head(s) \in Elements(s)
         /\ Tail(s) \in Seq(S)
         /\ Elements(s) = Elements(Tail(s)) \cup {Head(s)}
         /\ Distinct(s) => Distinct(Tail(s)) /\ Head(s) \notin Elements(Tail(s))
<1>1. Len(s) \in Nat /\ Len(s) > 0
  OBVIOUS
<1>2. Len(Tail(s)) = Len(s) - 1 /\ Tail(s) \in Seq(S)
  OBVIOUS
<1>3. \A i \in 1..Len(Tail(s)) : Tail(s)[i] = s[i+1]
  OBVIOUS
<1>4. Head(s) = s[1]
  OBVIOUS
<1>5. Elements(s) \subseteq Elements(Tail(s)) \cup {Head(s)}
  <2>1. SUFFICES ASSUME NEW i \in 1..Len(s), i # 1
                 PROVE  s[i] \in Elements(Tail(s))
    BY <1>4 DEF Elements
  <2>2. i - 1 \in 1..Len(Tail(s)) /\ Tail(s)[i-1] = s[i]
    BY <1>1, <1>2, <1>3, <2>1
  <2>3. QED
    BY <2>2 DEF Elements
<1>6. Elements(Tail(s)) \cup {Head(s)} \subseteq Elements(s)
  BY <1>1, <1>2, <1>3, <1>4 DEF Elements
<1>7. Distinct(s) => Distinct(Tail(s)) /\ Head(s) \notin Elements(Tail(s))
  BY <1>1, <1>2, <1>3, <1>4 DEF Elements, Distinct
<1>8. QED
  BY <1>2, <1>5, <1>6, <1>7

(* The elements of a queue after a push at the back.                       *)
LEMMA AppendElements ==
  ASSUME NEW S, NEW s \in Seq(S), NEW e \in S
  PROVE  /\ Append(s, e) \in Seq(S)
         /\ Append(s, e) # <<>>
         /\ Elements(Append(s, e)) = Elements(s) \cup {e}
         /\ Distinct(s) /\ e \notin Elements(s) => Distinct(Append(s, e))
<1>1. Len(s) \in Nat /\ Len(Append(s, e)) = Len(s) + 1
  OBVIOUS
<1>2. \A i \in 1..Len(s) : Append(s, e)[i] = s[i]
  OBVIOUS
<1>3. Append(s, e)[Len(s) + 1] = e
  OBVIOUS
<1>4. Elements(Append(s, e)) = Elements(s) \cup {e}
  BY <1>1, <1>2, <1>3 DEF Elements
<1>5. Distinct(s) /\ e \notin Elements(s) => Distinct(Append(s, e))
  BY <1>1, <1>2, <1>3 DEF Elements, Distinct
<1>6. QED
  BY <1>1, <1>4, <1>5

-----------------------------------------------------------------------------
(* Type correctness                                                        *)

(* What notify_one changes: caller c leaves the pool and at most the front *)
(* of the wait queue goes back to the loop of checkout.                    *)
LEMMA NotifyEffect ==
  ASSUME TypeOK, NEW c \in Callers, NotifyOneThenReady(c)
  PROVE  /\ pc' \in [Callers -> Stages]
         /\ waiters' \in Seq(Callers)
         /\ pc'[c] \in {"ready", "checkout"}
         /\ \A d \in Callers : pc'[d] \in {pc[d], "ready", "checkout"}
<1>1. CASE waiters = <<>>
  BY <1>1 DEF TypeOK, NotifyOneThenReady, Stages
<1>2. CASE waiters # <<>>
  <2>1. Head(waiters) \in Callers /\ Tail(waiters) \in Seq(Callers)
    BY <1>2, TailElements DEF TypeOK
  <2>2. QED
    BY <1>2, <2>1 DEF TypeOK, NotifyOneThenReady, Stages
<1>3. QED
  BY <1>1, <1>2

(* Every step keeps the variables in their types.                          *)
LEMMA TypeStep == TypeOK /\ [Next]_vars => TypeOK'
<1> SUFFICES ASSUME TypeOK, [Next]_vars PROVE TypeOK'
  OBVIOUS
<1> USE RuntimePoolAssumption DEF TypeOK, Stages, NoRuntime, InHand, Goto
<1>1. CASE UNCHANGED vars
  BY <1>1 DEF vars
<1>2. ASSUME NEW c \in Callers, PopQueued(c) PROVE TypeOK'
  <2>1. Head(queue) \in Nat \ {0} /\ queue' \in Seq(Nat \ {0})
    BY <1>2, TailElements DEF PopQueued, Elements
  <2>2. QED
    BY <1>2, <2>1 DEF PopQueued
<1>3. ASSUME NEW c \in Callers, ReserveNew(c) PROVE TypeOK'
  BY <1>3 DEF ReserveNew
<1>4. ASSUME NEW c \in Callers, WaitForRuntime(c) PROVE TypeOK'
  BY <1>4 DEF WaitForRuntime
<1>5. ASSUME NEW c \in Callers, CreateSucceeds(c) PROVE TypeOK'
  BY <1>5 DEF CreateSucceeds
<1>6. ASSUME NEW c \in Callers, CreateFails(c) PROVE TypeOK'
  BY <1>6 DEF CreateFails
<1>7. ASSUME NEW c \in Callers, ResetSucceeds(c) PROVE TypeOK'
  BY <1>7 DEF ResetSucceeds
<1>8. ASSUME NEW c \in Callers, ResetFails(c) PROVE TypeOK'
  <2>1. /\ pc' \in [Callers -> Stages]
        /\ waiters' \in Seq(Callers)
        /\ \A d \in Callers : pc'[d] \in {pc[d], "ready", "checkout"}
        /\ pc'[c] \in {"ready", "checkout"}
    BY <1>8, NotifyEffect DEF ResetFails
  <2>2. total' \in Nat /\ resetFailures' \in 0..MaxResetFailures
    BY <1>8 DEF ResetFails
  <2>3. /\ cur' \in [Callers -> Nat]
        /\ \A d \in Callers : d # c => cur'[d] = cur[d]
    BY <1>8 DEF ResetFails
  <2>4. UNCHANGED <<queue, nextId, held, createFailures>> /\ dirty' \subseteq dirty
    BY <1>8 DEF ResetFails
  <2>5. \A d \in Callers : (InHand(d) => cur[d] # NoRuntime)'
    BY <2>1, <2>3
  <2>6. QED
    BY <2>1, <2>2, <2>3, <2>4, <2>5
<1>9. ASSUME NEW c \in Callers, ReturnRuntime(c) PROVE TypeOK'
  BY <1>9 DEF ReturnRuntime
<1>10. ASSUME NEW c \in Callers, NotifyReturned(c) PROVE TypeOK'
  BY <1>10, NotifyEffect DEF NotifyReturned
<1>11. ASSUME NEW c \in Callers, Checkout(c) PROVE TypeOK'
  BY <1>11 DEF Checkout
<1>12. ASSUME NEW c \in Callers, NEW r \in held[c], RunSession(c, r) PROVE TypeOK'
  BY <1>12 DEF RunSession
<1>13. ASSUME NEW c \in Callers, NEW r \in held[c], DropHandle(c, r) PROVE TypeOK'
  BY <1>13 DEF DropHandle
<1>14. QED
  <2> HIDE DEF TypeOK
  <2> QED
    BY <1>1, <1>2, <1>3, <1>4, <1>5, <1>6, <1>7, <1>8, <1>9, <1>10, <1>11,
       <1>12, <1>13 DEF Next, PoolStep

(* The pool's variables always have their types.                           *)
THEOREM TypeCorrect == Spec => []TypeOK
<1>1. Init => TypeOK
  BY RuntimePoolAssumption DEF Init, TypeOK, Stages, NoRuntime, InHand
<1>2. QED
  BY <1>1, TypeStep, PTL DEF Spec

-----------------------------------------------------------------------------
(* The inductive invariant                                                 *)

(* Each parked caller is in the wait queue once, and waits.                *)
Parked ==
  /\ Distinct(waiters)
  /\ \A i \in 1..Len(waiters) : pc[waiters[i]] = "waiting"

(* next_id is above every id in use, so a new runtime is new.              *)
IdsFresh ==
  /\ \A r \in Live : r < nextId
  /\ \A r \in dirty : r < nextId

(* total counts at least the live runtimes, and never passes the limit.    *)
Counted ==
  /\ IsFiniteSet(Live)
  /\ Cardinality(Live) <= total
  /\ total <= MaxRuntimes

(* Under Manual, a runtime on its way back to the queue has been reset.    *)
ReturnsClean ==
  ResetPolicy = "Manual" =>
    /\ QueuedRuntimesClean
    /\ \A c \in Callers : pc[c] = "returning" => cur[c] \notin dirty

(* Nothing has run in a runtime that is still being created.               *)
CreatingClean == \A c \in Callers : pc[c] = "creating" => cur[c] \notin dirty

IInv ==
  /\ TypeOK
  /\ ExclusiveCheckout
  /\ Parked
  /\ IdsFresh
  /\ Counted
  /\ ReturnsClean
  /\ CreatingClean
  /\ NoLostWakeup

(* The invariant holds in the empty pool.                                  *)
LEMMA InitIInv == Init => IInv
<1> SUFFICES ASSUME Init PROVE IInv
  OBVIOUS
<1>1. TypeOK
  BY RuntimePoolAssumption DEF Init, TypeOK, Stages, NoRuntime, InHand
<1>2. Queued = {} /\ \A c \in Callers : Owned(c) = {} /\ ~InHand(c)
  BY DEF Init, Queued, Elements, Owned, InHand
<1>3. Live = {}
  BY <1>2 DEF Live
<1>4. ExclusiveCheckout
  BY <1>2 DEF Init, ExclusiveCheckout, Distinct
<1>5. Parked /\ IdsFresh /\ NoLostWakeup
  BY <1>3 DEF Init, Parked, Distinct, IdsFresh, NoLostWakeup
<1>6. Counted
  BY <1>3, RuntimePoolAssumption, FS_EmptySet DEF Init, Counted
<1>7. ReturnsClean
  BY <1>2 DEF Init, ReturnsClean, QueuedRuntimesClean
<1>8. CreatingClean
  BY DEF Init, CreatingClean
<1>9. QED
  BY <1>1, <1>4, <1>5, <1>6, <1>7, <1>8 DEF IInv

-----------------------------------------------------------------------------
(* How each step moves runtimes between the queue and their owners         *)

(* The steps that move no runtime.                                         *)
Stays(c) ==
  \/ Checkout(c) \/ WaitForRuntime(c) \/ CreateSucceeds(c)
  \/ ResetSucceeds(c) \/ NotifyReturned(c)
  \/ \E r \in held[c] : RunSession(c, r) \/ DropHandle(c, r)

(* The steps that lose the runtime in hand.                                *)
Loses(c) == CreateFails(c) \/ ResetFails(c)

(* Only caller c's holdings can change in a step of c, and the callers it  *)
(* wakes own nothing in hand.                                              *)
LEMMA OthersKeep ==
  ASSUME TypeOK, Parked, NEW c \in Callers,
         \/ PoolStep(c) \/ Checkout(c)
         \/ \E r \in held[c] : RunSession(c, r) \/ DropHandle(c, r)
  PROVE  \A d \in Callers \ {c} :
           /\ held'[d] = held[d] /\ cur'[d] = cur[d]
           /\ InHand(d)' = InHand(d)
           /\ pc'[d] = pc[d] \/ (pc[d] = "waiting" /\ pc'[d] = "checkout")
<1>1. ASSUME NotifyOneThenReady(c), NEW d \in Callers \ {c}
      PROVE  pc'[d] = pc[d] \/ (pc[d] = "waiting" /\ pc'[d] = "checkout")
  <2>1. CASE waiters = <<>>
    BY <1>1, <2>1 DEF NotifyOneThenReady, TypeOK
  <2>2. CASE waiters # <<>>
    <3>1. pc[Head(waiters)] = "waiting" /\ Head(waiters) \in Callers
      BY <2>2, TailElements DEF TypeOK, Parked, Elements
    <3>2. QED
      BY <1>1, <2>2, <3>1 DEF NotifyOneThenReady, TypeOK
  <2>3. QED
    BY <2>1, <2>2
<1> TAKE d \in Callers \ {c}
<1>2. held'[d] = held[d] /\ cur'[d] = cur[d]
  BY DEF TypeOK, PoolStep, PopQueued, ReserveNew, WaitForRuntime, CreateSucceeds,
     CreateFails, ResetSucceeds, ResetFails, ReturnRuntime, NotifyReturned,
     Checkout, RunSession, DropHandle
<1>3. pc'[d] = pc[d] \/ (pc[d] = "waiting" /\ pc'[d] = "checkout")
  BY <1>1 DEF TypeOK, PoolStep, PopQueued, ReserveNew, WaitForRuntime,
     CreateSucceeds, CreateFails, ResetSucceeds, ResetFails, ReturnRuntime,
     NotifyReturned, Checkout, RunSession, DropHandle, Goto
<1>4. InHand(d)' = InHand(d)
  BY <1>3 DEF InHand
<1>5. QED
  BY <1>2, <1>3, <1>4

(* A caller in the pool is not among those that notify_one can wake.       *)
LEMMA NotifierReady ==
  ASSUME TypeOK, Parked, NEW c \in Callers, pc[c] # "waiting",
         NotifyOneThenReady(c)
  PROVE  pc'[c] = "ready"
<1>1. CASE waiters = <<>>
  BY <1>1 DEF NotifyOneThenReady, TypeOK
<1>2. CASE waiters # <<>>
  <2>1. Head(waiters) # c
    BY <1>2, TailElements DEF TypeOK, Parked, Elements
  <2>2. QED
    BY <1>2, <2>1 DEF NotifyOneThenReady, TypeOK
<1>3. QED
  BY <1>1, <1>2

(* The holdings of c after each kind of step.                              *)
LEMMA StaysEffect ==
  ASSUME TypeOK, Parked, ExclusiveCheckout, NEW c \in Callers, Stays(c)
  PROVE  /\ queue' = queue
         /\ Owned(c)' = Owned(c)
         /\ (InHand(c) => cur[c] \notin held[c])'
<1>1. CASE Checkout(c) \/ WaitForRuntime(c)
  BY <1>1 DEF TypeOK, Checkout, WaitForRuntime, Goto, Owned, InHand
<1>2. CASE CreateSucceeds(c)
  BY <1>2 DEF TypeOK, CreateSucceeds, Goto, Owned, InHand
<1>3. CASE ResetSucceeds(c)
  BY <1>3 DEF TypeOK, ResetSucceeds, Goto, Owned, InHand, ExclusiveCheckout
<1>4. CASE NotifyReturned(c)
  BY <1>4, NotifierReady DEF TypeOK, NotifyReturned, Owned, InHand
<1>5. ASSUME NEW r \in held[c], RunSession(c, r)
      PROVE  /\ queue' = queue
             /\ Owned(c)' = Owned(c)
             /\ (InHand(c) => cur[c] \notin held[c])'
  BY <1>5 DEF RunSession, Owned, InHand
<1>6. ASSUME NEW r \in held[c], DropHandle(c, r)
      PROVE  /\ queue' = queue
             /\ Owned(c)' = Owned(c)
             /\ (InHand(c) => cur[c] \notin held[c])'
  BY <1>6, RuntimePoolAssumption DEF TypeOK, DropHandle, Goto, Owned, InHand
<1>7. QED
  BY <1>1, <1>2, <1>3, <1>4, <1>5, <1>6 DEF Stays

LEMMA LosesEffect ==
  ASSUME TypeOK, Parked, ExclusiveCheckout, NEW c \in Callers, Loses(c)
  PROVE  /\ queue' = queue
         /\ cur[c] \in Owned(c)
         /\ Owned(c)' = Owned(c) \ {cur[c]}
         /\ ~InHand(c)'
<1>1. CASE CreateFails(c)
  BY <1>1 DEF TypeOK, CreateFails, Goto, Owned, InHand, ExclusiveCheckout
<1>2. CASE ResetFails(c)
  BY <1>2, NotifierReady DEF TypeOK, ResetFails, Owned, InHand, ExclusiveCheckout
<1>3. QED
  BY <1>1, <1>2 DEF Loses

LEMMA ReserveEffect ==
  ASSUME TypeOK, NEW c \in Callers, ReserveNew(c), nextId \notin Owned(c)
  PROVE  /\ queue' = queue
         /\ Owned(c)' = Owned(c) \cup {nextId}
         /\ (InHand(c) => cur[c] \notin held[c])'
BY DEF TypeOK, ReserveNew, Goto, Owned, InHand

LEMMA PopEffect ==
  ASSUME TypeOK, ExclusiveCheckout, NEW c \in Callers, PopQueued(c)
  PROVE  /\ Distinct(queue')
         /\ Head(queue) \in Queued
         /\ Queued' = Queued \ {Head(queue)}
         /\ Owned(c)' = Owned(c) \cup {Head(queue)}
         /\ ~InHand(c)'
<1>1. /\ Head(queue) \in Queued
      /\ Queued = Elements(Tail(queue)) \cup {Head(queue)}
      /\ Distinct(Tail(queue)) /\ Head(queue) \notin Elements(Tail(queue))
  BY TailElements DEF TypeOK, ExclusiveCheckout, PopQueued, Queued
<1>2. Queued' = Elements(Tail(queue))
  BY DEF PopQueued, Queued, Elements
<1>3. QED
  BY <1>1, <1>2 DEF TypeOK, PopQueued, Goto, Owned, InHand

LEMMA ReturnEffect ==
  ASSUME TypeOK, ExclusiveCheckout, NEW c \in Callers, ReturnRuntime(c)
  PROVE  /\ Distinct(queue')
         /\ cur[c] \in Owned(c)
         /\ Queued' = Queued \cup {cur[c]}
         /\ Owned(c)' = Owned(c) \ {cur[c]}
         /\ ~InHand(c)'
<1>1. cur[c] \in Nat \ {0} /\ cur[c] \notin Queued /\ cur[c] \notin held[c]
  BY DEF TypeOK, ReturnRuntime, ExclusiveCheckout, InHand, NoRuntime, Owned
<1>2. /\ Elements(Append(queue, cur[c])) = Queued \cup {cur[c]}
      /\ Distinct(Append(queue, cur[c]))
  BY <1>1, AppendElements DEF TypeOK, ExclusiveCheckout, Queued
<1>3. Queued' = Elements(Append(queue, cur[c]))
  BY DEF ReturnRuntime, Queued, Elements
<1>4. QED
  BY <1>1, <1>2, <1>3 DEF TypeOK, ReturnRuntime, Goto, Owned, InHand

(* Every step of Next is one of these, and leaves other callers' holdings  *)
(* alone.                                                                  *)
Moves(c) ==
  Stays(c) \/ Loses(c) \/ ReserveNew(c) \/ PopQueued(c) \/ ReturnRuntime(c)

LEMMA MovesEffect ==
  ASSUME TypeOK, Parked, NEW c \in Callers, Moves(c)
  PROVE  /\ TypeOK'
         /\ \A d \in Callers \ {c} :
              /\ Owned(d)' = Owned(d)
              /\ (InHand(d) => cur[d] \notin held[d])' =
                 (InHand(d) => cur[d] \notin held[d])
<1>1. Next
  BY DEF Next, PoolStep, Moves, Stays, Loses
<1>2. ASSUME NEW d \in Callers \ {c}
      PROVE  /\ Owned(d)' = Owned(d)
             /\ (InHand(d) => cur[d] \notin held[d])' =
                (InHand(d) => cur[d] \notin held[d])
  <2>1. \/ PoolStep(c) \/ Checkout(c)
        \/ \E r \in held[c] : RunSession(c, r) \/ DropHandle(c, r)
    BY DEF Moves, Stays, Loses, PoolStep
  <2>2. held'[d] = held[d] /\ cur'[d] = cur[d] /\ InHand(d)' = InHand(d)
    BY <2>1, OthersKeep
  <2>3. QED
    BY <2>2 DEF Owned
<1>3. QED
  BY <1>1, <1>2, TypeStep

-----------------------------------------------------------------------------
(* Exclusive checkout                                                      *)

(* No step puts a runtime in two places.                                   *)
LEMMA ExclusiveStep ==
  ASSUME TypeOK, Parked, ExclusiveCheckout, IdsFresh,
         NEW c \in Callers, Moves(c)
  PROVE  ExclusiveCheckout'
<1>0. \A d \in Callers \ {c} :
        /\ Owned(d)' = Owned(d)
        /\ (InHand(d) => cur[d] \notin held[d])'
  BY MovesEffect DEF ExclusiveCheckout
<1> SUFFICES /\ Distinct(queue')
             /\ (InHand(c) => cur[c] \notin held[c])'
             /\ \A d \in Callers : Owned(d)' \cap Queued' = {}
             /\ \A d \in Callers \ {c} : Owned(d)' \cap Owned(c)' = {}
  BY <1>0 DEF ExclusiveCheckout, Distinct
<1>1. CASE Stays(c)
  BY <1>0, <1>1, StaysEffect DEF ExclusiveCheckout, Queued
<1>2. CASE Loses(c)
  BY <1>0, <1>2, LosesEffect DEF ExclusiveCheckout, Queued
<1>3. CASE ReserveNew(c)
  <2>1. nextId \notin Live
    BY DEF IdsFresh, TypeOK
  <2>2. nextId \notin Queued /\ \A d \in Callers : nextId \notin Owned(d)
    BY <2>1 DEF Live
  <2>3. QED
    BY <1>0, <1>3, <2>2, ReserveEffect DEF ExclusiveCheckout, Queued
<1>4. CASE PopQueued(c)
  BY <1>0, <1>4, PopEffect DEF ExclusiveCheckout
<1>5. CASE ReturnRuntime(c)
  BY <1>0, <1>5, ReturnEffect DEF ExclusiveCheckout
<1>6. QED
  BY <1>1, <1>2, <1>3, <1>4, <1>5 DEF Moves

(* The wait queue keeps listing exactly once callers that wait.            *)
LEMMA ParkedStep ==
  ASSUME TypeOK, Parked, NEW c \in Callers, Moves(c)
  PROVE  Parked'
<1>1. CASE WaitForRuntime(c)
  <2>1. c \notin Elements(waiters)
    BY <1>1 DEF WaitForRuntime, Parked, Elements
  <2>2. /\ Distinct(waiters')
        /\ Elements(waiters') = Elements(waiters) \cup {c}
    BY <1>1, <2>1, AppendElements DEF WaitForRuntime, Parked, TypeOK
  <2>3. \A d \in Elements(waiters') : pc'[d] = "waiting"
    BY <1>1, <2>2 DEF WaitForRuntime, Goto, Parked, TypeOK, Elements
  <2>4. QED
    BY <2>2, <2>3 DEF Parked, Distinct, Elements
<1>2. CASE ResetFails(c) \/ NotifyReturned(c)
  <2>1. NotifyOneThenReady(c) /\ pc[c] # "waiting"
    BY <1>2 DEF ResetFails, NotifyReturned
  <2>2. CASE waiters = <<>>
    BY <2>1, <2>2 DEF NotifyOneThenReady, Parked, Distinct
  <2>3. CASE waiters # <<>>
    <3>1. /\ Distinct(Tail(waiters)) /\ Head(waiters) \notin Elements(Tail(waiters))
          /\ Elements(Tail(waiters)) \subseteq Elements(waiters)
          /\ Tail(waiters) \in Seq(Callers) /\ Head(waiters) \in Callers
      BY <2>3, TailElements DEF Parked, TypeOK
    <3>2. \A d \in Elements(waiters) : pc[d] = "waiting"
      BY DEF Parked, Elements
    <3>3. \A d \in Elements(Tail(waiters)) : d \in Callers /\ pc'[d] = "waiting"
      BY <2>1, <2>3, <3>1, <3>2 DEF NotifyOneThenReady, TypeOK, Elements
    <3>4. waiters' = Tail(waiters)
      BY <2>1, <2>3 DEF NotifyOneThenReady
    <3>5. QED
      BY <3>1, <3>3, <3>4 DEF Parked, Distinct, Elements
  <2>4. QED
    BY <2>2, <2>3
<1>3. CASE ~(WaitForRuntime(c) \/ ResetFails(c) \/ NotifyReturned(c))
  <2>1. waiters' = waiters /\ pc[c] # "waiting"
        /\ \A d \in Callers \ {c} : pc'[d] = pc[d]
    BY <1>3 DEF TypeOK, Moves, Stays, Loses, PopQueued, ReserveNew,
       CreateSucceeds, CreateFails, ResetSucceeds, ReturnRuntime,
       Checkout, RunSession, DropHandle, Goto
  <2>2. \A i \in 1..Len(waiters) : waiters[i] \in Callers
    BY DEF TypeOK
  <2>3. QED
    BY <2>1, <2>2 DEF Parked, Distinct
<1>4. QED
  BY <1>1, <1>2, <1>3

-----------------------------------------------------------------------------
(* Capacity                                                                *)

(* The live runtimes change only by a reservation and by a failure.        *)
LEMMA LiveEffect ==
  ASSUME TypeOK, Parked, ExclusiveCheckout, IdsFresh,
         NEW c \in Callers, Moves(c)
  PROVE  /\ Stays(c) \/ PopQueued(c) \/ ReturnRuntime(c) => Live' = Live
         /\ Loses(c) => cur[c] \in Live /\ Live' = Live \ {cur[c]}
         /\ ReserveNew(c) => nextId \notin Live /\ Live' = Live \cup {nextId}
<1>0. \A d \in Callers \ {c} : Owned(d)' = Owned(d)
  BY MovesEffect
<1>1. Live = Queued \cup Owned(c) \cup UNION {Owned(d) : d \in Callers \ {c}}
  BY DEF Live
<1>2. Live' = Queued' \cup Owned(c)' \cup UNION {Owned(d) : d \in Callers \ {c}}
  BY <1>0 DEF Live
<1>3. Stays(c) => Live' = Live
  BY <1>1, <1>2, StaysEffect DEF Queued
<1>4. PopQueued(c) => Live' = Live
  BY <1>1, <1>2, PopEffect
<1>5. ReturnRuntime(c) => Live' = Live
  BY <1>1, <1>2, ReturnEffect
<1>6. ASSUME Loses(c) PROVE cur[c] \in Live /\ Live' = Live \ {cur[c]}
  <2>1. cur[c] \in Owned(c) /\ Queued' = Queued /\ Owned(c)' = Owned(c) \ {cur[c]}
    BY <1>6, LosesEffect DEF Queued
  <2>2. cur[c] \notin Queued /\ \A d \in Callers \ {c} : cur[c] \notin Owned(d)
    BY <2>1 DEF ExclusiveCheckout
  <2>3. QED
    BY <1>1, <1>2, <2>1, <2>2
<1>7. ASSUME ReserveNew(c) PROVE nextId \notin Live /\ Live' = Live \cup {nextId}
  <2>1. nextId \notin Live
    BY DEF IdsFresh, TypeOK
  <2>2. nextId \notin Owned(c)
    BY <1>1, <2>1
  <2>3. QED
    BY <1>1, <1>2, <1>7, <2>1, <2>2, ReserveEffect DEF Queued
<1>8. QED
  BY <1>3, <1>4, <1>5, <1>6, <1>7

(* Ids stay below next_id.                                                 *)
LEMMA FreshStep ==
  ASSUME TypeOK, Parked, ExclusiveCheckout, IdsFresh,
         NEW c \in Callers, Moves(c)
  PROVE  IdsFresh'
<1>1. Live' \subseteq Live \cup (IF ReserveNew(c) THEN {nextId} ELSE {})
  BY LiveEffect DEF Moves
<1>2. nextId' = IF ReserveNew(c) THEN nextId + 1 ELSE nextId
  BY DEF Moves, Stays, Loses, ReserveNew, PopQueued, ReturnRuntime, Checkout,
     WaitForRuntime, CreateSucceeds, CreateFails, ResetSucceeds, ResetFails,
     NotifyReturned, RunSession, DropHandle
<1>3. dirty' \subseteq dirty \cup held[c]
  BY DEF Moves, Stays, Loses, ReserveNew, PopQueued, ReturnRuntime, Checkout,
     WaitForRuntime, CreateSucceeds, CreateFails, ResetSucceeds, ResetFails,
     NotifyReturned, RunSession, DropHandle
<1>4. held[c] \subseteq Live
  BY DEF Live, Owned
<1>5. Live \subseteq Nat /\ nextId \in Nat
  <2>1. Queued \subseteq Nat
    BY DEF Queued, Elements, TypeOK
  <2>2. \A d \in Callers : Owned(d) \subseteq Nat
    BY DEF Owned, TypeOK
  <2>3. QED
    BY <2>1, <2>2 DEF Live, TypeOK
<1>6. \A r \in Live \cup dirty : r < nextId /\ r \in Nat
  BY <1>5 DEF IdsFresh, TypeOK
<1>7. \A r \in Live' : r < nextId'
  <2>1. CASE ReserveNew(c)
    BY <1>1, <1>2, <1>5, <1>6, <2>1
  <2>2. CASE ~ReserveNew(c)
    BY <1>1, <1>2, <1>5, <1>6, <2>2
  <2>3. QED
    BY <2>1, <2>2
<1>8. \A r \in dirty' : r < nextId'
  <2>1. nextId' >= nextId /\ nextId' \in Nat
    BY <1>2, <1>5
  <2>2. TAKE r \in dirty'
  <2>3. r \in Nat /\ r < nextId
    BY <1>3, <1>4, <1>6, <2>2
  <2>4. QED
    BY <1>5, <2>1, <2>3
<1>9. QED
  BY <1>7, <1>8 DEF IdsFresh

(* total stays an upper bound of the live runtimes and below the limit.    *)
LEMMA CountedStep ==
  ASSUME TypeOK, Parked, ExclusiveCheckout, IdsFresh, Counted,
         NEW c \in Callers, Moves(c)
  PROVE  Counted'
<1> USE RuntimePoolAssumption
<1>1. Cardinality(Live) \in Nat
  BY FS_CardinalityType DEF Counted
<1>2. CASE Stays(c) \/ PopQueued(c) \/ ReturnRuntime(c)
  <2>1. Live' = Live
    BY <1>2, LiveEffect
  <2>2. total' = total
    BY <1>2 DEF Stays, PopQueued, ReturnRuntime, Checkout, WaitForRuntime,
       CreateSucceeds, ResetSucceeds, NotifyReturned, RunSession, DropHandle
  <2>3. QED
    BY <2>1, <2>2 DEF Counted
<1>3. CASE Loses(c)
  <2>1. cur[c] \in Live /\ Live' = Live \ {cur[c]}
    BY <1>3, LiveEffect
  <2>2. IsFiniteSet(Live') /\ Cardinality(Live') = Cardinality(Live) - 1
    BY <2>1, FS_RemoveElement DEF Counted
  <2>3. total' \in {total, total - 1}
    BY <1>1, <1>3, <2>1, FS_EmptySet DEF Loses, CreateFails, ResetFails, TypeOK, Counted
  <2>4. QED
    BY <1>1, <2>2, <2>3 DEF Counted, TypeOK
<1>4. CASE ReserveNew(c)
  <2>1. nextId \notin Live /\ Live' = Live \cup {nextId}
    BY <1>4, LiveEffect
  <2>2. IsFiniteSet(Live') /\ Cardinality(Live') = Cardinality(Live) + 1
    BY <2>1, FS_AddElement DEF Counted
  <2>3. QED
    BY <1>1, <1>4, <2>2 DEF ReserveNew, Counted, TypeOK
<1>5. QED
  BY <1>2, <1>3, <1>4 DEF Moves

-----------------------------------------------------------------------------
(* Clean reuse, and no lost wake-up                                        *)

(* Under Manual nothing dirty reaches the queue.                           *)
LEMMA CleanStep ==
  ASSUME TypeOK, Parked, ExclusiveCheckout, ReturnsClean,
         NEW c \in Callers, Moves(c)
  PROVE  ReturnsClean'
<1> SUFFICES ASSUME ResetPolicy = "Manual"
             PROVE  /\ Queued' \cap dirty' = {}
                    /\ \A d \in Callers : pc'[d] = "returning" => cur'[d] \notin dirty'
  BY DEF ReturnsClean, QueuedRuntimesClean
<1>1. /\ Queued \cap dirty = {}
      /\ \A d \in Callers : pc[d] = "returning" => cur[d] \notin dirty
  BY DEF ReturnsClean, QueuedRuntimesClean
<1>2. \/ PoolStep(c) \/ Checkout(c)
      \/ \E r \in held[c] : RunSession(c, r) \/ DropHandle(c, r)
  BY DEF Moves, Stays, Loses, PoolStep
<1>3. \A d \in Callers \ {c} :
        pc'[d] = "returning" => pc[d] = "returning" /\ cur'[d] = cur[d]
  BY <1>2, OthersKeep
<1>4. ASSUME NEW r \in held[c], RunSession(c, r)
      PROVE  /\ Queued' \cap dirty' = {}
             /\ \A d \in Callers : pc'[d] = "returning" => cur'[d] \notin dirty'
  <2>1. r \notin Queued
    BY DEF ExclusiveCheckout, Owned
  <2>2. \A d \in Callers : pc[d] = "returning" => cur[d] # r
    BY DEF ExclusiveCheckout, Owned, InHand
  <2>3. UNCHANGED <<queue, pc, cur>> /\ dirty' \subseteq dirty \cup {r}
    BY <1>4 DEF RunSession
  <2>4. QED
    BY <1>1, <2>1, <2>2, <2>3 DEF Queued
<1>5. ASSUME dirty' \subseteq dirty, Queued' \subseteq Queued,
             pc'[c] = "returning" => cur'[c] \notin dirty'
      PROVE  /\ Queued' \cap dirty' = {}
             /\ \A d \in Callers : pc'[d] = "returning" => cur'[d] \notin dirty'
  BY <1>1, <1>3, <1>5
<1>6. CASE ReturnRuntime(c)
  <2>1. Queued' = Queued \cup {cur[c]} /\ cur[c] \notin dirty
    BY <1>1, <1>6, ReturnEffect DEF ReturnRuntime
  <2>2. dirty' = dirty /\ pc'[c] # "returning"
    BY <1>6 DEF ReturnRuntime, Goto, TypeOK
  <2>3. QED
    BY <1>1, <1>3, <2>1, <2>2
<1>7. CASE PopQueued(c)
  <2>1. Queued' \subseteq Queued
    BY <1>7, PopEffect
  <2>2. dirty' = dirty /\ pc'[c] # "returning"
    BY <1>7 DEF PopQueued, Goto, TypeOK
  <2>3. QED
    BY <1>5, <2>1, <2>2
<1>8. CASE ResetFails(c) \/ NotifyReturned(c)
  <2>1. Queued' = Queued
    BY <1>8 DEF ResetFails, NotifyReturned, Queued
  <2>2. dirty' \subseteq dirty
    BY <1>8 DEF ResetFails, NotifyReturned
  <2>3. pc'[c] = "ready"
    BY <1>8, NotifierReady DEF ResetFails, NotifyReturned
  <2>4. QED
    BY <1>5, <2>1, <2>2, <2>3
<1>9. CASE \/ Checkout(c) \/ WaitForRuntime(c) \/ ReserveNew(c)
           \/ CreateSucceeds(c) \/ CreateFails(c) \/ ResetSucceeds(c)
           \/ \E r \in held[c] : DropHandle(c, r)
  <2>1. Queued' = Queued
    BY <1>9 DEF Checkout, WaitForRuntime, ReserveNew, CreateSucceeds, CreateFails,
       ResetSucceeds, DropHandle, Queued
  <2>2. dirty' \subseteq dirty
    BY <1>9 DEF Checkout, WaitForRuntime, ReserveNew, CreateSucceeds, CreateFails,
       ResetSucceeds, DropHandle
  <2>3. pc'[c] = "returning" => cur'[c] \notin dirty'
    BY <1>9 DEF Checkout, WaitForRuntime, ReserveNew, CreateSucceeds, CreateFails,
       ResetSucceeds, DropHandle, Goto, TypeOK
  <2>4. QED
    BY <1>5, <2>1, <2>2, <2>3
<1>10. QED
  BY <1>4, <1>6, <1>7, <1>8, <1>9 DEF Moves, Stays, Loses

(* A runtime under creation gets a fresh id, and sessions run in others.   *)
LEMMA CreatingCleanStep ==
  ASSUME TypeOK, Parked, ExclusiveCheckout, IdsFresh, CreatingClean,
         NEW c \in Callers, Moves(c)
  PROVE  CreatingClean'
<1> SUFFICES ASSUME NEW d \in Callers, pc'[d] = "creating"
             PROVE  cur'[d] \notin dirty'
  BY DEF CreatingClean
<1>1. \/ PoolStep(c) \/ Checkout(c)
      \/ \E r \in held[c] : RunSession(c, r) \/ DropHandle(c, r)
  BY DEF Moves, Stays, Loses, PoolStep
<1>2. CASE ReserveNew(c) /\ d = c
  BY <1>2 DEF ReserveNew, IdsFresh, TypeOK
<1>3. CASE ~(ReserveNew(c) /\ d = c)
  <2>1. pc[d] = "creating" /\ cur'[d] = cur[d]
    <3>1. CASE d # c
      BY <1>1, <3>1, OthersKeep
    <3>2. CASE d = c /\ NotifyOneThenReady(c) /\ pc[c] # "waiting"
      BY <3>2, NotifierReady
    <3>3. CASE d = c /\ ~(NotifyOneThenReady(c) /\ pc[c] # "waiting")
      BY <1>1, <1>3, <3>3 DEF TypeOK, PoolStep, PopQueued, WaitForRuntime,
         ReserveNew, CreateSucceeds, CreateFails, ResetSucceeds, ResetFails,
         ReturnRuntime, NotifyReturned, Checkout, RunSession, DropHandle, Goto
    <3>4. QED
      BY <3>1, <3>2, <3>3
  <2>2. cur[d] \notin dirty
    BY <2>1 DEF CreatingClean
  <2>3. cur[d] \notin held[c]
    BY <2>1 DEF ExclusiveCheckout, Owned, InHand
  <2>4. dirty' \subseteq dirty \cup held[c]
    BY DEF Moves, Stays, Loses, ReserveNew, PopQueued, ReturnRuntime, Checkout,
       WaitForRuntime, CreateSucceeds, CreateFails, ResetSucceeds, ResetFails,
       NotifyReturned, RunSession, DropHandle
  <2>5. QED
    BY <2>1, <2>2, <2>3, <2>4
<1>4. QED
  BY <1>2, <1>3

(* How the set of callers awake changes.                                   *)
LEMMA AwakeFinite ==
  /\ IsFiniteSet(Awake)
  /\ Cardinality(Awake) \in Nat
BY RuntimePoolAssumption, FS_Subset, FS_CardinalityType DEF Awake

(* A wake-up adds one caller to those awake.                               *)
LEMMA NotifyAwake ==
  ASSUME TypeOK, Parked, NEW c \in Callers, pc[c] # "waiting",
         NotifyOneThenReady(c), waiters # <<>>
  PROVE  \E w \in Callers \ Awake : w # c /\ Awake' = (Awake \ {c}) \cup {w}
<1>1. Head(waiters) \in Callers /\ pc[Head(waiters)] = "waiting"
  BY TailElements DEF TypeOK, Parked, Elements
<1>2. Awake' = (Awake \ {c}) \cup {Head(waiters)}
  BY <1>1 DEF NotifyOneThenReady, Awake, TypeOK
<1>3. QED
  BY <1>1, <1>2 DEF Awake

(* No step leaves an available runtime without someone awake to take it.   *)
LEMMA WakeupStep ==
  ASSUME TypeOK, Parked, Counted, NoLostWakeup, NEW c \in Callers, Moves(c)
  PROVE  NoLostWakeup'
<1> USE RuntimePoolAssumption, AwakeFinite DEF TypeOK
<1>0. SUFFICES ASSUME waiters' # <<>>
               PROVE  Available' <= Cardinality(Awake')
  BY DEF NoLostWakeup
<1>1. CASE WaitForRuntime(c)
  <2>1. Available' = 0
    BY <1>1 DEF WaitForRuntime, Available, Counted
  <2>2. IsFiniteSet(Awake') /\ Cardinality(Awake') \in Nat
    <3>1. Awake' \subseteq Callers
      BY DEF Awake
    <3>2. QED
      BY <3>1, FS_Subset, FS_CardinalityType
  <2>3. QED
    BY <2>1, <2>2
<1>2. CASE ReserveNew(c) \/ PopQueued(c)
  <2>1. Awake' = Awake \ {c} /\ c \in Awake /\ waiters' = waiters
    BY <1>2 DEF ReserveNew, PopQueued, Goto, Awake
  <2>2. Available' = Available - 1 /\ Available \in Int
    <3>1. CASE PopQueued(c)
      <4>1. Len(queue') = Len(queue) - 1 /\ total' = total
        BY <3>1 DEF PopQueued
      <4>2. QED
        BY <4>1 DEF Available
    <3>2. CASE ReserveNew(c)
      <4>1. queue' = queue /\ total' = total + 1
        BY <3>2 DEF ReserveNew
      <4>2. QED
        BY <4>1 DEF Available
    <3>3. QED
      BY <1>2, <3>1, <3>2
  <2>3. Cardinality(Awake') = Cardinality(Awake) - 1
    BY <2>1, FS_RemoveElement
  <2>4. QED
    BY <1>0, <2>1, <2>2, <2>3 DEF NoLostWakeup
<1>3. CASE ReturnRuntime(c)
  <2>1. Awake' = Awake \cup {c} /\ c \notin Awake /\ waiters' = waiters
    BY <1>3 DEF ReturnRuntime, Goto, Awake
  <2>2. Available' = Available + 1 /\ Available \in Int
    BY <1>3 DEF ReturnRuntime, Available
  <2>3. Cardinality(Awake') = Cardinality(Awake) + 1
    BY <2>1, FS_AddElement
  <2>4. QED
    BY <1>0, <2>1, <2>2, <2>3 DEF NoLostWakeup
<1>4. CASE NotifyReturned(c) \/ ResetFails(c)
  <2>1. NotifyOneThenReady(c) /\ pc[c] # "waiting"
    BY <1>4 DEF NotifyReturned, ResetFails
  <2>2. waiters # <<>>
    BY <1>0, <2>1 DEF NotifyOneThenReady
  <2>3. PICK w \in Callers \ Awake : w # c /\ Awake' = (Awake \ {c}) \cup {w}
    BY <2>1, <2>2, NotifyAwake
  <2>4. CASE NotifyReturned(c)
    <3>1. Available' = Available /\ c \in Awake
      BY <2>4 DEF NotifyReturned, Available, Awake
    <3>2. /\ IsFiniteSet(Awake \ {c})
          /\ Cardinality(Awake \ {c}) = Cardinality(Awake) - 1
      BY <3>1, FS_RemoveElement
    <3>3. Cardinality(Awake') = Cardinality(Awake)
      <4>1. w \notin Awake \ {c}
        BY <2>3
      <4>2. Cardinality((Awake \ {c}) \cup {w}) = Cardinality(Awake \ {c}) + 1
        BY <3>2, <4>1, FS_AddElement
      <4>3. QED
        BY <2>3, <3>2, <4>2
    <3>4. QED
      BY <2>2, <3>1, <3>3 DEF NoLostWakeup
  <2>5. CASE ResetFails(c)
    <3>1. Available' <= Available + 1 /\ Available \in Int /\ Available' \in Int
      BY <2>5 DEF ResetFails, Available
    <3>2. Awake \ {c} = Awake
      BY <2>5 DEF ResetFails, Awake
    <3>3. Cardinality(Awake') = Cardinality(Awake) + 1
      BY <2>3, <3>2, FS_AddElement
    <3>4. QED
      BY <2>2, <3>1, <3>3 DEF NoLostWakeup
  <2>6. QED
    BY <1>4, <2>4, <2>5
<1>5. CASE Checkout(c)
  <2>1. Awake' = Awake \cup {c} /\ c \notin Awake /\ waiters' = waiters
    BY <1>5 DEF Checkout, Goto, Awake
  <2>2. Available' = Available /\ Available \in Int
    BY <1>5 DEF Checkout, Available
  <2>3. Cardinality(Awake') = Cardinality(Awake) + 1
    BY <2>1, FS_AddElement
  <2>4. QED
    BY <1>0, <2>1, <2>2, <2>3 DEF NoLostWakeup
<1>6. CASE \/ CreateSucceeds(c) \/ CreateFails(c) \/ ResetSucceeds(c)
           \/ \E r \in held[c] : RunSession(c, r) \/ DropHandle(c, r)
  <2>1. Awake' = Awake /\ waiters' = waiters /\ Available' = Available
    BY <1>6 DEF CreateSucceeds, CreateFails, ResetSucceeds, RunSession,
       DropHandle, Goto, Awake, Available
  <2>2. QED
    BY <1>0, <2>1 DEF NoLostWakeup
<1>7. QED
  BY <1>1, <1>2, <1>3, <1>4, <1>5, <1>6 DEF Moves, Stays, Loses

-----------------------------------------------------------------------------
(* The theorems                                                            *)

LEMMA IInvStep == IInv /\ [Next]_vars => IInv'
<1> SUFFICES ASSUME IInv, [Next]_vars PROVE IInv'
  OBVIOUS
<1>1. CASE UNCHANGED vars
  BY <1>1 DEF vars, IInv, TypeOK, ExclusiveCheckout, Parked, IdsFresh, Counted,
     ReturnsClean, QueuedRuntimesClean, CreatingClean, NoLostWakeup, Live, Owned, Queued,
     InHand, Elements, Distinct, Awake, Available
<1>2. ASSUME NEW c \in Callers, Moves(c) PROVE IInv'
  BY <1>2, MovesEffect, ExclusiveStep, ParkedStep, FreshStep, CountedStep,
     CleanStep, CreatingCleanStep, WakeupStep DEF IInv
<1>3. QED
  BY <1>1, <1>2 DEF Next, PoolStep, Moves, Stays, Loses

LEMMA Invariance == Spec => []IInv
BY InitIInv, IInvStep, PTL DEF Spec

(* Whatever the callers, the capacity and the failures: a runtime is never *)
(* in two places, so checkout never hands one PyRuntime to two handles.    *)
THEOREM CheckoutIsExclusive == Spec => []ExclusiveCheckout
BY Invariance, PTL DEF IInv

(* checkout never lets more than max_runtimes runtimes exist at once.      *)
THEOREM CapacityIsRespected == Spec => []CapacityRespected
<1>1. IInv => CapacityRespected
  BY FS_CardinalityType, RuntimePoolAssumption
  DEF IInv, Counted, CapacityRespected, TypeOK
<1>2. QED
  BY <1>1, Invariance, PTL

(* Under ResetPolicy::Manual every runtime in the queue has been reset     *)
(* since handler code last ran in it.                                      *)
THEOREM ReuseIsClean ==
  ASSUME ResetPolicy = "Manual"
  PROVE  Spec => []QueuedRuntimesClean
<1>1. IInv => QueuedRuntimesClean
  BY DEF IInv, ReturnsClean
<1>2. QED
  BY <1>1, Invariance, PTL

(* checkout and the drop of a handle lose no wake-up.                      *)
THEOREM WakeupsAreNotLost == Spec => []NoLostWakeup
BY Invariance, PTL DEF IInv

-----------------------------------------------------------------------------
(* The pool implements the abstract pool                                   *)

(* What one caller's step does to the runtimes its clients see.            *)
LEMMA OwnedFunction ==
  ASSUME TypeOK, Parked, NEW c \in Callers, Moves(c)
  PROVE  [d \in Callers |-> Owned(d)]' =
         [[d \in Callers |-> Owned(d)] EXCEPT ![c] = Owned(c)']
BY MovesEffect

(* The runtimes that exist are the same under both names.                  *)
LEMMA SameExisting == Pool!Existing = Live
BY DEF Pool!Existing, Live

(* So is how many there are.                                               *)
LEMMA SameCardinality ==
  ASSUME NEW S
  PROVE  Pool!Cardinality(S) = Cardinality(S)
BY DEF Pool!Cardinality, Cardinality

(* Every step of a caller is a step of the abstract pool, or shows nothing.*)
LEMMA PoolMoves ==
  ASSUME IInv, NEW c \in Callers, Moves(c)
  PROVE  [Pool!Next]_(Pool!vars)
<1> DEFINE owned == [d \in Callers |-> Owned(d)]
<1>1. /\ TypeOK /\ Parked /\ ExclusiveCheckout /\ IdsFresh /\ Counted
      /\ ReturnsClean /\ CreatingClean
  BY DEF IInv
<1>2. owned' = [owned EXCEPT ![c] = Owned(c)'] /\ owned[c] = Owned(c)
  BY <1>1, OwnedFunction
<1>3. CASE Stays(c) /\ dirty' = dirty
  <2>1. Queued' = Queued /\ owned' = owned
    BY <1>1, <1>2, <1>3, StaysEffect DEF Queued
  <2>2. QED
    BY <1>3, <2>1 DEF Pool!vars
<1>4. ASSUME NEW r \in held[c], RunSession(c, r) PROVE Pool!Next
  <2>1. /\ Queued' = Queued /\ owned' = owned
        /\ r \in owned[c]
    <3>1. queue' = queue /\ Owned(c)' = Owned(c)
      BY <1>1, <1>4, StaysEffect DEF Stays
    <3>2. Queued' = Queued
      BY <3>1 DEF Queued
    <3>3. owned' = owned
      BY <1>2, <3>1
    <3>4. QED
      BY <1>2, <3>2, <3>3 DEF Owned
  <2>2. dirty' = dirty \cup {r} \/ dirty' = dirty \ {r}
    BY <1>4 DEF RunSession
  <2>3. Pool!Use(c) \/ Pool!Clean(c)
    BY <2>1, <2>2 DEF Pool!Use, Pool!Clean
  <2>4. QED
    BY <2>3 DEF Pool!Next
<1>5. CASE ResetSucceeds(c)
  <2>1. /\ Queued' = Queued /\ owned' = owned
        /\ cur[c] \in owned[c] /\ dirty' = dirty \ {cur[c]}
    BY <1>1, <1>2, <1>5, StaysEffect DEF Queued, Stays, Owned, InHand, ResetSucceeds
  <2>2. Pool!Clean(c)
    BY <2>1 DEF Pool!Clean
  <2>3. QED
    BY <2>2 DEF Pool!Next
<1>6. CASE Loses(c)
  <2>1. /\ Queued' = Queued /\ cur[c] \in owned[c]
        /\ owned' = [owned EXCEPT ![c] = @ \ {cur[c]}]
    BY <1>1, <1>2, <1>6, LosesEffect DEF Queued
  <2>2. dirty' = dirty \ {cur[c]}
    BY <1>1, <1>6 DEF Loses, CreateFails, ResetFails, CreatingClean
  <2>3. Pool!Discard(c)
    BY <2>1, <2>2 DEF Pool!Discard
  <2>4. QED
    BY <2>3 DEF Pool!Next
<1>7. CASE ReserveNew(c)
  <2>1. nextId \notin Live /\ nextId \notin dirty
    BY <1>1 DEF IdsFresh, TypeOK
  <2>2. /\ Queued' = Queued /\ dirty' = dirty
        /\ owned' = [owned EXCEPT ![c] = @ \cup {nextId}]
    <3>1. nextId \notin Owned(c)
      BY <2>1 DEF Live
    <3>2. QED
      BY <1>1, <1>2, <1>7, <3>1, ReserveEffect DEF Queued, ReserveNew
  <2>3. Cardinality(Live) < MaxRuntimes
    BY <1>1, <1>7, RuntimePoolAssumption, FS_CardinalityType
    DEF Counted, ReserveNew, TypeOK
  <2>4. nextId \in owned'[c] \ (Live \cup dirty)
    BY <2>1, <2>2
  <2>5. Pool!Make(c)
    BY <2>2, <2>3, <2>4, SameExisting, SameCardinality DEF Pool!Make
  <2>6. QED
    BY <2>5 DEF Pool!Next
<1>8. CASE PopQueued(c)
  <2>1. /\ Head(queue) \in Queued /\ Queued' = Queued \ {Head(queue)}
        /\ owned' = [owned EXCEPT ![c] = @ \cup {Head(queue)}]
        /\ dirty' = dirty
    BY <1>1, <1>2, <1>8, PopEffect DEF PopQueued
  <2>2. Pool!Take(c)
    BY <2>1 DEF Pool!Take
  <2>3. QED
    BY <2>2 DEF Pool!Next
<1>9. CASE ReturnRuntime(c)
  <2>1. /\ cur[c] \in owned[c] /\ Queued' = Queued \cup {cur[c]}
        /\ owned' = [owned EXCEPT ![c] = @ \ {cur[c]}]
        /\ dirty' = dirty
    BY <1>1, <1>2, <1>9, ReturnEffect DEF ReturnRuntime
  <2>2. ResetPolicy = "Manual" => cur[c] \notin dirty
    BY <1>1, <1>9 DEF ReturnsClean, ReturnRuntime
  <2>3. Pool!GiveBack(c)
    BY <2>1, <2>2 DEF Pool!GiveBack
  <2>4. QED
    BY <2>3 DEF Pool!Next
<1>10. CASE Stays(c) /\ dirty' # dirty
  BY <1>4, <1>5, <1>10 DEF Stays, Checkout, WaitForRuntime, CreateSucceeds,
     NotifyReturned, DropHandle
<1>11. QED
  BY <1>3, <1>6, <1>7, <1>8, <1>9, <1>10 DEF Moves

(* Whatever the callers, the capacity and the failures, PyRuntimePool is a *)
(* bounded pool of exclusively owned runtimes: every behaviour of checkout *)
(* and drop is a behaviour of ResourcePool.                                *)
THEOREM PoolIsImplemented == Spec => ImplementsPool
<1>1. Init => Pool!Init
  BY DEF Init, Pool!Init, Queued, Elements, Owned, InHand
<1>2. IInv /\ [Next]_vars => [Pool!Next]_(Pool!vars)
  <2> SUFFICES ASSUME IInv, [Next]_vars PROVE [Pool!Next]_(Pool!vars)
    OBVIOUS
  <2>1. CASE UNCHANGED vars
    BY <2>1 DEF vars, Pool!vars, Queued, Elements, Owned, InHand
  <2>2. CASE Next
    BY <2>2, PoolMoves DEF Next, PoolStep, Moves, Stays, Loses
  <2>3. QED
    BY <2>1, <2>2
<1>3. QED
  BY <1>1, <1>2, Invariance, PTL DEF Spec, ImplementsPool, Pool!Spec
=============================================================================
