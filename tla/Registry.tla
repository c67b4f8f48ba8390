------------------------------- MODULE Registry -------------------------------
(***************************************************************************)
(* What BundlePoolRegistry and WarmedBundleHostRegistry (crates/           *)
(* aardvark-core/src/persistent/) have in common: a map that callers look  *)
(* an entry up in, one of them creates it with no lock held while the      *)
(* others wait on the registry's condvar, and a creation that fails frees  *)
(* the entry again.  PoolRegistry and WarmedHosts extend this module with  *)
(* the maps of each.                                                       *)
(***************************************************************************)
EXTENDS Integers, FiniteSets

CONSTANTS
  Callers,
  Keys,
  MaxFailures,   \* bound: creations, preparations and parses that fail
  MaxRemovals    \* bound: removals and clears

ASSUME RegistryAssumption ==
  /\ IsFiniteSet(Callers)
  /\ MaxFailures \in Nat
  /\ MaxRemovals \in Nat

VARIABLES
  waiters,   \* callers parked on the condvar
  pc, key,   \* where each caller is, and the key it asked for
  failures, removals   \* bounds only

bounds == <<failures, removals>>

Goto(c, stage) == pc' = [pc EXCEPT ![c] = stage]

(* Mutant: nobody is told.                                                 *)
NotifyNobody(c, stage) == Goto(c, stage) /\ UNCHANGED waiters

(* condvar.notify_all(): every parked caller goes back to the loop that    *)
(* looks the key up; c goes on to a stage.                                 *)
NotifyAll(c, stage) ==
  /\ waiters' = {}
  /\ pc' = [d \in Callers |-> IF d = c THEN stage
                              ELSE IF d \in waiters THEN "lookup" ELSE pc[d]]

IsCreating(c, k) == pc[c] = "creating" /\ key[c] = k

(* An entry is marked as being created exactly while one caller creates it. *)
SingleFlight(marked) ==
  \A k \in Keys :
    Cardinality({c \in Callers : IsCreating(c, k)}) =
      IF k \in marked THEN 1 ELSE 0

(* Every caller that waits for a creation goes on.                         *)
WaitersWoken == \A c \in Callers : pc[c] = "waiting" ~> pc[c] # "waiting"
===============================================================================
