---------------------------- MODULE ResourcePool ----------------------------
(***************************************************************************)
(* What a pool of single-user resources promises its clients, with nothing *)
(* of how it is kept: a bounded number of resources exist, each is idle or *)
(* owned by one client, only its owner uses it, and (when MustClean holds) *)
(* no client receives one in which traces of an earlier use remain.        *)
(* PyRuntimePool implements it (RuntimePool).                              *)
(***************************************************************************)
EXTENDS Naturals, FiniteSets

CONSTANTS
  Clients,    \* those that take resources
  Capacity,   \* how many resources may exist at a time
  MustClean   \* whether a resource must be cleaned before it is given back

VARIABLES
  idle,       \* the resources nobody owns
  owned,      \* the resources of each client
  used        \* the resources in which traces of a use remain

vars == <<idle, owned, used>>

Existing == idle \cup UNION {owned[c] : c \in Clients}

Init ==
  /\ idle = {}
  /\ owned = [c \in Clients |-> {}]
  /\ used = {}

(* A new resource, whichever it is, is unlike every other and unused.      *)
Make(c) ==
  /\ Cardinality(Existing) < Capacity
  /\ \E r \in owned'[c] \ (Existing \cup used) :
       owned' = [owned EXCEPT ![c] = @ \cup {r}]
  /\ UNCHANGED <<idle, used>>

Take(c) ==
  /\ \E r \in idle :
       /\ idle' = idle \ {r}
       /\ owned' = [owned EXCEPT ![c] = @ \cup {r}]
  /\ UNCHANGED used

Use(c) ==
  /\ \E r \in owned[c] : used' = used \cup {r}
  /\ UNCHANGED <<idle, owned>>

Clean(c) ==
  /\ \E r \in owned[c] : used' = used \ {r}
  /\ UNCHANGED <<idle, owned>>

GiveBack(c) ==
  /\ \E r \in owned[c] :
       /\ MustClean => r \notin used
       /\ idle' = idle \cup {r}
       /\ owned' = [owned EXCEPT ![c] = @ \ {r}]
  /\ UNCHANGED used

(* A resource that could not be made or cleaned is gone.                   *)
Discard(c) ==
  /\ \E r \in owned[c] :
       /\ owned' = [owned EXCEPT ![c] = @ \ {r}]
       /\ used' = used \ {r}
  /\ UNCHANGED idle

Next ==
  \E c \in Clients :
    Make(c) \/ Take(c) \/ Use(c) \/ Clean(c) \/ GiveBack(c) \/ Discard(c)

Spec == Init /\ [][Next]_vars
=============================================================================
