---------------------------- MODULE MCRuntimePool ----------------------------
(* TLC instances of RuntimePool. *)
EXTENDS RuntimePool, TLC

Symmetry == Permutations(Callers)
=============================================================================
