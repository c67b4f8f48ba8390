---------------------------- MODULE MCPoolRegistry ----------------------------
(* TLC instances of PoolRegistry. *)
EXTENDS PoolRegistry, TLC

Symmetry == Permutations(Callers) \cup Permutations(Keys)
===============================================================================
