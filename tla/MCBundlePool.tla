----------------------------- MODULE MCBundlePool -----------------------------
(* TLC instances of BundlePool. *)
EXTENDS BundlePool, TLC

Symmetry == Permutations(Callers)
===============================================================================
