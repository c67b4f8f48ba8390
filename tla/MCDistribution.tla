---------------------------- MODULE MCDistribution ----------------------------
(* Two staging commands and two engines at a time, two variants.           *)
EXTENDS Distribution, TLC

Symmetry == Permutations(Stager) \cup Permutations(Engine)

=============================================================================
