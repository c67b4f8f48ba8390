----------------------------- MODULE MCWarmedHosts -----------------------------
(* TLC instances of WarmedHosts: archives d1 and d2 have equal contents.   *)
EXTENDS WarmedHosts, TLC

CONSTANTS d1, d2, d3, k1, k2

EqualArchives == d1 :> k1 @@ d2 :> k1 @@ d3 :> k2
===============================================================================
