------------------------------- MODULE MCIsolate -------------------------------
(* TLC instances of Isolate. *)
EXTENDS Isolate
===============================================================================
