------------------------------ MODULE MCWatchdog ------------------------------
(* TLC instances of Watchdog. *)
EXTENDS Watchdog
===============================================================================
