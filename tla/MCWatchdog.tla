----------------------------- MODULE MCWatchdog -----------------------------
(* Watchdog with short intervals. *)
EXTENDS Watchdog
=============================================================================
