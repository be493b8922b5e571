----------------------------- MODULE MCWatchdog -----------------------------
EXTENDS Watchdog, TLC

CONSTANTS engine, ha, healthcheck

(* The engine and two of its dependents, as in watchdog.cfg. *)
MCDependency == engine :> None @@ ha :> engine @@ healthcheck :> engine
=============================================================================
