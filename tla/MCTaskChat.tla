------------------------------- MODULE MCTaskChat -------------------------------
(* Model values of TaskChat for TLC. *)
EXTENDS TaskChat

Coroutines == {"request", "dispatcher", "executor", "watchdog"}

================================================================================
