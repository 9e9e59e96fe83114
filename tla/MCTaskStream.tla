------------------------------ MODULE MCTaskStream ------------------------------
(* Model values of TaskStream for TLC. *)
EXTENDS TaskStream

Coroutines == {"request", "dispatcher", "executor", "watchdog"}

================================================================================
