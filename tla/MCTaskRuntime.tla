----------------------------- MODULE MCTaskRuntime -----------------------------
(* TLC instances of TaskRuntime.  *)
EXTENDS TaskRuntime, TLC

CONSTANTS u1, t1, i1, i2

OneTask == t1 :> u1
MCSymmetry == Permutations({i1, i2})

================================================================================
