------------------------------ MODULE MCTaskStore ------------------------------
(* TLC instances of TaskStore.  *)
EXTENDS TaskStore, TLC

CONSTANTS u1, t1, t2

OneUser == [t \in {t1, t2} |-> u1]

SlotSymmetry == Permutations(Slots)

================================================================================
