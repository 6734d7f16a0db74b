----------------------------- MODULE MCTaskSync -----------------------------
(* Instances of TaskSync for TLC: a parent and its sub-task.               *)
EXTENDS TaskSync

CONSTANTS parent, child

Family == [t \in Task |-> IF t = child /\ parent \in Task THEN parent ELSE NoTask]
=============================================================================
