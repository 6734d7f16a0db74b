----------------------------- MODULE MCTaskLocks -----------------------------
(* Instances of TaskLocks for TLC: a parent, its child and a stranger.     *)
EXTENDS TaskLocks

CONSTANTS parent, child, other, r1, r2

Family == [t \in Task |-> IF t = child THEN parent ELSE NoTask]
NoRelated == [r \in Resource |-> {}]
SecondRelated == [r \in Resource |-> IF r = r1 THEN {r2} ELSE {}]
=============================================================================
