------------------------------ MODULE MCCleaner ------------------------------
(* Instances of Cleaner for TLC: an old-tasks rule for every task and one  *)
(* for the tasks of an action whose tasks are cleaned at any age.          *)
EXTENDS Cleaner

CONSTANTS general, hourly, t1

Finds == [r \in Rule |-> IF r = hourly THEN {t1} ELSE Task]
=============================================================================
