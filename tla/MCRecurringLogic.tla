-------------------------- MODULE MCRecurringLogic --------------------------
(* Instances of RecurringLogic for TLC.                                    *)
EXTENDS RecurringLogic

CancelOnly == {"cancel logic"}
=============================================================================
