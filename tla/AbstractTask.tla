---------------------------- MODULE AbstractTask ----------------------------
(***************************************************************************)
(* What the parts of foreman-tasks rely on when they look at the row of a  *)
(* task: it is created once, at the earliest when the execution plan       *)
(* begins; it is closed (stopped) only after the plan is over and never    *)
(* opened again; and only a closed row is removed, for good.  A plan that  *)
(* is over, or whose records were deleted, does not go on.                 *)
(*                                                                         *)
(* All of this but the removal is void for the tasks that are astray: their*)
(* plan was stopped while another process was planning it, which then goes *)
(* on and opens the row again.  Only such a stop makes them so.            *)
(*                                                                         *)
(* TaskSync implements this with hooks and the consistency check, TaskLocks*)
(* with their effect on two states, Cleaner with what deletes the rows:    *)
(* three views of one table, the last two without tasks that are astray.   *)
(***************************************************************************)
CONSTANT
  Task   \* the tasks

VARIABLES
  life,  \* life[t]: whether the execution plan is "idle", "going" or "over"
  row,   \* row[t]: "none" before it is created, "open", "closed", "removed"
  astray \* the tasks stopped while being planned

vars == <<life, row, astray>>

TypeOK ==
  /\ life \in [Task -> {"idle", "going", "over"}]
  /\ row \in [Task -> {"none", "open", "closed", "removed"}]
  /\ astray \subseteq Task

Init ==
  /\ life = [t \in Task |-> "idle"]
  /\ row = [t \in Task |-> "none"]
  /\ astray = {}

(* The plan begins; its row may come with it, later, or not at all.        *)
Begin(t) ==
  /\ life[t] = "idle" /\ row[t] = "none"
  /\ life' = [life EXCEPT ![t] = "going"]
  /\ row' \in {row, [row EXCEPT ![t] = "open"]}
  /\ UNCHANGED astray

Open(t) ==
  /\ life[t] # "idle" /\ row[t] = "none"
  /\ row' = [row EXCEPT ![t] = "open"]
  /\ UNCHANGED <<life, astray>>

End(S) ==
  /\ \A t \in S : life[t] # "idle"
  /\ life' = [t \in Task |-> IF t \in S THEN "over" ELSE life[t]]
  /\ UNCHANGED <<row, astray>>

(* Stopped while being planned: a plan that is not over yet. *)
Interrupt(t) ==
  /\ life[t] = "going"
  /\ life' = [life EXCEPT ![t] = "over"]
  /\ astray' = astray \cup {t}
  /\ UNCHANGED row

(* The process that plans the task saves its own plan. *)
Revive(t) ==
  /\ t \in astray /\ life[t] = "over"
  /\ life' = [life EXCEPT ![t] = "going"]
  /\ UNCHANGED <<row, astray>>

Close(t) ==
  /\ life[t] = "over" \/ t \in astray
  /\ row[t] = "open"
  /\ row' = [row EXCEPT ![t] = "closed"]
  /\ UNCHANGED <<life, astray>>

Reopen(t) ==
  /\ t \in astray /\ row[t] = "closed"
  /\ row' = [row EXCEPT ![t] = "open"]
  /\ UNCHANGED <<life, astray>>

Remove(S) ==
  /\ \A t \in S : row[t] = "closed"
  /\ row' = [t \in Task |-> IF t \in S THEN "removed" ELSE row[t]]
  /\ UNCHANGED <<life, astray>>

Next ==
  \/ \E t \in Task :
       \/ Begin(t) \/ Open(t) \/ Close(t)
       \/ Interrupt(t) \/ Revive(t) \/ Reopen(t)
  \/ \E S \in SUBSET Task : End(S) \/ Remove(S)

Spec == Init /\ [][Next]_vars
=============================================================================
