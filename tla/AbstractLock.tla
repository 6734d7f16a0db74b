---------------------------- MODULE AbstractLock ----------------------------
(***************************************************************************)
(* What the lock service of foreman-tasks promises to its users.  A task   *)
(* takes all the resources it needs in one atomic step, each of them free, *)
(* at most once in its life; a resource is given back only after the task  *)
(* that owns it is over, one resource at a time.                           *)
(*                                                                         *)
(* TaskLocks.tla implements this with a database table, a unique index and *)
(* one transaction per planning phase.                                     *)
(***************************************************************************)
CONSTANTS
  Task,      \* the tasks
  Resource,  \* the resources that can be locked
  NoTask     \* "nobody owns the resource"

VARIABLES
  owner,     \* owner[r]: the task that has locked r, or NoTask
  phase      \* phase[t]: "idle" before its locks are taken, "working", "over"

vars == <<owner, phase>>

Phases == {"idle", "working", "over"}

TypeOK ==
  /\ owner \in [Resource -> Task \cup {NoTask}]
  /\ phase \in [Task -> Phases]

Init ==
  /\ owner = [r \in Resource |-> NoTask]
  /\ phase = [t \in Task |-> "idle"]

Acquire(t, S) ==
  /\ phase[t] = "idle"
  /\ \A r \in S : owner[r] = NoTask
  /\ owner' = [r \in Resource |-> IF r \in S THEN t ELSE owner[r]]
  /\ phase' = [phase EXCEPT ![t] = "working"]

Finish(t) ==
  /\ phase[t] # "over"
  /\ phase' = [phase EXCEPT ![t] = "over"]
  /\ UNCHANGED owner

Release(r) ==
  /\ owner[r] # NoTask
  /\ phase[owner[r]] = "over"
  /\ owner' = [owner EXCEPT ![r] = NoTask]
  /\ UNCHANGED phase

Next ==
  \/ \E t \in Task, S \in SUBSET Resource : Acquire(t, S)
  \/ \E t \in Task : Finish(t)
  \/ \E r \in Resource : Release(r)

Spec == Init /\ [][Next]_vars
=============================================================================
