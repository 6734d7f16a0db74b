------------------------------ MODULE TaskLocks ------------------------------
(***************************************************************************)
(* The exclusive locks of foreman-tasks: rows of foreman_tasks_locks that  *)
(* an entry action inserts during its planning phase and that a hook       *)
(* removes when its execution plan stops.                                  *)
(*                                                                         *)
(* Planning runs in a database transaction: the rows a planner inserts are *)
(* invisible to the others until it commits, but the unique index on the   *)
(* resource makes a second insert wait for the first transaction to end.   *)
(* A task that finds a lock of its own or of an ancestor on the resource   *)
(* relies on that lock and inserts nothing.  The hooks of a plan run after *)
(* the plan was saved; they can fail or die with their process, and the    *)
(* consistency check that an executor runs when it starts repairs what     *)
(* they left.                                                              *)
(***************************************************************************)
EXTENDS Naturals

CONSTANTS
  Task,        \* the tasks, each with the execution plan it follows
  Resource,    \* the records of Foreman that can be locked (hosts, ...)
  NoTask,      \* "no task"
  NoResource,  \* "no resource"
  Parent,      \* Parent[t]: the task that triggered t as a sub-task, or NoTask
  Related      \* Related[r]: all_related_resources of r

ASSUME NoTaskAssumption == NoTask \notin Task
ASSUME NoResourceAssumption == NoResource \notin Resource
ASSUME ParentAssumption == Parent \in [Task -> Task \cup {NoTask}]
ASSUME RelatedAssumption == Related \in [Resource -> SUBSET Resource]

VARIABLES
  plan,      \* plan[t]: state of the execution plan as Dynflow saved it
  row,       \* row[t]: state of the row of foreman_tasks_tasks, "none" without one
  hooks,     \* hooks[t]: hooks of the stopped plan still to be run
  txn,       \* txn[t]: the transaction of t's planning phase
  planners,  \* the tasks with a living process in their planning phase
  inserted,  \* inserted[t]: resources of the lock rows t's open transaction inserted
  waiting,   \* waiting[t]: the resource whose lock row t is about to insert
  lock,      \* lock[r]: the task_id of the committed lock row of r, or NoTask
  uses,      \* uses[t]: resources for which exclusive_lock! returned in t
  links,     \* links[t]: resources t is linked to
  checker,   \* progress of consistency_check
  stale,     \* rows consistency_check selected and has still to update
  victims    \* lock rows consistency_check selected and has still to destroy

planningVars == <<txn, planners, inserted, waiting, uses, links>>
checkerVars  == <<checker, stale, victims>>
vars == <<plan, row, hooks, lock, planningVars, checkerVars>>

(* "running" stands for planned, running and paused: a lock is kept        *)
(* through all three.  A row is "active" in every state but "stopped".     *)
PlanStates == {"new", "planning", "running", "stopped"}
RowStates  == {"none", "active", "stopped"}

TypeOK ==
  /\ plan \in [Task -> PlanStates]
  /\ row \in [Task -> RowStates]
  /\ hooks \in [Task -> SUBSET {"sync", "drop"}]
  /\ txn \in [Task -> {"none", "open", "committed", "rolledback"}]
  /\ planners \subseteq Task
  /\ inserted \in [Task -> SUBSET Resource]
  /\ waiting \in [Task -> Resource \cup {NoResource}]
  /\ lock \in [Resource -> Task \cup {NoTask}]
  /\ uses \in [Task -> SUBSET Resource]
  /\ links \in [Task -> SUBSET Resource]
  /\ checker \in {"idle", "resync", "wipe"}
  /\ stale \in SUBSET Task
  /\ victims \in SUBSET (Resource \X Task)

Init ==
  /\ plan = [t \in Task |-> "new"]
  /\ row = [t \in Task |-> "none"]
  /\ hooks = [t \in Task |-> {}]
  /\ txn = [t \in Task |-> "none"]
  /\ planners = {}
  /\ inserted = [t \in Task |-> {}]
  /\ waiting = [t \in Task |-> NoResource]
  /\ lock = [r \in Resource |-> NoTask]
  /\ uses = [t \in Task |-> {}]
  /\ links = [t \in Task |-> {}]
  /\ checker = "idle"
  /\ stale = {}
  /\ victims = {}

-----------------------------------------------------------------------------
(* Task#self_and_parents: t and its ancestors, the least set that contains *)
(* t and is closed under Parent.                                           *)
ClosedUnderParent(S) ==
  \A x \in S : Parent[x] # NoTask => Parent[x] \in S

SelfAndParents(t) ==
  {a \in Task : \A S \in SUBSET Task :
                   (t \in S /\ ClosedUnderParent(S)) => a \in S}

(* The task_id of the lock row on r that t's queries see (read committed): *)
(* its own uncommitted row or a committed one.                             *)
VisibleOwner(t, r) == IF r \in inserted[t] THEN t ELSE lock[r]

(* Mutant: no unique index on the resource. *)
Blockers_NoIndex(t, r) == {}

(* Rows of other open transactions on r: an insert on the unique index     *)
(* waits for them.                                                         *)
Blockers(t, r) == {u \in Task \ {t} : r \in inserted[u]}

(* A planner is between two statements of its plan method. *)
Planning(t) ==
  /\ plan[t] = "planning"
  /\ txn[t] = "open"
  /\ t \in planners
  /\ row[t] # "none"

(* The plan of t is saved as stopped; its hooks are to be run. *)
StopPlan(t) ==
  /\ plan' = [plan EXCEPT ![t] = "stopped"]
  /\ hooks' = [hooks EXCEPT ![t] = {"sync", "drop"}]

(* link_resource_and_related! *)
LinkAll(t, r) == links' = [links EXCEPT ![t] = @ \cup {r} \cup Related[r]]

-----------------------------------------------------------------------------
(* Planning.                                                               *)

(* The plan of t is created, the one of a sub-task by its parent's run;    *)
(* the :pending hook creates the row of the task or fails, and planning    *)
(* begins.                                                                 *)
BeginPlanning(t) ==
  /\ plan[t] = "new"
  /\ Parent[t] # NoTask => plan[Parent[t]] = "running"
  /\ plan' = [plan EXCEPT ![t] = "planning"]
  /\ row' \in {row, [row EXCEPT ![t] = "active"]}
  /\ txn' = [txn EXCEPT ![t] = "open"]
  /\ planners' = planners \cup {t}
  /\ UNCHANGED <<hooks, lock, inserted, waiting, uses, links, checkerVars>>

(* The transaction of t is rolled back and its plan stopped: an exception  *)
(* left the plan method.                                                   *)
Rollback(t) ==
  /\ StopPlan(t)
  /\ txn' = [txn EXCEPT ![t] = "rolledback"]
  /\ planners' = planners \ {t}
  /\ inserted' = [inserted EXCEPT ![t] = {}]
  /\ waiting' = [waiting EXCEPT ![t] = NoResource]
  /\ uses' = [uses EXCEPT ![t] = {}]
  /\ links' = [links EXCEPT ![t] = {}]
  /\ UNCHANGED <<row, lock, checkerVars>>

(* Any other exception of the plan method, the missing task row included.  *)
PlanError(t) ==
  /\ plan[t] = "planning" /\ txn[t] = "open" /\ t \in planners
  /\ waiting[t] = NoResource
  /\ Rollback(t)

(* exclusive_lock! finds a lock of t or of an ancestor: only links. *)
UseFamilyLock(t, r) ==
  /\ Planning(t)
  /\ waiting[t] = NoResource
  /\ VisibleOwner(t, r) \in SelfAndParents(t)
  /\ uses' = [uses EXCEPT ![t] = @ \cup {r}]
  /\ LinkAll(t, r)
  /\ UNCHANGED <<plan, row, hooks, lock, txn, planners, inserted, waiting, checkerVars>>

(* exclusive_lock! finds no such lock; the validation of the new row sees  *)
(* no colliding lock and the INSERT is issued.                             *)
RequestLock(t, r) ==
  /\ Planning(t)
  /\ waiting[t] = NoResource
  /\ VisibleOwner(t, r) = NoTask
  /\ waiting' = [waiting EXCEPT ![t] = r]
  /\ UNCHANGED <<plan, row, hooks, lock, txn, planners, inserted, uses, links, checkerVars>>

(* The validation sees the lock of an unrelated task: LockConflict. *)
ValidationConflict(t, r) ==
  /\ Planning(t)
  /\ waiting[t] = NoResource
  /\ VisibleOwner(t, r) \notin SelfAndParents(t) \cup {NoTask}
  /\ Rollback(t)

(* The INSERT succeeds: the unique index has no row for the resource. *)
InsertLock(t) ==
  /\ Planning(t)
  /\ LET r == waiting[t] IN
     /\ r # NoResource
     /\ lock[r] = NoTask
     /\ Blockers(t, r) = {}
     /\ inserted' = [inserted EXCEPT ![t] = @ \cup {r}]
     /\ uses' = [uses EXCEPT ![t] = @ \cup {r}]
     /\ LinkAll(t, r)
  /\ waiting' = [waiting EXCEPT ![t] = NoResource]
  /\ UNCHANGED <<plan, row, hooks, lock, txn, planners, checkerVars>>

(* Mutant: save! is retried instead of raising. *)
InsertConflict_Retry(t) ==
  /\ Planning(t)
  /\ waiting[t] # NoResource
  /\ lock[waiting[t]] # NoTask
  /\ UNCHANGED vars

(* Another transaction committed a row for the resource in the meantime:   *)
(* RecordNotUnique, which save! turns into LockConflict.                   *)
InsertConflict(t) ==
  /\ Planning(t)
  /\ waiting[t] # NoResource
  /\ lock[waiting[t]] # NoTask
  /\ Rollback(t)

(* Planners that wait for rows of one another; the database aborts one.    *)
Deadlocked(t) ==
  \E S \in SUBSET Task :
     /\ t \in S
     /\ \A u \in S : waiting[u] # NoResource /\ Blockers(u, waiting[u]) \cap S # {}

DeadlockVictim(t) ==
  /\ Planning(t)
  /\ Deadlocked(t)
  /\ Rollback(t)

(* link!, which action_subject calls with resource_locks :link: no lock is *)
(* looked at.                                                              *)
LinkOnly(t, r) ==
  /\ Planning(t)
  /\ waiting[t] = NoResource
  /\ links' = [links EXCEPT ![t] = @ \cup {r}]
  /\ UNCHANGED <<plan, row, hooks, lock, txn, planners, inserted, waiting, uses, checkerVars>>

(* The planning phase ends: its rows become visible together. *)
Commit(t) ==
  /\ plan[t] = "planning" /\ txn[t] = "open" /\ t \in planners
  /\ waiting[t] = NoResource
  /\ txn' = [txn EXCEPT ![t] = "committed"]
  /\ lock' = [r \in Resource |-> IF r \in inserted[t] THEN t ELSE lock[r]]
  /\ inserted' = [inserted EXCEPT ![t] = {}]
  /\ UNCHANGED <<plan, row, hooks, planners, waiting, uses, links, checkerVars>>

(* The planner saves the planned plan and hands it to an executor. *)
StartRun(t) ==
  /\ plan[t] = "planning" /\ txn[t] = "committed" /\ t \in planners
  /\ plan' = [plan EXCEPT ![t] = "running"]
  /\ planners' = planners \ {t}
  /\ UNCHANGED <<row, hooks, lock, txn, inserted, waiting, uses, links, checkerVars>>

(* The process that plans t dies: an open transaction is rolled back, the  *)
(* plan stays in the state it was saved in.                                *)
CrashPlanner(t) ==
  /\ t \in planners
  /\ planners' = planners \ {t}
  /\ IF txn[t] = "open"
       THEN /\ txn' = [txn EXCEPT ![t] = "rolledback"]
            /\ inserted' = [inserted EXCEPT ![t] = {}]
            /\ waiting' = [waiting EXCEPT ![t] = NoResource]
            /\ uses' = [uses EXCEPT ![t] = {}]
            /\ links' = [links EXCEPT ![t] = {}]
       ELSE UNCHANGED <<txn, inserted, waiting, uses, links>>
  /\ UNCHANGED <<plan, row, hooks, lock, checkerVars>>

(* Dynflow invalidates the planning lock of a dead planner. *)
Invalidate(t) ==
  /\ plan[t] = "planning" /\ t \notin planners
  /\ StopPlan(t)
  /\ UNCHANGED <<row, lock, planningVars, checkerVars>>

-----------------------------------------------------------------------------
(* Execution and hooks.                                                    *)

(* The run of a task ends after the run of its sub-tasks. *)
Finish(t) ==
  /\ plan[t] = "running"
  /\ \A c \in Task : Parent[c] = t => plan[c] \in {"new", "stopped"}
  /\ StopPlan(t)
  /\ UNCHANGED <<row, lock, planningVars, checkerVars>>

(* unlock, force_unlock and bulk_stop halt the plan whatever its sub-tasks *)
(* do; the guard is on the row: Task#paused? and Task#pending?.            *)
Halt(t) ==
  /\ row[t] = "active"
  /\ plan[t] = "running"
  /\ StopPlan(t)
  /\ UNCHANGED <<row, lock, planningVars, checkerVars>>

(* sync_execution_plan_to_task copies the state of the plan to the row. *)
SyncHook(t) ==
  /\ "sync" \in hooks[t]
  /\ hooks' = [hooks EXCEPT ![t] = @ \ {"sync"}]
  /\ row' = IF row[t] # "none" THEN [row EXCEPT ![t] = "stopped"] ELSE row
  /\ UNCHANGED <<plan, lock, planningVars, checkerVars>>

(* Mutant: the hook destroys the locks of other tasks, too. *)
DropLock_OfAnyTask(t, r) ==
  /\ "drop" \in hooks[t]
  /\ lock[r] # NoTask
  /\ lock' = [lock EXCEPT ![r] = NoTask]
  /\ UNCHANGED <<plan, row, hooks, planningVars, checkerVars>>

(* drop_all_locks!, one destroy per row (destroy_all). *)
DropLock(t, r) ==
  /\ "drop" \in hooks[t]
  /\ lock[r] = t
  /\ lock' = [lock EXCEPT ![r] = NoTask]
  /\ UNCHANGED <<plan, row, hooks, planningVars, checkerVars>>

DropDone(t) ==
  /\ "drop" \in hooks[t]
  /\ \A r \in Resource : lock[r] # t
  /\ hooks' = [hooks EXCEPT ![t] = @ \ {"drop"}]
  /\ UNCHANGED <<plan, row, lock, planningVars, checkerVars>>

(* A hook raises (the exception is logged), or its process dies: the hook  *)
(* is not run again.                                                       *)
HookLost(t, h) ==
  /\ h \in hooks[t]
  /\ hooks' = [hooks EXCEPT ![t] = @ \ {h}]
  /\ UNCHANGED <<plan, row, lock, planningVars, checkerVars>>

-----------------------------------------------------------------------------
(* DynflowTask.consistency_check, on the start of an executor.             *)

(* Mutant: rows are selected whether or not their plan ended. *)
CheckBegin_AnyPlan ==
  /\ checker = "idle"
  /\ checker' = "resync"
  /\ stale' = {t \in Task : row[t] = "active"}
  /\ UNCHANGED <<plan, row, hooks, lock, planningVars, victims>>

(* Mutant: no row is resynced before the locks are selected. *)
CheckBegin_NoResync ==
  /\ checker = "idle"
  /\ checker' = "resync"
  /\ stale' = {}
  /\ UNCHANGED <<plan, row, hooks, lock, planningVars, victims>>

(* The rows last updated before their plan ended. *)
CheckBegin ==
  /\ checker = "idle"
  /\ checker' = "resync"
  /\ stale' = {t \in Task : plan[t] = "stopped" /\ row[t] = "active"}
  /\ UNCHANGED <<plan, row, hooks, lock, planningVars, victims>>

(* update_from_dynflow, or state "stopped" when that raises. *)
CheckResync(t) ==
  /\ checker = "resync"
  /\ t \in stale
  /\ row' = [row EXCEPT ![t] = "stopped"]
  /\ stale' = stale \ {t}
  /\ UNCHANGED <<plan, hooks, lock, planningVars, checker, victims>>

(* Mutant: the selection is not restricted to stopped tasks. *)
CheckSelect_AnyState ==
  /\ checker = "resync"
  /\ stale = {}
  /\ checker' = "wipe"
  /\ victims' = {v \in Resource \X Task : lock[v[1]] = v[2]}
  /\ UNCHANGED <<plan, row, hooks, lock, planningVars, stale>>

(* destroy_all loads the locks of the stopped tasks... *)
CheckSelect ==
  /\ checker = "resync"
  /\ stale = {}
  /\ checker' = "wipe"
  /\ victims' = {v \in Resource \X Task : lock[v[1]] = v[2] /\ row[v[2]] = "stopped"}
  /\ UNCHANGED <<plan, row, hooks, lock, planningVars, stale>>

(* ... and destroys them one by one. *)
CheckDestroy(r, t) ==
  /\ checker = "wipe"
  /\ <<r, t>> \in victims
  /\ victims' = victims \ {<<r, t>>}
  /\ lock' = IF lock[r] = t THEN [lock EXCEPT ![r] = NoTask] ELSE lock
  /\ UNCHANGED <<plan, row, hooks, planningVars, checker, stale>>

CheckEnd ==
  /\ checker = "wipe"
  /\ victims = {}
  /\ checker' = "idle"
  /\ UNCHANGED <<plan, row, hooks, lock, planningVars, stale, victims>>

-----------------------------------------------------------------------------
PlanNext(t) ==
  \/ BeginPlanning(t)
  \/ \E r \in Resource :
       UseFamilyLock(t, r) \/ RequestLock(t, r) \/ ValidationConflict(t, r)
         \/ LinkOnly(t, r)
  \/ InsertLock(t) \/ InsertConflict(t) \/ DeadlockVictim(t)
  \/ PlanError(t) \/ Commit(t) \/ StartRun(t)
  \/ CrashPlanner(t) \/ Invalidate(t)

RunNext(t) ==
  \/ Finish(t) \/ Halt(t)
  \/ SyncHook(t) \/ DropDone(t)
  \/ \E r \in Resource : DropLock(t, r)
  \/ \E h \in {"sync", "drop"} : HookLost(t, h)

CheckNext ==
  \/ CheckBegin \/ CheckSelect \/ CheckEnd
  \/ \E t \in Task : CheckResync(t) \/ \E r \in Resource : CheckDestroy(r, t)

Next == CheckNext \/ \E t \in Task : PlanNext(t) \/ RunNext(t)

Spec == Init /\ [][Next]_vars

(* Every thread that runs gets to its next step; nothing is assumed of     *)
(* users, of failures or of how often executors are started.               *)
Fairness ==
  /\ \A t \in Task :
       /\ WF_vars(SyncHook(t)) /\ WF_vars(DropDone(t))
       /\ WF_vars(InsertLock(t) \/ InsertConflict(t) \/ DeadlockVictim(t))
       /\ WF_vars(Commit(t)) /\ WF_vars(StartRun(t))
       /\ \A r \in Resource : WF_vars(DropLock(t, r))
       /\ WF_vars(CheckResync(t))
       /\ \A r \in Resource : WF_vars(CheckDestroy(r, t))
  /\ WF_vars(CheckSelect) /\ WF_vars(CheckEnd)

FairSpec == Spec /\ Fairness

-----------------------------------------------------------------------------
(* Properties.                                                             *)

(* t has left its planning phase with all its locks and is not over. *)
Live(t) == txn[t] = "committed" /\ plan[t] # "stopped"

(* No ancestor of t, nor t, is stopped: none of them was halted. *)
AncestorsLive(t) == \A a \in SelfAndParents(t) : plan[a] # "stopped"

(* A resource that exclusive_lock! was called for stays locked, by the     *)
(* task or by an ancestor, until the task is over, unless an ancestor was  *)
(* halted: "Locks the resource so that no other task can lock it while     *)
(* running" (lock.rb), whatever hooks, crashes and consistency checks do.  *)
LockedThroughRun ==
  \A t \in Task : Live(t) /\ AncestorsLive(t) =>
     \A r \in uses[t] : lock[r] \in SelfAndParents(t)

(* Two tasks that both run with an exclusive lock on a resource share an   *)
(* ancestor: the validation of the lock row, the unique index and the      *)
(* reuse of an ancestor's lock never let a stranger in.                    *)
ExclusiveUse ==
  \A t, u \in Task :
     /\ Live(t) /\ AncestorsLive(t)
     /\ Live(u) /\ AncestorsLive(u)
     /\ uses[t] \cap uses[u] # {}
     => SelfAndParents(t) \cap SelfAndParents(u) # {}

(* The inductive invariant behind both.                                    *)
(* Rows: the index admits one row per resource among the committed and the *)
(* uncommitted ones, and only open transactions have uncommitted ones.     *)
OneRow ==
  \A t \in Task : \A r \in inserted[t] :
     /\ txn[t] = "open"
     /\ lock[r] = NoTask
     /\ \A u \in Task \ {t} : r \notin inserted[u]

(* Owners: a committed row belongs to a task whose planning committed. *)
OwnerCommitted ==
  \A r \in Resource : lock[r] # NoTask => txn[lock[r]] = "committed"

(* Stops: the row says "stopped" and the drop hook runs only for a stopped *)
(* plan; so whoever removes a lock removes one of a task that is over.     *)
StopKnown ==
  \A t \in Task :
     /\ row[t] = "stopped" \/ hooks[t] # {} \/ t \in stale => plan[t] = "stopped"
     /\ \A r \in Resource : <<r, t>> \in victims => plan[t] = "stopped"

(* Transactions: an open one belongs to a living planner of a plan in      *)
(* planning; what rolled back relies on nothing.                           *)
TxnMatchesPlan ==
  \A t \in Task :
     /\ txn[t] = "open" => t \in planners
     /\ t \in planners => plan[t] = "planning" /\ txn[t] \in {"open", "committed"}
     /\ plan[t] = "new" <=> txn[t] = "none"
     /\ plan[t] = "running" => txn[t] = "committed"
     /\ txn[t] \in {"none", "rolledback"} => uses[t] = {}

(* Uses: what a task in or after planning relies on is its own row or the  *)
(* committed row of its family.                                            *)
UsesCovered ==
  \A t \in Task : plan[t] # "stopped" /\ AncestorsLive(t) =>
     \A r \in uses[t] : r \in inserted[t] \/ lock[r] \in SelfAndParents(t)

LocksInv == OneRow /\ OwnerCommitted /\ StopKnown /\ TxnMatchesPlan /\ UsesCovered

(* The table implements the abstract lock service: a commit takes all the  *)
(* locks of a plan at once, every other change gives back one lock of a    *)
(* task that is over.                                                      *)
Abstract == INSTANCE AbstractLock WITH
  owner <- lock,
  phase <- [t \in Task |-> IF plan[t] = "stopped" THEN "over"
                           ELSE IF txn[t] = "committed" THEN "working"
                           ELSE "idle"]

ImplementsAbstractLock == Abstract!Spec

(* The rows by which locks are given back follow their plans as            *)
(* AbstractTask says, as those of TaskSync do; no plan is halted while it  *)
(* is planned here, so no task is astray.                                  *)
AsTask == INSTANCE AbstractTask WITH
  life <- [t \in Task |-> IF plan[t] = "new" THEN "idle"
                          ELSE IF plan[t] = "stopped" THEN "over" ELSE "going"],
  row <- [t \in Task |-> IF row[t] = "active" THEN "open"
                         ELSE IF row[t] = "stopped" THEN "closed" ELSE "none"],
  astray <- {}

ImplementsTask == AsTask!Spec

(* A planner that waits for another transaction's lock row does not wait   *)
(* for ever: the other transaction ends or the database breaks the cycle.  *)
PlannersUnblocked ==
  \A t \in Task : (waiting[t] # NoResource) ~> (waiting[t] = NoResource)

(* Locks left by a lost or failed hook are removed as long as executors    *)
(* keep being started: the consistency check resyncs the row first, and    *)
(* only then looks for locks of stopped rows.                              *)
LeakedLocksRemoved ==
  []<>(checker = "resync") =>
     \A t \in Task : (plan[t] = "stopped") ~> (\A r \in Resource : lock[r] # t)
=============================================================================
