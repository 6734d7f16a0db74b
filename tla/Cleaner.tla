------------------------------ MODULE Cleaner ------------------------------
(***************************************************************************)
(* The periodic cleanup of old tasks (rake foreman_tasks:cleanup), beside  *)
(* the tasks that are being created, run and synchronised.                 *)
(*                                                                         *)
(* What belongs to a task lies in four tables of ActiveRecord and in the   *)
(* tables of Dynflow, with no foreign keys and no transaction around the   *)
(* deletions: a cleaner that is killed leaves orphans, which the end of a  *)
(* later run sweeps, and a plan is an orphan until its row is created.     *)
(***************************************************************************)
EXTENDS Naturals, FiniteSets

CONSTANTS
  Task,      \* the Dynflow tasks, each with its execution plan
  Rule,      \* the cleanup rules; every rule has the default states: stopped
  Matching,  \* Matching[r]: the tasks the filter of rule r finds
  AnyAge,    \* the rules without an age limit
  Batch,     \* batch_size
  MaxCrash   \* bound on the cleaners that are killed

ASSUME RuleAssumption == Matching \in [Rule -> SUBSET Task] /\ AnyAge \subseteq Rule
ASSUME TaskAssumption == IsFiniteSet(Task)
ASSUME BatchAssumption == Batch \in Nat \ {0}
ASSUME MaxCrashAssumption == MaxCrash \in Nat

VARIABLES
  plan,     \* plan[t]: the execution plan in the database of Dynflow
  row,      \* row[t]: the row of the task
  aged,     \* the tasks that started before the age limit of the rules
  locks,    \* the tasks with rows in foreman_tasks_locks
  links,    \* the tasks with rows in foreman_tasks_links
  remotes,  \* the tasks with rows in foreman_tasks_remote_tasks
  pc,       \* what the cleaner does next
  rule,     \* the rule it works on
  chunk,    \* the tasks or plans it loaded and deletes
  crashes   \* how many cleaners were killed

tables == <<plan, row, locks, links, remotes>>
vars == <<plan, row, aged, locks, links, remotes, pc, rule, chunk, crashes>>

Steps == {"idle", "load", "rows", "plans", "remotes", "locks", "links", "orphans", "sweep"}

TypeOK ==
  /\ plan \in [Task -> {"none", "running", "stopped", "deleted"}]
  /\ row \in [Task -> {"none", "active", "stopped", "deleted"}]
  /\ aged \subseteq Task /\ locks \subseteq Task
  /\ links \subseteq Task /\ remotes \subseteq Task
  /\ pc \in Steps /\ rule \in Rule
  /\ chunk \subseteq Task
  /\ pc \in {"rows", "plans", "remotes", "sweep"} => chunk # {} /\ Cardinality(chunk) <= Batch
  /\ crashes \in 0..MaxCrash

Init ==
  /\ plan = [t \in Task |-> "none"] /\ row = [t \in Task |-> "none"]
  /\ aged = {} /\ locks = {} /\ links = {} /\ remotes = {}
  /\ pc = "idle" /\ rule \in Rule /\ chunk = {} /\ crashes = 0

-----------------------------------------------------------------------------
(* The tasks.                                                              *)

cleaner == <<pc, rule, chunk, crashes>>

(* Dynflow saves a new plan; its first hook creates the row.               *)
Create(t) ==
  /\ plan[t] = "none"
  /\ plan' = [plan EXCEPT ![t] = "running"]
  /\ UNCHANGED <<row, aged, locks, links, remotes, cleaner>>

(* The process that created the plan goes on from memory, also when the    *)
(* plan is no longer in the database.                                      *)
CreateRow(t) ==
  /\ plan[t] # "none" /\ row[t] = "none"
  /\ row' = [row EXCEPT ![t] = "active"]
  /\ UNCHANGED <<plan, aged, locks, links, remotes, cleaner>>

(* Planning locks and links the resources of the task.                     *)
LockAndLink(t) ==
  /\ plan[t] = "running" /\ row[t] = "active"
  /\ locks' = locks \cup {t} /\ links' = links \cup {t}
  /\ UNCHANGED <<plan, row, aged, remotes, cleaner>>

Delegate(t) ==
  /\ plan[t] = "running" /\ row[t] = "active"
  /\ remotes' = remotes \cup {t}
  /\ UNCHANGED <<plan, row, aged, locks, links, cleaner>>

Stop(t) ==
  /\ plan[t] = "running" /\ row[t] = "active"
  /\ plan' = [plan EXCEPT ![t] = "stopped"]
  /\ UNCHANGED <<row, aged, locks, links, remotes, cleaner>>

(* The hooks of the stopped plan, each of which may get lost: one updates  *)
(* the row, one drops the locks of the row it finds, one the remote tasks. *)
SyncRow(t) ==
  /\ plan[t] = "stopped" /\ row[t] = "active"
  /\ row' = [row EXCEPT ![t] = "stopped"]
  /\ UNCHANGED <<plan, aged, locks, links, remotes, cleaner>>

DropLocks(t) ==
  /\ plan[t] = "stopped" /\ row[t] \in {"active", "stopped"}
  /\ locks' = locks \ {t}
  /\ UNCHANGED <<plan, row, aged, links, remotes, cleaner>>

CleanRemoteTask(t) ==
  /\ plan[t] = "stopped"
  /\ remotes' = remotes \ {t}
  /\ UNCHANGED <<plan, row, aged, locks, links, cleaner>>

Age(t) ==
  /\ row[t] \in {"active", "stopped"}
  /\ aged' = aged \cup {t}
  /\ UNCHANGED <<tables, cleaner>>

-----------------------------------------------------------------------------
(* The cleaner.                                                            *)

Chunks(source) ==
  {c \in SUBSET source :
     Cardinality(c) = IF Cardinality(source) < Batch THEN Cardinality(source) ELSE Batch}

(* with_batches: the first chunk of the source goes to the steps that      *)
(* delete it; when there is none left, the next source is taken up.        *)
NextChunk(source, delete, after) ==
  \/ /\ source # {}
     /\ chunk' \in Chunks(source)
     /\ pc' = delete
  \/ /\ source = {}
     /\ chunk' = {}
     /\ pc' = after

(* Mutant: no condition on the state (states: all).                        *)
Found_AnyState ==
  {t \in Matching[rule] : row[t] \in {"active", "stopped"} /\ (rule \in AnyAge \/ t \in aged)}

(* prepare_filter: the filter of the rule, the age and the states.         *)
Found ==
  {t \in Matching[rule] : row[t] = "stopped" /\ (rule \in AnyAge \/ t \in aged)}

Without(rows) == {t \in rows : row[t] \in {"none", "deleted"}}

(* Mutant: an inner join finds no plan without a row.                      *)
OrphanedPlans_InnerJoin ==
  Without({t \in Task : plan[t] \in {"running", "stopped"} /\ row[t] \in {"active", "stopped"}})

(* orphaned_dynflow_tasks: a left join of the plans with the rows.         *)
OrphanedPlans == Without({t \in Task : plan[t] \in {"running", "stopped"}})

(* Cleaner.run makes one cleaner per rule.                                 *)
Start ==
  /\ pc = "idle"
  /\ rule' \in Rule
  /\ pc' = "load"
  /\ UNCHANGED <<tables, aged, chunk, crashes>>

LoadTasks ==
  /\ pc = "load"
  /\ NextChunk(Found, "rows", "locks")
  /\ UNCHANGED <<tables, aged, rule, crashes>>

(* Mutant: the rows are written to the backup only.                        *)
DeleteTasks_BackupOnly ==
  /\ pc = "rows"
  /\ pc' = "plans"
  /\ UNCHANGED <<tables, aged, rule, chunk, crashes>>

(* By the identifiers loaded, whatever the rows have become.               *)
DeleteTasks ==
  /\ pc = "rows"
  /\ row' = [t \in Task |-> IF t \in chunk THEN "deleted" ELSE row[t]]
  /\ pc' = "plans"
  /\ UNCHANGED <<plan, locks, links, remotes, aged, rule, chunk, crashes>>

DeletedPlans == [t \in Task |-> IF t \in chunk THEN "deleted" ELSE plan[t]]

DeletePlans ==
  /\ pc = "plans"
  /\ plan' = DeletedPlans
  /\ pc' = "remotes"
  /\ UNCHANGED <<row, locks, links, remotes, aged, rule, chunk, crashes>>

(* Mutant: looks the tasks up again, which are gone.                       *)
DeleteRemotes_ByRow ==
  /\ pc = "remotes"
  /\ remotes' = remotes \ {t \in chunk : row[t] = "stopped"}
  /\ pc' = "load" /\ chunk' = {}
  /\ UNCHANGED <<plan, row, locks, links, aged, rule, crashes>>

DeleteRemotes ==
  /\ pc = "remotes"
  /\ remotes' = remotes \ chunk
  /\ pc' = "load" /\ chunk' = {}
  /\ UNCHANGED <<plan, row, locks, links, aged, rule, crashes>>

(* Locks and links are found and deleted by their own identifiers; a task  *)
(* has a row before it has any, so an orphan stays one.                    *)
DeleteOrphanedLocks ==
  /\ pc = "locks"
  /\ \/ \E c \in Chunks(Without(locks)) :
          c # {} /\ locks' = locks \ c /\ UNCHANGED pc
     \/ Without(locks) = {} /\ pc' = "links" /\ UNCHANGED locks
  /\ UNCHANGED <<plan, row, links, remotes, aged, rule, chunk, crashes>>

DeleteOrphanedLinks ==
  /\ pc = "links"
  /\ \/ \E c \in Chunks(Without(links)) :
          c # {} /\ links' = links \ c /\ UNCHANGED pc
     \/ Without(links) = {} /\ pc' = "orphans" /\ UNCHANGED links
  /\ UNCHANGED <<plan, row, locks, remotes, aged, rule, chunk, crashes>>

LoadOrphanedPlans ==
  /\ pc = "orphans"
  /\ NextChunk(OrphanedPlans, "sweep", "idle")
  /\ UNCHANGED <<tables, aged, rule, crashes>>

DeleteOrphanedPlans ==
  /\ pc = "sweep"
  /\ plan' = DeletedPlans
  /\ pc' = "orphans" /\ chunk' = {}
  /\ UNCHANGED <<row, locks, links, remotes, aged, rule, crashes>>

(* The rake task is killed or a statement raises.                          *)
Crash ==
  /\ pc # "idle" /\ crashes < MaxCrash
  /\ pc' = "idle" /\ chunk' = {} /\ crashes' = crashes + 1
  /\ UNCHANGED <<tables, aged, rule>>

CleanerStep ==
  \/ LoadTasks \/ DeleteTasks \/ DeletePlans \/ DeleteRemotes
  \/ DeleteOrphanedLocks \/ DeleteOrphanedLinks
  \/ LoadOrphanedPlans \/ DeleteOrphanedPlans

TaskStep(t) ==
  \/ Create(t) \/ CreateRow(t) \/ LockAndLink(t) \/ Delegate(t)
  \/ Stop(t) \/ SyncRow(t) \/ DropLocks(t) \/ CleanRemoteTask(t) \/ Age(t)

Next == Start \/ CleanerStep \/ Crash \/ \E t \in Task : TaskStep(t)

Spec == Init /\ [][Next]_vars

(* Cron starts the cleaner again and again, and a started one goes on.     *)
FairSpec == Spec /\ WF_vars(Start) /\ WF_vars(CleanerStep)

-----------------------------------------------------------------------------
(* Properties.                                                             *)

(* A task that has its row and has not stopped loses nothing to a cleaner: *)
(* neither the row and its plan nor the locks and links it relies on, even *)
(* though every deletion works on identifiers loaded in an earlier step.   *)
(* The exception is a plan that was swept up before its row was created.   *)
LiveTasksKept ==
  [][\A t \in Task :
       (plan[t] = "running" /\ row[t] = "active" /\ ~(pc = "sweep" /\ t \in chunk)) =>
       /\ row'[t] = "active" /\ plan'[t] # "deleted"
       /\ (t \in locks => t \in locks') /\ (t \in links => t \in links')]_vars

(* Between two runs of a cleaner that was never killed a deleted task has  *)
(* left nothing in any of the tables.                                      *)
CleanWithoutCrash ==
  (pc = "idle" /\ crashes = 0) =>
    \A t \in Task : row[t] = "deleted" =>
      plan[t] = "deleted" /\ t \notin locks \cup links \cup remotes

(* The cleaner removes only rows that were closed, and no row comes back,  *)
(* as AbstractTask says; a plan that it deletes is over with that.  Tasks  *)
(* that are astray (TaskSync) are left out: none is here.                  *)
AsTask == INSTANCE AbstractTask WITH
  life <- [t \in Task |-> IF plan[t] = "none" THEN "idle"
                          ELSE IF plan[t] = "running" THEN "going" ELSE "over"],
  row <- [t \in Task |-> IF row[t] = "active" THEN "open"
                         ELSE IF row[t] = "stopped" THEN "closed"
                         ELSE IF row[t] = "deleted" THEN "removed" ELSE "none"],
  astray <- {}

ImplementsTask == AsTask!Spec

(* A run ends: every batch leaves fewer tasks to find than it found.       *)
RunEnds == (pc # "idle") ~> (pc = "idle")

(* What a killed cleaner left of a task in the tables that are swept goes  *)
(* with a later run.  The rows of remote tasks are not swept.              *)
OrphansGo ==
  \A t \in Task : (row[t] = "deleted") ~>
    (plan[t] = "deleted" /\ t \notin locks \cup links)
=============================================================================
