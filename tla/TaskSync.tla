------------------------------ MODULE TaskSync ------------------------------
(***************************************************************************)
(* The row of foreman_tasks_tasks as a copy of its Dynflow execution plan. *)
(*                                                                         *)
(* Dynflow saves the plan in each state and then runs the hook             *)
(* sync_execution_plan_to_task, which creates or updates the row.  The     *)
(* hook may raise (the exception is logged) or be lost with its process;   *)
(* the consistency check of a starting executor repairs the rows of plans  *)
(* that ended in the meantime, concurrently with everything else.  Users   *)
(* cancel, resume, unlock and force-unlock on what row or plan say.        *)
(***************************************************************************)
EXTENDS Naturals

CONSTANTS
  Task,    \* the tasks, each with its execution plan
  NoTask,  \* "no task"
  MayStray, \* bound: the tasks that are stopped while they are planned
  Parent   \* Parent[t]: the task whose plan triggered t as a sub-plan, or NoTask

ASSUME ParentAssumption == Parent \in [Task -> Task \cup {NoTask}]

VARIABLES
  plan,      \* plan[t]: the saved execution plan: state, result, and whether
             \* its errors include a TaskCancelledException
  planner,   \* planner[t]: the plan as the process that is to plan it holds it:
             \* "pending" (or scheduled), "planning", or "none"
  due,       \* hooks still to run: the task, who saved, and the plan as saved
  row,       \* row[t]: state, result and parent link of the row, or NoRow
  outdated,  \* the rows whose state was last changed before their plan ended
             \* (state_updated_at < ended_at)
  loaded,    \* loaded[t]: the row when consistency_check loaded it
  requests,  \* events the plan of t has still to process; those that come
             \* when it is over have no effect and are not kept
  astray     \* history: the tasks stopped while another process was planning them

vars == <<plan, planner, due, row, outdated, loaded, requests, astray>>

States  == {"pending", "scheduled", "planning", "planned", "running", "paused", "stopped"}
Results == {"pending", "success", "warning", "error", "cancelled"}
SavedPlan == [state : States, result : Results, exc : BOOLEAN]
Row == [state : States, result : Results, linked : BOOLEAN]
NoRow == [state |-> "none", result |-> "none", linked |-> FALSE]
NotLoaded == [state |-> "not loaded", result |-> "none", linked |-> FALSE]

TypeOK ==
  /\ plan \in [Task -> [state : States \cup {"new"}, result : Results, exc : BOOLEAN]]
  /\ planner \in [Task -> {"none", "pending", "planning"}]
  /\ due \subseteq [task : Task, by : {"planner", "executor"}, plan : SavedPlan]
  /\ row \in [Task -> Row \cup {NoRow}]
  /\ outdated \subseteq Task
  /\ loaded \in [Task -> Row \cup {NotLoaded}]
  /\ requests \in [Task -> SUBSET {"cancel", "halt"}]
  /\ astray \subseteq Task

Init ==
  /\ plan = [t \in Task |-> [state |-> "new", result |-> "pending", exc |-> FALSE]]
  /\ planner = [t \in Task |-> "none"]
  /\ due = {}
  /\ row = [t \in Task |-> NoRow]
  /\ outdated = {}
  /\ loaded = [t \in Task |-> NotLoaded]
  /\ requests = [t \in Task |-> {}]
  /\ astray = {}

-----------------------------------------------------------------------------
(* The execution plan (Dynflow).  A process saves a state only after its   *)
(* hooks for the previous one were run or lost; the time a plan ended is   *)
(* part of what it saves.                                                  *)

Save(t, by, s, res, exc) ==
  LET p == [state |-> s, result |-> res, exc |-> exc]
  IN  /\ ~\E d \in due : d.task = t /\ d.by = by
      /\ plan' = [plan EXCEPT ![t] = p]
      /\ due' = due \cup {[task |-> t, by |-> by, plan |-> p]}
      /\ outdated' = IF s = "stopped" /\ row[t] # NoRow THEN outdated \cup {t}
                                                      ELSE outdated \ {t}

(* The process that plans t goes by the plan it holds, whatever is saved.  *)
InHand(t) == planner[t] # "none" \/ \E d \in due : d.task = t /\ d.by = "planner"

Create(t) ==
  /\ plan[t].state = "new"
  /\ Parent[t] # NoTask => plan[Parent[t]].state = "running"
  /\ Save(t, "planner", "pending", "pending", FALSE)
  /\ planner' = [planner EXCEPT ![t] = "pending"]
  /\ UNCHANGED <<row, loaded, requests, astray>>

Schedule(t) ==
  /\ planner[t] = "pending" /\ plan[t].state = "pending"
  /\ Save(t, "planner", "scheduled", "pending", FALSE)
  /\ planner' = [planner EXCEPT ![t] = "none"]
  /\ UNCHANGED <<row, loaded, requests, astray>>

(* The delayed executor loads a plan whose time has come.                  *)
TakeUp(t) ==
  /\ plan[t].state = "scheduled" /\ ~InHand(t)
  /\ planner' = [planner EXCEPT ![t] = "pending"]
  /\ UNCHANGED <<plan, due, row, outdated, loaded, requests, astray>>

Plan(t) ==
  /\ planner[t] = "pending"
  /\ Save(t, "planner", "planning", "pending", FALSE)
  /\ planner' = [planner EXCEPT ![t] = "planning"]
  /\ UNCHANGED <<row, loaded, requests, astray>>

Planned(t) ==
  /\ planner[t] = "planning"
  /\ Save(t, "planner", "planned", "pending", FALSE)
  /\ planner' = [planner EXCEPT ![t] = "none"]
  /\ UNCHANGED <<row, loaded, requests, astray>>

PlanningFailed(t) ==
  /\ planner[t] = "planning"
  /\ Save(t, "planner", "stopped", "error", FALSE)
  /\ planner' = [planner EXCEPT ![t] = "none"]
  /\ requests' = [requests EXCEPT ![t] = {}]
  /\ UNCHANGED <<row, loaded, astray>>

(* The planner hands the plan over; an executor takes it up.               *)
Run(t) ==
  /\ plan[t].state = "planned" /\ ~InHand(t)
  /\ Save(t, "executor", "running", "pending", FALSE)
  /\ UNCHANGED <<planner, row, loaded, requests, astray>>

(* The plan pauses with an error or ends with any result; a cancelled step *)
(* may leave a TaskCancelledException among the errors.                    *)
EndRun(t) ==
  /\ plan[t].state = "running"
  /\ \/ \E res \in {"success", "warning", "error", "cancelled"} :
          Save(t, "executor", "stopped", res, FALSE)
     \/ Save(t, "executor", "paused", "error", FALSE)
     \/ /\ "cancel" \in requests[t]
        /\ \E s \in {"paused", "stopped"} : Save(t, "executor", s, "error", TRUE)
  /\ requests' = [requests EXCEPT
                    ![t] = IF plan'[t].state = "stopped" THEN {} ELSE @ \ {"cancel"}]
  /\ UNCHANGED <<planner, row, loaded, astray>>

(* Stopped by another process than the one that may be planning it: the    *)
(* latter goes on and saves its own plan over this one.                    *)
StopBeside(t, res, exc) ==
  /\ Save(t, "executor", "stopped", res, exc)
  /\ InHand(t) => t \in MayStray
  /\ astray' = IF InHand(t) THEN astray \cup {t} ELSE astray
  /\ UNCHANGED <<planner, row, loaded>>

(* A scheduled plan is stopped by the process of the request, even if its  *)
(* planning is about to begin; a planned one stops with an error.          *)
CancelBeforeRun(t) ==
  \/ /\ row[t] # NoRow /\ plan[t].state = "scheduled"
     /\ StopBeside(t, "cancelled", FALSE)
     /\ requests' = [requests EXCEPT ![t] = IF planner[t] = "none" THEN {} ELSE @]
  \/ /\ "cancel" \in requests[t] /\ plan[t].state = "planned"
     /\ StopBeside(t, "error", FALSE)
     /\ requests' = [requests EXCEPT ![t] = {}]

(* world.halt, processed later by an executor: it saves what it loads, and *)
(* nobody tells the process that plans.                                    *)
HaltPlan(t) ==
  /\ "halt" \in requests[t]
  /\ plan[t].state \notin {"new", "stopped"}
  /\ StopBeside(t, plan[t].result, plan[t].exc)
  /\ requests' = [requests EXCEPT ![t] = {}]

-----------------------------------------------------------------------------
(* The hook, on the plan p that the process which saved it still holds.    *)

(* Mutant: the result of the plan is not looked at. *)
MapResult_AnyPlanned(t, p) ==
  IF \/ row[t].state = "planned" /\ row[t].result = "pending" /\ p.state = "stopped"
     \/ p.result = "error" /\ plan[t].exc
    THEN "cancelled"
    ELSE p.result

(* DynflowTask#map_result, from the row as it was, the plan of the hook    *)
(* and the errors of the plan as it is saved now.                          *)
MapResult(t, p) ==
  IF \/ /\ row[t].state = "planned" /\ row[t].result = "pending"
        /\ p.state = "stopped" /\ p.result = "error"
     \/ p.result = "error" /\ plan[t].exc
    THEN "cancelled"
    ELSE p.result

(* update_from_dynflow raises when the row of the caller is missing; it    *)
(* looks for it until the row is linked to its parent.                     *)
ParentFound(t) ==
  ~row[t].linked /\ Parent[t] # NoTask => row[Parent[t]] # NoRow

(* A row is written; a change of its state is an update of that state.     *)
WriteRow(t, r) ==
  /\ row' = [row EXCEPT ![t] = r]
  /\ outdated' = IF row[t].state = r.state THEN outdated ELSE outdated \ {t}

UpdateFromDynflow(t, p) ==
  WriteRow(t, [state  |-> p.state,
               result |-> MapResult(t, p),
               linked |-> Parent[t] # NoTask])

(* on_execution_plan_save: a new row for a pending plan; an update for a   *)
(* scheduled or planning one, else only if the states differ.              *)
OnExecutionPlanSave(t, p) ==
  \/ /\ p.state = "pending"
     /\ WriteRow(t, [state |-> "pending", result |-> "pending", linked |-> FALSE])
  \/ /\ p.state # "pending"
     /\ row[t] # NoRow
     /\ p.state \in {"scheduled", "planning"} \/ row[t].state # p.state
     /\ ParentFound(t)
     /\ UpdateFromDynflow(t, p)
  \/ /\ p.state # "pending"
     /\ \/ row[t] = NoRow
        \/ p.state \notin {"scheduled", "planning"} /\ row[t].state = p.state
        \/ ~ParentFound(t)
     /\ UNCHANGED <<row, outdated>>

SyncHook(t) ==
  \E d \in due :
    /\ d.task = t
    /\ due' = due \ {d}
    /\ OnExecutionPlanSave(t, d.plan)
    /\ UNCHANGED <<plan, planner, loaded, requests, astray>>

(* Any other exception of the hook, or the end of its process. *)
HookLost(t) ==
  \E d \in due :
    /\ d.task = t
    /\ due' = due \ {d}
    /\ UNCHANGED <<plan, planner, row, outdated, loaded, requests, astray>>

-----------------------------------------------------------------------------
(* Mutant: every row out of sync is loaded, whether or not its plan ended. *)
CheckLoad_AnyPlan ==
  /\ loaded = [t \in Task |-> NotLoaded]
  /\ loaded' = [t \in Task |->
                  IF row[t] # NoRow /\ row[t].state # plan[t].state THEN row[t] ELSE NotLoaded]
  /\ UNCHANGED <<plan, planner, due, row, outdated, requests, astray>>

(* consistency_check loads the rows last updated before their plan ended,  *)
(* then updates each.                                                      *)
CheckLoad ==
  /\ loaded = [t \in Task |-> NotLoaded]
  /\ loaded' = [t \in Task |-> IF t \in outdated THEN row[t] ELSE NotLoaded]
  /\ UNCHANGED <<plan, planner, due, row, outdated, requests, astray>>

(* Mutant: the exception is logged without writing to the row. *)
CheckUpdate_NoRescue(t) ==
  /\ loaded[t] # NotLoaded
  /\ loaded' = [loaded EXCEPT ![t] = NotLoaded]
  /\ UNCHANGED <<plan, planner, due, row, outdated, requests, astray>>

(* It hands update_from_dynflow a Hash instead of the plan: the first call *)
(* of a plan's method raises, and the rescue branch writes the state       *)
(* "stopped" and the result "error" to the columns that differ from the    *)
(* loaded row.                                                             *)
CheckUpdate(t) ==
  /\ loaded[t] # NotLoaded
  /\ WriteRow(t, [row[t] EXCEPT
        !.state = IF loaded[t].state = "stopped" THEN @ ELSE "stopped",
        !.result = IF loaded[t].result = "error" THEN @ ELSE "error"])
  /\ loaded' = [loaded EXCEPT ![t] = NotLoaded]
  /\ UNCHANGED <<plan, planner, due, requests, astray>>

-----------------------------------------------------------------------------
(* Users.                                                                  *)

(* cancel, bulk_cancel: the plan is loaded; no guard on the row.  For a    *)
(* scheduled plan see CancelBeforeRun.                                     *)
Cancel(t) ==
  /\ row[t] # NoRow
  /\ plan[t].state \in {"planned", "running"}
  /\ requests' = [requests EXCEPT ![t] = @ \cup {"cancel"}]
  /\ UNCHANGED <<plan, planner, due, row, outdated, loaded, astray>>

(* Mutant: any plan with an error is resumed. *)
Resume_AnyError(t) ==
  /\ row[t] # NoRow
  /\ plan[t].state \in {"paused", "stopped"} /\ plan[t].result = "error"
  /\ Save(t, "executor", "running", "pending", FALSE)
  /\ UNCHANGED <<planner, row, loaded, requests, astray>>

(* resume, bulk_resume: the loaded plan must be paused. *)
Resume(t) ==
  /\ row[t] # NoRow
  /\ plan[t].state = "paused"
  /\ Save(t, "executor", "running", "pending", FALSE)
  /\ UNCHANGED <<planner, row, loaded, requests, astray>>

(* unlock: the row must be paused; force_unlock and bulk_stop: it must not *)
(* be stopped.  Neither looks at the plan; nothing comes of it when that   *)
(* is over and no process is about to plan it.                             *)
Halt(t) ==
  /\ row[t] # NoRow
  /\ row[t].state # "stopped"
  /\ plan[t].state # "stopped" \/ planner[t] # "none"
  /\ requests' = [requests EXCEPT ![t] = @ \cup {"halt"}]
  /\ UNCHANGED <<plan, planner, due, row, outdated, loaded, astray>>

-----------------------------------------------------------------------------
PlanNext(t) ==
  \/ Create(t) \/ Schedule(t) \/ TakeUp(t) \/ Plan(t) \/ Planned(t) \/ PlanningFailed(t)
  \/ Run(t) \/ EndRun(t) \/ CancelBeforeRun(t) \/ HaltPlan(t)

Next ==
  \/ CheckLoad
  \/ \E t \in Task :
       PlanNext(t) \/ SyncHook(t) \/ HookLost(t) \/ CheckUpdate(t)
         \/ Cancel(t) \/ Resume(t) \/ Halt(t)

Spec == Init /\ [][Next]_vars

(* A running check reaches every row it loaded, a due hook is run or lost. *)
FairSpec ==
  /\ Spec
  /\ \A t \in Task : WF_vars(CheckUpdate(t)) /\ WF_vars(SyncHook(t) \/ HookLost(t))

(* Executors keep being started: each start loads the rows to check.       *)
RestartSpec == FairSpec /\ WF_vars(CheckLoad)

-----------------------------------------------------------------------------
(* Properties.                                                             *)

(* Halt and cancel take no notice of a process that plans the task: it     *)
(* saves its plan over the stopped one, its hooks open the stopped row     *)
(* again, and a late one may leave it open for good.  The properties name  *)
(* these tasks (astray) and hold for all others.                           *)

(* A task is never shown as stopped while its plan may still run, even by  *)
(* a check that works on rows it loaded earlier: locks are removed and     *)
(* resumes refused on that state.                                          *)
RowNotAhead ==
  \A t \in Task \ astray : row[t].state = "stopped" \/ loaded[t] # NotLoaded
                             => plan[t].state = "stopped"

(* A stopped task never claims more than its plan achieved: success and    *)
(* warning are the plan's, cancelled stands for a cancelled plan or for an *)
(* error (map_result), whichever hooks were lost before.                   *)
StoppedResultHonest ==
  \A t \in Task \ astray : row[t].state = "stopped" =>
    \/ row[t].result \in {plan[t].result, "error"}
    \/ row[t].result = "cancelled" /\ plan[t].result = "error"

(* Once stopped a row never leaves that state, whatever hook, check or     *)
(* user comes later.                                                       *)
StoppedIsFinal ==
  [][\A t \in Task \ astray : row[t].state = "stopped" => row'[t].state = "stopped"]_vars

(* The row follows its plan as AbstractTask says, which TaskLocks and      *)
(* Cleaner implement as well: hooks that are late or lost, checks that     *)
(* work on old rows and resumed plans neither close a row too early nor    *)
(* open it again, unless the task was stopped while being planned.         *)
AsTask == INSTANCE AbstractTask WITH
  life <- [t \in Task |-> IF plan[t].state = "new" THEN "idle"
                          ELSE IF plan[t].state = "stopped" THEN "over" ELSE "going"],
  row <- [t \in Task |-> IF row[t] = NoRow THEN "none"
                         ELSE IF row[t].state = "stopped" THEN "closed" ELSE "open"],
  astray <- astray

ImplementsTask == AsTask!Spec

(* The row of every plan that ended is stopped at last, also when every    *)
(* hook after the first was lost, as long as executors keep being started; *)
(* a task stopped while being planned is the exception.  (A plan that is   *)
(* over and not astray stays so: what holds again and again leads there.)  *)
RowsCatchUp ==
  \A t \in Task :
    []<>(row[t] # NoRow /\ plan[t].state = "stopped" /\ t \notin astray
           => row[t].state = "stopped")

(* dynflow_task.rb: the check gets the tasks whose plans ended "back in    *)
(* sync": a row it stops has the result of its plan.                       *)
CheckKeepsResult ==
  \A t \in Task :
    row[t].state = "stopped" /\ plan[t].result = "success" => row[t].result = "success"
=============================================================================
