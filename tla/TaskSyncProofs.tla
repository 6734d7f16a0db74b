--------------------------- MODULE TaskSyncProofs ---------------------------
(***************************************************************************)
(* Proofs about TaskSync for every set of tasks and every parent relation: *)
(* the row of a task is never ahead of its execution plan, never claims    *)
(* more than the plan achieved and is final once it is stopped, unless the *)
(* task was stopped while it was planned.  Rows and plans together         *)
(* implement AbstractTask.                                                 *)
(***************************************************************************)
EXTENDS TaskSync, TLAPS

ExecutionPlan == [state : States \cup {"new"}, result : Results, exc : BOOLEAN]
Request == {"cancel", "halt"}

(* Who saves which states, and nothing is due or held for a plan that was  *)
(* not saved yet.                                                          *)
SaversKnown ==
  /\ \A d \in due : /\ plan[d.task].state # "new"
                    /\ d.by = "planner" => d.plan.state \notin {"running", "paused"}
                    /\ d.by = "executor" => d.plan.state \in {"running", "paused", "stopped"}
  /\ \A t \in Task : planner[t] # "none" => plan[t].state # "new"

(* Unless the task is astray, the process that plans it and the hooks that *)
(* are due hold the plan as it is saved.                                   *)
HeldIsSaved ==
  /\ \A t \in Task \ astray :
       /\ planner[t] = "pending" => plan[t].state \in {"pending", "scheduled"}
       /\ planner[t] = "planning" => plan[t].state = "planning"
  /\ \A d \in due : d.task \notin astray => d.plan = plan[d.task]

(* A row is out of date when its plan ended and it does not say so.        *)
OutdatedInv ==
  \A t \in outdated : /\ row[t] # NoRow
                      /\ t \notin astray => plan[t].state = "stopped" /\ row[t].state # "stopped"

(* What a check loaded stays true until it writes: the row exists, and     *)
(* unless the hook stopped it in between it has the result it had.         *)
LoadedStillTrue ==
  \A t \in Task : loaded[t] # NotLoaded =>
    /\ row[t] # NoRow
    /\ t \notin astray =>
         /\ loaded[t].state # "stopped"
         /\ loaded[t].result = "error" /\ row[t].state # "stopped" => row[t].result = "error"

(* No row is created before its plan is.                                   *)
NewHasNoRow == \A t \in Task : plan[t].state = "new" => row[t] = NoRow

(* The inductive invariant.                                                *)
SyncInv ==
  /\ TypeOK /\ SaversKnown /\ HeldIsSaved /\ OutdatedInv /\ RowNotAhead
  /\ LoadedStillTrue /\ StoppedResultHonest /\ NewHasNoRow

-----------------------------------------------------------------------------
(* What the steps of a plan do.                                            *)
Saved(t, by, p) ==
  /\ p \in SavedPlan
  /\ ~\E d \in due : d.task = t /\ d.by = by
  /\ plan' = [plan EXCEPT ![t] = p]
  /\ due' = due \cup {[task |-> t, by |-> by, plan |-> p]}
  /\ outdated' = IF p.state = "stopped" /\ row[t] # NoRow THEN outdated \cup {t}
                                                        ELSE outdated \ {t}
  /\ UNCHANGED <<row, loaded>>
  /\ requests' \in [Task -> SUBSET Request]

(* The process that plans saves what it holds.                             *)
PlannerStep(t) ==
  \E p \in SavedPlan, q \in {"none", "pending", "planning"} :
    /\ Saved(t, "planner", p)
    /\ p.state \notin {"running", "paused"}
    /\ planner' = [planner EXCEPT ![t] = q]
    /\ q # "none" => p.state = q
    /\ IF plan[t].state = "new" THEN p.state = "pending" ELSE planner[t] # "none"
    /\ astray' = astray

(* Any other process saves a plan that goes on; a task that is in hand is  *)
(* astray from then on, unless it had begun to run.                        *)
ExecutorStep(t) ==
  \E p \in SavedPlan :
    /\ Saved(t, "executor", p)
    /\ p.state \in {"running", "paused", "stopped"}
    /\ planner' = planner
    /\ plan[t].state \notin {"new", "stopped"}
    /\ \/ astray' = astray /\ (~InHand(t) \/ plan[t].state \in {"running", "paused"})
       \/ astray' = astray \cup {t} /\ p.state = "stopped"

LEMMA SaveIsSaved ==
  ASSUME NEW t \in Task, NEW by, NEW s \in States, NEW res \in Results, NEW exc \in BOOLEAN,
         Save(t, by, s, res, exc), UNCHANGED <<row, loaded>>,
         requests' \in [Task -> SUBSET Request]
  PROVE  LET p == [state |-> s, result |-> res, exc |-> exc]
         IN  Saved(t, by, p) /\ p \in SavedPlan /\ p.state = s
<1> DEFINE p == [state |-> s, result |-> res, exc |-> exc]
<1>1. p \in SavedPlan /\ p.state = s
  BY DEF SavedPlan
<1> QED
  BY <1>1 DEF Save, Saved

LEMMA PlannerSteps ==
  ASSUME TypeOK, SaversKnown, NEW t \in Task,
         Create(t) \/ Schedule(t) \/ Plan(t) \/ Planned(t) \/ PlanningFailed(t)
  PROVE  PlannerStep(t)
<1>1. requests' \in [Task -> SUBSET Request] /\ UNCHANGED <<row, loaded>> /\ astray' = astray
  BY DEF TypeOK, Request, Create, Schedule, Plan, Planned, PlanningFailed
<1>2. ASSUME NEW s \in States, NEW res \in Results, NEW q \in {"none", "pending", "planning"},
             Save(t, "planner", s, res, FALSE), s \notin {"running", "paused"},
             planner' = [planner EXCEPT ![t] = q], q # "none" => s = q,
             IF plan[t].state = "new" THEN s = "pending" ELSE planner[t] # "none"
      PROVE  PlannerStep(t)
  <2> DEFINE p == [state |-> s, result |-> res, exc |-> FALSE]
  <2>1. Saved(t, "planner", p) /\ p \in SavedPlan /\ p.state = s
    BY <1>1, <1>2, SaveIsSaved
  <2> QED
    BY <1>1, <1>2, <2>1 DEF PlannerStep
<1>3. planner[t] # "none" => plan[t].state # "new"
  BY DEF SaversKnown
<1>4. {"pending", "scheduled", "planning", "planned", "stopped"} \subseteq States
      /\ {"pending", "error"} \subseteq Results
  BY DEF States, Results
<1>5. CASE Create(t)
  BY <1>2, <1>4, <1>5 DEF Create
<1>6. CASE Schedule(t)
  BY <1>2, <1>3, <1>4, <1>6 DEF Schedule
<1>7. CASE Plan(t)
  BY <1>2, <1>3, <1>4, <1>7 DEF Plan
<1>8. CASE Planned(t)
  BY <1>2, <1>3, <1>4, <1>8 DEF Planned
<1>9. CASE PlanningFailed(t)
  BY <1>2, <1>3, <1>4, <1>9 DEF PlanningFailed
<1> QED
  BY <1>5, <1>6, <1>7, <1>8, <1>9

LEMMA ExecutorSteps ==
  ASSUME TypeOK, NEW t \in Task,
         Run(t) \/ EndRun(t) \/ CancelBeforeRun(t) \/ HaltPlan(t) \/ Resume(t)
  PROVE  ExecutorStep(t)
<1>r. requests \in [Task -> SUBSET Request]
  BY DEF TypeOK, Request
<1>1. requests' \in [Task -> SUBSET Request]
  <2>1. \/ requests' = requests
        \/ \E S \in SUBSET requests[t] : requests' = [requests EXCEPT ![t] = S]
    BY <1>r DEF Run, EndRun, CancelBeforeRun, HaltPlan, Resume
  <2> QED
    BY <1>r, <2>1
<1>2. UNCHANGED <<row, loaded>> /\ planner' = planner
  BY DEF Run, EndRun, CancelBeforeRun, StopBeside, HaltPlan, Resume
<1>3. ASSUME NEW s \in States, NEW res \in Results, NEW exc \in BOOLEAN,
             Save(t, "executor", s, res, exc), s \in {"running", "paused", "stopped"},
             plan[t].state \notin {"new", "stopped"},
             \/ astray' = astray /\ (~InHand(t) \/ plan[t].state \in {"running", "paused"})
             \/ astray' = astray \cup {t} /\ s = "stopped"
      PROVE  ExecutorStep(t)
  <2> DEFINE p == [state |-> s, result |-> res, exc |-> exc]
  <2>1. Saved(t, "executor", p) /\ p \in SavedPlan /\ p.state = s
    BY <1>1, <1>2, <1>3, SaveIsSaved
  <2> QED
    BY <1>2, <1>3, <2>1 DEF ExecutorStep
<1>4. {"running", "paused", "stopped"} \subseteq States
      /\ {"pending", "success", "warning", "error", "cancelled"} \subseteq Results
  BY DEF States, Results
<1>5. ASSUME NEW res \in Results, NEW exc \in BOOLEAN, StopBeside(t, res, exc),
             plan[t].state \notin {"new", "stopped"}
      PROVE  ExecutorStep(t)
  BY <1>3, <1>4, <1>5 DEF StopBeside
<1>6. CASE Run(t)
  BY <1>3, <1>4, <1>6 DEF Run
<1>7. CASE Resume(t)
  BY <1>3, <1>4, <1>7 DEF Resume
<1>8. CASE EndRun(t)
  <2>1. plan[t].state = "running" /\ astray' = astray
    BY <1>8 DEF EndRun
  <2>2. \E s \in {"paused", "stopped"}, res \in Results, exc \in BOOLEAN :
          Save(t, "executor", s, res, exc)
    BY <1>4, <1>8 DEF EndRun
  <2> QED
    BY <1>3, <1>4, <2>1, <2>2
<1>9. CASE CancelBeforeRun(t)
  BY <1>4, <1>5, <1>9 DEF CancelBeforeRun
<1>10. CASE HaltPlan(t)
  BY <1>5, <1>10 DEF HaltPlan, TypeOK
<1> QED
  BY <1>6, <1>7, <1>8, <1>9, <1>10

(* map_result yields the result of the plan, or cancelled for an error.    *)
LEMMA MapResultHonest ==
  ASSUME NEW t \in Task, NEW p \in SavedPlan
  PROVE  /\ MapResult(t, p) \in Results
         /\ \/ MapResult(t, p) = p.result
            \/ MapResult(t, p) = "cancelled" /\ p.result = "error"
  BY DEF MapResult, Results, SavedPlan

(* The hook changes one row, if any, to what its plan says.                *)
LEMMA HookCopiesPlan ==
  ASSUME TypeOK, NEW t \in Task, NEW p \in SavedPlan, OnExecutionPlanSave(t, p),
         <<row, outdated>>' # <<row, outdated>>
  PROVE  \E r \in Row : /\ WriteRow(t, r)
                        /\ r.state = p.state
                        /\ row[t] = NoRow => p.state = "pending"
                        /\ p.state # "pending" => r.result = MapResult(t, p)
<1>1. CASE p.state = "pending"
  <2>1. [state |-> "pending", result |-> "pending", linked |-> FALSE] \in Row
    BY DEF Row, States, Results
  <2> QED
    BY <1>1, <2>1 DEF OnExecutionPlanSave
<1>2. CASE p.state # "pending"
  <2> DEFINE r == [state  |-> p.state, result |-> MapResult(t, p),
                   linked |-> Parent[t] # NoTask]
  <2>1. WriteRow(t, r) /\ row[t] # NoRow
    BY <1>2 DEF OnExecutionPlanSave, UpdateFromDynflow
  <2>2. (Parent[t] # NoTask) \in BOOLEAN /\ p.state \in States
    BY DEF SavedPlan
  <2>3. r \in Row
    BY <2>2, MapResultHonest DEF Row
  <2> QED
    BY <1>2, <2>1, <2>3
<1> QED
  BY <1>1, <1>2

(* The check writes one loaded row: stopped, unless it was when loaded,    *)
(* and error unless the hook stopped it with another result since.         *)
LEMMA CheckStopsRow ==
  ASSUME TypeOK, LoadedStillTrue, NEW t \in Task, CheckUpdate(t)
  PROVE  \E r \in Row : /\ WriteRow(t, r)
                        /\ t \notin astray =>
                             /\ r.state = "stopped"
                             /\ r.result = "error" \/ (row[t].state = "stopped"
                                                        /\ r.result = row[t].result)
<1>1. loaded[t] # NotLoaded /\ row[t] # NoRow
  BY DEF CheckUpdate, LoadedStillTrue
<1>2. row[t] \in Row
  BY <1>1 DEF TypeOK
<1> DEFINE r == [row[t] EXCEPT
                  !.state = IF loaded[t].state = "stopped" THEN @ ELSE "stopped",
                  !.result = IF loaded[t].result = "error" THEN @ ELSE "error"]
<1>3. r \in Row
  BY <1>2 DEF Row, States, Results
<1>4. /\ r.state = IF loaded[t].state = "stopped" THEN row[t].state ELSE "stopped"
      /\ r.result = IF loaded[t].result = "error" THEN row[t].result ELSE "error"
  BY <1>2 DEF Row
<1>5. WriteRow(t, r)
  BY DEF CheckUpdate
<1>6. t \notin astray =>
        /\ loaded[t].state # "stopped"
        /\ loaded[t].result = "error" /\ row[t].state # "stopped" => row[t].result = "error"
  BY <1>1 DEF LoadedStillTrue
<1> QED
  BY <1>3, <1>4, <1>5, <1>6

-----------------------------------------------------------------------------
(* No row, nothing loaded and no plan saved: the invariant holds at first. *)
LEMMA InitSync == Init => SyncInv
<1> SUFFICES ASSUME Init PROVE SyncInv
  OBVIOUS
<1>1. TypeOK
  BY DEF Init, TypeOK, States, Results, NotLoaded
<1>2. RowNotAhead /\ LoadedStillTrue /\ StoppedResultHonest
  BY DEF Init, RowNotAhead, LoadedStillTrue, StoppedResultHonest, NoRow, NotLoaded
<1>3. SaversKnown /\ HeldIsSaved /\ OutdatedInv /\ NewHasNoRow
  BY DEF Init, SaversKnown, HeldIsSaved, OutdatedInv, NewHasNoRow
<1> QED
  BY <1>1, <1>2, <1>3 DEF SyncInv

(* A plan is saved that had not stopped, unless the task is astray: its    *)
(* row is not stopped and not loaded yet, for otherwise the plan had ended.*)
(* SaversKnown and HeldIsSaved are left to the two kinds of steps.         *)
LEMMA SavedKeepsRow ==
  ASSUME SyncInv, NEW t \in Task, NEW by \in {"planner", "executor"}, NEW p,
         Saved(t, by, p), astray' \subseteq Task, astray \subseteq astray',
         planner' \in [Task -> {"none", "pending", "planning"}],
         t \notin astray => plan[t].state # "stopped"
  PROVE  /\ TypeOK' /\ OutdatedInv' /\ RowNotAhead' /\ LoadedStillTrue'
         /\ StoppedResultHonest' /\ NewHasNoRow'
<1>1. /\ plan \in [Task -> ExecutionPlan] /\ p \in ExecutionPlan
      /\ p \in SavedPlan /\ plan' = [plan EXCEPT ![t] = p] /\ row' = row /\ loaded' = loaded
  BY DEF SyncInv, TypeOK, ExecutionPlan, SavedPlan, Saved
<1>2. /\ due' = due \cup {[task |-> t, by |-> by, plan |-> p]}
      /\ outdated' = IF p.state = "stopped" /\ row[t] # NoRow THEN outdated \cup {t}
                                                           ELSE outdated \ {t}
      /\ requests' \in [Task -> SUBSET Request]
  BY DEF Saved
<1>3. plan'[t] = p /\ \A u \in Task : u # t => plan'[u] = plan[u]
  BY <1>1
<1>4. t \notin astray => row[t].state # "stopped" /\ loaded[t] = NotLoaded
  BY DEF SyncInv, RowNotAhead
<1>5. TypeOK'
  <2>1. plan' \in [Task -> ExecutionPlan]
    BY <1>1
  <2>2. due' \subseteq [task : Task, by : {"planner", "executor"}, plan : SavedPlan]
    BY <1>1, <1>2 DEF SyncInv, TypeOK
  <2>3. outdated' \subseteq Task
    BY <1>2 DEF SyncInv, TypeOK
  <2> QED
    BY <1>1, <1>2, <2>1, <2>2, <2>3 DEF SyncInv, TypeOK, ExecutionPlan, Request
<1>6. OutdatedInv'
  <2> SUFFICES ASSUME NEW u \in outdated'
               PROVE  /\ row'[u] # NoRow
                      /\ u \notin astray' => plan'[u].state = "stopped" /\ row'[u].state # "stopped"
    BY DEF OutdatedInv
  <2>1. CASE u = t
    <3>1. p.state = "stopped" /\ row[t] # NoRow
      BY <1>2, <2>1
    <3> QED
      BY <1>1, <1>3, <1>4, <2>1, <3>1
  <2>2. CASE u # t
    <3>1. u \in outdated /\ u \in Task
      BY <1>2, <2>2 DEF SyncInv, TypeOK
    <3> QED
      BY <1>1, <1>3, <2>2, <3>1 DEF SyncInv, OutdatedInv
  <2> QED
    BY <2>1, <2>2
<1>7. RowNotAhead'
  BY <1>1, <1>3, <1>4 DEF SyncInv, RowNotAhead
<1>8. LoadedStillTrue'
  BY <1>1 DEF SyncInv, LoadedStillTrue
<1>9. StoppedResultHonest'
  BY <1>1, <1>3, <1>4 DEF SyncInv, StoppedResultHonest
<1>10. NewHasNoRow'
  BY <1>1, <1>3 DEF SyncInv, NewHasNoRow, SavedPlan, States
<1> QED
  BY <1>5, <1>6, <1>7, <1>8, <1>9, <1>10

(* The process that plans finds its own plan saved, and no hook of another *)
(* process is due: that one had made the task astray.                      *)
LEMMA PlannerKeepsSync ==
  ASSUME SyncInv, NEW t \in Task, PlannerStep(t)
  PROVE  SyncInv'
<1>1. PICK p \in SavedPlan, q \in {"none", "pending", "planning"} :
        /\ Saved(t, "planner", p)
        /\ p.state \notin {"running", "paused"}
        /\ planner' = [planner EXCEPT ![t] = q]
        /\ q # "none" => p.state = q
        /\ IF plan[t].state = "new" THEN p.state = "pending" ELSE planner[t] # "none"
        /\ astray' = astray
  BY DEF PlannerStep
<1>2. /\ plan \in [Task -> ExecutionPlan]
      /\ planner \in [Task -> {"none", "pending", "planning"}]
      /\ due \subseteq [task : Task, by : {"planner", "executor"}, plan : SavedPlan]
  BY DEF SyncInv, TypeOK, ExecutionPlan
<1>3. /\ plan'[t] = p /\ \A u \in Task : u # t => plan'[u] = plan[u]
      /\ planner'[t] = q /\ \A u \in Task : u # t => planner'[u] = planner[u]
  BY <1>1, <1>2 DEF Saved
<1>4. t \notin astray => plan[t].state \in {"new", "pending", "scheduled", "planning"}
  <2>1. plan[t].state # "new" => planner[t] \in {"pending", "planning"}
    BY <1>1, <1>2
  <2> QED
    BY <2>1 DEF SyncInv, HeldIsSaved
<1>5. t \notin astray => ~\E d \in due : d.task = t
  <2> SUFFICES ASSUME t \notin astray, NEW d \in due, d.task = t PROVE FALSE
    OBVIOUS
  <2>1. d.plan = plan[t]
    BY DEF SyncInv, HeldIsSaved
  <2>2. d.by = "executor"
    BY <1>1, <1>2 DEF Saved
  <2>3. d.plan.state \in {"running", "paused", "stopped"}
    BY <2>2 DEF SyncInv, SaversKnown
  <2> QED
    BY <1>4, <2>1, <2>3
<1>6. /\ due' = due \cup {[task |-> t, by |-> "planner", plan |-> p]}
      /\ p.state # "new"
  BY <1>1 DEF Saved, SavedPlan, States
<1>7. SaversKnown'
  <2>1. \A d \in due' : /\ plan'[d.task].state # "new"
                        /\ d.by = "planner" => d.plan.state \notin {"running", "paused"}
                        /\ d.by = "executor" => d.plan.state \in {"running", "paused", "stopped"}
    BY <1>1, <1>2, <1>3, <1>6 DEF SyncInv, SaversKnown
  <2>2. \A u \in Task : planner'[u] # "none" => plan'[u].state # "new"
    BY <1>3, <1>6 DEF SyncInv, SaversKnown
  <2> QED
    BY <2>1, <2>2 DEF SaversKnown
<1>8. HeldIsSaved'
  <2>1. \A u \in Task \ astray' :
          /\ planner'[u] = "pending" => plan'[u].state \in {"pending", "scheduled"}
          /\ planner'[u] = "planning" => plan'[u].state = "planning"
    BY <1>1, <1>3 DEF SyncInv, HeldIsSaved
  <2>2. \A d \in due' : d.task \notin astray' => d.plan = plan'[d.task]
    BY <1>1, <1>2, <1>3, <1>5, <1>6 DEF SyncInv, HeldIsSaved
  <2> QED
    BY <2>1, <2>2 DEF HeldIsSaved
<1>9. planner' \in [Task -> {"none", "pending", "planning"}]
  BY <1>1, <1>2
<1>10. astray' \subseteq Task /\ astray \subseteq astray'
  BY <1>1 DEF SyncInv, TypeOK
<1>11. /\ TypeOK' /\ OutdatedInv' /\ RowNotAhead' /\ LoadedStillTrue'
       /\ StoppedResultHonest' /\ NewHasNoRow'
  BY <1>1, <1>4, <1>9, <1>10, SavedKeepsRow
<1> QED
  BY <1>7, <1>8, <1>11 DEF SyncInv

(* Another process saves: the plan was in nobody's hand, or is astray now. *)
LEMMA ExecutorKeepsSync ==
  ASSUME SyncInv, NEW t \in Task, ExecutorStep(t)
  PROVE  SyncInv'
<1>1. PICK p \in SavedPlan :
        /\ Saved(t, "executor", p)
        /\ p.state \in {"running", "paused", "stopped"}
        /\ planner' = planner
        /\ plan[t].state \notin {"new", "stopped"}
        /\ \/ astray' = astray /\ (~InHand(t) \/ plan[t].state \in {"running", "paused"})
           \/ astray' = astray \cup {t} /\ p.state = "stopped"
  BY DEF ExecutorStep
<1>2. /\ plan \in [Task -> ExecutionPlan]
      /\ planner \in [Task -> {"none", "pending", "planning"}]
      /\ due \subseteq [task : Task, by : {"planner", "executor"}, plan : SavedPlan]
      /\ astray \subseteq Task
  BY DEF SyncInv, TypeOK, ExecutionPlan
<1>3. plan'[t] = p /\ \A u \in Task : u # t => plan'[u] = plan[u]
  BY <1>1, <1>2 DEF Saved
<1>4. t \notin astray' => planner[t] = "none" /\ ~\E d \in due : d.task = t
  <2> SUFFICES ASSUME t \notin astray'
               PROVE  planner[t] = "none" /\ ~\E d \in due : d.task = t
    OBVIOUS
  <2>1. t \notin astray /\ (~InHand(t) \/ plan[t].state \in {"running", "paused"})
    BY <1>1
  <2>2. \A d \in due : d.task = t => d.by = "planner"
    BY <1>1, <1>2 DEF Saved
  <2>3. CASE ~InHand(t)
    BY <2>2, <2>3 DEF InHand
  <2>4. CASE plan[t].state \in {"running", "paused"}
    <3>1. planner[t] \notin {"pending", "planning"}
      BY <2>1, <2>4 DEF SyncInv, HeldIsSaved
    <3>2. ASSUME NEW d \in due, d.task = t PROVE FALSE
      <4>1. d.plan = plan[t] /\ d.by = "planner"
        BY <2>1, <2>2, <3>2 DEF SyncInv, HeldIsSaved
      <4> QED
        BY <2>4, <4>1 DEF SyncInv, SaversKnown
    <3> QED
      BY <1>2, <3>1, <3>2
  <2> QED
    BY <2>1, <2>3, <2>4
<1>5. due' = due \cup {[task |-> t, by |-> "executor", plan |-> p]}
  BY <1>1 DEF Saved
<1>6. SaversKnown'
  <2>1. \A d \in due' : /\ plan'[d.task].state # "new"
                        /\ d.by = "planner" => d.plan.state \notin {"running", "paused"}
                        /\ d.by = "executor" => d.plan.state \in {"running", "paused", "stopped"}
    BY <1>1, <1>2, <1>3, <1>5 DEF SyncInv, SaversKnown
  <2>2. \A u \in Task : planner'[u] # "none" => plan'[u].state # "new"
    BY <1>1, <1>3 DEF SyncInv, SaversKnown
  <2> QED
    BY <2>1, <2>2 DEF SaversKnown
<1>7. HeldIsSaved'
  <2>1. \A u \in Task \ astray' :
          /\ planner'[u] = "pending" => plan'[u].state \in {"pending", "scheduled"}
          /\ planner'[u] = "planning" => plan'[u].state = "planning"
    BY <1>1, <1>3, <1>4 DEF SyncInv, HeldIsSaved
  <2>2. \A d \in due' : d.task \notin astray' => d.plan = plan'[d.task]
    BY <1>1, <1>2, <1>3, <1>4, <1>5 DEF SyncInv, HeldIsSaved
  <2> QED
    BY <2>1, <2>2 DEF HeldIsSaved
<1>8. /\ planner' \in [Task -> {"none", "pending", "planning"}]
      /\ astray' \subseteq Task /\ astray \subseteq astray'
  BY <1>1, <1>2
<1>9. /\ TypeOK' /\ OutdatedInv' /\ RowNotAhead' /\ LoadedStillTrue'
      /\ StoppedResultHonest' /\ NewHasNoRow'
  BY <1>1, <1>8, SavedKeepsRow
<1> QED
  BY <1>6, <1>7, <1>9 DEF SyncInv

LEMMA TakeUpKeepsSync ==
  ASSUME SyncInv, NEW t \in Task, TakeUp(t)
  PROVE  SyncInv'
<1>1. /\ planner' = [planner EXCEPT ![t] = "pending"] /\ plan[t].state = "scheduled"
      /\ UNCHANGED <<plan, due, row, outdated, loaded, requests, astray>>
  BY DEF TakeUp
<1>2. planner \in [Task -> {"none", "pending", "planning"}]
  BY DEF SyncInv, TypeOK
<1>3. TypeOK'
  BY <1>1, <1>2 DEF SyncInv, TypeOK
<1>4. SaversKnown'
  BY <1>1, <1>2 DEF SyncInv, SaversKnown
<1>5. HeldIsSaved'
  BY <1>1, <1>2 DEF SyncInv, HeldIsSaved
<1>6. OutdatedInv' /\ RowNotAhead' /\ LoadedStillTrue' /\ StoppedResultHonest' /\ NewHasNoRow'
  BY <1>1 DEF SyncInv, OutdatedInv, RowNotAhead, LoadedStillTrue, StoppedResultHonest, NewHasNoRow
<1> QED
  BY <1>3, <1>4, <1>5, <1>6 DEF SyncInv

(* A row written from its plan, or as stopped with the result error, keeps *)
(* the invariant; a stopped one stays stopped.                             *)
LEMMA RowWriteKeepsSync ==
  ASSUME SyncInv, NEW t \in Task, NEW r \in Row, WriteRow(t, r),
         UNCHANGED <<plan, planner, requests, astray>>, plan[t].state # "new",
         due' \subseteq due,
         loaded' = loaded \/ loaded' = [loaded EXCEPT ![t] = NotLoaded],
         t \notin astray =>
           /\ r.state = "stopped" =>
                /\ plan[t].state = "stopped"
                /\ \/ r.result \in {plan[t].result, "error"}
                   \/ r.result = "cancelled" /\ plan[t].result = "error"
           /\ row[t].state = "stopped" \/ loaded[t] # NotLoaded => r.state = "stopped"
  PROVE  /\ SyncInv'
         /\ \A u \in Task \ astray : row[u].state = "stopped" => row'[u].state = "stopped"
<1>1. row \in [Task -> Row \cup {NoRow}] /\ loaded \in [Task -> Row \cup {NotLoaded}]
  BY DEF SyncInv, TypeOK
<1>2. row' = [row EXCEPT ![t] = r]
      /\ outdated' = IF row[t].state = r.state THEN outdated ELSE outdated \ {t}
  BY DEF WriteRow
<1>3. row'[t] = r /\ \A u \in Task : u # t => row'[u] = row[u]
  BY <1>1, <1>2
<1>4. \A u \in Task : loaded'[u] = loaded[u] \/ loaded'[u] = NotLoaded
  BY <1>1
<1>5. r # NoRow
  BY DEF Row, States, NoRow
<1>6. TypeOK'
  <2>1. row' \in [Task -> Row \cup {NoRow}] /\ loaded' \in [Task -> Row \cup {NotLoaded}]
    BY <1>1, <1>2
  <2>2. outdated' \subseteq Task
    BY <1>2 DEF SyncInv, TypeOK
  <2> QED
    BY <2>1, <2>2 DEF SyncInv, TypeOK
<1>7. SaversKnown' /\ HeldIsSaved'
  BY DEF SyncInv, SaversKnown, HeldIsSaved
<1>8. OutdatedInv'
  <2> SUFFICES ASSUME NEW u \in outdated'
               PROVE  /\ row'[u] # NoRow
                      /\ u \notin astray => plan[u].state = "stopped" /\ row'[u].state # "stopped"
    BY DEF OutdatedInv
  <2>1. u \in outdated /\ u \in Task
    BY <1>2 DEF SyncInv, TypeOK
  <2>2. u = t => row[t].state = r.state
    BY <1>2
  <2> QED
    BY <1>3, <1>5, <2>1, <2>2 DEF SyncInv, OutdatedInv
<1>9. RowNotAhead'
  BY <1>3, <1>4 DEF SyncInv, RowNotAhead
<1>10. LoadedStillTrue'
  BY <1>3, <1>4, <1>5 DEF SyncInv, LoadedStillTrue
<1>11. StoppedResultHonest' /\ NewHasNoRow'
  BY <1>3 DEF SyncInv, StoppedResultHonest, NewHasNoRow
<1> QED
  BY <1>3, <1>6, <1>7, <1>8, <1>9, <1>10, <1>11 DEF SyncInv

(* Every step keeps the invariant and every stopped row stopped.           *)
LEMMA NextKeepsSync ==
  ASSUME SyncInv, [Next]_vars
  PROVE  /\ SyncInv'
         /\ \A u \in Task \ astray : row[u].state = "stopped" => row'[u].state = "stopped"
<1> DEFINE Kept == \A u \in Task \ astray : row[u].state = "stopped" => row'[u].state = "stopped"
<1>1. CASE UNCHANGED vars
  <2>1. SyncInv'
    BY <1>1 DEF vars, SyncInv, TypeOK, SaversKnown, HeldIsSaved, OutdatedInv, RowNotAhead,
                LoadedStillTrue, StoppedResultHonest, NewHasNoRow
  <2> QED BY <1>1, <2>1 DEF vars
<1>2. CASE CheckLoad
  <2>1. UNCHANGED <<plan, planner, due, row, outdated, requests, astray>>
    BY <1>2 DEF CheckLoad
  <2>2. \A t \in Task : loaded'[t] # NotLoaded => t \in outdated /\ loaded'[t] = row[t]
    BY <1>2 DEF CheckLoad
  <2>3. \A t \in outdated : /\ row[t] # NoRow
                            /\ t \notin astray => plan[t].state = "stopped"
                                                   /\ row[t].state # "stopped"
    BY DEF SyncInv, OutdatedInv
  <2>4. loaded' \in [Task -> Row \cup {NotLoaded}]
    <3>1. \A t \in Task : t \in outdated => row[t] \in Row
      BY <2>3 DEF SyncInv, TypeOK
    <3> QED
      BY <1>2, <3>1 DEF CheckLoad
  <2>5. /\ TypeOK' /\ SaversKnown' /\ HeldIsSaved' /\ OutdatedInv'
        /\ StoppedResultHonest' /\ NewHasNoRow'
    BY <2>1, <2>4 DEF SyncInv, TypeOK, SaversKnown, HeldIsSaved, OutdatedInv,
                      StoppedResultHonest, NewHasNoRow
  <2>6. RowNotAhead' /\ LoadedStillTrue'
    BY <2>1, <2>2, <2>3 DEF SyncInv, RowNotAhead, LoadedStillTrue
  <2> QED
    BY <2>1, <2>5, <2>6 DEF SyncInv
<1>3. ASSUME NEW t \in Task, PlanNext(t) \/ Resume(t) PROVE SyncInv' /\ Kept
  <2>1. CASE TakeUp(t)
    BY <2>1, TakeUpKeepsSync DEF TakeUp
  <2>2. CASE ~TakeUp(t)
    <3>1. PlannerStep(t) \/ ExecutorStep(t)
      BY <1>3, <2>2, PlannerSteps, ExecutorSteps DEF PlanNext, SyncInv
    <3>2. row' = row
      BY <3>1 DEF PlannerStep, ExecutorStep, Saved
    <3> QED
      BY <3>1, <3>2, PlannerKeepsSync, ExecutorKeepsSync
  <2> QED BY <2>1, <2>2
<1>4. ASSUME NEW t \in Task, SyncHook(t), <<row, outdated>>' # <<row, outdated>>
      PROVE  SyncInv' /\ Kept
  <2>1. PICK d \in due : /\ d.task = t /\ due' = due \ {d} /\ OnExecutionPlanSave(t, d.plan)
                         /\ UNCHANGED <<plan, planner, loaded, requests, astray>>
    BY <1>4 DEF SyncHook
  <2>2. d.plan \in SavedPlan
    BY DEF SyncInv, TypeOK
  <2>3. PICK r \in Row : /\ WriteRow(t, r)
                         /\ r.state = d.plan.state
                         /\ row[t] = NoRow => d.plan.state = "pending"
                         /\ d.plan.state # "pending" => r.result = MapResult(t, d.plan)
    BY <1>4, <2>1, <2>2, HookCopiesPlan DEF SyncInv
  <2>4. plan[t].state # "new" /\ (t \notin astray => d.plan = plan[t])
    BY <2>1 DEF SyncInv, SaversKnown, HeldIsSaved
  <2>5. t \notin astray /\ r.state = "stopped" =>
          \/ r.result \in {plan[t].result, "error"}
          \/ r.result = "cancelled" /\ plan[t].result = "error"
    BY <2>2, <2>3, <2>4, MapResultHonest
  <2>6. t \notin astray /\ (row[t].state = "stopped" \/ loaded[t] # NotLoaded)
          => r.state = "stopped"
    BY <2>3, <2>4 DEF SyncInv, RowNotAhead
  <2> QED
    BY <2>1, <2>3, <2>4, <2>5, <2>6, RowWriteKeepsSync
<1>5. ASSUME NEW t \in Task, CheckUpdate(t) PROVE SyncInv' /\ Kept
  <2>1. PICK r \in Row : /\ WriteRow(t, r)
                         /\ t \notin astray =>
                              /\ r.state = "stopped"
                              /\ r.result = "error" \/ (row[t].state = "stopped"
                                                         /\ r.result = row[t].result)
    BY <1>5, CheckStopsRow DEF SyncInv
  <2>2. /\ loaded[t] # NotLoaded /\ loaded' = [loaded EXCEPT ![t] = NotLoaded]
        /\ UNCHANGED <<plan, planner, due, requests, astray>>
    BY <1>5 DEF CheckUpdate
  <2>3. plan[t].state # "new" /\ (t \notin astray => plan[t].state = "stopped")
    BY <2>2 DEF SyncInv, RowNotAhead, LoadedStillTrue, NewHasNoRow
  <2>4. t \notin astray =>
          \/ r.result \in {plan[t].result, "error"}
          \/ r.result = "cancelled" /\ plan[t].result = "error"
    BY <2>1 DEF SyncInv, StoppedResultHonest
  <2> QED
    BY <2>1, <2>2, <2>3, <2>4, RowWriteKeepsSync
<1>6. ASSUME NEW t \in Task,
             \/ SyncHook(t) /\ <<row, outdated>>' = <<row, outdated>>
             \/ HookLost(t) \/ Cancel(t) \/ Halt(t)
      PROVE  SyncInv' /\ Kept
  <2>1. UNCHANGED <<plan, planner, row, outdated, loaded, astray>> /\ due' \subseteq due
    BY <1>6 DEF SyncHook, HookLost, Cancel, Halt
  <2>2. requests' \in [Task -> SUBSET {"cancel", "halt"}]
    <3>1. \/ requests' = requests
          \/ \E e \in {"cancel", "halt"} : requests' = [requests EXCEPT ![t] = @ \cup {e}]
      BY <1>6 DEF SyncHook, HookLost, Cancel, Halt
    <3> QED
      BY <3>1 DEF SyncInv, TypeOK
  <2>3. SyncInv'
    BY <2>1, <2>2 DEF SyncInv, TypeOK, SaversKnown, HeldIsSaved, OutdatedInv, RowNotAhead,
                      LoadedStillTrue, StoppedResultHonest, NewHasNoRow
  <2> QED
    BY <2>1, <2>3
<1> QED
  BY <1>1, <1>2, <1>3, <1>4, <1>5, <1>6 DEF Next

LEMMA SyncInvariant == Spec => []SyncInv
<1>1. SyncInv /\ [Next]_vars => SyncInv'
  BY NextKeepsSync
<1> QED
  BY <1>1, InitSync, PTL DEF Spec

-----------------------------------------------------------------------------
(* Every plan, row and request keeps its shape.                            *)
THEOREM TypeCorrect == Spec => []TypeOK
<1>1. SyncInv => TypeOK
  BY DEF SyncInv
<1> QED
  BY <1>1, SyncInvariant, PTL

(* A row says stopped, and a check holds a row to be stopped, only when    *)
(* the plan ended, in whatever order saves, hooks and checks interleave    *)
(* (on_execution_plan_save, consistency_check), unless the task was        *)
(* stopped while another process planned it.                               *)
THEOREM RowNeverAhead == Spec => []RowNotAhead
<1>1. SyncInv => RowNotAhead
  BY DEF SyncInv
<1> QED
  BY <1>1, SyncInvariant, PTL

(* A stopped row shows the result of its plan, an error, or cancelled for  *)
(* an error (map_result and the rescue branch of consistency_check).       *)
THEOREM ResultsHonest == Spec => []StoppedResultHonest
<1>1. SyncInv => StoppedResultHonest
  BY DEF SyncInv
<1> QED
  BY <1>1, SyncInvariant, PTL

(* No hook, check or user takes a row out of the state stopped; only the   *)
(* process that was planning a task when it was stopped does.              *)
THEOREM StoppedForGood == Spec => StoppedIsFinal
<1>1. SyncInv /\ [Next]_vars =>
        [\A t \in Task \ astray : row[t].state = "stopped" => row'[t].state = "stopped"]_vars
  BY NextKeepsSync
<1> QED
  BY <1>1, SyncInvariant, PTL DEF Spec, StoppedIsFinal

-----------------------------------------------------------------------------
(* Refinement: the row follows its plan.                                   *)

(* What AbstractTask sees of a plan and of a row.                          *)
Life == [t \in Task |-> IF plan[t].state = "new" THEN "idle"
                        ELSE IF plan[t].state = "stopped" THEN "over" ELSE "going"]
RowState == [t \in Task |-> IF row[t] = NoRow THEN "none"
                            ELSE IF row[t].state = "stopped" THEN "closed" ELSE "open"]

(* A plan is saved: one that had stopped only for a task that is astray,   *)
(* and a task goes astray only when its plan is stopped.                   *)
PlanSeen(t, p) ==
  /\ plan' = [plan EXCEPT ![t] = p] /\ row' = row
  /\ plan[t].state = "new" => p.state = "pending"
  /\ plan[t].state = "stopped" => t \in astray
  /\ \/ astray' = astray
     \/ /\ astray' = astray \cup {t}
        /\ p.state = "stopped" /\ plan[t].state \notin {"new", "stopped"}

(* A row is written: as stopped only with the plan and not taken out of    *)
(* that state, unless the task is astray.                                  *)
RowSeen(t, r) ==
  /\ row' = [row EXCEPT ![t] = r] /\ UNCHANGED <<plan, astray>>
  /\ plan[t].state # "new"
  /\ r.state = "stopped" => row[t] # NoRow /\ (plan[t].state = "stopped" \/ t \in astray)
  /\ row[t].state = "stopped" => r.state = "stopped" \/ t \in astray

LEMMA StepsSeen ==
  ASSUME SyncInv, [Next]_vars
  PROVE  \/ UNCHANGED <<plan, row, astray>>
         \/ \E t \in Task, p \in SavedPlan : PlanSeen(t, p)
         \/ \E t \in Task, r \in Row : RowSeen(t, r)
<1>1. ASSUME NEW t \in Task, PlanNext(t) \/ Resume(t), ~TakeUp(t)
      PROVE  \E p \in SavedPlan : PlanSeen(t, p)
  <2>1. PlannerStep(t) \/ ExecutorStep(t)
    BY <1>1, PlannerSteps, ExecutorSteps DEF PlanNext, SyncInv
  <2>2. CASE PlannerStep(t)
    <3>1. PICK p \in SavedPlan :
            /\ Saved(t, "planner", p) /\ astray' = astray
            /\ IF plan[t].state = "new" THEN p.state = "pending" ELSE planner[t] # "none"
      BY <2>2 DEF PlannerStep
    <3>2. plan[t].state = "stopped" => t \in astray
      BY <3>1 DEF SyncInv, HeldIsSaved, TypeOK
    <3> QED
      BY <3>1, <3>2 DEF PlanSeen, Saved
  <2>3. CASE ExecutorStep(t)
    BY <2>3 DEF ExecutorStep, PlanSeen, Saved
  <2> QED
    BY <2>1, <2>2, <2>3
<1>2. ASSUME NEW t \in Task, SyncHook(t), <<row, outdated>>' # <<row, outdated>>
      PROVE  \E r \in Row : RowSeen(t, r)
  <2>1. PICK d \in due : /\ d.task = t /\ OnExecutionPlanSave(t, d.plan)
                         /\ UNCHANGED <<plan, astray>>
    BY <1>2 DEF SyncHook
  <2>2. d.plan \in SavedPlan
    BY DEF SyncInv, TypeOK
  <2>3. PICK r \in Row : /\ WriteRow(t, r)
                         /\ r.state = d.plan.state
                         /\ row[t] = NoRow => d.plan.state = "pending"
    BY <1>2, <2>1, <2>2, HookCopiesPlan DEF SyncInv
  <2>4. plan[t].state # "new" /\ (t \notin astray => d.plan = plan[t])
    BY <2>1 DEF SyncInv, SaversKnown, HeldIsSaved
  <2>5. row[t].state = "stopped" => plan[t].state = "stopped" \/ t \in astray
    BY DEF SyncInv, RowNotAhead
  <2> QED
    BY <2>1, <2>3, <2>4, <2>5 DEF RowSeen, WriteRow
<1>3. ASSUME NEW t \in Task, CheckUpdate(t)
      PROVE  \E r \in Row : RowSeen(t, r)
  <2>1. PICK r \in Row : WriteRow(t, r) /\ (t \notin astray => r.state = "stopped")
    BY <1>3, CheckStopsRow DEF SyncInv
  <2>2. /\ row[t] # NoRow /\ UNCHANGED <<plan, astray>>
        /\ t \notin astray => plan[t].state = "stopped"
    BY <1>3 DEF CheckUpdate, SyncInv, RowNotAhead, LoadedStillTrue
  <2>3. plan[t].state # "new"
    BY <2>2 DEF SyncInv, NewHasNoRow
  <2> QED
    BY <2>1, <2>2, <2>3 DEF RowSeen, WriteRow
<1>4. CASE \/ CheckLoad \/ UNCHANGED vars
           \/ \E t \in Task : TakeUp(t) \/ HookLost(t) \/ Cancel(t) \/ Halt(t)
  BY <1>4 DEF CheckLoad, vars, TakeUp, HookLost, Cancel, Halt
<1>5. ASSUME NEW t \in Task, SyncHook(t), <<row, outdated>>' = <<row, outdated>>
      PROVE  UNCHANGED <<plan, row, astray>>
  BY <1>5 DEF SyncHook
<1> QED
  BY <1>1, <1>2, <1>3, <1>4, <1>5 DEF Next

(* A saved plan begins, ends, is interrupted or revived.                   *)
LEMMA PlanSeenFollows ==
  ASSUME SyncInv, NEW t \in Task, NEW p \in SavedPlan, PlanSeen(t, p)
  PROVE  AsTask!Next \/ UNCHANGED AsTask!vars
<1>1. /\ plan \in [Task -> ExecutionPlan] /\ plan' = [plan EXCEPT ![t] = p]
      /\ row' = row /\ p.state # "new"
  BY DEF SyncInv, TypeOK, ExecutionPlan, PlanSeen, SavedPlan, States
<1>2. RowState' = RowState
  BY <1>1 DEF RowState
<1>3. CASE plan[t].state = "new"
  <2>1. p.state = "pending" /\ astray' = astray
    BY <1>3 DEF PlanSeen
  <2>2. Life[t] = "idle" /\ RowState[t] = "none" /\ Life' = [Life EXCEPT ![t] = "going"]
    BY <1>1, <1>3, <2>1 DEF Life, RowState, SyncInv, NewHasNoRow
  <2>3. AsTask!Begin(t)
    BY <1>2, <2>1, <2>2 DEF AsTask!Begin, Life, RowState
  <2> QED
    BY <2>3 DEF AsTask!Next
<1>4. CASE plan[t].state \notin {"new", "stopped"} /\ p.state = "stopped"
  <2>1. Life[t] = "going" /\ Life' = [Life EXCEPT ![t] = "over"]
    BY <1>1, <1>4 DEF Life
  <2>2. CASE astray' = astray
    <3>1. Life' = [u \in Task |-> IF u \in {t} THEN "over" ELSE Life[u]]
      BY <2>1 DEF Life
    <3>2. AsTask!End({t})
      BY <1>2, <2>1, <2>2, <3>1 DEF AsTask!End, Life, RowState
    <3> QED
      BY <3>2 DEF AsTask!Next
  <2>3. CASE astray' = astray \cup {t}
    <3>1. AsTask!Interrupt(t)
      BY <1>2, <2>1, <2>3 DEF AsTask!Interrupt, Life, RowState
    <3> QED
      BY <3>1 DEF AsTask!Next
  <2> QED
    BY <2>2, <2>3 DEF PlanSeen
<1>5. CASE plan[t].state = "stopped" /\ p.state # "stopped"
  <2>1. t \in astray /\ astray' = astray
    BY <1>5 DEF PlanSeen
  <2>2. Life[t] = "over" /\ Life' = [Life EXCEPT ![t] = "going"]
    BY <1>1, <1>5 DEF Life
  <2>3. AsTask!Revive(t)
    BY <1>2, <2>1, <2>2 DEF AsTask!Revive, Life, RowState
  <2> QED
    BY <2>3 DEF AsTask!Next
<1>6. CASE plan[t].state # "new" /\ (plan[t].state = "stopped" <=> p.state = "stopped")
  <2>1. Life' = Life
    BY <1>1, <1>6 DEF Life
  <2>2. astray' = astray
    BY <1>6 DEF PlanSeen
  <2> QED
    BY <1>2, <2>1, <2>2 DEF AsTask!vars, Life, RowState
<1> QED
  BY <1>3, <1>4, <1>5, <1>6

(* A written row is opened, closed or opened again.                        *)
LEMMA RowSeenFollows ==
  ASSUME SyncInv, NEW t \in Task, NEW r \in Row, RowSeen(t, r)
  PROVE  AsTask!Next \/ UNCHANGED AsTask!vars
<1>1. /\ row \in [Task -> Row \cup {NoRow}] /\ row' = [row EXCEPT ![t] = r]
      /\ Life' = Life /\ astray' = astray /\ r # NoRow
  BY DEF SyncInv, TypeOK, RowSeen, Life, Row, NoRow, States
<1>2. CASE row[t] = NoRow
  <2>1. RowState[t] = "none" /\ RowState' = [RowState EXCEPT ![t] = "open"]
    BY <1>1, <1>2 DEF RowState, RowSeen
  <2>2. AsTask!Open(t)
    BY <1>1, <2>1 DEF AsTask!Open, Life, RowState, RowSeen
  <2> QED
    BY <2>2 DEF AsTask!Next
<1>3. CASE row[t] # NoRow /\ row[t].state # "stopped" /\ r.state = "stopped"
  <2>1. RowState[t] = "open" /\ RowState' = [RowState EXCEPT ![t] = "closed"]
    BY <1>1, <1>3 DEF RowState
  <2>2. Life[t] = "over" \/ t \in astray
    BY <1>3 DEF Life, RowSeen
  <2>3. AsTask!Close(t)
    BY <1>1, <2>1, <2>2 DEF AsTask!Close, Life, RowState
  <2> QED
    BY <2>3 DEF AsTask!Next
<1>4. CASE row[t] # NoRow /\ row[t].state = "stopped" /\ r.state # "stopped"
  <2>1. t \in astray
    BY <1>4 DEF RowSeen
  <2>2. RowState[t] = "closed" /\ RowState' = [RowState EXCEPT ![t] = "open"]
    BY <1>1, <1>4 DEF RowState
  <2>3. AsTask!Reopen(t)
    BY <1>1, <2>1, <2>2 DEF AsTask!Reopen, Life, RowState
  <2> QED
    BY <2>3 DEF AsTask!Next
<1>5. CASE row[t] # NoRow /\ (row[t].state = "stopped" <=> r.state = "stopped")
  <2>1. RowState' = RowState
    BY <1>1, <1>5 DEF RowState
  <2> QED
    BY <1>1, <2>1 DEF AsTask!vars, Life, RowState
<1> QED
  BY <1>2, <1>3, <1>4, <1>5

LEMMA StepsFollowTask ==
  ASSUME SyncInv, [Next]_vars
  PROVE  AsTask!Next \/ UNCHANGED AsTask!vars
<1>1. CASE UNCHANGED <<plan, row, astray>>
  <2>1. Life' = Life /\ RowState' = RowState /\ astray' = astray
    BY <1>1 DEF Life, RowState
  <2> QED
    BY <2>1 DEF AsTask!vars, Life, RowState
<1> QED
  BY <1>1, StepsSeen, PlanSeenFollows, RowSeenFollows

(* Rows are created once, closed after the end of the plan and never       *)
(* opened again, as AbstractTask says, with late and lost hooks, checks    *)
(* that work on old rows and resumed plans; a plan revived and a row       *)
(* opened again belong to a task that was stopped while it was planned.    *)
THEOREM RowRefinement == Spec => ImplementsTask
<1>1. Init => AsTask!Init
  BY DEF Init, AsTask!Init
<1>2. SyncInv /\ [Next]_vars => [AsTask!Next]_(AsTask!vars)
  BY StepsFollowTask
<1> QED
  BY <1>1, <1>2, SyncInvariant, PTL DEF Spec, ImplementsTask, AsTask!Spec
=============================================================================
