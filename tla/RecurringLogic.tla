--------------------------- MODULE RecurringLogic ---------------------------
(***************************************************************************)
(* A recurring logic and the chain of tasks it triggers.                   *)
(*                                                                         *)
(* At most one occurrence waits at a time: when its plan becomes planned,  *)
(* or fails before that, the hook trigger_repeat of the process at work    *)
(* loads the logic, counts the iteration, saves it and delays the next     *)
(* occurrence.  Nothing locks the logic: requests that cancel, enable or   *)
(* disable it run between those steps, each on the copy it loaded.         *)
(***************************************************************************)
EXTENDS Naturals, FiniteSets

CONSTANTS
  MaxIteration,    \* the iteration limit of the logic
  MaxOccurrence,   \* bound of the model: occurrences that can be created
  Requests         \* the requests users make, of those in RequestKinds

RequestKinds == {"cancel logic", "enable", "disable", "cancel task", "halt task"}

ASSUME LimitAssumption == MaxIteration \in Nat \ {0}
ASSUME BoundAssumption == MaxOccurrence \in Nat \ {0}
ASSUME RequestsAssumption == Requests \subseteq RequestKinds

VARIABLES
  logic,      \* the row of the logic: state and iteration
  ended,      \* whether the end time of the logic has come
  occ,        \* occ[n]: the plan of occurrence n
  frozen,     \* occurrences whose delayed plan is frozen
  records,    \* occurrences with a Dynflow delay record
  repeat,     \* repeat[n]: the trigger_repeat call made by the hook of n; 0 is start
  canceller,  \* progress of a request that cancels the logic
  todo,       \* the tasks it has still to cancel
  switcher,   \* progress of a request that enables or disables the logic
  broken,     \* history: a call ended before its last step, or the waiting task was halted
  known       \* history: the tasks created when the logic was last cancelled or finished,
              \* all of Occurrence while it is neither

vars == <<logic, ended, occ, frozen, records, repeat, canceller, todo, switcher, broken, known>>
planVars == <<occ, frozen, records>>
requestVars == <<canceller, todo, switcher>>

Occurrence == 1..MaxOccurrence
Caller == 0..MaxOccurrence
LogicStates == {"active", "disabled", "finished", "cancelled"}
Done == {"finished", "cancelled"}
PlanStates == {"none", "pending", "scheduled", "planning", "planned", "running", "stopped"}
NoCopy == [state |-> "none", iteration |-> 0]
LogicRow == [state : LogicStates, iteration : Nat]
NoSwitch == [value |-> "none", copy |-> "none", found |-> FALSE]

TypeOK ==
  /\ logic \in LogicRow
  /\ ended \in BOOLEAN
  /\ occ \in [Occurrence -> PlanStates]
  /\ frozen \subseteq Occurrence
  /\ records \subseteq Occurrence
  /\ repeat \in [Caller -> [phase : {"none", "due", "loaded", "saved", "delaying"},
                            copy : LogicRow \cup {NoCopy},
                            next : Caller]]
  /\ canceller \in {"idle", "saved", "cancelling", "done", "failed"}
  /\ todo \subseteq Occurrence
  /\ switcher \in [value : {"enable", "disable"}, copy : LogicStates, found : BOOLEAN]
                    \cup {NoSwitch}
  /\ broken \in BOOLEAN
  /\ known \subseteq Occurrence

Created == {n \in Occurrence : occ[n] # "none"}

(* What a request or a hook that leaves the logic in a state finds created. *)
KnownIn(state) == IF state \in Done /\ known = Occurrence THEN Created ELSE known

Idle == [phase |-> "none", copy |-> NoCopy, next |-> 0]
Due == [phase |-> "due", copy |-> NoCopy, next |-> 0]
Loaded(row) == [phase |-> "loaded", copy |-> row, next |-> 0]

(* start_after saves the logic as active and calls trigger_repeat_after on *)
(* the logic in memory.                                                    *)
Started == [state |-> "active", iteration |-> 0]

Init ==
  /\ logic = Started
  /\ ended = FALSE
  /\ occ = [n \in Occurrence |-> "none"]
  /\ frozen = {}
  /\ records = {}
  /\ repeat = [c \in Caller |->
                 IF c = 0 THEN Loaded(Started) ELSE Idle]
  /\ canceller = "idle"
  /\ todo = {}
  /\ switcher = NoSwitch
  /\ broken = FALSE
  /\ known = Occurrence

-----------------------------------------------------------------------------
(* trigger_repeat: the hook on :planned and :failure.                      *)

(* Mutant: the delay record is not asked for. *)
LoadLogic_AnyPlan(c) ==
  /\ repeat[c].phase = "due"
  /\ repeat' = [repeat EXCEPT ![c] = Loaded(logic)]
  /\ UNCHANGED <<logic, ended, planVars, requestVars, broken, known>>

(* The call of a plan that still has its delay record loads the logic. *)
LoadLogic(c) ==
  /\ repeat[c].phase = "due"
  /\ repeat' = IF c \in records
                 THEN [repeat EXCEPT ![c] = Loaded(logic)]
                 ELSE [repeat EXCEPT ![c] = Idle]
  /\ UNCHANGED <<logic, ended, planVars, requestVars, broken, known>>

(* Mutant: one iteration too many. *)
CanContinue_OffByOne(copy) ==
  /\ copy.state \in {"active", "disabled"}
  /\ ~ended
  /\ copy.iteration <= MaxIteration

(* can_continue? and can_start? *)
CanContinue(copy) ==
  /\ copy.state \in {"active", "disabled"}
  /\ ~ended
  /\ copy.iteration < MaxIteration

(* return if cancelled? *)
GiveUp(c) ==
  /\ repeat[c].phase = "loaded"
  /\ repeat[c].copy.state = "cancelled"
  /\ repeat' = [repeat EXCEPT ![c] = Idle]
  /\ UNCHANGED <<logic, ended, planVars, requestVars, broken, known>>

(* Mutant: the whole copy is written back, not the changed column. *)
CountIteration_WholeRow(c) ==
  /\ repeat[c].phase = "loaded"
  /\ CanContinue(repeat[c].copy)
  /\ logic' = [repeat[c].copy EXCEPT !.iteration = @ + 1]
  /\ repeat' = [repeat EXCEPT ![c].phase = "saved"]
  /\ UNCHANGED <<ended, planVars, requestVars, broken, known>>

(* save! writes the one column that differs from the copy. *)
CountIteration(c) ==
  /\ repeat[c].phase = "loaded"
  /\ CanContinue(repeat[c].copy)
  /\ logic' = [logic EXCEPT !.iteration = repeat[c].copy.iteration + 1]
  /\ repeat' = [repeat EXCEPT ![c].phase = "saved"]
  /\ UNCHANGED <<ended, planVars, requestVars, broken, known>>

(* Mutant: the logic is not saved as finished. *)
FinishLogic_Unsaved(c) ==
  /\ repeat[c].phase = "loaded"
  /\ repeat[c].copy.state # "cancelled"
  /\ ~CanContinue(repeat[c].copy)
  /\ repeat' = [repeat EXCEPT ![c] = Idle]
  /\ UNCHANGED <<logic, ended, planVars, requestVars, broken, known>>

(* The same for the state, whatever became of the logic meanwhile. *)
FinishLogic(c) ==
  /\ repeat[c].phase = "loaded"
  /\ repeat[c].copy.state # "cancelled"
  /\ ~CanContinue(repeat[c].copy)
  /\ logic' = [logic EXCEPT !.state = IF repeat[c].copy.state = "finished" THEN @ ELSE "finished"]
  /\ known' = KnownIn(logic'.state)
  /\ repeat' = [repeat EXCEPT ![c] = Idle]
  /\ UNCHANGED <<ended, planVars, requestVars, broken>>

(* ForemanTasks.delay creates the plan of the next occurrence, *)
CreateNext(c) ==
  /\ repeat[c].phase = "saved"
  /\ \E n \in Occurrence :
       /\ occ[n] = "none" /\ \A k \in 1..(n - 1) : occ[k] # "none"
       /\ occ' = [occ EXCEPT ![n] = "pending"]
       /\ repeat' = [repeat EXCEPT ![c] =
                       [phase |-> "delaying", copy |-> repeat[c].copy, next |-> n]]
  /\ UNCHANGED <<logic, ended, frozen, records, requestVars, broken, known>>

(* and schedules it, frozen if the copy of the logic is disabled. *)
ScheduleNext(c) ==
  /\ repeat[c].phase = "delaying"
  /\ occ' = [occ EXCEPT ![repeat[c].next] = "scheduled"]
  /\ records' = records \cup {repeat[c].next}
  /\ frozen' = IF repeat[c].copy.state = "disabled" THEN frozen \cup {repeat[c].next} ELSE frozen
  /\ repeat' = [repeat EXCEPT ![c] = Idle]
  /\ UNCHANGED <<logic, ended, requestVars, broken, known>>

(* The process of the call dies or an exception leaves it. *)
LoseRepeat(c) ==
  /\ repeat[c].phase # "none"
  /\ repeat' = [repeat EXCEPT ![c] = Idle]
  /\ broken' = TRUE
  /\ UNCHANGED <<logic, ended, planVars, requestVars, known>>

TriggerRepeat(c) ==
  \/ LoadLogic(c) \/ GiveUp(c) \/ CountIteration(c) \/ FinishLogic(c)
  \/ CreateNext(c) \/ ScheduleNext(c)

-----------------------------------------------------------------------------
(* The plan of an occurrence (Dynflow).  It is taken up when its time has  *)
(* come, unless it is frozen; the delay record is removed once it is       *)
(* planned.  Hooks run before the plan is handed on.                       *)

Plan(n) ==
  /\ occ[n] = "scheduled"
  /\ n \notin frozen
  /\ repeat[n].phase = "none"
  /\ occ' = [occ EXCEPT ![n] = "planning"]
  /\ UNCHANGED <<logic, ended, frozen, records, repeat, requestVars, broken, known>>

(* Mutant: no hook on :failure. *)
EndPlanning_NoFailureHook(n) ==
  /\ occ[n] = "planning"
  /\ \/ occ' = [occ EXCEPT ![n] = "planned"] /\ repeat' = [repeat EXCEPT ![n] = Due]
     \/ occ' = [occ EXCEPT ![n] = "stopped"] /\ UNCHANGED repeat
  /\ UNCHANGED <<logic, ended, frozen, records, requestVars, broken, known>>

(* Both ends of planning run the hook. *)
EndPlanning(n) ==
  /\ occ[n] = "planning"
  /\ \E s \in {"planned", "stopped"} : occ' = [occ EXCEPT ![n] = s]
  /\ repeat' = [repeat EXCEPT ![n] = Due]
  /\ UNCHANGED <<logic, ended, frozen, records, requestVars, broken, known>>

Run(n) ==
  /\ occ[n] = "planned"
  /\ repeat[n].phase = "none"
  /\ occ' = [occ EXCEPT ![n] = "running"]
  /\ records' = records \ {n}
  /\ UNCHANGED <<logic, ended, frozen, repeat, requestVars, broken, known>>

(* A plan that pauses is covered by "running". *)
EndRun(n) ==
  /\ occ[n] = "running"
  /\ occ' = [occ EXCEPT ![n] = "stopped"]
  /\ repeat' \in {repeat, [repeat EXCEPT ![n] = Due]}
  /\ UNCHANGED <<logic, ended, frozen, records, requestVars, broken, known>>

(* Task#cancel: a scheduled plan stops, a running one stops with a failure *)
(* if its action is cancellable; the :failure hook runs.  Other plans have *)
(* no step that could be cancelled.                                        *)
StopTask(n) ==
  /\ occ[n] \in {"scheduled", "running"}
  /\ occ' = [occ EXCEPT ![n] = "stopped"]
  /\ repeat' = [repeat EXCEPT ![n] = Due]

CancelTask(n) ==
  /\ "cancel task" \in Requests
  /\ StopTask(n)
  /\ UNCHANGED <<logic, ended, frozen, records, requestVars, broken, known>>

(* force_unlock halts a task of any pending state.  The plan stops without *)
(* an error of its own, and no hook is registered for that: a waiting      *)
(* occurrence takes the chain with it.  A hook at work goes on, and a plan *)
(* with a failed step still runs its hook.  A plan that is being created   *)
(* or planned is saved over by the process at work on it.                  *)
HaltTask(n) ==
  /\ "halt task" \in Requests
  /\ occ[n] \in {"scheduled", "planned", "running"}
  /\ occ' = [occ EXCEPT ![n] = "stopped"]
  /\ \/ UNCHANGED repeat
     \/ occ[n] = "running" /\ repeat' = [repeat EXCEPT ![n] = Due]
  /\ broken' = (broken \/ occ[n] = "scheduled")
  /\ UNCHANGED <<logic, ended, frozen, records, requestVars, known>>

EndTimeComes ==
  /\ ~ended
  /\ ended' = TRUE
  /\ UNCHANGED <<logic, planVars, repeat, requestVars, broken, known>>

-----------------------------------------------------------------------------
(* RecurringLogic#cancel.                                                  *)

CancelSave ==
  /\ "cancel logic" \in Requests
  /\ canceller = "idle"
  /\ logic' = [logic EXCEPT !.state = "cancelled"]
  /\ known' = KnownIn("cancelled")
  /\ canceller' = "saved"
  /\ UNCHANGED <<ended, planVars, repeat, todo, switcher, broken>>

(* tasks.active: the tasks of the group that have not stopped. *)
CancelLoad ==
  /\ canceller = "saved"
  /\ todo' = {n \in Occurrence : occ[n] \notin {"none", "stopped"}}
  /\ canceller' = "cancelling"
  /\ UNCHANGED <<logic, ended, planVars, repeat, switcher, broken, known>>

CancelEach(n) ==
  /\ n \in todo
  /\ todo' = todo \ {n}
  /\ \/ StopTask(n)
     \/ occ[n] # "scheduled" /\ UNCHANGED <<occ, repeat>>
  /\ UNCHANGED <<logic, ended, frozen, records, canceller, switcher, broken, known>>

(* An exception from one task spares the rest. *)
CancelAborts ==
  /\ canceller = "cancelling"
  /\ todo # {}
  /\ todo' = {}
  /\ canceller' = "failed"
  /\ UNCHANGED <<logic, ended, planVars, repeat, switcher, broken, known>>

CancelDone ==
  /\ canceller = "cancelling"
  /\ todo = {}
  /\ canceller' = "done"
  /\ UNCHANGED <<logic, ended, planVars, repeat, todo, switcher, broken, known>>

-----------------------------------------------------------------------------
(* enabled=: a scheduled task is looked for and its delayed plan frozen or *)
(* unfrozen at once; the state of the logic is saved at the end of the     *)
(* request, if it differs from the loaded one.                             *)

(* Enabling without a scheduled task raises: the request changes nothing. *)
SwitchTask(value) ==
  /\ value \in Requests
  /\ switcher = NoSwitch
  /\ \/ \E n \in Occurrence :
          /\ occ[n] = "scheduled"
          /\ frozen' = IF value = "disable" THEN frozen \cup {n} ELSE frozen \ {n}
          /\ switcher' = [value |-> value, copy |-> logic.state, found |-> TRUE]
     \/ /\ value = "disable"
        /\ \A n \in Occurrence : occ[n] # "scheduled"
        /\ switcher' = [value |-> value, copy |-> logic.state, found |-> FALSE]
        /\ UNCHANGED frozen
  /\ UNCHANGED <<logic, ended, occ, records, repeat, canceller, todo, broken, known>>

SwitchSave ==
  /\ switcher # NoSwitch
  /\ LET state == IF switcher.value = "enable" THEN "active" ELSE "disabled"
     IN  IF switcher.copy = state
           THEN UNCHANGED <<logic, known>>
           ELSE logic' = [logic EXCEPT !.state = state] /\ known' = Occurrence
  /\ switcher' = NoSwitch
  /\ UNCHANGED <<ended, planVars, repeat, canceller, todo, broken>>

-----------------------------------------------------------------------------
Next ==
  \/ \E c \in Caller : TriggerRepeat(c) \/ LoseRepeat(c)
  \/ \E n \in Occurrence :
       \/ Plan(n) \/ EndPlanning(n) \/ Run(n) \/ EndRun(n)
       \/ CancelTask(n) \/ HaltTask(n) \/ CancelEach(n)
  \/ EndTimeComes
  \/ CancelSave \/ CancelLoad \/ CancelAborts \/ CancelDone
  \/ \E value \in {"enable", "disable"} : SwitchTask(value)
  \/ SwitchSave

Spec == Init /\ [][Next]_vars

(* Dynflow takes up what is due and processes go on.                       *)
FairSpec ==
  /\ Spec
  /\ \A c \in Caller : WF_vars(TriggerRepeat(c))
  /\ \A n \in Occurrence : WF_vars(Plan(n)) /\ WF_vars(EndPlanning(n))
  /\ WF_vars(SwitchSave)

-----------------------------------------------------------------------------
(* Properties.                                                             *)

(* The tasks and calls from which the next occurrence will come.           *)
Waiting == {n \in Occurrence : occ[n] \in {"scheduled", "planning"}}
Repeating ==
  {c \in Caller :
     \/ repeat[c].phase \in {"loaded", "saved", "delaying"}
     \/ repeat[c].phase = "due" /\ c \in records}

(* There is one chain: whatever is cancelled, switched or lost, an         *)
(* occurrence is triggered by the one before it and by no second hook, so  *)
(* that two occurrences never wait side by side.                           *)
OneChain == Cardinality(Waiting) + Cardinality(Repeating) <= 1

(* The logic counts what it triggers, and never beyond its limit, although *)
(* the counter is read and written by different processes.                 *)
IterationsCounted ==
  Cardinality(Created) <= logic.iteration /\ logic.iteration <= MaxIteration

(* The chain of a logic that nobody cancelled and that has something left  *)
(* to trigger goes on: an occurrence waits or is being triggered, unless a *)
(* hook was lost or the waiting occurrence was unlocked by force.          *)
ChainAlive ==
  CanContinue(logic) /\ canceller = "idle" /\ ~broken => Waiting \cup Repeating # {}

(* A hook that loaded the logic before it was cancelled or finished brings *)
(* one more occurrence.  It is the last one, until a request switches the  *)
(* logic on or off again: that hook writes nothing back that would let the *)
(* next one go on.                                                         *)
OneLateOccurrence == Cardinality(Created \ known) <= 1

(* A logic with an iteration limit comes to its end unless it is switched, *)
(* a hook is lost or the waiting occurrence is unlocked by force: it does  *)
(* not remain active for ever without a task.                              *)
Concludes == [](switcher = NoSwitch /\ ~broken) => <>(logic.state # "active")

(* "Cancels recurring logic and all its active tasks"                      *)
(* (graphql/mutations/recurring_logics/cancel.rb): after a cancellation    *)
(* that raised no error no task of the logic waits to be started.          *)
CancelStopsChain ==
  canceller = "done" /\ logic.state = "cancelled" => \A n \in Occurrence : occ[n] # "scheduled"
=============================================================================
