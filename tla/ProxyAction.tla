----------------------------- MODULE ProxyAction -----------------------------
(***************************************************************************)
(* A ProxyAction: a suspended Dynflow action that stands for a task on a   *)
(* smart proxy, and the RemoteTask row that ties the two together.         *)
(*                                                                         *)
(* The action reacts to events one at a time.  Requests to the proxy may   *)
(* be refused, or be served with their answer lost; such an error counts,  *)
(* and the event is tried again later until the count reaches a limit.     *)
(* The task may be launched by the action itself or by the batch trigger   *)
(* of its parent: both load or make a row, ask the proxy and save the row  *)
(* afterwards, while the plan may be halted.  Callbacks of the proxy can   *)
(* be lost; the middleware WatchDelegatedProxySubTasks of the parent then  *)
(* asks for the task.                                                      *)
(***************************************************************************)
EXTENDS Naturals, FiniteSets

CONSTANTS
  Modes,       \* ways to launch: "single", "batch", "external" (concurrency control)
  RetryCount,  \* connection_options[:retry_count]
  Failures,    \* which connection errors happen, of FailureKinds
  Watched,     \* whether the parent polls the proxy
  Requests,    \* which requests users make
  MaxResume,   \* bound of the model: how often a failed action is resumed
  MaxLaunch    \* bound of the model: tasks launched on the proxy

FailureKinds == {"refused", "lost", "poll"}

ASSUME ModesAssumption == Modes \subseteq {"single", "batch", "external"}
ASSUME RetryAssumption == RetryCount \in Nat \ {0}
ASSUME FailuresAssumption == Failures \subseteq FailureKinds
ASSUME WatchedAssumption == Watched \in BOOLEAN
ASSUME RequestsAssumption == Requests \subseteq {"cancel", "abort", "halt"}
ASSUME BoundsAssumption == MaxResume \in Nat /\ MaxLaunch \in Nat \ {0}

VARIABLES
  mode,        \* how the action was planned
  action,      \* "suspended" between two events, or how the run step ended
  outcome,     \* why the run step ended
  inbox,       \* events sent to the action and not yet processed
  pings,       \* events the clock will send again
  failed,      \* number of failed_proxy_tasks in the metadata
  cancelSent,  \* output[:cancel_sent]
  row,         \* state of the RemoteTask row, "none" without one
  id,          \* remote_task_id: the task on the proxy, 0 for any other value
  launching,   \* a launch by the action under way, which will "insert" or "update" the row
  dispatching, \* the batch trigger has loaded the row and not launched it
  proxy,       \* proxy[k]: the k-th task launched on the smart proxy
  lost,        \* whether an answer to a launch was lost
  resumes,     \* how often the action was resumed
  cleaning,    \* the hook clean_remote_task: "none", "due", "done" or "lost"
  cut          \* history: the plan stopped while the action inserted a row

vars == <<mode, lost, action, outcome, inbox, pings, failed, cancelSent,
          row, id, launching, dispatching, proxy, resumes, cleaning, cut>>
actionVars == <<action, outcome, pings, failed>>
planVars == <<mode, resumes, cleaning, cut>>

Launch == 1..MaxLaunch
Events == {"start", "cancel", "abort", "callback", "missing", "stopped", "failed"}

TypeOK ==
  /\ mode \in Modes
  /\ lost \in BOOLEAN
  /\ action \in {"suspended", "error", "success", "stopped"}
  /\ outcome \in {"none", "done", "cancelled", "missing", "failed", "connection"}
  /\ inbox \subseteq Events
  /\ pings \subseteq {"start", "cancel", "abort", "stopped"}
  /\ failed \in 0..(RetryCount + MaxResume)
  /\ cancelSent \in BOOLEAN
  /\ row \in {"none", "new", "external", "triggered"}
  /\ id \in {0} \cup Launch
  /\ dispatching \in BOOLEAN
  /\ proxy \in [Launch -> {"none", "running", "success", "error", "gone"}]
  /\ resumes \in 0..MaxResume
  /\ launching \in {"no", "insert", "update"}
  /\ cleaning \in {"none", "due", "done", "lost"}
  /\ cut \in BOOLEAN

(* plan: the row is saved there when the parent triggers in batches, which *)
(* concurrency control may or may not come with.                           *)
Init ==
  /\ mode \in Modes
  /\ lost = FALSE
  /\ action = "suspended"
  /\ outcome = "none"
  /\ inbox = {"start"}
  /\ pings = {}
  /\ failed = 0
  /\ cancelSent = FALSE
  /\ row \in CASE mode = "single" -> {"none"}
                [] mode = "batch" -> {"new"}
                [] OTHER -> {"none", "external"}
  /\ id = 0
  /\ dispatching = FALSE
  /\ proxy = [k \in Launch |-> "none"]
  /\ resumes = 0
  /\ launching = "no"
  /\ cleaning = "none"
  /\ cut = FALSE

-----------------------------------------------------------------------------
(* run(event): one event taken from the inbox.                             *)

Receive(e) ==
  /\ action = "suspended"
  /\ launching = "no"
  /\ e \in inbox

(* The handler suspends again, *)
Suspend(e) ==
  /\ inbox' = inbox \ {e}
  /\ UNCHANGED actionVars

(* or ends the step. *)
End(e, state, why) ==
  /\ action' = state
  /\ outcome' = why
  /\ inbox' = inbox \ {e}
  /\ UNCHANGED <<pings, failed>>

(* handle_connection_exception: the failure is recorded; the event is sent *)
(* again after the retry interval, or the exception raised.                *)
CountFailure(e) ==
  /\ failed' = failed + 1
  /\ IF failed' < RetryCount
       THEN pings' = pings \cup {e} /\ UNCHANGED <<action, outcome>>
       ELSE action' = "error" /\ outcome' = "connection" /\ UNCHANGED pings

ConnectionError(e) == CountFailure(e) /\ inbox' = inbox \ {e}

(* Only a suspended action gets the event. *)
Told(event) == IF action = "suspended" THEN inbox \cup {event} ELSE inbox

(* Mutant: a resumed action is triggered again. *)
StartOrResume_Relaunch ==
  /\ Receive("start")
  /\ Suspend("start")
  /\ launching' = IF row = "none" THEN "insert" ELSE "update"
  /\ UNCHANGED <<cancelSent, row, id, dispatching, proxy, lost, planVars>>

(* start_or_resume: only an action without a row, or with one under        *)
(* concurrency control, is launched.                                       *)
StartOrResume ==
  /\ Receive("start")
  /\ Suspend("start")
  /\ launching' = CASE row = "none" -> "insert"
                    [] row = "external" -> "update"
                    [] OTHER -> launching
  /\ UNCHANGED <<cancelSent, row, id, dispatching, proxy, lost, planVars>>

(* launch_tasks starts a task on the proxy. *)
StartOnProxy(k) ==
  /\ proxy[k] = "none"
  /\ \A j \in 1..(k - 1) : proxy[j] # "none"
  /\ proxy' = [proxy EXCEPT ![k] = "running"]

(* Mutant: a row that is gone is saved anew. *)
SaveRow_Upsert(insert, state, k) ==
  /\ row' = state
  /\ id' = k

(* save!: a new record is inserted, another one written if it still exists. *)
SaveRow(insert, state, k) ==
  IF insert \/ row # "none"
    THEN row' = state /\ id' = k
    ELSE UNCHANGED <<row, id>>

(* The launch raises: a connection error, or any other exception, which    *)
(* ends the step.  Nobody hears of it when the plan was halted meanwhile.  *)
LaunchRaises ==
  \/ action = "suspended" /\ CountFailure("start")
  \/ action = "suspended" /\ action' = "error" /\ outcome' = "failed" /\ UNCHANGED <<pings, failed>>
  \/ action # "suspended" /\ UNCHANGED actionVars

(* trigger_proxy_task and trigger_remote_task: the proxy is asked, then    *)
(* the row saved, as triggered or with a failure that is sent on to the    *)
(* action.  A lost answer includes one that raises after it came.          *)
TriggerProxyTask ==
  /\ launching # "no"
  /\ launching' = "no"
  /\ \/ \E k \in Launch :
          /\ StartOnProxy(k)
          /\ SaveRow(launching = "insert", "triggered", k)
          /\ UNCHANGED <<inbox, lost, actionVars>>
     \/ /\ \E answer \in {"failed", "stopped"} : inbox' = Told(answer)
        /\ IF launching = "insert"
             THEN SaveRow(TRUE, IF mode = "external" THEN "external" ELSE "new", 0)
             ELSE SaveRow(FALSE, row, 0)
        /\ UNCHANGED <<proxy, lost, actionVars>>
     \/ /\ "refused" \in Failures
        /\ LaunchRaises
        /\ UNCHANGED <<inbox, row, id, proxy, lost>>
     \/ /\ "lost" \in Failures
        /\ \E k \in Launch : StartOnProxy(k)
        /\ lost' = TRUE
        /\ LaunchRaises
        /\ UNCHANGED <<inbox, row, id>>
  /\ UNCHANGED <<cancelSent, dispatching, planVars>>

(* The task that proxy_task_id names is known to the proxy. *)
Known == id # 0 /\ proxy[id] # "gone"

(* cancel_proxy_task: the second time the action ends at once. *)
Cancel ==
  /\ Receive("cancel")
  /\ \/ cancelSent /\ End("cancel", "error", "cancelled") /\ UNCHANGED cancelSent
     \/ ~cancelSent /\ Known /\ Suspend("cancel") /\ cancelSent' = TRUE
     \/ /\ ~cancelSent
        /\ ~Known \/ Failures \cap {"refused", "lost"} # {}
        /\ ConnectionError("cancel")
        /\ UNCHANGED cancelSent
  /\ UNCHANGED <<row, id, dispatching, proxy, lost, launching, planVars>>

(* abort_proxy_task *)
Abort ==
  /\ Receive("abort")
  /\ \/ Known /\ End("abort", "error", "cancelled")
     \/ ~Known /\ ConnectionError("abort")
     \/ Failures \cap {"refused", "lost"} # {} /\ ConnectionError("abort")
  /\ UNCHANGED <<cancelSent, row, id, dispatching, proxy, lost, launching, planVars>>

(* CallbackData: on_data. *)
Callback ==
  /\ Receive("callback")
  /\ End("callback", "success", "done")
  /\ UNCHANGED <<cancelSent, row, id, dispatching, proxy, lost, launching, planVars>>

(* ProxyActionMissing, and ProxyActionStoppedEvent with an exception. *)
EndWithError(e) ==
  /\ e \in {"missing", "failed"}
  /\ Receive(e)
  /\ End(e, "error", e)
  /\ UNCHANGED <<cancelSent, row, id, dispatching, proxy, lost, launching, planVars>>

(* Mutant: a task that still runs has its data read. *)
CheckTaskStatus_AnyState ==
  /\ Receive("stopped")
  /\ \/ Known /\ proxy[id] \in {"running", "success"} /\ End("stopped", "success", "done")
     \/ Known /\ proxy[id] = "error" /\ End("stopped", "error", "failed")
     \/ ~Known /\ End("stopped", "error", "missing")
  /\ UNCHANGED <<cancelSent, row, id, dispatching, proxy, lost, launching, planVars>>

(* ProxyActionStoppedEvent without an exception: check_task_status. *)
CheckTaskStatus ==
  /\ Receive("stopped")
  /\ \/ Known /\ proxy[id] = "running" /\ Suspend("stopped")
     \/ Known /\ proxy[id] = "success" /\ End("stopped", "success", "done")
     \/ Known /\ proxy[id] = "error" /\ End("stopped", "error", "failed")
     \/ ~Known /\ End("stopped", "error", "missing")
     \/ Failures \cap {"refused", "lost"} # {} /\ ConnectionError("stopped")
  /\ UNCHANGED <<cancelSent, row, id, dispatching, proxy, lost, launching, planVars>>

(* The clock. *)
Ping(e) ==
  /\ e \in pings
  /\ pings' = pings \ {e}
  /\ inbox' = Told(e)
  /\ UNCHANGED <<action, outcome, failed, cancelSent, row, id, dispatching, proxy, lost, launching, planVars>>

HandleEvent ==
  \/ StartOrResume \/ Cancel \/ Abort \/ Callback \/ CheckTaskStatus
  \/ \E e \in Events : EndWithError(e)

-----------------------------------------------------------------------------
(* The batch trigger of the parent.                                        *)

LoadPending ==
  /\ mode = "batch"
  /\ row = "new"
  /\ ~dispatching
  /\ dispatching' = TRUE
  /\ UNCHANGED <<inbox, cancelSent, actionVars, row, id, proxy, lost, launching, planVars>>

(* The rows of the batch are launched in one request.  An exception leaves *)
(* them as they are; TriggerProxyBatch rescues it and tells the action, or *)
(* raises itself, ProxyBatchTriggering does not rescue it.                 *)
Dispatch ==
  /\ dispatching
  /\ dispatching' = FALSE
  /\ \/ \E k \in Launch :
          /\ StartOnProxy(k)
          /\ SaveRow(FALSE, "triggered", k)
          /\ UNCHANGED <<inbox, lost>>
     \/ /\ \E answer \in {"failed", "stopped"} : inbox' = Told(answer)
        /\ id' = 0
        /\ UNCHANGED <<row, proxy, lost>>
     \/ /\ "refused" \in Failures
        /\ UNCHANGED <<inbox, row, id, proxy, lost>>
     \/ /\ "lost" \in Failures
        /\ \E k \in Launch : StartOnProxy(k)
        /\ lost' = TRUE
        /\ \/ inbox' = Told("failed") /\ id' = 0
           \/ UNCHANGED <<inbox, id>>
        /\ UNCHANGED row
  /\ UNCHANGED <<cancelSent, launching, actionVars, planVars>>

-----------------------------------------------------------------------------
(* The middleware WatchDelegatedProxySubTasks.                             *)

(* Mutant: only a task that went missing is reported. *)
Watch_OnlyMissing ==
  /\ Watched
  /\ row = "triggered"
  /\ action = "suspended"
  /\ proxy[id] = "gone"
  /\ inbox' = inbox \cup {"missing"}
  /\ UNCHANGED <<cancelSent, actionVars, row, id, dispatching, proxy, lost, launching, planVars>>

(* check_triggered: a proxy that does not answer has, for the caller, no   *)
(* task at all.                                                            *)
Watch ==
  /\ Watched
  /\ row = "triggered"
  /\ action = "suspended"
  /\ \/ proxy[id] \in {"success", "error"} /\ inbox' = inbox \cup {"stopped"}
     \/ proxy[id] = "gone" /\ inbox' = inbox \cup {"missing"}
     \/ "poll" \in Failures /\ inbox' = inbox \cup {"missing"}
  /\ UNCHANGED <<cancelSent, actionVars, row, id, dispatching, proxy, lost, launching, planVars>>

-----------------------------------------------------------------------------
(* The smart proxy: a task ends and calls back, or the callback is lost;   *)
(* the proxy forgets its tasks when it restarts.                           *)

ProxyEnds(k) ==
  /\ proxy[k] = "running"
  /\ \E s \in {"success", "error"} : proxy' = [proxy EXCEPT ![k] = s]
  /\ inbox' \in {inbox, Told("callback")}
  /\ UNCHANGED <<cancelSent, actionVars, row, id, dispatching, lost, launching, planVars>>

ProxyRestarts ==
  /\ \E k \in Launch : proxy[k] \in {"running", "success", "error"}
  /\ proxy' = [k \in Launch |-> IF proxy[k] = "none" THEN "none" ELSE "gone"]
  /\ UNCHANGED <<inbox, cancelSent, actionVars, row, id, dispatching, lost, launching, planVars>>

-----------------------------------------------------------------------------
(* The execution plan and its users.                                       *)

Request(e) ==
  /\ e \in Requests \cap {"cancel", "abort"}
  /\ action = "suspended"
  /\ inbox' = inbox \cup {e}
  /\ UNCHANGED <<cancelSent, actionVars, row, id, dispatching, proxy, lost, launching, planVars>>

(* A failed step pauses the plan; resuming runs the action again. *)
Resume ==
  /\ action = "error"
  /\ resumes < MaxResume
  /\ resumes' = resumes + 1
  /\ action' = "suspended"
  /\ outcome' = "none"
  /\ inbox' = {"start"}
  /\ UNCHANGED <<pings, failed, cancelSent, row, id, dispatching, proxy, mode, lost, launching, cleaning, cut>>

(* The plan stops: after success, when the error is skipped or the task    *)
(* cancelled, or halted.  The hooks on :stopped follow.                    *)
Stop ==
  /\ action \in {"success", "error"} \/ ("halt" \in Requests /\ action = "suspended")
  /\ action' = "stopped"
  /\ inbox' = {}
  /\ cleaning' = "due"
  /\ cut' = (launching = "insert")
  /\ UNCHANGED <<outcome, pings, failed, cancelSent, row, id, launching, dispatching, proxy,
                 mode, resumes, lost>>

(* The hook destroys the row, if there is one. *)
CleanRemoteTask ==
  /\ cleaning = "due"
  /\ cleaning' = "done"
  /\ row' = "none"
  /\ id' = 0
  /\ UNCHANGED <<inbox, cancelSent, actionVars, launching, dispatching, proxy, mode, resumes, lost, cut>>

(* The process dies before the hook, or the hook raises. *)
LoseHook ==
  /\ cleaning = "due"
  /\ cleaning' = "lost"
  /\ UNCHANGED <<inbox, cancelSent, actionVars, row, id, launching, dispatching, proxy, mode, resumes, lost, cut>>

-----------------------------------------------------------------------------
Next ==
  \/ HandleEvent
  \/ TriggerProxyTask
  \/ \E e \in Events : Ping(e) \/ Request(e)
  \/ LoadPending \/ Dispatch \/ Watch
  \/ \E k \in Launch : ProxyEnds(k)
  \/ ProxyRestarts
  \/ Resume \/ Stop \/ CleanRemoteTask \/ LoseHook

Spec == Init /\ [][Next]_vars

(* Events are processed, the clock ticks and the parent polls.             *)
FairSpec ==
  /\ Spec
  /\ WF_vars(StartOrResume) /\ WF_vars(TriggerProxyTask) /\ WF_vars(Cancel) /\ WF_vars(Abort) /\ WF_vars(Callback)
  /\ WF_vars(CheckTaskStatus)
  /\ \A e \in Events : WF_vars(EndWithError(e)) /\ WF_vars(Ping(e))
  /\ WF_vars(Watch)

-----------------------------------------------------------------------------
(* Properties.                                                             *)

Launched == {k \in Launch : proxy[k] # "none"}

(* Unless an answer of the proxy is lost, retries, resumes and the batch   *)
(* trigger of the parent never start the task on the proxy a second time.  *)
LaunchedOnce == ~lost => Cardinality(Launched) <= 1

(* An action succeeds only after a task of its own ended on the proxy.     *)
SuccessIsEarned ==
  action = "success" => \E k \in Launched : proxy[k] # "running"

(* The row that the hook of a stopped plan destroyed does not come back,   *)
(* also when the batch trigger of the parent had loaded it before.  Only   *)
(* an action halted while it was launching by itself can leave a row: it   *)
(* inserts one when the proxy answers.                                     *)
NoRowAfterStop == cleaning = "done" /\ row # "none" => cut

(* A task the proxy no longer runs is noticed although its callback was    *)
(* lost: the action does not stay suspended.                               *)
EndIsNoticed ==
  (row = "triggered" /\ id # 0 /\ proxy[id] \in {"success", "error", "gone"})
    ~> action # "suspended"
=============================================================================
