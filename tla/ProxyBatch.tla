----------------------------- MODULE ProxyBatch -----------------------------
(***************************************************************************)
(* TriggerProxyBatch: a suspended action of the parent that launches the   *)
(* remote tasks of the sub-tasks on their smart proxies, a batch per       *)
(* event, while the sub-tasks are still being planned.                     *)
(*                                                                         *)
(* A batch is a list of the pending rows, sent to one proxy after the      *)
(* other; every request may fail, before or after the proxy served it.     *)
(* The sub-tasks get to know of a failure by an event, which they process  *)
(* later, and which is dropped when they have not suspended yet.           *)
(***************************************************************************)
EXTENDS Naturals, FiniteSets, Sequences

CONSTANTS
  TotalCount,  \* input[:total_count]: number of sub-tasks
  BatchSize,   \* input[:batch_size]
  ProxyOf,     \* ProxyOf[t]: the proxy of sub-task t, a number
  MaxAmount,   \* bound of the model: batches announced by one event
  MaxEvents,   \* bound of the model: events announced
  MaxLaunch,   \* bound of the model: how often one task is launched
  MaxFailures  \* bound of the model: requests that raise

Task == 1..TotalCount

ASSUME CountAssumption == TotalCount \in Nat \ {0} /\ BatchSize \in Nat \ {0}
ASSUME ProxyAssumption == ProxyOf \in [Task -> Nat]
ASSUME BoundAssumption ==
  MaxAmount \in Nat \ {0} /\ MaxEvents \in Nat /\ MaxLaunch \in Nat /\ MaxFailures \in Nat

VARIABLES
  row,         \* row[t]: state of the RemoteTask row of t
  sub,         \* sub[t]: the ProxyAction of t
  told,        \* sub-tasks with a ProxyActionStoppedEvent still to process
  launches,    \* launches[t]: how often a proxy started the task of t
  tried,       \* history: sub-tasks that were in a batch
  events,      \* events sent to the batch action: amounts, 0 for the last batch
  announced,   \* number of events sent
  step,        \* the batch action
  amount,      \* batches it still has to trigger in this run
  batch,       \* the batch at hand
  rest,        \* the part of it not sent yet
  planned,     \* output[:planned_count]
  failed,      \* output[:failed_count]
  lastSeen,    \* output[:planning_finished]
  failures,    \* number of requests that raised
  unheard,     \* history: sub-tasks whose last batch could not tell them of its failure
  unmarked     \* history: sub-tasks that were launched without their row being written

subVars == <<row, sub, told, unheard>>
launchVars == <<launches, unmarked, tried>>
counts == <<planned, failed, lastSeen, failures>>
vars == <<row, sub, told, launches, tried, events, announced, step, amount, batch, rest,
          planned, failed, lastSeen, failures, unheard, unmarked>>

Last == 0

TypeOK ==
  /\ row \in [Task -> {"none", "new", "triggered"}]
  /\ sub \in [Task -> {"unplanned", "planned", "suspended", "error", "ended"}]
  /\ told \subseteq Task
  /\ launches \in [Task -> 0..MaxLaunch]
  /\ tried \subseteq Task
  /\ events \in Seq(0..MaxAmount)
  /\ announced \in 0..(MaxEvents + 1)
  /\ step \in {"suspended", "running", "error", "success"}
  /\ amount \in 0..MaxAmount
  /\ batch \subseteq Task /\ Cardinality(batch) <= BatchSize
  /\ rest \subseteq batch
  /\ planned \in Nat /\ failed \in Nat
  /\ lastSeen \in BOOLEAN
  /\ failures \in 0..MaxFailures
  /\ unheard \subseteq Task /\ unmarked \subseteq Task

(* run(nil) has set the counts and suspended. *)
Init ==
  /\ row = [t \in Task |-> "none"]
  /\ sub = [t \in Task |-> "unplanned"]
  /\ told = {}
  /\ launches = [t \in Task |-> 0]
  /\ tried = {}
  /\ events = <<>>
  /\ announced = 0
  /\ step = "suspended"
  /\ amount = 0
  /\ batch = {}
  /\ rest = {}
  /\ planned = 0
  /\ failed = 0
  /\ lastSeen = FALSE
  /\ failures = 0
  /\ unheard = {}
  /\ unmarked = {}

-----------------------------------------------------------------------------
(* The sub-tasks: planned one by one with a row in state "new"; they run   *)
(* and suspend, end when their proxy calls back, or fail with the event of *)
(* the batch action.                                                       *)

PlanSubTask(t) ==
  /\ sub[t] = "unplanned"
  /\ \A u \in 1..(t - 1) : sub[u] # "unplanned"
  /\ sub' = [sub EXCEPT ![t] = "planned"]
  /\ row' = [row EXCEPT ![t] = "new"]
  /\ UNCHANGED <<told, unheard, launchVars, events, announced, step, amount, batch, rest, counts>>

(* start_or_resume: with a row the action only suspends. *)
RunSubTask(t) ==
  /\ sub[t] = "planned"
  /\ sub' = [sub EXCEPT ![t] = "suspended"]
  /\ UNCHANGED <<row, told, unheard, launchVars, events, announced, step, amount, batch, rest, counts>>

ProcessStopped(t) ==
  /\ t \in told
  /\ told' = told \ {t}
  /\ sub' = [sub EXCEPT ![t] = IF @ = "suspended" THEN "error" ELSE @]
  /\ UNCHANGED <<row, unheard, launchVars, events, announced, step, amount, batch, rest, counts>>

EndSubTask(t) ==
  /\ \/ sub[t] = "suspended" /\ launches[t] > 0
     \/ sub[t] = "error"
  /\ sub' = [sub EXCEPT ![t] = "ended"]
  /\ UNCHANGED <<row, told, unheard, launchVars, events, announced, step, amount, batch, rest, counts>>

(* The hook on :stopped, which may never come. *)
CleanRemoteTask(t) ==
  /\ sub[t] = "ended"
  /\ row[t] # "none"
  /\ row' = [row EXCEPT ![t] = "none"]
  /\ UNCHANGED <<sub, told, unheard, launchVars, events, announced, step, amount, batch, rest, counts>>

(* The planner of the sub-tasks announces batches, and the last one once   *)
(* all sub-tasks are planned.  A paused action does not get the event.     *)
Send(e) == events' = IF step = "error" THEN events ELSE Append(events, e)

TriggerNextBatch(n) ==
  /\ announced < MaxEvents
  /\ announced' = announced + 1
  /\ Send(n)
  /\ UNCHANGED <<subVars, launchVars, step, amount, batch, rest, counts>>

TriggerLastBatch ==
  /\ announced < MaxEvents + 1
  /\ \A t \in Task : sub[t] # "unplanned"
  /\ announced' = MaxEvents + 1
  /\ Send(Last)
  /\ UNCHANGED <<subVars, launchVars, step, amount, batch, rest, counts>>

-----------------------------------------------------------------------------
(* The batch action.                                                       *)

(* run(event): the number of batches to trigger; the last event triggers   *)
(* one and says that planning is over.                                     *)
ReceiveEvent ==
  /\ step = "suspended"
  /\ events # <<>>
  /\ events' = Tail(events)
  /\ step' = "running"
  /\ amount' = IF Head(events) = Last THEN 1 ELSE Head(events)
  /\ lastSeen' = (lastSeen \/ Head(events) = Last)
  /\ UNCHANGED <<subVars, launchVars, announced, batch, rest, planned, failed, failures>>

(* Mutant: rows are listed whatever their state. *)
Pending_AnyState == {t \in Task : row[t] # "none"}

(* remote_tasks.pending *)
Pending == {t \in Task : row[t] = "new"}

(* order(:proxy_url, :id) *)
Before(t, u) == ProxyOf[t] < ProxyOf[u] \/ (ProxyOf[t] = ProxyOf[u] /\ t < u)

(* .first(batch_size); a batch that finds no row is over at once. *)
SelectBatch ==
  /\ step = "running" /\ amount > 0 /\ batch = {}
  /\ batch' = {t \in Pending : Cardinality({u \in Pending : Before(u, t)}) < BatchSize}
  /\ rest' = batch'
  /\ tried' = tried \cup batch'
  /\ unheard' = unheard \ batch'
  /\ amount' = IF batch' = {} THEN amount - 1 ELSE amount
  /\ UNCHANGED <<row, sub, told, launches, unmarked, events, announced, step, counts>>

(* The part of the batch that goes to the next proxy. *)
Group == {t \in rest : \A u \in rest : ProxyOf[t] <= ProxyOf[u]}

(* The batch is over. *)
EndBatch ==
  /\ batch' = {}
  /\ rest' = {}
  /\ amount' = amount - 1

(* launch_tasks: the proxy starts some of the tasks, and update_from_batch_ *)
(* trigger writes some of their rows.  A row that is gone stays gone.      *)
Start(started, written) ==
  /\ \A t \in started : launches[t] < MaxLaunch
  /\ launches' = [t \in Task |-> IF t \in started THEN launches[t] + 1 ELSE launches[t]]
  /\ unmarked' = unmarked \cup (started \ written)
  /\ row' = [t \in Task |-> IF t \in written /\ row[t] # "none" THEN "triggered" ELSE row[t]]

(* The sub-tasks that get the event: it is optional. *)
Hearing(tasks) == {t \in tasks : sub[t] = "suspended"}
Deaf(tasks) == {t \in tasks : sub[t] = "planned"}

(* Mutant: the sub-tasks whose launch failed are not told. *)
LaunchGroup_Untold ==
  /\ rest # {}
  /\ \E accepted \in SUBSET Group :
       /\ Start(accepted, accepted)
       /\ unheard' = unheard \cup Deaf(Group \ accepted)
       /\ UNCHANGED <<sub, told>>
  /\ IF Group = rest
       THEN EndBatch /\ planned' = planned + Cardinality(batch)
       ELSE rest' = rest \ Group /\ UNCHANGED <<batch, amount, planned>>
  /\ UNCHANGED <<tried, events, announced, step, failed, lastSeen, failures>>

(* launch_tasks answers for every task of the group: a launched one has    *)
(* its row marked, the failure of another is sent to its action.  The      *)
(* batch is counted after its last group (it has one operation).           *)
LaunchGroup ==
  /\ rest # {}
  /\ \E accepted \in SUBSET Group :
       /\ Start(accepted, accepted)
       /\ told' = told \cup Hearing(Group \ accepted)
       /\ unheard' = unheard \cup Deaf(Group \ accepted)
       /\ UNCHANGED sub
  /\ IF Group = rest
       THEN EndBatch /\ planned' = planned + Cardinality(batch)
       ELSE rest' = rest \ Group /\ UNCHANGED <<batch, amount, planned>>
  /\ UNCHANGED <<tried, events, announced, step, failed, lastSeen, failures>>

Fail == failures < MaxFailures /\ failures' = failures + 1

(* The rows of a group are handled in their order. *)
Beginnings(tasks) == {{}} \cup {{u \in tasks : u <= t} : t \in tasks}

(* The request raises a RestClient::Exception, whether or not the proxy    *)
(* served it: the rescue tells all of the batch and counts it as failed.   *)
LaunchRaises ==
  /\ rest # {}
  /\ Fail
  /\ \E served \in {{}, Group} : Start(served, {})
  /\ told' = told \cup Hearing(batch)
  /\ unheard' = unheard \cup Deaf(batch)
  /\ EndBatch
  /\ failed' = failed + Cardinality(batch)
  /\ UNCHANGED <<sub, tried, events, announced, step, planned, lastSeen>>

(* Any other exception has no response=, the rescue itself raises and the  *)
(* step fails; the plan pauses.  It can come before the proxy started      *)
(* anything, with its answer, or while the rows are written.               *)
LaunchBreaks ==
  /\ rest # {}
  /\ Fail
  /\ \E accepted \in SUBSET Group : \E handled \in Beginnings(Group) :
       /\ Start(accepted, accepted \cap handled)
       /\ told' = told \cup Hearing(handled \ accepted)
       /\ unheard' = unheard \cup (rest \ handled) \cup Deaf(handled \ accepted)
  /\ step' = "error"
  /\ events' = <<>>
  /\ batch' = {}
  /\ rest' = {}
  /\ amount' = 0
  /\ UNCHANGED <<sub, tried, announced, planned, failed, lastSeen>>

(* Mutant: the last event is forgotten. *)
Done_CountsOnly == planned + failed >= TotalCount

(* done? *)
Done == planned + failed >= TotalCount \/ lastSeen

EndRun ==
  /\ step = "running" /\ amount = 0
  /\ step' = IF Done THEN "success" ELSE "suspended"
  /\ UNCHANGED <<subVars, launchVars, events, announced, amount, batch, rest, counts>>

(* run(nil) of a resumed action: check_finish. *)
Resume ==
  /\ step = "error"
  /\ IF Done THEN step' = "success" /\ UNCHANGED amount
             ELSE step' = "running" /\ amount' = 1
  /\ UNCHANGED <<subVars, launchVars, events, announced, batch, rest, counts>>

-----------------------------------------------------------------------------
Next ==
  \/ \E t \in Task :
       PlanSubTask(t) \/ RunSubTask(t) \/ ProcessStopped(t) \/ EndSubTask(t) \/ CleanRemoteTask(t)
  \/ \E n \in 1..MaxAmount : TriggerNextBatch(n)
  \/ TriggerLastBatch
  \/ ReceiveEvent \/ SelectBatch \/ LaunchGroup \/ LaunchRaises \/ LaunchBreaks
  \/ EndRun \/ Resume

Spec == Init /\ [][Next]_vars

(* The sub-tasks get planned and the last batch announced, the batch       *)
(* action goes on and is resumed when it failed.                           *)
FairSpec ==
  /\ Spec
  /\ WF_vars(\E t \in Task : PlanSubTask(t))
  /\ WF_vars(TriggerLastBatch)
  /\ WF_vars(ReceiveEvent) /\ WF_vars(SelectBatch) /\ WF_vars(LaunchGroup \/ LaunchRaises)
  /\ WF_vars(EndRun)

-----------------------------------------------------------------------------
(* Properties.                                                             *)

(* No sub-task is forgotten: one that was in a finished batch either runs  *)
(* on its proxy, or is over, or will be told that it does not.  Only two   *)
(* kinds are not told: those whose failure was sent before they suspended, *)
(* and those of a batch whose rescue raised as well.                       *)
NobodyForgotten ==
  \A t \in tried \ batch :
    \/ row[t] = "triggered"
    \/ t \in told
    \/ sub[t] \in {"error", "ended"}
    \/ t \in unheard

(* Batches and resumed actions launch a sub-task a second time only if its *)
(* row could not be written after the proxy had started it: what a batch   *)
(* triggered, refused or never sent is not launched twice.                 *)
LaunchedOnce == \A t \in Task \ unmarked : launches[t] <= 1

(* The batch action does not outlive the last announcement.                *)
Finishes == (step # "error" /\ Last \in {events[i] : i \in DOMAIN events}) ~> (step \in {"success", "error"})
=============================================================================
