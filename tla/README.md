# A TLA+ model of foreman-tasks

foreman-tasks gives Foreman its tasks. A task is a row of a database table that
follows an execution plan of Dynflow, a workflow engine in the same processes. The
plugin adds exclusive locks on Foreman's records, recurring tasks, tasks that run on
smart proxies, planning of actions when records are saved, a cleaner and a web
interface. This directory models the parts of it that keep state, checks them with
TLC on small instances, and proves most of their safety with TLAPS for instances of
every size.

Paths below are relative to the root of the repository. `AL` abbreviates
`app/lib/actions`, `AM` abbreviates `app/models/foreman_tasks`, `W` abbreviates
`webpack/ForemanTasks/Components`.

Contents: 1 the system, 2 the modules, 3 the runs, 4 fairness, 5 what is proved,
6 where code and comments disagree, 7 what is not modelled, 8 order of the work,
9 how to run it.

## 1. The system

Several processes work on one PostgreSQL database: web servers, where requests are
served and most actions are planned; Dynflow executors, which run, finalize and
sometimes plan; an orchestrator, which decides what runs next; rake tasks; and smart
proxies, which are separate services reached by HTTP. There is no lock in memory
that all of them share. What keeps them apart is the database: transactions (read
committed), one unique index, and rows that are read and written by separate
statements.

| Component | State | Operations | Meets the others through |
|---|---|---|---|
| Execution plans (Dynflow, external) | plan: pending, scheduled, planning, planned, running, paused, stopped; result | plan, delay, execute, cancel, halt, resume | hooks called after each saved state; middlewares around each phase; events to suspended actions |
| Task rows and their synchronisation (`AL/task_synchronization.rb`, `AM/task/dynflow_task.rb`) | row: state, result, parent | hook on every plan state; `consistency_check` at the start of an executor; cancel, abort, resume, unlock, force unlock | reads plans; its state decides which locks the check removes and what users may do |
| Exclusive locks and links (`AM/lock.rb`, `AM/link.rb`, `AL/entry_action.rb`, `AL/helpers/lock.rb`) | one lock row per resource; links | `exclusive_lock!`, `link!` in the planning transaction; `drop_all_locks!` in a hook; the check | planning transactions of Dynflow; rows and parents of tasks |
| Recurring logics (`AM/recurring_logic.rb`, `AL/recurring_action.rb`) | state, iteration, limit, end time; the delayed plans of its tasks | `start_after`, `trigger_repeat` in a hook, cancel, enable, disable; cancel or halt of an occurrence | hooks of its tasks; delay records of Dynflow |
| Proxy actions and remote tasks (`AL/proxy_action.rb`, `AM/remote_task.rb`, `AL/middleware/watch_delegated_proxy_sub_tasks.rb`) | inbox, metadata of failures, the RemoteTask row, the task on the proxy | start, callback, status check, retry, cancel, abort, poll; the hook that destroys the row | HTTP to the proxy; `POST callback` from it; the parent's poll |
| Batch triggering (`AL/trigger_proxy_batch.rb`, `AL/middleware/proxy_batch_triggering.rb`) | counters, pending RemoteTask rows | next batch, last batch, launch, rescue, resume | rows of the sub-tasks; events in both directions |
| Cleaner (`lib/foreman_tasks/cleaner.rb`) | loaded identifiers | delete tasks, plans, remote tasks in batches; sweep orphans | every table above |
| Actions triggered by records (`AM/concerns/action_triggering.rb`) | instance variables of a record | save, destroy, their callbacks, execute, wait | the transaction of the save; planning and execution |
| Thread context (`AL/middleware/keep_current_*.rb`) | user, taxonomies, time zone of a thread; their copy in the input | store at planning, restore in every phase | wraps all phases of all actions |
| Requests of the web interface (`W/TasksTable/TasksBulkActions.js`, `W/TaskActions`, `app/controllers/foreman_tasks/api/tasks_controller.rb`) | requests not yet answered; toasts; none on the server | cancel, resume, force unlock of one task, of ticked ones by id, of all by search | the rows and plans of the tasks |
| Tables and dashboard (`W/TasksTable`, `W/TasksDashboard`) | query of the URL, query and time in the store, response, selection, modal | clicks at cards, donuts, labels, rows and menus; Back; refresh | the list and the summary of the server, whose answers come in any order |
| Task details (`W/TaskDetails`) | one interval and one response in the store; dialogs and their boxes | polling, buttons, switching to another task | the details of the server |

What makes it hard:

* **Saved, then told.** Dynflow saves a plan and then runs hooks. A hook may raise
  (the exception is logged) or die with its process, so rows, locks and recurrence
  lag behind, and `consistency_check` repairs them beside everything else.
* **Read, then written.** Nearly every operation loads something, decides, and writes
  later: validation and insertion of a lock, the state of a logic and its counter,
  the rows of a batch, the identifiers of a cleaner.
* **Proxies answer when they can.** Requests are refused or served without an
  answer, callbacks are lost, proxies restart and forget their tasks.
* **No foreign keys.** Deletions run as separate statements and may stop in between.
* **Answers in any order.** A page sends requests and goes on: the URL, the rows, the
  time or the task it shows may be others when the answer comes, and closures keep what
  they saw when they were created.
* **State outside the database.** Instance variables of records and variables of
  pooled threads survive exceptions unless an `ensure` resets them.

What makes each component correct:

* locks: no two unrelated tasks hold a resource; a lock lasts while its task runs and
  goes at last when it is over; planners never wait for ever;
* rows: never stopped before the plan, never more than the plan achieved, final once
  stopped, and up to date at last;
* logics: one chain of occurrences, within the limit, alive while it should be;
* proxy actions: at most one launch, an honest result, an end that is noticed;
* batches: every sub-task is launched or told, and the batch action ends;
* cleaner: running tasks lose nothing, deleted tasks leave nothing, a run ends;
* triggering: what was planned is executed after its commit, once, or undone with it;
* context: every phase works for whoever triggered the task, and threads come back
  clean;
* web interface: what is shown is what was asked for last, a request reaches what the
  user chose and nothing else, its end is told of every task, and details that are
  shown catch up.

## 2. The modules

Every module holds its own parameters, invariants and mutated definitions (named
`Definition_Variant` and marked `Mutant:`). A mutant stands in for its definition to
show that the property named with it can fail; no specification uses one.
`MC*.tla` modules only name the model values of their instance (MCThreadState also puts two
modules beside each other, of which one moves); `*Proofs.tla` modules
hold theorems about the module they are named after, ThreadStateProofs about two (section 5).

### AbstractLock, TaskLocks, TaskLocksProofs

`AbstractLock` says what the lock service promises: a task takes all its locks in
one step, each of them free; a lock is given back after its task is over.

`TaskLocks` is the implementation. `BeginPlanning` opens the transaction of a
planning phase. `UseFamilyLock`, `RequestLock`, `InsertLock`, `ValidationConflict`,
`InsertConflict` are the steps of `exclusive_lock!`: a lock of the task or an
ancestor is used as it is; otherwise the row is validated against the rows that the
transaction can see and later inserted. `Blockers` is the unique index: an insert
waits for uncommitted rows of others, `Deadlocked` and `DeadlockVictim` are
PostgreSQL's way out of a cycle. `Commit` and `Rollback` end the transaction;
`CrashPlanner` and `Invalidate` are the death of the planner and what Dynflow makes
of it. `Finish`, `Halt` stop plans; `SyncHook`, `DropLock`, `DropDone`, `HookLost`
are the two hooks of a stopped plan, with one step per destroyed row. `CheckBegin`,
`CheckResync`, `CheckSelect`, `CheckDestroy`, `CheckEnd` are `consistency_check`,
statement by statement.

Plans are new, planning, running (planned, running and paused: a lock lasts through
all three) or stopped; a row is active or stopped. A parent finishes after its
sub-tasks, a halted one does not wait for them. Plans are not halted during planning
here: what becomes of such a plan and its row is the subject of TaskSync, and no
property of the locks covers it (section 7). Each task requests a lock on each resource at most once at a time; links
follow the code and have no property of their own (section 6).

### AbstractTask

The row of a task as the others see it: it is created once, with its plan or later
(`Begin`, `Open`); closed only after the plan is over (`End`, `Close`), never opened
again, and removed only when it is closed (`Remove`), for good. Tasks that are *astray*
are the exception: their plan was stopped while another process planned it
(`Interrupt`), which goes on (`Revive`) and opens the row again (`Reopen`). TaskSync,
TaskLocks and Cleaner each implement it (`ImplementsTask`), the last two without tasks
that are astray.

### TaskSync, TaskSyncProofs

The row as a copy of the plan, in all of Dynflow's states. `Save` saves a state and
makes a hook due, with the plan as the saving process holds it; `SyncHook` runs
`on_execution_plan_save` and so `update_from_dynflow` with `MapResult`, which makes
cancelled out of an error under conditions on the plan and on the *previous* state of
the row; `HookLost` loses it; `CheckLoad` and `CheckUpdate` are the check, with the
rows it loaded in between. `WriteRow` notes when a row's state changed, which is what
the check compares with the end of the plan (`outdated`). `Cancel`, `Resume`, `Halt` are
the requests of the web interface with the conditions the controllers ask for.

The process that plans a task (`planner`) holds the plan in memory from `Create` or
`TakeUp` until its last hook, and nothing keeps `HaltPlan` or `CancelBeforeRun` from
stopping the plan meanwhile. It then saves its own copy over the stopped plan, which
is planned and may run; its hooks take the row out of the state stopped, and if
the last of them comes after the hook of the stop, the row stays open although the plan
is stopped, since the check compares times and finds the row up to date. The history
variable `astray` records these tasks; every property of the rows is stated, checked
and proved for all others, and `ImplementsTask` bounds what happens to them. That the
process of a request loads a scheduled plan and stops it in one step is the one
simplification: a later stop only adds to the ways to go astray.

### RecurringLogic, RecurringLogicProofs

One logic and its occurrences. `LoadLogic`, `GiveUp`, `CountIteration`,
`FinishLogic`, `CreateNext`, `ScheduleNext` are the statements of `trigger_repeat`,
each on the copy that the process loaded; `LoseRepeat` ends it anywhere.
`CancelSave`, `CancelLoad`, `CancelEach`, `CancelAborts`, `CancelDone` are a request that cancels
the logic; `SwitchTask`, `SwitchSave` one that enables or disables it, again and again.
`CancelTask` and `HaltTask` are requests about one occurrence. The halt (force unlock) of
one that waits calls no hook, since `trigger_repeat` is registered for *planned* and
*failure* only: the chain ends with it while the logic stays active, which `broken`
records. `ChainAlive` and `Concludes` name this case next to that of a lost hook, and
section 6 reports it. `known` keeps the occurrences that a cancellation or the end of
the logic found, to count those that come later.
External to the repository, and assumed of Dynflow: the delay record of a plan is removed when the plan is planned, hooks of a
state run before execution begins, and cancelling a plan that is only pending does
nothing.

### ProxyAction, ProxyBatch and their proofs

`ProxyAction` is one action and one task on a proxy. The action takes one event at a
time (`StartOrResume`, `Cancel`, `Abort`, `Callback`, `EndWithError`,
`CheckTaskStatus`); a connection error counts and schedules a ping. The task is
launched by the action, by the batch trigger (`LoadPending`, `Dispatch`) or by a
launch that the model leaves to others (concurrency control). A launch takes two steps:
the event that begins it (`launching`) and `TriggerProxyTask`, the request with the write
of the row that follows; a halt may come between. `Watch` is the poll of the parent.
`Stop` saves the end of the plan; the hook follows as `CleanRemoteTask`, or is lost
(`LoseHook`), and the row stays. `SaveRow` tells `save!` of a new record from an update,
which writes nothing where the row is gone. A plan halted while its launch was about to
insert a row gets that row after its hook (`cut`). `ProxyEnds` and `ProxyRestarts` are the
proxy, where every callback may be lost.

`ProxyBatch` is the parent's side: events announce batches, `SelectBatch` lists
pending rows, `LaunchGroup` sends them to one proxy after the other, `LaunchRaises`
and `LaunchBreaks` are the two ways through the `rescue`, `EndRun` asks `Done`, and
`Resume` continues after an error. Sub-tasks are reduced to what touches their rows:
planned with a row (`PlanSubTask`), suspended by their run (`RunSubTask`), told
(`ProcessStopped`), ended, and cleaned by their hook, if it comes (`CleanRemoteTask`). An
event for one that has not suspended yet is dropped, as it is optional. A request
that raises may have been served: `LaunchRaises` is a `RestClient` exception, after
which the whole batch is told; `LaunchBreaks` any other, in the request, in its answer or
while the rows are written one by one (`Beginnings`), after which nobody else is told.
The history variables `unheard` (not told of the failure of its last batch) and
`unmarked` (started by the proxy, row not written) say for which sub-tasks the two
properties do not speak. The resumption of a single sub-task, which launches nothing when
there is a row, is part of ProxyAction.

### Cleaner, CleanerProofs

The tables as sets, one action per statement that deletes: `LoadTasks`,
`DeleteTasks`, `DeletePlans`, `DeleteRemotes`, `DeleteOrphanedLocks`,
`DeleteOrphanedLinks`, `LoadOrphanedPlans`, `DeleteOrphanedPlans`, and `Crash` between any
two. Tasks are created, locked, delegated, stopped and synchronised at the same time.
Rules delete stopped tasks, as they do unless configured otherwise; one cleaner runs
at a time; the backup and the no-op mode are left out.

### ActionTriggering

One object of a record in one thread, with a stack of nested saves. `Enter` is
`dynflow_task_wrap` up to its `yield`; `PlanHook`, `PlanHookFails`, `WriteOnly` are the
callback; `Commit`, `NotSaved`, `CallbackRaises` are Rails; `ReturnOnly`, `Execute`,
`ExecuteAndWait`, `WaitOver`, `WaitRaises` are the rest of the wrapping.
`@execution_plan`, `@_dynflow_hook_action`, `@_dynflow_task_wrapped`,
`@dynflow_sync_action` and `@_disable_dynflow_hooks` are variables. `update` is a save
whose extra wrapping changes nothing, and callbacks do not rescue what a nested save
raises. Its proofs are in ThreadStateProofs, with those of ThreadContext: both are
about state of a thread that exceptions leave behind.

### ThreadContext, ThreadStateProofs

Threads with a stack of what they are in, each frame with the context it replaced.
`Trigger`, `PlanDelayed`, `Step` and `Hook` enter a frame as `with_current_*` or
`restore_current_*` do, `EndOfPlanning` stores and restores, `Fails` is the `ensure`
without the store, `EndOfStep` the rest. `DeleteUser` removes a user: what would have to
restore that user does not run. Workers stand for all threads that serve plans
without a request. Taxonomies are never deleted.

### TaskActions, TasksPage, TaskDetails, WebInterface, WebInterfaceProofs

`TaskActions` holds the tasks on the server and the requests about them. A page posts
one (`Post`), the server decides which tasks it reaches (`Reached`: `bulk_scope` with
the permission of the user), which of them it can act on (`Fit`), which fail, and
whether the answer is lost (`Serve`); the answer becomes toasts. A bulk request is
served in one step although the controller goes from task to task: no other request
reads what is between.

`TasksPage` is a table with its dashboard. `Navigate` and what leads to it (`ClickCard`,
`ClickDonut`, `ClickResult`, `ClickOther`, `DeleteLabel`, `ClearLabels`, `ChangeTime`,
`Back`, `Refresh`) write the URL, the store, or one and not the other, as the handlers
do; `fetches` and `summaries` are requests in flight, and `ListArrives` and
`SummaryArrives` take any of them; a summary that fails shows zeros. `reloadPage` leaves
the search of then in the options of `useAPI` (`kept`), and every later request carries
it after that of the URL (`Asked`). `selectOne`, `selectAll`, `CellAction`,
`SelectedAction`, `CloseModal`, `ConfirmTask`, `ConfirmSelected` are the table and its
modals; `RowAnswered`, `IdsAnswered`, `SearchAnswered` what a page makes of answers.

`TaskDetails` is the page of one task: `taskReloadStart` and `Tick` are the interval,
`DetailsArrive` ends it when the answer says so, and all tasks share one interval key
and one place for the answer, so that `SwitchTo` another task leaves requests about the
one before in flight. `polls` has a slot for each request in flight; start, switch and
tick always send one, and wait in the model only while all slots are taken. An answer
about another task that ends the polling, or comes when it is over, overwrites the
details for good: `halted` is then *late*, and the two liveness properties except it.
`OpenDialog`,
`TickBox`, `CloseDialog`, `ConfirmDialog` are the confirmations.

`WebInterface` composes them: one tab that opens pages (`Open`, `Leave`), acts on the one
it shows, and is answered by a server whose tasks go on (`PlanMoves`). Leaving a page
by a link loads the next one anew: requests not yet answered are dropped with their
answers. A search is reduced to the state it asks for, which decides what it matches;
paging, sorting and free-text search are left out, and so are list requests that fail. The
list is served when its answer arrives: between the two the page sees nothing.
`useBulkSelect`, `useAPI` and `IntervalMiddleware` belong to Foreman and are external.

### Composition

The row is the joint of the system, and three modules look at it from their side:
`TaskSync` with all states and results, `TaskLocks` with two states and the locks,
`Cleaner` with its deletion. They do not INSTANCE one another; what they agree on is
`AbstractTask`, which all three are proved to implement. The check of `TaskLocks` removes
locks of rows that are stopped, and the cleaner deletes such rows: both are right because
a closed row belongs to a plan that is over and stays closed.
`TaskLocks` is composed with `AbstractLock` by refinement too. The pages are composed by
`WebInterface` over the tasks and requests of `TaskActions`.

## 3. The runs

Numbers of distinct states are of the complete search.

| Run | Module, instance | Shows |
|---|---|---|
| `locks_family` | TaskLocks: parent, child, stranger, one resource | the inductive invariant; `LockedThroughRun`, `ExclusiveUse`; refinement of AbstractLock |
| `locks_live` | TaskLocks: two strangers, two related resources (130k) | planners are released; leaked locks go; refinement of AbstractTask |
| `sync_rows` | TaskSync: parent and child, the parent may be stopped while it is planned (719k) | `RowNotAhead`, `StoppedResultHonest`, `RowsCatchUp`; refinement of AbstractTask |
| `sync_result` (fails) | TaskSync: one task | the check turns success into error |
| `recurring_chain` | RecurringLogic: limit 3, 4 occurrences, every request | `OneChain`, `IterationsCounted`, `ChainAlive`, `OneLateOccurrence`, `Concludes` |
| `proxy_events` | ProxyAction: three launch modes, all failures, one resume | `LaunchedOnce`, `SuccessIsEarned`, `NoRowAfterStop`, `EndIsNoticed` |
| `batch_rounds` | ProxyBatch: 3 sub-tasks, batches of 2, 2 proxies, one request that raises (576k) | `NobodyForgotten`, `LaunchedOnce`, `Finishes` |
| `cleaner_sweep` | Cleaner: 2 tasks, 2 rules, batch 1, one crash | `LiveTasksKept`, `CleanWithoutCrash`, `RunEnds`, `OrphansGo`; refinement of AbstractTask |
| `thread_state` | ActionTriggering: 5 calls, 3 deep, 4 plans; ThreadContext: a worker, a web thread, 2 plans (1.6M together) | `PlainCallsExecute`, `SyncAnswered`, `StartsNewest`; `WorksAsOwner`, `WorkersClean` |
| `web_pages` | WebInterface: a task and a sub-task that are over, a sub-task that goes on; the table of sub-tasks, the details of two tasks with two requests in flight (263k) | `UntickedWhenClosed`, `BulkStaysInTable`, `Reported`; `DetailsOfShown`, `DetailsCatchUp` |
| `web_list` | WebInterface: one table with its dashboard, reloads and the history (2.2M) | `LatestShown`, `FocusHonest` |
| `web_cancel` (fails) | WebInterface: all tasks running | cancelling all rows of a table of sub-tasks reaches tasks that are not in it |

Type invariants are proved for every module and are not in the runs, nor is
`StoppedIsFinal` of TaskSync, which is proved and is also part of what `ImplementsTask` says.

Why the bounds are enough:

* Locks conflict in pairs. Three tasks give a holder, a relative that reuses the lock
  and a stranger, and every check and crash interleaves with them. Deadlock needs two
  resources in either order, which `locks_live` has with two tasks. The safety
  properties are proved for all sizes, so these instances only guard the proofs.
* A row has one plan and one parent; `sync_rows` has the parent whose row is missing
  when the child is synchronised, and each check loads any set of rows. `MayStray` bounds
  which tasks are stopped while they are planned: the parent, whose child meets the row
  that opens again. Requests that come to a plan that is over and in nobody's hand have no
  effect and are not kept. The proofs have no such bound.
* Occurrences matter in threes: the one that ends, the one that waits, the one that a
  late call would add. The limit of 3 with room for a fourth lets the limit bite.
* The retry limit of 2 has a first failure, a last one and a resume after it. Two
  launches are enough to see a second one.
* Three sub-tasks in batches of 2 give a full batch, a partial one, and a batch split
  over two proxies, the second of which may fail. `MaxFailures` lets one request raise,
  with a second launch of what it left unwritten (`MaxLaunch`) and a resume after it.
* A batch size of 1 makes every deletion a loop; one crash in any place leaves each
  kind of orphan; two rules differ in age and match.
* A fault in ActionTriggering needs a call that leaves a plan behind, one that nests
  two saves, and one that follows: five calls. It shares nothing with ThreadContext, so
  `thread_state` explores each of the two with the other at rest (`ThreadStateSpec`).
* Nesting in ThreadContext to depth 3 has a task triggered in a step that triggers
  another whose hook runs in between.
* Pages forget everything when they are left, so each is explored where its hazards
  are. `web_pages` has one request on the table of sub-tasks and one on the details of the
  sub-task that goes on (`MCCalls`), and two slots of polling: a request about the task
  before and one about the task shown are in flight together, in every order of answers.
  `web_list` has nothing moving and two loads before the last
  (`MCLoads`), enough to reload with a filter, change it, and have the three answers
  arrive in any order. Two times and two hours distinguish a stale handler from a fresh
  one. The safety properties of the pages are proved for any bounds.

`CHECK_DEADLOCK FALSE` stands where the system may stop: all tasks over, the bound on
calls or requests reached.

## 4. Fairness

Weak fairness, and only of steps that a running thread takes by itself:

* TaskLocks: hooks of a stopped plan, insertion once unblocked, the end of a planning
  transaction, the start of a planned task, the steps of a check. Nothing is assumed
  of users, crashes, or of how often an executor starts: `LeakedLocksRemoved` says
  itself "if checks keep beginning", because `consistency_check` runs only when an
  executor starts.
* TaskSync: a due hook runs or is lost; the check updates what it loaded. `RowsCatchUp`
  is checked under the further assumption that checks begin again and again
  (`RestartSpec`).
* RecurringLogic: hooks, the delayed executor, the end of planning, the second half
  of a switch.
* ProxyAction: the handling of each event in the inbox, the clock, and the poll of the
  parent, which Dynflow repeats every interval.
* ProxyBatch (nothing is assumed of the sub-tasks' runs and hooks): the planning of sub-tasks, the last announcement and the batch action.
* Cleaner: the rake task is started by cron again and again and takes its next step.

* WebInterface: the server answers requests and polls, answers reach the page, the
  interval ticks. Tasks need not move and the user need not act; the two liveness
  properties suppose that the user stops changing the page (`Settles`), for one who
  reloads for ever sees nothing.

ActionTriggering and ThreadContext state safety only.

## 5. What is proved

Eight modules hold proofs, of 41 theorems listed in `PROJECT.json`. Every state
invariant, safety action property and refinement of the runs is proved, but for
`CheckKeepsResult` and `CancelStaysInTable`, which fail. Inductive invariants were checked by TLC on the instances of section 3
before they were proved. No theorem assumes more than the ASSUMEs of the module it is
about.

`TaskLocksProofs.tla`, for every set of tasks and resources, every parent function and
every relation between resources. Assumed are only the four ASSUMEs of `TaskLocks`:
`NoTask` is no task, `NoResource` is no resource, and `Parent` and `Related` are
functions of the right type. That parents form a tree, or are finite in number, is not
needed: `SelfAndParents` is the least set closed under `Parent`, and the proofs use
only that it contains the task and, for a sub-task, everything its parent's contains
(`FamilyFacts`).

* `TypeCorrect`: `Spec => []TypeOK`.
* `LocksInvariant`: `Spec => []LocksInv`. `LockedThroughRun` is not inductive: a
  commit could overwrite a row, a check could remove a lock it selected long ago, and a
  planner could rely on a row that is about to go. `LocksInv` adds what excludes
  this. `OneRow`: at most one row per resource, committed or not, and uncommitted ones
  only in open transactions. `OwnerCommitted`: a committed row belongs to a committed
  planning. `StopKnown`: whoever is about to remove a lock (hook, resynced row,
  selected victim) does so for a stopped plan. `TxnMatchesPlan`: open transactions have
  a living planner, and what was rolled back relies on nothing. `UsesCovered`: what a
  task relies on is its own uncommitted row or a committed row of its family. One
  lemma per group of actions shows that it is kept: `CheckerKeepsLocksInv`,
  `RunKeepsLocksInv`, `LockingKeepsLocksInv`, `CommitKeepsLocksInv`,
  `EndOfPlanningKeepsLocksInv`.
* `LockedThroughRunHolds` and `MutualExclusion` follow from it: two running tasks that
  both called `exclusive_lock!` for a resource each have it covered by one row,
  whose owner is an ancestor of both.
* `Refinement`: `Spec => ImplementsAbstractLock`. By `StepsImplement` a commit is
  `Acquire`, the end or halt of a plan is `Finish`, `DropLock` and `CheckDestroy`
  are `Release`, and everything else stutters; `LocksInv` gives that acquired
  resources were free and released ones belong to tasks that are over.

* `RowRefinement`: `Spec => ImplementsTask`. `RowsFollowPlans` (a task in planning has its
  open row, one without a row is new) and `StopKnown` make the resync of a check `Close`.

`TaskSyncProofs.tla`, for every set of tasks and every `Parent` (that `ParentAssumption`
holds is not even needed: the parent link only decides whether the hook raises):

* `TypeCorrect`, `RowNeverAhead` and `ResultsHonest`: `Spec` implies `[]TypeOK`,
  `[]RowNotAhead` and `[]StoppedResultHonest`, for every set `MayStray`.
* `StoppedForGood`: `Spec => StoppedIsFinal`, for tasks that are not astray.

  The argument is one of ownership. Until a task goes astray, whoever saves its plan
  holds it as it is saved: `HeldIsSaved` says so of the planner and of every hook that is
  due, `SaversKnown` which states each of them can save. Halting a plan in planning
  breaks this, and only this, so every conjunct that rests on it excepts `astray`. A
  row is out of date only for a plan that ended (`OutdatedInv`). `LoadedStillTrue`: the
  check writes only the columns that differ from the row it *loaded*, so a row loaded
  with the result error must still have it, unless the hook stopped the row in between.
  A plan that stopped is not saved again, so its row is written from then on only by a
  hook that copies the final state or by a check that loaded it after the end, and
  both writes are harmless in any order.

* `RowRefinement`: `Spec => ImplementsTask`. All steps are reduced to a few: a plan
  is saved, or a row is written for a plan that was saved, as stopped only when the plan
  is; a task goes astray (`Interrupt`), and may then do what `Revive` and `Reopen` allow.
  `NewHasNoRow` (no row is created before its plan) does the rest.

`RecurringLogicProofs.tla`, for every limit, number of occurrences and set of requests.
`TypesKept`; `OneWaits`, `LimitHolds`, `ChainGoesOn`, `LateAtMostOnce` for the properties
`OneChain`, `IterationsCounted`, `ChainAlive`, `OneLateOccurrence`. The argument is a token:
it is either with the one occurrence that waits or with the one call of the hook that
will create the next (`TokenInv`), and a call is made once per plan because its delay
record is removed before the plan can fail a second time (`PlanInv`). The counter may be
ahead of the created occurrences by the one that is about to be created (`CountInv`), so
a hook never saves a number that another made old (`CallInv`). The token is lost only
when a hook is lost, the occurrence that waits is halted, the logic ends, or a request
cancels it (`LifeInv`). `LateInv`: once an occurrence has come after the cancellation, no
call is at work that loaded the logic before it, as there is one token; and the hook of the
late occurrence finds the logic over.

`ProxyActionProofs.tla`, for every set of launch modes, failures and requests and every
retry limit: `TypesKept`, `OneLaunch`, `EarnedSuccess`, `RowStaysGone`. Whoever may launch
holds the row or has loaded it while it was new; `LaunchInv` says that after a launch
whose answer was not lost nobody does any more, `LoadedInv` that a row the batch trigger
or the action itself has loaded is as it was, or gone with its plan. `StopInv`: the hook
follows a stop, and an insertion that is under way then is noted (`cut`). `EndedInv` ties callbacks to the
end of a task on the proxy, `RetryInv` bounds the count of failures.

`ProxyBatchProofs.tla`, for any number of sub-tasks, any batch size and assignment to
proxies: `TypesKept`, with batches no larger than `batch_size` (`FirstOfRows`: the rows chosen
have different numbers of rows before them, all smaller than the size), `AllGetToKnow`,
`BatchesAreDisjoint`. `RowInv` and `ToldInv` order the life of a sub-task: a row from its
planning to its end, no event before it suspends. `HandledInv` speaks of the part of the
batch already sent; `LaunchInv` says that what can still be chosen has not been launched,
unless its row could not be written.

`CleanerProofs.tla`, for any finite set of tasks (the tables are finite; the batch size
needs it), any rules, batch size and number of killed runs: `TypesKept`, `NothingLeft`,
`LiveTasksSpared`. `ChunkInv`: what a cleaner holds when it deletes rows was stopped when it
was loaded, and a stopped task stays stopped. `LeftoverInv`: which tables may still hold
something of a deleted task in which phase of a run. `RowRefinement`: by `ChunkInv` deleted
rows were closed, and by `BegunInv` what the sweep deletes had begun, so that no plan or
row starts anew; a deleted plan counts as over.

`ThreadStateProofs.tla`, of ThreadContext, for any number of threads, plans, users, taxonomies and zones
and any depth of nesting: `TypesKept`, `OwnersContext`, `NothingLeftBehind`. The stack is
the argument: the context of a frame that is suspended is the one its successor saved
(`Ctx`), so `FramesInv` states for every frame of every thread what the context has to be,
`LeavesFrames` and `EntersFrames` carry it over a pop and a push. `PlannedOnce` (a plan is
planned in one frame), `InputInv` (the stored context is the owner's once the planning is
over) and `BottomInv` (a worker starts from the blank context) complete it.

Of ActionTriggering, for any number of calls and plans and any depth of nesting
(`BoundsAssumption`): `TriggeringTypesKept`, `PlainCalls`, `PlainCallsAnswer`, `NewestStarts` for
the types, `PlainCallsExecute`, `SyncAnswered`, `StartsNewest`. None of them is inductive.
`TriggeringInv` adds what the record may hold on to between calls: plans are used in turn,
and the one in `@execution_plan` is the newest and has not started, unless it is waited for
(`PlansInv`); a call that waits is on top (`WaitInv`); and as long as calls were plain,
neither nested nor left by an exception, every plan but the one held is finished, and that
one belongs to the call on the stack (`PlainInv`). The flags that an exception leaves behind
(section 6) are allowed by it: they break nothing that these theorems say.

`WebInterfaceProofs.tla`, for any tasks, links, times and bounds: `Unticked`,
`TypesKept` (which needs `LinksAssumption`: links lead to queries that the pages know),
`ShowsLatest` (the last request has the search that a reload kept, or else that of the URL,
by `ListInv`, and the hours of the menu, by `SummaryInv`), `StaysWithinTable`, `FocusIsHonest`, `EveryTaskReported` (an
answer that is not refused accounts for every task it was asked about, `AnswersInv`).

Only model-checked: all liveness (the prover has neither fairness nor ENABLED):
`PlannersUnblocked`, `LeakedLocksRemoved`, `RowsCatchUp`, `Concludes`, `EndIsNoticed`, `Finishes`,
`RunEnds`, `OrphansGo`, `DetailsOfShown`, `DetailsCatchUp`. Only argued: that the bounds and
abstractions are faithful.

## 6. Where code and comments disagree

Shown by a run:

* `sync_result`: `consistency_check` hands `update_from_dynflow` a Hash where it
  expects a plan; the call raises, and the rescue stores *error* for a task that
  succeeded. The comment promises rows "back in sync".
* `web_cancel`: `CancelSelectedModal` is not given the parent that the other two modals
  get, so cancelling all rows of a table of sub-tasks matches tasks of the whole
  system. The modal names the number of rows of the table.

Read in the code while modelling, without a run of their own:

* A hook that loaded the logic before it was cancelled (`recurring_logic.rb:74`) schedules
  one more occurrence, which nobody cancels, though the mutation's description says
  "Cancels recurring logic and all its active tasks". `CancelStopsChain` of RecurringLogic
  says so; checked as an INVARIANT it fails in a few steps.
* When a later callback raises after `plan_action` (`action_triggering.rb:93`),
  `@execution_plan` stays on the record, and the next save executes a plan whose rows
  were rolled back (`:152`), against the comment at `:88`. `ExecutedAfterCommit` of
  ActionTriggering fails as an INVARIANT. (The tests switch the concern off.)
* Force-unlocking an occurrence that waits ends its chain without a hook
  (`tasks_controller.rb:73`, `recurring_action.rb:9`), and the logic stays active for ever.
* Neither `force_unlock` nor `halt` asks whether the plan is being planned. The
  planner saves its copy over the stopped plan, which then may run, and its hook opens
  the stopped row again; if that hook comes last, the row stays open for good
  (`task_synchronization.rb:57`).
* `link!` looks at no lock, though comments in `lock.rb` and `entry_action.rb` say
  that an exclusive lock excludes even linking.
* A poll of the proxy that fails returns `{}`, which reads as "no task is known": all
  running actions of the proxy end as missing, though the comment says "we'll try
  again next time".
* The counters of a batch count attempts: a task whose launch failed is counted again,
  and `done?` may hold before every task was dispatched. If the second proxy of a
  batch fails, tasks that the first one accepted are told that they stopped.
  `e.response = nil` raises for exceptions without such a method, and then nobody is
  told: if the proxy had started the tasks, a resume launches them again.
* A sub-task whose batch failed before it suspended does not get the event, which is
  optional: it waits for ever, with its row *new*, unless a later batch takes it.
* The hook that destroys the row of a proxy action may be lost, or come before the row is
  inserted when the action is halted during its launch: the row stays.
* The count of failed requests of a proxy action is never reset, so a resumed action
  has no retries left.
* Force-unlocking a parent removes the lock that a running sub-task relies on.
* Disabling or enabling a logic races with `trigger_repeat`: the next occurrence is
  frozen by what the hook loaded. Disabling a cancelled or finished logic takes it out
  of its final state.
* `@dynflow_sync_action` survives an exception, so that a later asynchronous hook is
  waited for. A plan whose planning raised stored no user; its hooks run as whoever
  the thread has. The hooks of a deleted user's tasks raise.
* The cleaner sweeps a plan whose row is about to be created, and a cleaner killed
  before `delete_remote_tasks` leaves those rows for ever.
* A resumed proxy action whose row is still *new* is suspended with nobody to launch
  it. Events for a batch action that is paused are lost.
* `register_scheduled_task` does nothing when the logic is active but its chain broken,
  and rescues a different exception than concurrent boots cause.
* `reloadPage` puts its search into the API options (`TasksIndexPage.js:112`), where it
  stays and wins over the search of every later URL until the page is loaded anew: the table
  shows the rows of a filter that was taken away. The comment at `apiUrl` says that it is
  recomputed when the URL changes. That options are sent after the query of the URL, and
  that the server takes the last of two searches, is how axios and Rack work. `RowsOfUrl`
  of WebInterface fails as an INVARIANT of `web_list`.
* Task table: with all rows selected and no filter the requests
  to cancel or force unlock are a bad request that nothing handles, and the one to
  resume reaches only paused tasks that ended in error. `bulk_cancel` reports tasks as
  cancelled whatever `cancel` answers, and `bulk_stop` counts with separate queries.
* Dashboard: `reloadPage` passes `uriQueryObject.time` where the URL has `time_horizon`, so
  that a refresh asks for the summary of 24 hours. `queryFromUriQuery` knows no mode for
  `time_mode=recent`. Back leaves the query in the store as it was.
* Task details: an answer about the task shown before can end the polling of the one
  shown now (`TaskDetailsActions.js:29`), and one that comes after the end leaves the details
  of the other task for good; hence *late* in `Given`. An overtaken answer about the same
  task leaves its old details in the same way.
  After a switch the buttons show what the task before allows but act on the new one.

## 7. What is not modelled

`PROJECT.json` lists each component with a status and a reason. In short: what is a
single query or call (triggering, chaining, search, what the summaries count), what only
formats (humanizers, views, mails, notifications, GraphQL, most of the React components),
what runs once (engine, seeds, migrations, rake tasks), Dynflow's own scheduling and
polling of sub-plans, task groups, continuous output. `register_scheduled_task` runs at
boot and relies on a serializable transaction; `ProxySelector` is a query of the rows and a
minimum. Of Cleaner the composition of rules, of RecurringLogic the removal of logics and
the cron calendar, of the table paging, sorting, free-text search and failed list requests
are left out. TaskLocks and Cleaner have no plan that is stopped while it is planned: what
a lock or a deletion means for a task whose row opens again is not covered.

Counted by lines, most of the JavaScript of the repository is not program: of some
16,500 lines outside tests 10,800 are translated catalogues (`app/assets/javascripts/foreman-tasks/locale`).
Of the program, much renders. The core of the system is Ruby, and it is there that most
modules have their sources.

Dynflow, PostgreSQL, Rails and smart proxies are not in the repository. Their actions
are marked external in the map and allow what the code here has to cope with: hooks
lost or raising, processes dying, deadlocks, lost answers.

## 8. Order of the work

In order of importance: AbstractLock, TaskLocks, TaskSync, with proofs; RecurringLogic,
ProxyAction, ProxyBatch, Cleaner, ActionTriggering, ThreadContext; the web interface;
proofs of all of them; AbstractTask. What would come next:

1. ScheduledRegistration: concurrent boots, a serializable transaction, broken chains;
   composed with the states of RecurringLogic.
2. Requests served task by task, with the plans of TaskSync in place of the four states of
   TaskActions.

## 9. Running it

    tlc -workers 2 -config TaskLocks_family.cfg MCTaskLocks
    tlapm TaskLocksProofs.tla

and likewise for TaskSyncProofs, RecurringLogicProofs, ProxyActionProofs,
ProxyBatchProofs, CleanerProofs, ThreadStateProofs and WebInterfaceProofs.

Each run of section 3 is listed with its module and configuration in `PROJECT.json`;
the two marked as failing stop with a counterexample. Each proof takes a few
minutes at most, each run less than five.
