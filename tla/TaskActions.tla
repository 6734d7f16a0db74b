------------------------------ MODULE TaskActions ------------------------------
(***************************************************************************)
(* Requests of the web interface that act on tasks (TaskActions/index.js)  *)
(* and the controllers that answer them.  A page posts a request and goes  *)
(* on; the server acts and answers in its own time; the answer comes to    *)
(* the page, which tells the user with toasts and may load its rows again. *)
(* The pages that send the requests extend this module.                    *)
(***************************************************************************)
EXTENDS Naturals, FiniteSets

CONSTANTS
  Task,      \* the tasks
  Child,     \* the sub-tasks of the task whose sub-tasks are listed
  Editable,  \* the tasks with can_edit for the user of the browser
  None,      \* undefined or null
  Refused,   \* the answer of a request that fails: an error status, or none
  Starts,    \* the states the tasks may have at first
  MaxCalls   \* bounds on the requests the pages send before they are loaded again

ASSUME TaskAssumption == Child \subseteq Task /\ Editable \subseteq Task
ASSUME StartsAssumption == Starts \subseteq [Task -> {"scheduled", "running", "paused", "stopped"}]
ASSUME NoneAssumption == None \notin Task \cup {Refused, "recent", "last", "older"}

VARIABLES
  page,    \* the route: "index", "sub_tasks" or the task whose details are shown
  tasks,   \* tasks[t]: the state of the task on the server
  calls,   \* the requests sent and not yet answered to the page
  ncalls,  \* how many the page has sent since it was loaded
  toasts   \* what it has told the user since

actionVars == <<calls, ncalls, toasts>>

States == {"scheduled", "running", "paused", "stopped"}
Ops == {"cancel", "resume", "force", "unlock", "cancel_step"}
Answer == [done : SUBSET Task, failed : SUBSET Task, skipped : SUBSET Task]

ASSUME AnswerAssumption == None \notin Answer

-----------------------------------------------------------------------------
(* The server.  cancellable? and resumable? ask the execution plan, paused? *)
(* and pending? the row; the two are one here.                             *)
Able(op, s) ==
  CASE op \in {"cancel", "cancel_step"} -> s = "running"
    [] op \in {"resume", "unlock"} -> s = "paused"
    [] op = "force" -> s # "stopped"

(* A cancelled plan stops, if it does, by a TaskMoves.                     *)
Becomes(op, s) ==
  CASE op = "resume" -> "running"
    [] op \in {"force", "unlock"} -> "stopped"
    [] OTHER -> s

(* Only the state in a search decides here which tasks it matches.         *)
Matches(search, t) == search = None \/ search.state \in {None, tasks[t]}

(* search_scope of the list of tasks, or of the sub-tasks of one.          *)
Listed(search, sub) == {t \in Task : (sub => t \in Child) /\ Matches(search, t)}

(* bulk_scope: the ids or the search of the request.  Nothing at all means *)
(* the paused tasks to bulk_resume, and a bad request to the other two.    *)
Reached(c) ==
  Editable \cap
    IF c.by # "search" THEN c.tasks
    ELSE IF c.search = None /\ ~c.parent
         THEN IF c.op = "resume" THEN {t \in Task : tasks[t] = "paused"} ELSE {}
         ELSE Listed(c.search, c.parent)

Fit(c) == {t \in Reached(c) : Able(c.op, tasks[t])}

(* What the page is told: about one task whether it went well.             *)
Outcome(c, failed, lost) ==
  IF lost \/ (c.by = "task" /\ Fit(c) = failed) THEN Refused
  ELSE [done |-> Fit(c) \ failed, failed |-> failed, skipped |-> Reached(c) \ Fit(c)]

Serve(c) ==
  /\ c.answer = None
  /\ \E failed \in IF c.op = "resume" THEN SUBSET Fit(c) ELSE {{}}, lost \in BOOLEAN :
       /\ tasks' = [t \in Task |-> IF t \in Fit(c) \ failed THEN Becomes(c.op, tasks[t])
                                   ELSE tasks[t]]
       /\ calls' = (calls \ {c}) \cup {[c EXCEPT !.answer = Outcome(c, failed, lost)]}
  /\ UNCHANGED <<page, ncalls, toasts>>

(* The plans go on without the browser.                                    *)
TaskMoves(t) ==
  /\ \E s \in States :
       /\ <<tasks[t], s>> \in {<<"scheduled", "running">>, <<"running", "paused">>,
                               <<"running", "stopped">>, <<"paused", "running">>}
       /\ tasks' = [tasks EXCEPT ![t] = s]
  /\ UNCHANGED <<page, actionVars>>

-----------------------------------------------------------------------------
(* The page posts a request, its number ties the toasts to it.             *)
Toast(n, type, about) == [n |-> n, type |-> type, about |-> about]

MayCall == ncalls < MaxCalls[page]

Post(op, by, ts, search, parent, told) ==
  /\ MayCall /\ ncalls' = ncalls + 1
  /\ calls' = calls \cup {[n |-> ncalls', op |-> op, by |-> by, tasks |-> ts,
                           search |-> search, parent |-> parent, answer |-> None]}
  /\ toasts' = toasts \cup {Toast(ncalls', m, "request") : m \in told}

cancelTaskRequest(t)      == Post("cancel", "task", {t}, None, FALSE, {"info"})
resumeTaskRequest(t)      == Post("resume", "task", {t}, None, FALSE, {})
forceCancelTaskRequest(t) == Post("force", "task", {t}, None, FALSE, {})
unlockTaskRequest(t)      == Post("unlock", "task", {t}, None, FALSE, {})
cancelStep(t)             == Post("cancel_step", "task", {t}, None, FALSE, {"info"})

(* then and catch of the request about one task.                           *)
TaskAnswered(c) ==
  /\ c \in calls /\ c.by = "task" /\ c.answer # None
  /\ calls' = calls \ {c}
  /\ toasts' = toasts \cup
       {Toast(c.n, IF c.answer = Refused THEN "failed" ELSE "done", t) : t \in c.tasks}
  /\ UNCHANGED <<page, tasks, ncalls>>

ActionsInit ==
  /\ tasks \in Starts
  /\ calls = {} /\ ncalls = 0 /\ toasts = {}

ActionsReset == calls' = {} /\ ncalls' = 0 /\ toasts' = {}

ActionsTypeOK ==
  /\ tasks \in [Task -> States]
  /\ ncalls \in Nat
  /\ \A c \in calls :
       /\ c.n \in 1..ncalls /\ c.op \in Ops /\ c.by \in {"task", "ids", "search"}
       /\ c.tasks \subseteq Task /\ c.parent \in BOOLEAN
       /\ c.answer \in Answer \cup {None, Refused}
  /\ \A m \in toasts : m.n \in 0..ncalls
=============================================================================
