------------------------------- MODULE TasksPage -------------------------------
(***************************************************************************)
(* The page that lists the tasks, or the sub-tasks of one: the table with  *)
(* its selection and modals, the requests for one task, for the ticked     *)
(* ones by id or for all of them by search, and the dashboard above it,    *)
(* whose cards filter the table through the query of the URL.              *)
(*                                                                         *)
(* The list and the summary are fetched by requests whose answers may come *)
(* in any order; the last to come is what the page shows.                  *)
(***************************************************************************)
EXTENDS TaskActions

CONSTANTS
  Time,      \* the times of the dashboard, "H24" among them
  Card,      \* the cards of the dashboard the user clicks at
  Result,    \* the results the stopped card lists
  MaxLoads   \* bounds on what the user makes a page load before it is loaded again

ASSUME TimeAssumption == "H24" \in Time /\ Time \subseteq {"H12", "H24", "WEEK"}
ASSUME CardAssumption == Card \subseteq {"running", "paused", "stopped", "scheduled"}

VARIABLES
  url,        \* the query of the URL
  fetches,    \* the requests for the list in flight
  nfetch,     \* how many have been sent
  kept,       \* the search that a reload left in the options of useAPI, or None
  rows,       \* the response the table shows: its number, search and results
  time,       \* the time of the dashboard, in the store
  query,      \* the query of the dashboard, in the store
  summaries,  \* the requests for the summary in flight
  nsummary,   \* how many have been sent
  summary,    \* the summary the cards show
  modal,      \* the modal that is open, with clickedTask if it is of one, or None
  selection   \* what useBulkSelect holds: all rows, or the ticked ones

listVars == <<fetches, nfetch, kept, rows>>
dashboardVars == <<time, query, summaries, nsummary, summary>>
modalVars == <<modal, selection>>
pageVars == <<url, listVars, dashboardVars, modalVars>>

Cards == {"running", "paused", "stopped", "scheduled"}
Url == [state : Cards \cup {None}, result : Result \cup {"other", None},
        mode : {"recent", "older", None}, time : Time \cup {None}]
Query == [state : Cards \cup {None}, result : Result \cup {"other", None},
          mode : {"last", "older", None}, time : Time \cup {None}]
NoQuery == [state |-> None, result |-> None, mode |-> None, time |-> None]
Row == [id : Task, state : States]
NoRows == [n |-> 0, search |-> None, results |-> {}]
NoSummary == [n |-> 0, hours |-> None, by |-> None]
NoSelection == [all |-> FALSE, ticked |-> {}]
Modals == {"cancel", "resume", "force"}

parentTaskID == page = "sub_tasks"

-----------------------------------------------------------------------------
(* timeToHoursNumber, and the search that convertDashboardQuery makes of   *)
(* the query of the URL; the time counts with a mode only.                 *)
timeToHoursNumber(t) == IF t = "H12" THEN 12 ELSE IF t = "WEEK" THEN 168 ELSE 24

convertDashboardQuery(u) ==
  IF u.state = None /\ u.result = None /\ u.mode = None THEN None
  ELSE [state |-> u.state, result |-> u.result, mode |-> u.mode,
        hours |-> IF u.mode = None THEN None ELSE timeToHoursNumber(u.time)]

MayLoad == nfetch <= MaxLoads[page] /\ nsummary <= MaxLoads[page]

(* useAPI sends apiUrl and the options.  A search among these comes after  *)
(* that of apiUrl in the query of the request, and the server takes it.    *)
Asked(u, option) == IF option = None THEN convertDashboardQuery(u) ELSE option

fetchTasks(u, option) ==
  /\ kept' = option
  /\ nfetch' = nfetch + 1
  /\ fetches' = fetches \cup {[n |-> nfetch', search |-> Asked(u, option)]}

fetchTasksSummary(t, by) ==
  /\ nsummary' = nsummary + 1
  /\ summaries' = summaries \cup {[n |-> nsummary', hours |-> timeToHoursNumber(t), by |-> by]}

(* reloadPage sets the options, which stay; it asks for the parameter time, *)
(* which no URL of this page has.                                          *)
reloadPage ==
  /\ fetchTasks(url, convertDashboardQuery(url)) /\ UNCHANGED rows
  /\ fetchTasksSummary(None, "reload") /\ UNCHANGED <<time, query, summary>>

(* Mutant: apiUrl is computed once.                                        *)
Navigate_KeepsApiUrl(u) == url' = u /\ UNCHANGED listVars

(* history.push: a URL that differs makes a new apiUrl and a new request.  *)
Navigate(u) ==
  /\ url' = u
  /\ IF u = url THEN UNCHANGED listVars ELSE fetchTasks(u, kept) /\ UNCHANGED rows

-----------------------------------------------------------------------------
(* The page is loaded at a URL.  queryFromUriQuery makes the mode of a     *)
(* URL with "recent" undefined (TASKS_DASHBOARD_QUERY_VALUES_TEXT.LAST).   *)
queryFromUriQuery(u) == [u EXCEPT !.mode = IF u.mode = "recent" THEN None ELSE u.mode]

(* The dashboard is initialised.  It fetches now when the time stays the   *)
(* default, and as it is updated when the URL has another one.             *)
DashboardMounts(u) ==
  /\ time' = IF u.time = None THEN "H24" ELSE u.time
  /\ query' = queryFromUriQuery(u)
  /\ summaries' =
       {[n |-> 1, by |-> "dashboard",
         hours |-> timeToHoursNumber(IF u.time \in {None, "H24"} THEN "H24" ELSE time')]}

PageMounts(u) ==
  /\ url' = u
  /\ fetches' = {[n |-> 1, search |-> convertDashboardQuery(u)]}
  /\ nfetch' = 1 /\ kept' = None /\ rows' = NoRows
  /\ DashboardMounts(u) /\ nsummary' = 1 /\ summary' = NoSummary
  /\ modal' = None /\ selection' = NoSelection

-----------------------------------------------------------------------------
(* The answer to a request for the list comes, with the tasks as they are  *)
(* now: from then on the table may be behind.                              *)
ListArrives(f) ==
  /\ fetches' = fetches \ {f}
  /\ rows' = [n |-> f.n, search |-> f.search,
              results |-> {[id |-> t, state |-> tasks[t]] : t \in Listed(f.search, parentTaskID)}]
  /\ UNCHANGED <<page, tasks, actionVars, url, nfetch, kept, dashboardVars, modalVars>>

(* ..._SUCCESS with the counts, or ..._FAILURE with zeros.                 *)
SummaryArrives(m) ==
  /\ summaries' = summaries \ {m} /\ summary' \in {m, [m EXCEPT !.hours = None]}
  /\ UNCHANGED <<page, tasks, actionVars, url, listVars, time, query, nsummary, modalVars>>

-----------------------------------------------------------------------------
(* The dashboard.  updateQuery writes the URL and the store.               *)
CurrentTime(t) == IF t = "CURRENT" THEN time ELSE t

resolveQuery(q) ==
  Navigate([q EXCEPT !.mode = IF q.mode = "last" THEN "recent" ELSE q.mode])

updateQuery(q) ==
  LET resolved == [q EXCEPT !.time = CurrentTime(q.time)] IN
    /\ MayLoad /\ resolveQuery(resolved) /\ query' = resolved
    /\ UNCHANGED <<page, tasks, actionVars, time, summaries, nsummary, summary, modalVars>>

(* The title of a card, or the total in its donut.                         *)
ClickCard(card) == updateQuery([NoQuery EXCEPT !.state = card])

(* Mutant: the handler has the time its chart was created with.            *)
ClickDonut_TimeOfChart(card, mode) ==
  updateQuery([NoQuery EXCEPT !.state = card, !.mode = mode, !.time = "H24"])

(* A part of a donut.  The chart keeps the handlers of its first           *)
(* rendering: they ask for the current time when they are called.          *)
ClickDonut(card, mode) ==
  updateQuery([NoQuery EXCEPT !.state = card, !.mode = mode, !.time = "CURRENT"])

(* A number of the stopped card: in all, or within the time.               *)
ClickResult(result, recent) ==
  updateQuery([NoQuery EXCEPT !.state = "stopped", !.result = result,
                 !.mode = IF recent THEN "last" ELSE None,
                 !.time = IF recent THEN time ELSE None])

ClickOther == updateQuery([NoQuery EXCEPT !.state = "stopped", !.result = "other"])

DeleteLabel(key) == query[key] # None /\ updateQuery([query EXCEPT ![key] = None])
ClearLabels == query # NoQuery /\ updateQuery(NoQuery)

(* updateTime, and the fetch of componentDidUpdate.                        *)
ChangeTime(t) ==
  /\ MayLoad /\ t # time /\ time' = t
  /\ fetchTasksSummary(t, "dashboard")
  /\ UNCHANGED <<page, tasks, actionVars, url, listVars, query, summary, modalVars>>

(* Back and forward of the browser: the URL alone changes.                 *)
Back(u) ==
  /\ MayLoad /\ u # url /\ Navigate(u)
  /\ UNCHANGED <<page, tasks, actionVars, dashboardVars, modalVars>>

(* getFocusedOn: the part of a donut that is drawn as chosen.              *)
getFocusedOn(q, card, t) ==
  IF q.state # card THEN IF q.state = None THEN "normal" ELSE "none"
  ELSE IF q.time = t /\ q.mode # None THEN q.mode ELSE "total"

-----------------------------------------------------------------------------
(* The table and its selection.                                            *)
AllSelected == selection.all \/ (rows.n > 0 /\ Cardinality(selection.ticked) = Cardinality(rows.results))
AnySelected == AllSelected \/ selection.ticked # {}

(* A row that is ticked or not; out of a selection of all it takes one.    *)
selectOne(r) ==
  /\ r \in rows.results /\ modal = None /\ MayCall
  /\ selection' = IF selection.all THEN [selection EXCEPT !.all = FALSE]
                  ELSE [selection EXCEPT !.ticked =
                          IF \E s \in @ : s.id = r.id THEN {s \in @ : s.id # r.id} ELSE @ \cup {r}]
  /\ UNCHANGED <<page, tasks, actionVars, url, listVars, dashboardVars, modal>>

selectAll(s) ==
  /\ modal = None /\ MayCall /\ s # selection
  /\ s \in {NoSelection, [all |-> TRUE, ticked |-> {}], [all |-> FALSE, ticked |-> rows.results]}
  /\ selection' = s
  /\ UNCHANGED <<page, tasks, actionVars, url, listVars, dashboardVars, modal>>

(* The buttons of a row: Force Cancel for what is not stopped.             *)
CellAction(r, m) ==
  /\ r \in rows.results /\ modal = None /\ MayCall
  /\ Able(m, r.state)
  /\ modal' = [op |-> m, task |-> r.id]
  /\ UNCHANGED <<page, tasks, actionVars, url, listVars, dashboardVars, selection>>

SelectedAction(m) ==
  /\ AnySelected /\ modal = None /\ MayCall
  /\ modal' = [op |-> m, task |-> None]
  /\ UNCHANGED <<page, tasks, actionVars, url, listVars, dashboardVars, selection>>

CloseModal ==
  /\ modal # None /\ modal' = None
  /\ UNCHANGED <<page, tasks, actionVars, url, listVars, dashboardVars, selection>>

(* Yes, in the modal of one task.                                          *)
ConfirmTask ==
  /\ modal # None /\ modal.task # None /\ modal' = None
  /\ \/ modal.op = "cancel" /\ cancelTaskRequest(modal.task)
     \/ modal.op = "resume" /\ resumeTaskRequest(modal.task)
     \/ modal.op = "force" /\ forceCancelTaskRequest(modal.task)
  /\ UNCHANGED <<page, tasks, url, listVars, dashboardVars, selection>>

-----------------------------------------------------------------------------
(* The bulk requests.  By id: the ticked rows, as they were when they were *)
(* ticked, that the user may change and that are fit for it.               *)
ByIds(op) ==
  LET chosen == {s.id : s \in {x \in selection.ticked : Able(op, x.state)}} \cap Editable
      warned == IF Cardinality(chosen) < Cardinality(selection.ticked) THEN {"warning"} ELSE {}
  IN  IF chosen = {}
      THEN /\ toasts' = toasts \cup {Toast(ncalls, m, "selection") : m \in warned}
           /\ UNCHANGED <<calls, ncalls>>
      ELSE Post(op, "ids", chosen, None, FALSE, warned)

bulkResumeById      == ByIds("resume")
bulkCancelById      == ByIds("cancel")
bulkForceCancelById == ByIds("force")

(* Mutant: a request by search does not say whose sub-tasks.               *)
bulkBySearchRequest_All(op, search, parent) == Post(op, "search", {}, search, FALSE, {"info"})

bulkBySearchRequest(op, search, parent) == Post(op, "search", {}, search, parent, {"info"})
bulkResumeBySearch(search, parent)      == bulkBySearchRequest("resume", search, parent)
bulkForceCancelBySearch(search, parent) == bulkBySearchRequest("force", search, parent)
bulkCancelBySearch(search, parent)      == bulkBySearchRequest("cancel", search, parent)

(* Yes, in a modal of the selection.  The search is that of the response   *)
(* the table shows; TasksModals gives the parent to two of the three.      *)
ConfirmSelected ==
  /\ modal # None /\ modal.task = None /\ modal' = None
  /\ \/ /\ modal.op = "cancel"
        /\ IF AllSelected THEN bulkCancelBySearch(rows.search, FALSE) ELSE bulkCancelById
     \/ /\ modal.op = "resume"
        /\ IF AllSelected THEN bulkResumeBySearch(rows.search, parentTaskID) ELSE bulkResumeById
     \/ /\ modal.op = "force"
        /\ IF AllSelected THEN bulkForceCancelBySearch(rows.search, parentTaskID)
           ELSE bulkForceCancelById
  /\ UNCHANGED <<page, tasks, url, listVars, dashboardVars, selection>>

(* The answer about single tasks: on success the page is loaded again.     *)
RowAnswered(c) ==
  /\ TaskAnswered(c)
  /\ IF c.answer = Refused THEN UNCHANGED <<listVars, dashboardVars>> ELSE reloadPage
  /\ UNCHANGED <<url, modalVars>>

(* Mutant: a task that was skipped is not reported.                        *)
TypesReported_NoSkipped(a) ==
  {[type |-> "done", about |-> t] : t \in a.done} \cup
  {[type |-> "failed", about |-> t] : t \in a.failed}

TypesReported(a) ==
  {[type |-> "done", about |-> t] : t \in a.done} \cup
  {[type |-> "failed", about |-> t] : t \in a.failed} \cup
  {[type |-> "skipped", about |-> t] : t \in a.skipped}

(* The answer by id: a toast for each task, for force numbers; an error    *)
(* toast when it was refused.  The lists resumed and cancelled are true    *)
(* also when they are empty.                                               *)
IdsAnswered(c) ==
  /\ c.by = "ids" /\ c.answer # None
  /\ calls' = calls \ {c}
  /\ toasts' = toasts \cup
       IF c.answer = Refused THEN {Toast(c.n, "error", "request")}
       ELSE IF c.op = "force" THEN {Toast(c.n, "numbers", "request")}
       ELSE {Toast(c.n, m.type, m.about) : m \in TypesReported(c.answer)}
  /\ IF c.answer = Refused \/ (c.op = "force" /\ c.answer.done = {})
     THEN UNCHANGED <<listVars, dashboardVars>> ELSE reloadPage
  /\ UNCHANGED <<page, tasks, ncalls, url, modalVars>>

(* Nobody waits for the answer by search.                                  *)
SearchAnswered(c) ==
  /\ c.by = "search" /\ c.answer # None
  /\ calls' = calls \ {c}
  /\ UNCHANGED <<page, tasks, ncalls, toasts, pageVars>>

Refresh ==
  /\ MayLoad /\ reloadPage
  /\ UNCHANGED <<page, tasks, actionVars, url, modalVars>>
=============================================================================
