------------------------------ MODULE WebInterface ------------------------------
(***************************************************************************)
(* The web interface in one tab of a browser: the pages with a table of    *)
(* tasks and the page with the details of one (routes.js), the server      *)
(* behind them and the tasks that go on meanwhile.  Links between the      *)
(* pages are anchors, which load the next page anew: of the one before     *)
(* nothing is left, its requests that are not answered included.           *)
(***************************************************************************)
EXTENDS TasksPage, TaskDetails

CONSTANT Links  \* the queries of the links and bookmarks to a page

vars == <<page, tasks, actionVars, pageVars, detailsVars>>

Lists == {"index", "sub_tasks"}
Donuts == {"running", "paused"}

ASSUME LinksAssumption == \A p \in Lists \cup Task : Links[p] \subseteq Url

-----------------------------------------------------------------------------
(* A page is opened at a URL.                                              *)
PageBlank ==
  /\ url' = NoQuery /\ fetches' = {} /\ nfetch' = 0 /\ kept' = None /\ rows' = NoRows
  /\ time' = "H24" /\ query' = NoQuery /\ summaries' = {} /\ nsummary' = 0
  /\ summary' = NoSummary /\ modal' = None /\ selection' = NoSelection

DetailsBlank ==
  /\ polling' = FALSE /\ halted' = None /\ polls' = [s \in Slot |-> None]
  /\ details' = None /\ status' = "RESOLVED"
  /\ dialog' = None /\ confirmed' = {}

Open(p, u) ==
  /\ page' = p
  /\ UNCHANGED tasks /\ ActionsReset
  /\ IF p \in Lists THEN PageMounts(u) /\ DetailsBlank ELSE PageBlank /\ DetailsMount(p)

Init ==
  /\ page = "index" /\ ActionsInit
  /\ url = NoQuery /\ kept = None /\ rows = NoRows
  /\ fetches = {[n |-> 1, search |-> None]} /\ nfetch = 1
  /\ time = "H24" /\ query = NoQuery /\ summary = NoSummary
  /\ summaries = {[n |-> 1, hours |-> 24, by |-> "dashboard"]} /\ nsummary = 1
  /\ modal = None /\ selection = NoSelection
  /\ polling = FALSE /\ halted = None /\ polls = [s \in Slot |-> None]
  /\ details = None /\ status = "RESOLVED"
  /\ dialog = None /\ confirmed = {}

-----------------------------------------------------------------------------
(* What the user does.                                                     *)
DashboardAction ==
  \/ \E card \in Card : ClickCard(card)
  \/ \E card \in Card \cap Donuts, mode \in {"last", "older"} : ClickDonut(card, mode)
  \/ \E result \in Result, recent \in BOOLEAN : ClickResult(result, recent)
  \/ ClickOther
  \/ \E key \in {"state", "result", "mode"} : DeleteLabel(key)
  \/ ClearLabels
  \/ \E t \in Time : ChangeTime(t)
  \/ Back(NoQuery)
  \/ Refresh

TableAction ==
  \/ \E r \in rows.results : selectOne(r)
  \/ \E s \in {NoSelection, [all |-> TRUE, ticked |-> {}], [all |-> FALSE, ticked |-> rows.results]} :
       selectAll(s)
  \/ \E r \in rows.results, m \in Modals : CellAction(r, m)
  \/ \E m \in Modals : SelectedAction(m)
  \/ CloseModal
  \/ ConfirmTask
  \/ ConfirmSelected

DetailsAction ==
  \/ \E t \in Task : Links[t] # {} /\ SwitchTo(t)
  \/ taskProgressToggle
  \/ ClickCancel \/ ClickResume \/ ClickCancelStep
  \/ \E op \in Dialogs : OpenDialog(op)
  \/ TickBox \/ CloseDialog \/ ConfirmDialog

UserActs ==
  \/ page \in Lists /\ (DashboardAction \/ TableAction) /\ UNCHANGED detailsVars
  \/ page \in Task /\ DetailsAction /\ UNCHANGED pageVars

(* The page is loaded again, or left by a link.                            *)
Leave == Open(page, url) \/ \E p \in Lists \cup Task : \E u \in Links[p] : Open(p, u)

-----------------------------------------------------------------------------
(* What comes of it.                                                       *)
RequestServed == \E c \in calls : Serve(c) /\ UNCHANGED <<pageVars, detailsVars>>

RequestAnswered ==
  /\ \E c \in calls :
       \/ /\ page \in Lists
          /\ RowAnswered(c) \/ IdsAnswered(c) \/ SearchAnswered(c)
          /\ UNCHANGED detailsVars
       \/ page \in Task /\ ButtonAnswered(c) /\ UNCHANGED pageVars

ListAnswered ==
  /\ \E f \in fetches : ListArrives(f)
  /\ UNCHANGED detailsVars

SummaryAnswered ==
  /\ \E m \in summaries : SummaryArrives(m)
  /\ UNCHANGED detailsVars

PollServed(s) == DetailsServed(s) /\ UNCHANGED pageVars
PollAnswered(s) == DetailsArrive(s) /\ UNCHANGED pageVars
PollSent == page \in Task /\ Tick /\ UNCHANGED pageVars
PlanMoves == (\E t \in Task : TaskMoves(t)) /\ UNCHANGED <<pageVars, detailsVars>>

Next ==
  \/ UserActs \/ Leave
  \/ RequestServed \/ RequestAnswered \/ ListAnswered \/ SummaryAnswered
  \/ PollSent \/ \E s \in Slot : PollServed(s) \/ PollAnswered(s)
  \/ PlanMoves

Fairness ==
  /\ WF_vars(RequestServed) /\ WF_vars(RequestAnswered)
  /\ WF_vars(ListAnswered) /\ WF_vars(SummaryAnswered)
  /\ WF_vars(PollSent) /\ \A s \in Slot : WF_vars(PollServed(s)) /\ WF_vars(PollAnswered(s))

Spec == Init /\ [][Next]_vars /\ Fairness

-----------------------------------------------------------------------------
(* The pages, the requests in flight and what is shown have their types.   *)
TypeOK ==
  /\ page \in Lists \cup Task /\ ActionsTypeOK
  /\ url \in Url /\ query \in Query /\ time \in Time
  /\ rows.n \in 0..nfetch /\ rows.results \subseteq Row
  /\ \A f \in fetches : f.n \in 1..nfetch
  /\ \A m \in summaries : m.n \in 1..nsummary
  /\ modal \in [op : Modals, task : Task \cup {None}] \cup {None}
  /\ selection.all \in BOOLEAN /\ selection.ticked \subseteq Row
  /\ polling \in BOOLEAN /\ details \in Response \cup {None}
  /\ \A s \in Slot : polls[s] = None \/ polls[s].answer \in Response \cup {None, Refused}
  /\ dialog \in Dialogs \cup {None} /\ confirmed \subseteq Dialogs

(* A bulk request by search reaches no task that the table does not list:  *)
(* what it sends is the search of the table's response, whatever the URL   *)
(* and the dashboard say by now, and the parent of the sub-tasks.  The     *)
(* cancellation is left out here: CancelStaysInTable.                      *)
StaysInTable(c) ==
  (c.answer = None /\ c.by = "search") => Reached(c) \subseteq Listed(rows.search, parentTaskID)

BulkStaysInTable ==
  [][\A c \in calls' \ calls : c.op # "cancel" => StaysInTable(c)]_vars

(* "This will cancel %(number)s task(s)": the ones of the table.           *)
CancelStaysInTable ==
  [][\A c \in calls' \ calls : c.op = "cancel" => StaysInTable(c)]_vars

(* What a page shows is what was asked for last, as soon as that answer is *)
(* the last to come: the rows are those of the URL, unless a reload has    *)
(* left a search in the options, and the numbers those of the time in the  *)
(* menu (apart from a refresh, which asks for a day).                      *)
LatestShown ==
  /\ (page \in Lists /\ rows.n = nfetch) =>
       rows.search = IF kept = None THEN convertDashboardQuery(url) ELSE kept
  /\ (summary.n = nsummary /\ summary.by = "dashboard" /\ summary.hours # None) =>
       summary.hours = timeToHoursNumber(time)

(* The URL is what the rows are asked by: the comment at apiUrl says that  *)
(* it is recomputed when the URL changes.                                  *)
RowsOfUrl ==
  (page \in Lists /\ rows.n = nfetch) => rows.search = convertDashboardQuery(url)

(* A click at a part of a donut draws that part as chosen, and gives the   *)
(* URL the hours of the time that the menu shows at the click, though the  *)
(* chart keeps the handlers it was created with.                           *)
FocusHonest ==
  [][\A card \in Card \cap Donuts, mode \in {"last", "older"} : ClickDonut(card, mode) =>
       /\ getFocusedOn(query', card, time') = mode
       /\ convertDashboardQuery(url').hours = timeToHoursNumber(time)]_vars

(* A request about tasks the user named is over, unless by leaving the     *)
(* page, only when a toast told the end of each of them, or of all.        *)
Told(n, t) ==
  \E m \in toasts : m.n = n /\ m.type \notin {"info", "warning"} /\ m.about \in {t, "request"}

Reported ==
  [][\A c \in calls : (c.by # "search" /\ \A d \in calls' : d.n # c.n) =>
       ncalls' = 0 \/ \A t \in c.tasks : Told(c.n, t)']_vars

(* The user stops going from page to page and loading them again.          *)
Settles == <>[][page' = page /\ ~(page \in Task /\ Open(page, NoQuery))]_vars

(* No details are to come: an error or the user ended them, or an answer   *)
(* about another task ended the polling or came after its end.             *)
Given == status = "ERROR" \/ halted \in {"user", "late"}

(* The details of the task that is shown come, although answers about the  *)
(* one before may still be on their way, unless they cannot be had, the    *)
(* user ended the polling, or such a late answer ended or outlived it.     *)
DetailsOfShown ==
  Settles => []<>(page \in Lists \/ (details # None /\ details.id = page) \/ Given)

(* A page that polls finds out that its task has stopped.                  *)
Over == page \in Task /\ tasks[page] = "stopped"

DetailsCatchUp ==
  Settles => ((Over /\ polling) ~> (~Over \/ details = [id |-> page, state |-> "stopped"] \/ Given))

(* A confirmation that opens is not ticked, however the one before ended.  *)
UntickedWhenClosed == \A d \in confirmed : dialog = d
=============================================================================
