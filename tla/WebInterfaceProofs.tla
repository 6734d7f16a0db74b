--------------------------- MODULE WebInterfaceProofs ---------------------------
(***************************************************************************)
(* Proofs about WebInterface: what the pages show is what was asked for    *)
(* last, a bulk request stays within the table, a click at a donut is      *)
(* drawn and searched alike, and no confirmation opens with its box        *)
(* ticked.  All hold for any tasks, times, links and bounds, as nothing    *)
(* but the order of the steps matters.  The types, last, need that links   *)
(* lead to queries that the pages know.                                    *)
(***************************************************************************)
EXTENDS WebInterface, TLAPS

(* The boxes that are ticked are those of the dialog that is open.         *)
BoxInv == \A d \in confirmed : d # None /\ dialog = d

(* The last request for the list has the search that a reload left in its  *)
(* options, or that of the URL, the last one of the dashboard for the      *)
(* summary the hours of its time.                                          *)
ListInv ==
  /\ nfetch \in Nat
  /\ \A f \in fetches \cup {rows} :
       /\ f.n \in Nat /\ f.n <= nfetch
       /\ f.n = nfetch => f.search = Asked(url, kept)

SummaryInv ==
  /\ nsummary \in Nat
  /\ \A m \in summaries \cup {summary} :
       /\ m = [n |-> m.n, hours |-> m.hours, by |-> m.by]
       /\ m.n \in Nat /\ m.n <= nsummary
       /\ (m.n = nsummary /\ m.by = "dashboard" /\ m.hours # None) =>
            m.hours = timeToHoursNumber(time)

-----------------------------------------------------------------------------
(* What the steps do to the boxes.                                         *)
LEMMA BoxStep == BoxInv /\ [Next]_vars => BoxInv'
<1> SUFFICES ASSUME BoxInv, [Next]_vars PROVE BoxInv'
  OBVIOUS
<1>1. CASE UNCHANGED <<dialog, confirmed>>
  BY <1>1 DEF BoxInv
<1>2. CASE page \in Task /\ DetailsAction
  <2>1. CASE \E op \in Dialogs : OpenDialog(op)
    BY <2>1 DEF OpenDialog, Enabled, BoxInv
  <2>2. CASE TickBox
    BY <2>2 DEF TickBox, BoxInv
  <2>3. CASE CloseDialog \/ ConfirmDialog
    BY <2>3 DEF CloseDialog, ConfirmDialog, onClose, BoxInv
  <2>4. CASE (\E t \in Task : SwitchTo(t)) \/ taskProgressToggle
    BY <1>1, <2>4 DEF SwitchTo, taskProgressToggle, dialogVars
  <2>5. CASE ClickCancel \/ ClickResume \/ ClickCancelStep
    BY <1>1, <2>5 DEF ClickCancel, ClickResume, ClickCancelStep, dialogVars
  <2> QED
    BY <1>2, <2>1, <2>2, <2>3, <2>4, <2>5 DEF DetailsAction
<1>3. CASE Leave
  BY <1>3 DEF Leave, Open, DetailsBlank, DetailsMount, BoxInv
<1>4. CASE \E s \in Slot : PollAnswered(s)
  BY <1>4 DEF PollAnswered, DetailsArrive, dialogVars, BoxInv
<1>5. CASE \E s \in Slot : PollServed(s)
  BY <1>1, <1>5 DEF PollServed, DetailsServed, dialogVars
<1>6. CASE RequestServed \/ RequestAnswered \/ ListAnswered \/ SummaryAnswered
  BY <1>1, <1>6 DEF RequestServed, RequestAnswered, ListAnswered, SummaryAnswered,
     ButtonAnswered, detailsVars, dialogVars
<1>7. CASE PollSent \/ PlanMoves \/ UNCHANGED vars
  BY <1>1, <1>7 DEF PollSent, Tick, PlanMoves, vars, detailsVars, dialogVars
<1>8. CASE UserActs
  BY <1>1, <1>2, <1>8 DEF UserActs, detailsVars, dialogVars
<1> QED
  BY <1>3, <1>4, <1>5, <1>6, <1>7, <1>8 DEF Next

-----------------------------------------------------------------------------
(* A confirmation that opens is not ticked, however the one before ended.  *)
THEOREM Unticked == Spec => []UntickedWhenClosed
<1>1. Init => BoxInv
  BY DEF Init, BoxInv
<1>2. BoxInv => UntickedWhenClosed
  BY DEF BoxInv, UntickedWhenClosed
<1> QED
  BY <1>1, <1>2, BoxStep, PTL DEF Spec

-----------------------------------------------------------------------------
(* What the steps do to the requests for the list and for the summary.     *)
shownVars == <<url, fetches, nfetch, kept, rows, time, summaries, nsummary, summary>>

LEMMA FetchList ==
  ASSUME NEW u, NEW option, ListInv, fetchTasks(u, option), rows' = rows, url' = u
  PROVE  ListInv'
BY DEF fetchTasks, ListInv

LEMMA Navigates ==
  ASSUME NEW u, ListInv, SummaryInv, Navigate(u), UNCHANGED <<time, summaries, nsummary, summary>>
  PROVE  ListInv' /\ SummaryInv'
<1>1. CASE u = url
  BY <1>1 DEF Navigate, listVars, ListInv, SummaryInv
<1>2. CASE u # url
  BY <1>2, FetchList DEF Navigate, SummaryInv
<1> QED
  BY <1>1, <1>2

LEMMA Reloads ==
  ASSUME ListInv, SummaryInv, reloadPage, url' = url
  PROVE  ListInv' /\ SummaryInv'
<1>1. ListInv'
  BY FetchList DEF reloadPage
<1>2. SummaryInv'
  BY DEF reloadPage, fetchTasksSummary, SummaryInv
<1> QED
  BY <1>1, <1>2

LEMMA Mounts == ASSUME NEW u, PageMounts(u) PROVE ListInv' /\ SummaryInv'
<1>1. ListInv'
  BY DEF PageMounts, NoRows, Asked, ListInv
<1>2. SummaryInv'
  BY DEF PageMounts, DashboardMounts, NoSummary, SummaryInv
<1> QED
  BY <1>1, <1>2

LEMMA SummaryCame ==
  ASSUME ListInv, SummaryInv, NEW m \in summaries, SummaryArrives(m)
  PROVE  ListInv' /\ SummaryInv'
<1> DEFINE zeros == [m EXCEPT !.hours = None]
<1>1. zeros = [n |-> m.n, hours |-> None, by |-> m.by]
  BY DEF SummaryInv
<1>2. summary' = m \/ summary' = zeros
  BY DEF SummaryArrives
<1> HIDE DEF zeros
<1> QED
  BY <1>1, <1>2 DEF SummaryArrives, listVars, ListInv, SummaryInv

LEMMA ShownStep == ListInv /\ SummaryInv /\ [Next]_vars => ListInv' /\ SummaryInv'
<1> SUFFICES ASSUME ListInv, SummaryInv, [Next]_vars PROVE ListInv' /\ SummaryInv'
  OBVIOUS
<1>1. CASE UNCHANGED shownVars
  BY <1>1 DEF shownVars, ListInv, SummaryInv
<1>2. CASE DashboardAction
  <2>1. ASSUME NEW q, updateQuery(q) PROVE ListInv' /\ SummaryInv'
    BY <2>1, Navigates DEF updateQuery, resolveQuery
  <2>2. CASE \E t \in Time : ChangeTime(t)
    BY <2>2 DEF ChangeTime, fetchTasksSummary, listVars, ListInv, SummaryInv
  <2>3. CASE Back(NoQuery)
    BY <2>3, Navigates DEF Back, dashboardVars
  <2>4. CASE Refresh
    BY <2>4, Reloads DEF Refresh
  <2> QED
    BY <1>2, <2>1, <2>2, <2>3, <2>4 DEF DashboardAction, ClickCard, ClickDonut, ClickResult,
       ClickOther, DeleteLabel, ClearLabels
<1>3. CASE TableAction
  BY <1>1, <1>3 DEF TableAction, selectOne, selectAll, CellAction, SelectedAction, CloseModal,
     ConfirmTask, ConfirmSelected, listVars, dashboardVars, shownVars
<1>4. CASE Leave
  <2>1. ASSUME NEW p, NEW u, Open(p, u) PROVE ListInv' /\ SummaryInv'
    <3>1. CASE PageMounts(u)
      BY <3>1, Mounts
    <3>2. CASE PageBlank
      BY <3>2 DEF PageBlank, NoRows, NoSummary, NoQuery, Asked, convertDashboardQuery, ListInv,
         SummaryInv
    <3> QED
      BY <2>1, <3>1, <3>2 DEF Open
  <2> QED
    BY <1>4, <2>1 DEF Leave
<1>5. CASE RequestAnswered
  <2>1. CASE \E c \in calls : RowAnswered(c) \/ IdsAnswered(c)
    BY <1>1, <2>1, Reloads DEF RowAnswered, IdsAnswered, listVars, dashboardVars, shownVars
  <2>2. CASE \E c \in calls : SearchAnswered(c)
    BY <1>1, <2>2 DEF SearchAnswered, pageVars, listVars, dashboardVars, shownVars
  <2>3. CASE UNCHANGED pageVars
    BY <1>1, <2>3 DEF pageVars, listVars, dashboardVars, shownVars
  <2> QED
    BY <1>5, <2>1, <2>2, <2>3 DEF RequestAnswered
<1>6. CASE ListAnswered
  BY <1>6 DEF ListAnswered, ListArrives, dashboardVars, ListInv, SummaryInv
<1>7. CASE SummaryAnswered
  BY <1>7, SummaryCame DEF SummaryAnswered
<1>8. CASE UNCHANGED pageVars
  BY <1>1, <1>8 DEF pageVars, listVars, dashboardVars, shownVars
<1>9. CASE UserActs
  BY <1>2, <1>3, <1>8, <1>9 DEF UserActs
<1> QED
  BY <1>4, <1>5, <1>6, <1>7, <1>8, <1>9 DEF Next, vars, RequestServed, PollSent, PollServed,
     PollAnswered, PlanMoves

(* When the answer that came last is that to the last request, the rows    *)
(* are those of the search that a reload left in the options, or else of   *)
(* the URL, and the numbers those of the time in the menu.                 *)
THEOREM ShowsLatest == Spec => []LatestShown
<1>1. Init => ListInv /\ SummaryInv
  BY DEF Init, NoRows, NoSummary, NoQuery, Asked, convertDashboardQuery, timeToHoursNumber,
     ListInv, SummaryInv
<1>2. ListInv /\ SummaryInv => LatestShown
  BY DEF ListInv, SummaryInv, Asked, LatestShown
<1> QED
  BY <1>1, <1>2, ShownStep, PTL DEF Spec

-----------------------------------------------------------------------------
(* The requests in flight are records.                                     *)
IsCall(c) ==
  c = [n |-> c.n, op |-> c.op, by |-> c.by, tasks |-> c.tasks, search |-> c.search,
       parent |-> c.parent, answer |-> c.answer]

CallsInv == \A c \in calls : IsCall(c)

(* A request that is posted reaches what the table lists, if it says so.   *)
Stays == \A c \in calls' \ calls : c.op # "cancel" => StaysInTable(c)

LEMMA PostStays ==
  ASSUME NEW op, NEW by, NEW ts, NEW search, NEW parent, NEW told,
         CallsInv, Post(op, by, ts, search, parent, told),
         op # "cancel" /\ by = "search" => search = rows.search /\ parent = parentTaskID
  PROVE  CallsInv' /\ Stays
<1>. CallsInv'
  BY DEF Post, CallsInv, IsCall
<1> SUFFICES ASSUME NEW c \in calls' \ calls, c.op # "cancel", c.answer = None, c.by = "search"
             PROVE  Reached(c) \subseteq Listed(rows.search, parentTaskID)
  BY DEF Stays, StaysInTable
<1>1. c = [n |-> ncalls', op |-> op, by |-> by, tasks |-> ts, search |-> search,
           parent |-> parent, answer |-> None]
  BY DEF Post
<1>2. c.search = rows.search /\ c.parent = parentTaskID
  BY <1>1
<1>3. CASE c.search = None /\ ~c.parent
  BY <1>2, <1>3 DEF Reached, Listed, Matches
<1>4. CASE ~(c.search = None /\ ~c.parent)
  BY <1>2, <1>4 DEF Reached
<1> QED
  BY <1>3, <1>4

LEMMA StaysStep == CallsInv /\ [Next]_vars => CallsInv' /\ Stays
<1> SUFFICES ASSUME CallsInv, [Next]_vars PROVE CallsInv' /\ Stays
  OBVIOUS
<1>1. CASE calls' \subseteq calls
  BY <1>1 DEF Stays, CallsInv
<1>2. CASE TableAction
  <2>1. CASE ConfirmTask
    BY <2>1, PostStays DEF ConfirmTask, cancelTaskRequest, resumeTaskRequest, forceCancelTaskRequest
  <2>2. CASE ConfirmSelected
    <3>1. ASSUME NEW op, ByIds(op) PROVE CallsInv' /\ Stays
      BY <1>1, <3>1, PostStays DEF ByIds
    <3>2. ASSUME NEW op, NEW search, NEW parent, bulkBySearchRequest(op, search, parent),
                 op # "cancel" => search = rows.search /\ parent = parentTaskID
          PROVE  CallsInv' /\ Stays
      BY <3>2, PostStays DEF bulkBySearchRequest
    <3> QED
      BY <2>2, <3>1, <3>2 DEF ConfirmSelected, bulkCancelBySearch, bulkResumeBySearch,
         bulkForceCancelBySearch, bulkCancelById, bulkResumeById, bulkForceCancelById
  <2>3. CASE UNCHANGED calls
    BY <1>1, <2>3
  <2> QED
    BY <1>2, <2>1, <2>2, <2>3 DEF TableAction, selectOne, selectAll, CellAction, SelectedAction,
       CloseModal, actionVars
<1>3. CASE DetailsAction
  <2>1. CASE ClickCancel \/ ClickResume \/ ClickCancelStep \/ ConfirmDialog
    BY <2>1, PostStays DEF ClickCancel, ClickResume, ClickCancelStep, ConfirmDialog,
       cancelTaskRequest, resumeTaskRequest, cancelStep, unlockTaskRequest, forceCancelTaskRequest
  <2>2. CASE UNCHANGED calls
    BY <1>1, <2>2
  <2> QED
    BY <1>3, <2>1, <2>2 DEF DetailsAction, SwitchTo, taskProgressToggle, OpenDialog, TickBox,
       CloseDialog, actionVars
<1>4. CASE RequestServed
  <2>1. PICK c \in calls : Serve(c)
    BY <1>4 DEF RequestServed
  <2>2. ASSUME NEW failed \in SUBSET Fit(c), NEW lost PROVE Outcome(c, failed, lost) # None
    <3>1. Reached(c) \subseteq Task /\ Fit(c) \subseteq Reached(c)
      BY TaskAssumption DEF Reached, Fit
    <3>2. [done |-> Fit(c) \ failed, failed |-> failed, skipped |-> Reached(c) \ Fit(c)] \in Answer
      BY <3>1 DEF Answer
    <3> QED
      BY <3>2, NoneAssumption, AnswerAssumption DEF Outcome
  <2>3. \E a : a # None /\ calls' = (calls \ {c}) \cup {[c EXCEPT !.answer = a]}
    <3>1. PICK failed \in SUBSET Fit(c), lost \in BOOLEAN :
            calls' = (calls \ {c}) \cup {[c EXCEPT !.answer = Outcome(c, failed, lost)]}
      BY <2>1 DEF Serve
    <3> QED
      BY <2>2, <3>1
  <2> QED
    BY <2>3 DEF Stays, StaysInTable, CallsInv, IsCall
<1>5. CASE RequestAnswered
  BY <1>1, <1>5 DEF RequestAnswered, RowAnswered, IdsAnswered, SearchAnswered, ButtonAnswered,
     TaskAnswered
<1>6. CASE Leave
  BY <1>1, <1>6 DEF Leave, Open, ActionsReset
<1>7. CASE UNCHANGED calls
  BY <1>1, <1>7
<1>8. CASE DashboardAction
  BY <1>7, <1>8 DEF DashboardAction, ClickCard, ClickDonut, ClickResult, ClickOther, DeleteLabel,
     ClearLabels, ChangeTime, Back, Refresh, updateQuery, actionVars
<1> QED
  BY <1>2, <1>3, <1>4, <1>5, <1>6, <1>7, <1>8 DEF Next, UserActs, vars, actionVars, ListAnswered,
     ListArrives, SummaryAnswered, SummaryArrives, PollSent, Tick, PollServed, DetailsServed,
     PollAnswered, DetailsArrive, PlanMoves, TaskMoves

(* No bulk request by search but the cancellation leaves the table.        *)
THEOREM StaysWithinTable == Spec => BulkStaysInTable
<1>1. Init => CallsInv
  BY DEF Init, ActionsInit, CallsInv
<1>2. CallsInv /\ [Next]_vars =>
        CallsInv' /\ [\A c \in calls' \ calls : c.op # "cancel" => StaysInTable(c)]_vars
  BY StaysStep DEF Stays
<1> QED
  BY <1>1, <1>2, PTL DEF Spec, BulkStaysInTable

-----------------------------------------------------------------------------
(* The part of a donut that is clicked is the one drawn, and the one that  *)
(* the table is filtered by.                                               *)
THEOREM FocusIsHonest == Spec => FocusHonest
<1>1. ASSUME NEW card \in Card \cap Donuts, NEW mode \in {"last", "older"}, ClickDonut(card, mode)
      PROVE  /\ getFocusedOn(query', card, time') = mode
             /\ convertDashboardQuery(url').hours = timeToHoursNumber(time)
  <2>1. time' = time /\ query' = [NoQuery EXCEPT !.state = card, !.mode = mode, !.time = time]
    BY <1>1 DEF ClickDonut, updateQuery, CurrentTime, NoQuery
  <2>2. url' = [query' EXCEPT !.mode = IF mode = "last" THEN "recent" ELSE mode]
    BY <1>1, <2>1 DEF ClickDonut, updateQuery, CurrentTime, resolveQuery, Navigate, NoQuery
  <2> QED
    BY <2>1, <2>2, NoneAssumption DEF NoQuery, getFocusedOn, convertDashboardQuery
<1>2. [Next]_vars =>
        [\A card \in Card \cap Donuts, mode \in {"last", "older"} : ClickDonut(card, mode) =>
           /\ getFocusedOn(query', card, time') = mode
           /\ convertDashboardQuery(url').hours = timeToHoursNumber(time)]_vars
  BY <1>1
<1> QED
  BY <1>2, PTL DEF Spec, FocusHonest

-----------------------------------------------------------------------------
(* A request by id names tasks the user may change, and its answer, if it  *)
(* is not refused, says of each of them what became of it.                 *)
Covers(c) ==
  /\ c.by = "ids" => c.tasks \subseteq Editable
  /\ (c.by = "ids" /\ c.answer \notin {None, Refused}) =>
       c.tasks \subseteq c.answer.done \cup c.answer.failed \cup c.answer.skipped

AnswersInv == \A c \in calls : IsCall(c) /\ Covers(c)

ToldWhenOver ==
  \A c \in calls : (c.by # "search" /\ \A d \in calls' : d.n # c.n) =>
    ncalls' = 0 \/ \A t \in c.tasks : Told(c.n, t)'

LEMMA PostCovers ==
  ASSUME NEW op, NEW by, NEW ts, NEW search, NEW parent, NEW told, AnswersInv,
         Post(op, by, ts, search, parent, told), by = "ids" => ts \subseteq Editable
  PROVE  AnswersInv' /\ ToldWhenOver
BY DEF Post, AnswersInv, IsCall, Covers, ToldWhenOver

LEMMA PostTaskCovers ==
  ASSUME NEW op, NEW t, NEW told, AnswersInv, Post(op, "task", {t}, None, FALSE, told)
  PROVE  AnswersInv' /\ ToldWhenOver
<1>1. "task" = "ids" => {t} \subseteq Editable
  OBVIOUS
<1> QED
  BY <1>1, PostCovers

LEMMA OutcomeCovers ==
  ASSUME NEW c, c.by = "ids", c.tasks \subseteq Editable, NEW failed \in SUBSET Fit(c), NEW lost,
         Outcome(c, failed, lost) # Refused
  PROVE  LET a == Outcome(c, failed, lost) IN c.tasks \subseteq a.done \cup a.failed \cup a.skipped
<1>1. Reached(c) = c.tasks
  BY DEF Reached
<1>2. Outcome(c, failed, lost) =
        [done |-> Fit(c) \ failed, failed |-> failed, skipped |-> Reached(c) \ Fit(c)]
  BY DEF Outcome
<1> QED
  BY <1>1, <1>2

LEMMA AnsweredTells ==
  ASSUME AnswersInv, NEW c \in calls, TaskAnswered(c) \/ IdsAnswered(c) \/ SearchAnswered(c)
  PROVE  AnswersInv' /\ ToldWhenOver
<1>1. calls' = calls \ {c}
  BY DEF TaskAnswered, IdsAnswered, SearchAnswered
<1>2. SUFFICES ASSUME c.by # "search", NEW t \in c.tasks PROVE Told(c.n, t)'
  BY <1>1 DEF AnswersInv, ToldWhenOver
<1>3. CASE TaskAnswered(c)
  <2>1. PICK type \in {"failed", "done"} : Toast(c.n, type, t) \in toasts'
    BY <1>2, <1>3 DEF TaskAnswered
  <2> QED
    BY <2>1 DEF Toast, Told
<1>4. CASE IdsAnswered(c)
  <2>1. CASE c.answer = Refused
    <3>1. Toast(c.n, "error", "request") \in toasts'
      BY <1>4, <2>1 DEF IdsAnswered
    <3> QED
      BY <3>1 DEF Toast, Told
  <2>2. CASE c.answer # Refused /\ c.op = "force"
    <3>1. Toast(c.n, "numbers", "request") \in toasts'
      BY <1>4, <2>2 DEF IdsAnswered
    <3> QED
      BY <3>1 DEF Toast, Told
  <2>3. CASE c.answer # Refused /\ c.op # "force"
    <3>1. \A m \in TypesReported(c.answer) : Toast(c.n, m.type, m.about) \in toasts'
      BY <1>4, <2>3 DEF IdsAnswered
    <3>2. t \in c.answer.done \cup c.answer.failed \cup c.answer.skipped
      BY <1>4, <1>2, <2>3 DEF IdsAnswered, AnswersInv, Covers
    <3>3. PICK type \in {"done", "failed", "skipped"} :
            [type |-> type, about |-> t] \in TypesReported(c.answer)
      BY <3>2 DEF TypesReported
    <3>4. Toast(c.n, type, t) \in toasts'
      BY <3>1, <3>3
    <3> QED
      BY <3>4 DEF Toast, Told
  <2> QED
    BY <2>1, <2>2, <2>3
<1> QED
  BY <1>2, <1>3, <1>4 DEF SearchAnswered

LEMMA TellsStep == AnswersInv /\ [Next]_vars => AnswersInv' /\ ToldWhenOver
<1> SUFFICES ASSUME AnswersInv, [Next]_vars PROVE AnswersInv' /\ ToldWhenOver
  OBVIOUS
<1>1. CASE UNCHANGED calls
  BY <1>1 DEF AnswersInv, ToldWhenOver
<1>2. CASE TableAction
  <2>1. CASE ConfirmTask
    BY <2>1, PostTaskCovers DEF ConfirmTask, cancelTaskRequest, resumeTaskRequest, forceCancelTaskRequest
  <2>2. CASE ConfirmSelected
    <3>1. ASSUME NEW op, ByIds(op) PROVE AnswersInv' /\ ToldWhenOver
      BY <1>1, <3>1, PostCovers DEF ByIds
    <3>2. ASSUME NEW op, NEW search, NEW parent, bulkBySearchRequest(op, search, parent)
          PROVE  AnswersInv' /\ ToldWhenOver
      BY <3>2, PostCovers DEF bulkBySearchRequest
    <3> QED
      BY <2>2, <3>1, <3>2 DEF ConfirmSelected, bulkCancelBySearch, bulkResumeBySearch,
         bulkForceCancelBySearch, bulkCancelById, bulkResumeById, bulkForceCancelById
  <2>3. CASE UNCHANGED calls
    BY <1>1, <2>3
  <2> QED
    BY <1>2, <2>1, <2>2, <2>3 DEF TableAction, selectOne, selectAll, CellAction, SelectedAction,
       CloseModal, actionVars
<1>3. CASE DetailsAction
  <2>1. CASE ClickCancel \/ ClickResume \/ ClickCancelStep \/ ConfirmDialog
    BY <2>1, PostTaskCovers DEF ClickCancel, ClickResume, ClickCancelStep, ConfirmDialog,
       cancelTaskRequest, resumeTaskRequest, cancelStep, unlockTaskRequest, forceCancelTaskRequest
  <2>2. CASE UNCHANGED calls
    BY <1>1, <2>2
  <2> QED
    BY <1>3, <2>1, <2>2 DEF DetailsAction, SwitchTo, taskProgressToggle, OpenDialog, TickBox,
       CloseDialog, actionVars
<1>4. CASE RequestServed
  <2>1. PICK c \in calls : Serve(c)
    BY <1>4 DEF RequestServed
  <2>2. PICK failed \in SUBSET Fit(c), lost \in BOOLEAN :
          calls' = (calls \ {c}) \cup {[c EXCEPT !.answer = Outcome(c, failed, lost)]}
    BY <2>1 DEF Serve
  <2>3. PICK d : d = [c EXCEPT !.answer = Outcome(c, failed, lost)]
    OBVIOUS
  <2>4. IsCall(d) /\ d.n = c.n /\ d.by = c.by /\ d.tasks = c.tasks /\ d.answer = Outcome(c, failed, lost)
    BY <2>3 DEF AnswersInv, IsCall
  <2>5. Covers(d)
    BY <2>4, OutcomeCovers DEF AnswersInv, Covers
  <2> QED
    BY <2>2, <2>3, <2>4, <2>5 DEF AnswersInv, ToldWhenOver
<1>5. CASE RequestAnswered
  BY <1>5, AnsweredTells DEF RequestAnswered, RowAnswered, ButtonAnswered
<1>6. CASE Leave
  BY <1>6 DEF Leave, Open, ActionsReset, AnswersInv, ToldWhenOver
<1>7. CASE DashboardAction
  BY <1>1, <1>7 DEF DashboardAction, ClickCard, ClickDonut, ClickResult, ClickOther, DeleteLabel,
     ClearLabels, ChangeTime, Back, Refresh, updateQuery, actionVars
<1> QED
  BY <1>1, <1>2, <1>3, <1>4, <1>5, <1>6, <1>7 DEF Next, UserActs, vars, actionVars, ListAnswered,
     ListArrives, SummaryAnswered, SummaryArrives, PollSent, Tick, PollServed, DetailsServed,
     PollAnswered, DetailsArrive, PlanMoves, TaskMoves

(* No request is over, unless by leaving the page, before the user is told *)
(* about each task it names.                                               *)
THEOREM EveryTaskReported == Spec => Reported
<1>1. Init => AnswersInv
  BY DEF Init, ActionsInit, AnswersInv
<1>2. AnswersInv /\ [Next]_vars =>
        AnswersInv' /\ [\A c \in calls : (c.by # "search" /\ \A d \in calls' : d.n # c.n) =>
                          ncalls' = 0 \/ \A t \in c.tasks : Told(c.n, t)']_vars
  BY TellsStep DEF ToldWhenOver
<1> QED
  BY <1>1, <1>2, PTL DEF Spec, Reported

-----------------------------------------------------------------------------
(* The types.  What a page shows is typed by what it asked for, what it    *)
(* asks for by what the user chose from what it shows.                     *)
RequestTypes == page \in Lists \cup Task /\ ActionsTypeOK /\ CallsInv
UrlTypes == url \in Url /\ query \in Query /\ time \in Time
ListTypes ==
  /\ nfetch \in Nat /\ rows.n \in 0..nfetch /\ rows.results \subseteq Row
  /\ \A f \in fetches : f.n \in 1..nfetch
SummaryTypes == nsummary \in Nat /\ \A m \in summaries : m.n \in 1..nsummary
TableTypes ==
  /\ modal \in [op : Modals, task : Task \cup {None}] \cup {None}
  /\ selection \in [all : BOOLEAN, ticked : SUBSET Row]
Poll == [id : Task, answer : Response \cup {None, Refused}]
PollTypes ==
  /\ polling \in BOOLEAN /\ details \in Response \cup {None}
  /\ polls \in [Slot -> Poll \cup {None}]
DialogTypes == dialog \in Dialogs \cup {None} /\ confirmed \subseteq Dialogs

TypesInv ==
  /\ RequestTypes /\ UrlTypes /\ ListTypes /\ SummaryTypes /\ TableTypes
  /\ PollTypes /\ DialogTypes

LEMMA TypesInitially == Init => TypesInv
<1> SUFFICES ASSUME Init PROVE TypesInv
  OBVIOUS
<1>1. RequestTypes
  BY StartsAssumption DEF Init, RequestTypes, ActionsInit, ActionsTypeOK, CallsInv, Lists, States
<1>2. UrlTypes
  BY TimeAssumption DEF Init, UrlTypes, Url, Query, NoQuery
<1>3. ListTypes /\ SummaryTypes
  BY DEF Init, ListTypes, SummaryTypes, NoRows
<1>4. TableTypes /\ PollTypes /\ DialogTypes
  BY DEF Init, TableTypes, NoSelection, PollTypes, DialogTypes
<1> QED
  BY <1>1, <1>2, <1>3, <1>4 DEF TypesInv

(* The query of the URL and that of the store.                             *)
LEMMA UrlStep == UrlTypes /\ [Next]_vars => UrlTypes'
<1> SUFFICES ASSUME UrlTypes, [Next]_vars PROVE UrlTypes'
  OBVIOUS
<1>1. CASE UNCHANGED <<url, query, time>>
  BY <1>1 DEF UrlTypes
<1>2. CASE DashboardAction
  <2>1. ASSUME NEW q, q \in [state : Cards \cup {None}, result : Result \cup {"other", None},
                             mode : {"last", "older", None}, time : Time \cup {"CURRENT", None}],
               updateQuery(q)
        PROVE  UrlTypes'
    <3> DEFINE r == [q EXCEPT !.time = CurrentTime(q.time)]
    <3>1. r \in Query
      BY <2>1 DEF CurrentTime, Query, UrlTypes
    <3>2. [r EXCEPT !.mode = IF r.mode = "last" THEN "recent" ELSE r.mode] \in Url
      BY <3>1 DEF Query, Url
    <3> QED
      BY <2>1, <3>1, <3>2 DEF updateQuery, resolveQuery, Navigate, UrlTypes
  <2>2. CASE \E t \in Time : ChangeTime(t)
    BY <2>2 DEF ChangeTime, UrlTypes
  <2>3. CASE Back(NoQuery)
    BY <2>3 DEF Back, Navigate, dashboardVars, NoQuery, Url, UrlTypes
  <2>4. CASE Refresh
    BY <1>1, <2>4 DEF Refresh, reloadPage
  <2>5. CASE \E card \in Card : ClickCard(card)
    BY <2>1, <2>5, CardAssumption DEF ClickCard, NoQuery, Cards
  <2>6. CASE \E card \in Card \cap Donuts, mode \in {"last", "older"} : ClickDonut(card, mode)
    BY <2>1, <2>6, CardAssumption DEF ClickDonut, NoQuery, Cards
  <2>7. CASE \E result \in Result, recent \in BOOLEAN : ClickResult(result, recent)
    BY <2>1, <2>7 DEF ClickResult, NoQuery, Cards, UrlTypes
  <2>8. CASE ClickOther \/ ClearLabels
    BY <2>1, <2>8 DEF ClickOther, ClearLabels, NoQuery, Cards
  <2>9. CASE \E key \in {"state", "result", "mode"} : DeleteLabel(key)
    BY <2>1, <2>9 DEF DeleteLabel, UrlTypes, Query
  <2> QED
    BY <1>2, <2>2, <2>3, <2>4, <2>5, <2>6, <2>7, <2>8, <2>9 DEF DashboardAction
<1>3. CASE Leave
  <2>1. PICK p \in Lists \cup Task \cup {page}, u \in Url : Open(p, u)
    BY <1>3, LinksAssumption DEF Leave, UrlTypes
  <2>2. CASE p \in Lists
    <3>1. queryFromUriQuery(u) \in Query
      BY DEF queryFromUriQuery, Url, Query
    <3>2. (IF u.time = None THEN "H24" ELSE u.time) \in Time
      BY TimeAssumption DEF Url
    <3> QED
      BY <2>1, <2>2, <3>1, <3>2 DEF Open, PageMounts, DashboardMounts, UrlTypes
  <2>3. CASE p \notin Lists
    BY <2>1, <2>3, TimeAssumption DEF Open, PageBlank, NoQuery, Url, Query, UrlTypes
  <2> QED
    BY <2>2, <2>3
<1>4. CASE TableAction
  BY <1>1, <1>4 DEF TableAction, selectOne, selectAll, CellAction, SelectedAction, CloseModal,
     ConfirmTask, ConfirmSelected, dashboardVars
<1>5. CASE RequestAnswered
  BY <1>1, <1>5 DEF RequestAnswered, RowAnswered, IdsAnswered, SearchAnswered, reloadPage,
     pageVars, dashboardVars
<1> QED
  BY <1>1, <1>2, <1>3, <1>4, <1>5 DEF Next, UserActs, RequestServed, ListAnswered, ListArrives,
     SummaryAnswered, SummaryArrives, PollSent, PollServed, PollAnswered, PlanMoves, vars,
     pageVars, dashboardVars

(* The clicks at the dashboard that update its query.                      *)
LEMMA DashboardSteps ==
  DashboardAction =>
    \/ \E q : updateQuery(q)
    \/ \E t \in Time : ChangeTime(t)
    \/ Back(NoQuery)
    \/ Refresh
<1>1. ASSUME NEW card, ClickCard(card) PROVE \E q : updateQuery(q)
  BY <1>1 DEF ClickCard
<1>2. ASSUME NEW card, NEW mode, ClickDonut(card, mode) PROVE \E q : updateQuery(q)
  BY <1>2 DEF ClickDonut
<1>3. ASSUME NEW result, NEW recent, ClickResult(result, recent) PROVE \E q : updateQuery(q)
  BY <1>3 DEF ClickResult
<1>4. ClickOther \/ ClearLabels => \E q : updateQuery(q)
  BY DEF ClickOther, ClearLabels
<1>5. ASSUME NEW key, DeleteLabel(key) PROVE \E q : updateQuery(q)
  BY <1>5 DEF DeleteLabel
<1> QED
  BY <1>1, <1>2, <1>3, <1>4, <1>5 DEF DashboardAction

(* The requests for the list and for the summary.                          *)
LEMMA FetchTypes ==
  /\ \A u, option : ListTypes /\ fetchTasks(u, option) /\ rows' = rows => ListTypes'
  /\ \A t, by : SummaryTypes /\ fetchTasksSummary(t, by) => SummaryTypes'
  /\ ListTypes /\ UNCHANGED listVars => ListTypes'
  /\ SummaryTypes /\ UNCHANGED <<summaries, nsummary>> => SummaryTypes'
BY DEF fetchTasks, fetchTasksSummary, listVars, ListTypes, SummaryTypes

LEMMA LoadsStep ==
  RequestTypes /\ ListTypes /\ SummaryTypes /\ [Next]_vars => ListTypes' /\ SummaryTypes'
<1> SUFFICES ASSUME RequestTypes, ListTypes, SummaryTypes, [Next]_vars
             PROVE  ListTypes' /\ SummaryTypes'
  OBVIOUS
<1>1. CASE UNCHANGED <<listVars, summaries, nsummary>>
  BY <1>1, FetchTypes
<1>2. CASE DashboardAction
  <2>1. ASSUME NEW u, Navigate(u), UNCHANGED <<summaries, nsummary>>
        PROVE  ListTypes' /\ SummaryTypes'
    BY <2>1, FetchTypes DEF Navigate
  <2>2. ASSUME NEW q, updateQuery(q) PROVE ListTypes' /\ SummaryTypes'
    BY <2>1, <2>2 DEF updateQuery, resolveQuery
  <2>3. CASE \E t \in Time : ChangeTime(t)
    BY <2>3, FetchTypes DEF ChangeTime
  <2>4. CASE Back(NoQuery)
    BY <2>1, <2>4 DEF Back, dashboardVars
  <2>5. CASE Refresh
    BY <2>5, FetchTypes DEF Refresh, reloadPage
  <2> QED
    BY <1>2, <2>2, <2>3, <2>4, <2>5, DashboardSteps
<1>3. CASE Leave
  <2>1. ASSUME NEW u, PageMounts(u) PROVE ListTypes' /\ SummaryTypes'
    BY <2>1 DEF PageMounts, DashboardMounts, NoRows, ListTypes, SummaryTypes
  <2>2. CASE PageBlank
    BY <2>2 DEF PageBlank, NoRows, ListTypes, SummaryTypes
  <2> QED
    BY <1>3, <2>1, <2>2 DEF Leave, Open
<1>4. CASE TableAction
  BY <1>1, <1>4 DEF TableAction, selectOne, selectAll, CellAction, SelectedAction, CloseModal,
     ConfirmTask, ConfirmSelected, dashboardVars
<1>5. CASE RequestAnswered
  <2>1. CASE reloadPage
    BY <2>1, FetchTypes DEF reloadPage
  <2> QED
    BY <1>1, <1>5, <2>1 DEF RequestAnswered, RowAnswered, IdsAnswered, SearchAnswered,
       pageVars, dashboardVars
<1>6. CASE ListAnswered
  <2>1. PICK f \in fetches : ListArrives(f)
    BY <1>6 DEF ListAnswered
  <2>2. {[id |-> t, state |-> tasks[t]] : t \in Listed(f.search, parentTaskID)} \subseteq Row
    BY DEF RequestTypes, ActionsTypeOK, Listed, Row
  <2> QED
    BY <2>1, <2>2 DEF ListArrives, dashboardVars, ListTypes, SummaryTypes
<1>7. CASE SummaryAnswered
  BY <1>7, FetchTypes DEF SummaryAnswered, SummaryArrives, SummaryTypes
<1> QED
  BY <1>1, <1>2, <1>3, <1>4, <1>5, <1>6, <1>7 DEF Next, UserActs, RequestServed, PollSent,
     PollServed, PollAnswered, PlanMoves, vars, pageVars, dashboardVars

(* The selection holds rows of the table, the modal a task of a row.       *)
LEMMA TableStep == ListTypes /\ TableTypes /\ [Next]_vars => TableTypes'
<1> SUFFICES ASSUME ListTypes, TableTypes, [Next]_vars PROVE TableTypes'
  OBVIOUS
<1>1. CASE UNCHANGED modalVars
  BY <1>1 DEF modalVars, TableTypes
<1>2. CASE TableAction
  <2>1. CASE \E r \in rows.results : selectOne(r)
    <3>1. PICK r \in rows.results : selectOne(r)
      BY <2>1
    <3>2. selection = [all |-> selection.all, ticked |-> selection.ticked]
      BY DEF TableTypes
    <3>3. CASE selection.all
      BY <3>1, <3>2, <3>3 DEF selectOne, TableTypes
    <3>4. CASE ~selection.all
      <4>1. \E S \in SUBSET (selection.ticked \cup {r}) : selection' = [selection EXCEPT !.ticked = S]
        <5>1. CASE \E x \in selection.ticked : x.id = r.id
          BY <3>1, <3>4, <5>1 DEF selectOne
        <5>2. CASE ~\E x \in selection.ticked : x.id = r.id
          BY <3>1, <3>4, <5>2 DEF selectOne
        <5> QED
          BY <5>1, <5>2
      <4> QED
        BY <3>1, <3>2, <4>1 DEF selectOne, ListTypes, TableTypes
    <3> QED
      BY <3>3, <3>4
  <2>2. CASE \E s \in {NoSelection, [all |-> TRUE, ticked |-> {}],
                       [all |-> FALSE, ticked |-> rows.results]} : selectAll(s)
    <3> DEFINE choices == {NoSelection, [all |-> TRUE, ticked |-> {}],
                           [all |-> FALSE, ticked |-> rows.results]}
    <3>1. choices \subseteq [all : BOOLEAN, ticked : SUBSET Row]
      BY DEF NoSelection, ListTypes
    <3>2. modal' = modal /\ selection' \in choices
      BY <2>2 DEF selectAll
    <3> HIDE DEF choices
    <3> QED
      BY <3>1, <3>2 DEF TableTypes
  <2>3. CASE \E r \in rows.results, m \in Modals : CellAction(r, m)
    BY <2>3 DEF CellAction, ListTypes, TableTypes, Row
  <2>4. CASE \E m \in Modals : SelectedAction(m)
    BY <2>4 DEF SelectedAction, TableTypes
  <2>5. CASE CloseModal \/ ConfirmTask \/ ConfirmSelected
    BY <2>5 DEF CloseModal, ConfirmTask, ConfirmSelected, TableTypes
  <2> QED
    BY <1>2, <2>1, <2>2, <2>3, <2>4, <2>5 DEF TableAction
<1>3. CASE Leave
  <2>1. modal' = None /\ selection' = NoSelection
    BY <1>3 DEF Leave, Open, PageMounts, PageBlank
  <2> QED
    BY <2>1 DEF NoSelection, TableTypes
<1>4. CASE DashboardAction
  BY <1>1, <1>4, DashboardSteps DEF ChangeTime, Back, Refresh, updateQuery
<1>5. CASE RequestAnswered
  BY <1>1, <1>5 DEF RequestAnswered, RowAnswered, IdsAnswered, SearchAnswered, pageVars
<1> QED
  BY <1>1, <1>2, <1>3, <1>4, <1>5 DEF Next, UserActs, RequestServed, ListAnswered, ListArrives,
     SummaryAnswered, SummaryArrives, PollSent, PollServed, PollAnswered, PlanMoves, vars, pageVars

(* What polls the details, the responses and the dialogs.                  *)
LEMMA PollRequestTypes ==
  ASSUME NEW ps \in [Slot -> Poll \cup {None}], NEW t \in Task
  PROVE  Request(ps, t) \in [Slot -> Poll \cup {None}]
<1>1. [id |-> t, answer |-> None] \in Poll
  BY DEF Poll
<1> QED
  BY <1>1 DEF Request

LEMMA StartTypes ==
  ASSUME PollTypes, NEW t \in Task, taskReloadStart(t)
  PROVE  polling' \in BOOLEAN /\ polls' \in [Slot -> Poll \cup {None}]
BY PollRequestTypes DEF taskReloadStart, PollTypes

LEMMA ButtonTypes ==
  ASSUME PollTypes, page \in Task, StartUnlessPolling
  PROVE  PollTypes'
<1>1. CASE polling
  BY <1>1 DEF StartUnlessPolling, PollTypes
<1>2. CASE ~polling
  BY <1>2, StartTypes DEF StartUnlessPolling, PollTypes
<1> QED
  BY <1>1, <1>2

LEMMA PollStep == RequestTypes /\ PollTypes /\ [Next]_vars => PollTypes'
<1> SUFFICES ASSUME RequestTypes, PollTypes, [Next]_vars PROVE PollTypes'
  OBVIOUS
<1>1. CASE UNCHANGED pollVars
  BY <1>1 DEF pollVars, PollTypes
<1>2. CASE page \in Task /\ DetailsAction
  <2>1. CASE \E t \in Task : SwitchTo(t)
    BY <2>1, StartTypes DEF SwitchTo, PollTypes
  <2>2. CASE taskProgressToggle
    BY <1>2, <2>2, StartTypes DEF taskProgressToggle, PollTypes
  <2>3. CASE ClickCancel \/ ClickResume \/ ClickCancelStep \/ ConfirmDialog
    BY <1>2, <2>3, ButtonTypes DEF ClickCancel, ClickResume, ClickCancelStep, ConfirmDialog
  <2>4. CASE (\E op \in Dialogs : OpenDialog(op)) \/ TickBox \/ CloseDialog
    BY <1>1, <2>4 DEF OpenDialog, TickBox, CloseDialog
  <2> QED
    BY <1>2, <2>1, <2>2, <2>3, <2>4 DEF DetailsAction
<1>3. CASE Leave
  <2>1. [s \in Slot |-> None] \in [Slot -> Poll \cup {None}]
    OBVIOUS
  <2>2. ASSUME NEW t \in Task, DetailsMount(t) PROVE PollTypes'
    BY <2>1, <2>2, PollRequestTypes DEF DetailsMount, PollTypes
  <2>3. CASE DetailsBlank
    BY <2>1, <2>3 DEF DetailsBlank, PollTypes
  <2> QED
    BY <1>3, <2>2, <2>3 DEF Leave, Open, RequestTypes
<1>4. CASE \E s \in Slot : PollServed(s)
  <2>1. PICK s \in Slot : PollServed(s)
    BY <1>4
  <2>2. PICK d \in {[id |-> polls[s].id, state |-> tasks[polls[s].id]], Refused} :
          polls' = [polls EXCEPT ![s].answer = d]
    BY <2>1 DEF PollServed, DetailsServed
  <2>3. polls[s] \in Poll /\ polls[s].id \in Task
    BY <2>1 DEF PollServed, DetailsServed, PollTypes, Poll
  <2>4. d \in Response \cup {Refused}
    BY <2>2, <2>3 DEF Response, RequestTypes, ActionsTypeOK
  <2>5. [polls[s] EXCEPT !.answer = d] \in Poll
    BY <2>3, <2>4 DEF Poll
  <2>6. polls' = [polls EXCEPT ![s] = [polls[s] EXCEPT !.answer = d]]
    BY <2>2
  <2> QED
    BY <2>1, <2>5, <2>6 DEF PollServed, DetailsServed, PollTypes
<1>5. CASE \E s \in Slot : PollAnswered(s)
  <2>1. PICK s \in Slot : DetailsArrive(s)
    BY <1>5 DEF PollAnswered
  <2>2. polls[s].answer \in Response \cup {Refused}
    BY <2>1 DEF DetailsArrive, PollTypes, Poll
  <2>3. details' \in Response \cup {None}
    BY <2>1, <2>2 DEF DetailsArrive
  <2>4. polling' \in BOOLEAN
    BY <2>1 DEF DetailsArrive, PollTypes
  <2> QED
    BY <2>1, <2>3, <2>4 DEF DetailsArrive, PollTypes
<1>6. CASE PollSent
  BY <1>6, PollRequestTypes DEF PollSent, Tick, PollTypes
<1>7. CASE RequestAnswered
  BY <1>1, <1>7 DEF RequestAnswered, ButtonAnswered, detailsVars
<1> QED
  BY <1>1, <1>2, <1>3, <1>4, <1>5, <1>6, <1>7 DEF Next, UserActs, RequestServed, ListAnswered,
     SummaryAnswered, PlanMoves, vars, detailsVars

LEMMA DialogStep == DialogTypes /\ [Next]_vars => DialogTypes'
<1> SUFFICES ASSUME DialogTypes, [Next]_vars PROVE DialogTypes'
  OBVIOUS
<1>1. CASE UNCHANGED dialogVars
  BY <1>1 DEF dialogVars, DialogTypes
<1>2. CASE DetailsAction
  <2>1. CASE (\E op \in Dialogs : OpenDialog(op)) \/ CloseDialog \/ ConfirmDialog
    BY <2>1 DEF OpenDialog, CloseDialog, ConfirmDialog, onClose, DialogTypes
  <2>2. CASE TickBox
    BY <2>2 DEF TickBox, DialogTypes
  <2>3. CASE UNCHANGED dialogVars
    BY <1>1, <2>3
  <2> QED
    BY <1>2, <2>1, <2>2, <2>3 DEF DetailsAction, SwitchTo, taskProgressToggle, ClickCancel,
       ClickResume, ClickCancelStep
<1>3. CASE Leave
  BY <1>3 DEF Leave, Open, DetailsBlank, DetailsMount, DialogTypes
<1>4. CASE \E s \in Slot : PollAnswered(s)
  BY <1>4 DEF PollAnswered, DetailsArrive, dialogVars, DialogTypes
<1>5. CASE \E s \in Slot : PollServed(s)
  BY <1>1, <1>5 DEF PollServed, DetailsServed
<1> QED
  BY <1>1, <1>2, <1>3, <1>4, <1>5 DEF Next, UserActs, RequestServed, RequestAnswered,
     ButtonAnswered, ListAnswered, SummaryAnswered, PollSent, Tick, PlanMoves, vars, detailsVars

(* The requests of the page, and the tasks of the server.                  *)
LEMMA PostTypes ==
  ASSUME ActionsTypeOK, CallsInv, NEW op \in Ops, NEW by \in {"task", "ids", "search"},
         NEW ts \in SUBSET Task, NEW search, NEW parent \in BOOLEAN, NEW told,
         Post(op, by, ts, search, parent, told), tasks' = tasks
  PROVE  ActionsTypeOK' /\ CallsInv'
<1> DEFINE new == [n |-> ncalls', op |-> op, by |-> by, tasks |-> ts,
                   search |-> search, parent |-> parent, answer |-> None]
<1>1. ncalls' = ncalls + 1 /\ calls' = calls \cup {new}
  BY DEF Post
<1>2. IsCall(new) /\ CallsInv'
  BY <1>1 DEF CallsInv, IsCall
<1>3. \A c \in calls' :
        /\ c.n \in 1..ncalls' /\ c.op \in Ops /\ c.by \in {"task", "ids", "search"}
        /\ c.tasks \subseteq Task /\ c.parent \in BOOLEAN
        /\ c.answer \in Answer \cup {None, Refused}
  BY <1>1 DEF ActionsTypeOK
<1>4. \A m \in toasts' : m.n \in 0..ncalls'
  BY <1>1 DEF Post, Toast, ActionsTypeOK
<1> QED
  BY <1>1, <1>2, <1>3, <1>4 DEF ActionsTypeOK

LEMMA PostTaskTypes ==
  ASSUME ActionsTypeOK, CallsInv, NEW t \in Task, tasks' = tasks,
         \/ cancelTaskRequest(t) \/ resumeTaskRequest(t) \/ forceCancelTaskRequest(t)
         \/ unlockTaskRequest(t) \/ cancelStep(t)
  PROVE  ActionsTypeOK' /\ CallsInv'
BY PostTypes DEF cancelTaskRequest, resumeTaskRequest, forceCancelTaskRequest, unlockTaskRequest,
   cancelStep, Ops

LEMMA ServeTypes ==
  ASSUME ActionsTypeOK, CallsInv, NEW c \in calls, Serve(c)
  PROVE  ActionsTypeOK' /\ CallsInv'
<1>1. PICK failed \in SUBSET Fit(c), lost \in BOOLEAN :
        /\ tasks' = [t \in Task |-> IF t \in Fit(c) \ failed THEN Becomes(c.op, tasks[t])
                                    ELSE tasks[t]]
        /\ calls' = (calls \ {c}) \cup {[c EXCEPT !.answer = Outcome(c, failed, lost)]}
  BY DEF Serve
<1>2. tasks' \in [Task -> States]
  BY <1>1 DEF ActionsTypeOK, Becomes, States
<1>3. Outcome(c, failed, lost) \in Answer \cup {Refused}
  <2>1. Reached(c) \subseteq Task /\ Fit(c) \subseteq Reached(c)
    BY TaskAssumption DEF Reached, Fit
  <2>2. [done |-> Fit(c) \ failed, failed |-> failed, skipped |-> Reached(c) \ Fit(c)] \in Answer
    BY <2>1 DEF Answer
  <2> QED
    BY <2>2 DEF Outcome
<1> DEFINE served == [c EXCEPT !.answer = Outcome(c, failed, lost)]
<1>4. /\ IsCall(served) /\ served.n = c.n /\ served.op = c.op /\ served.by = c.by
      /\ served.tasks = c.tasks /\ served.parent = c.parent
      /\ served.answer = Outcome(c, failed, lost)
  BY DEF CallsInv, IsCall
<1>5. \A d \in calls' : d \in calls \/ d = served
  BY <1>1
<1> HIDE DEF served
<1>6. \A d \in calls' :
        /\ d.n \in 1..ncalls /\ d.op \in Ops /\ d.by \in {"task", "ids", "search"}
        /\ d.tasks \subseteq Task /\ d.parent \in BOOLEAN
        /\ d.answer \in Answer \cup {None, Refused}
  BY <1>3, <1>4, <1>5 DEF ActionsTypeOK
<1> QED
  BY <1>2, <1>4, <1>5, <1>6 DEF Serve, ActionsTypeOK, CallsInv

LEMMA AnsweredTypes ==
  ASSUME ActionsTypeOK, CallsInv, NEW c,
         TaskAnswered(c) \/ IdsAnswered(c) \/ SearchAnswered(c), c \in calls
  PROVE  ActionsTypeOK' /\ CallsInv' /\ page' = page
<1>1. calls' = calls \ {c} /\ UNCHANGED <<page, tasks, ncalls>>
  BY DEF TaskAnswered, IdsAnswered, SearchAnswered
<1>2. \A m \in toasts' : m \in toasts \/ m.n = c.n
  <2>1. CASE TaskAnswered(c)
    BY <2>1 DEF TaskAnswered, Toast
  <2>2. CASE IdsAnswered(c)
    BY <2>2 DEF IdsAnswered, Toast
  <2>3. CASE SearchAnswered(c)
    BY <2>3 DEF SearchAnswered
  <2> QED
    BY <2>1, <2>2, <2>3
<1> QED
  BY <1>1, <1>2 DEF ActionsTypeOK, CallsInv

LEMMA RequestStep == RequestTypes /\ TableTypes /\ [Next]_vars => RequestTypes'
<1> SUFFICES ASSUME RequestTypes, TableTypes, [Next]_vars PROVE RequestTypes'
  OBVIOUS
<1> USE DEF RequestTypes
<1>1. CASE UNCHANGED <<page, tasks, actionVars>>
  BY <1>1 DEF actionVars, ActionsTypeOK, CallsInv
<1>2. CASE TableAction
  <2>1. CASE ConfirmTask
    <3>1. modal.task \in Task /\ UNCHANGED <<page, tasks>>
      BY <2>1 DEF ConfirmTask, TableTypes
    <3> QED
      BY <2>1, <3>1, PostTaskTypes DEF ConfirmTask
  <2>2. CASE ConfirmSelected
    <3>1. UNCHANGED <<page, tasks>>
      BY <2>2 DEF ConfirmSelected
    <3>2. ASSUME NEW op \in Ops, ByIds(op) PROVE ActionsTypeOK' /\ CallsInv'
      <4> DEFINE chosen == {s.id : s \in {x \in selection.ticked : Able(op, x.state)}} \cap Editable
                 warned == IF Cardinality(chosen) < Cardinality(selection.ticked)
                           THEN {"warning"} ELSE {}
      <4>1. chosen \subseteq Task
        BY TaskAssumption
      <4>2. CASE chosen = {}
        <5>1. /\ toasts' = toasts \cup {Toast(ncalls, m, "selection") : m \in warned}
              /\ UNCHANGED <<calls, ncalls>>
          BY <3>2, <4>2 DEF ByIds
        <5> HIDE DEF warned
        <5>2. \A m \in toasts' : m \in toasts \/ m.n = ncalls
          BY <5>1 DEF Toast
        <5> QED
          BY <3>1, <5>1, <5>2 DEF ActionsTypeOK, CallsInv
      <4>3. CASE chosen # {}
        <5>1. Post(op, "ids", chosen, None, FALSE, warned)
          BY <3>2, <4>3 DEF ByIds
        <5> HIDE DEF chosen, warned
        <5> QED
          BY <3>1, <4>1, <5>1, PostTypes
      <4> QED
        BY <4>2, <4>3
    <3>3. ASSUME NEW op \in Ops, NEW search, NEW parent \in BOOLEAN,
                 bulkBySearchRequest(op, search, parent)
          PROVE  ActionsTypeOK' /\ CallsInv'
      BY <3>1, <3>3, PostTypes DEF bulkBySearchRequest
    <3> QED
      BY <2>2, <3>1, <3>2, <3>3 DEF ConfirmSelected, bulkCancelBySearch, bulkResumeBySearch,
         bulkForceCancelBySearch, bulkCancelById, bulkResumeById, bulkForceCancelById,
         parentTaskID, Ops
  <2>3. CASE UNCHANGED <<page, tasks, actionVars>>
    BY <1>1, <2>3
  <2> QED
    BY <1>2, <2>1, <2>2, <2>3 DEF TableAction, selectOne, selectAll, CellAction, SelectedAction,
       CloseModal
<1>3. CASE page \in Task /\ DetailsAction
  <2>1. CASE ClickCancel \/ ClickResume \/ ClickCancelStep \/ ConfirmDialog
    BY <1>3, <2>1, PostTaskTypes DEF ClickCancel, ClickResume, ClickCancelStep, ConfirmDialog
  <2>2. CASE \E t \in Task : SwitchTo(t)
    BY <2>2 DEF SwitchTo, actionVars, ActionsTypeOK, CallsInv
  <2>3. CASE UNCHANGED <<page, tasks, actionVars>>
    BY <1>1, <2>3
  <2> QED
    BY <1>3, <2>1, <2>2, <2>3 DEF DetailsAction, taskProgressToggle, OpenDialog, TickBox,
       CloseDialog
<1>4. CASE RequestServed
  <2>1. PICK c \in calls : Serve(c)
    BY <1>4 DEF RequestServed
  <2> QED
    BY <2>1, ServeTypes DEF Serve
<1>5. CASE RequestAnswered
  BY <1>5, AnsweredTypes DEF RequestAnswered, RowAnswered, ButtonAnswered
<1>6. CASE Leave
  BY <1>6 DEF Leave, Open, ActionsReset, ActionsTypeOK, CallsInv
<1>7. CASE PlanMoves
  <2>1. PICK t \in Task, s \in States : tasks' = [tasks EXCEPT ![t] = s]
    BY <1>7 DEF PlanMoves, TaskMoves
  <2> QED
    BY <1>7, <2>1 DEF PlanMoves, TaskMoves, actionVars, ActionsTypeOK, CallsInv
<1>8. CASE DashboardAction
  BY <1>1, <1>8, DashboardSteps DEF ChangeTime, Back, Refresh, updateQuery
<1>9. CASE ListAnswered \/ SummaryAnswered \/ PollSent
           \/ \E s \in Slot : PollServed(s) \/ PollAnswered(s)
  BY <1>1, <1>9 DEF ListAnswered, ListArrives, SummaryAnswered, SummaryArrives, PollSent, Tick,
     PollServed, DetailsServed, PollAnswered, DetailsArrive
<1> QED
  BY <1>1, <1>2, <1>3, <1>4, <1>5, <1>6, <1>7, <1>8, <1>9 DEF Next, UserActs, vars

LEMMA TypesStep == TypesInv /\ [Next]_vars => TypesInv'
BY UrlStep, LoadsStep, TableStep, PollStep, DialogStep, RequestStep DEF TypesInv

(* The URL, the requests in flight, what is shown and what is selected     *)
(* have their types, for any tasks, links and bounds.                      *)
THEOREM TypesKept == Spec => []TypeOK
<1>1. TypesInv => TypeOK
  <2>1. PollTypes => \A s \in Slot : polls[s] = None \/ polls[s].answer \in Response \cup {None, Refused}
    BY DEF PollTypes, Poll
  <2> QED
    BY <2>1 DEF TypesInv, TypeOK, RequestTypes, UrlTypes, ListTypes, SummaryTypes, TableTypes,
       PollTypes, DialogTypes
<1> QED
  BY <1>1, TypesInitially, TypesStep, PTL DEF Spec

=============================================================================
