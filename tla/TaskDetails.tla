------------------------------ MODULE TaskDetails ------------------------------
(***************************************************************************)
(* The page with the details of a task.  It asks for them at an interval   *)
(* until an answer says the task is stopped or cannot be had; the buttons  *)
(* start the interval again.  There is one interval and one place for the  *)
(* answer, whichever task the page shows, and the switcher in the bread-   *)
(* crumb goes from task to task without loading the page again.            *)
(***************************************************************************)
EXTENDS TaskActions

CONSTANT Slot  \* bound of the model: the requests for details in flight at a time

VARIABLES
  polling,   \* taskReload: the interval exists
  halted,    \* what ended it, "user", "stopped" or "error", None while it goes on; "late" when
             \* an answer about another task ended it or came after its end
  polls,     \* polls[s]: the request in the slot, or None
  details,   \* the response in the store, or None
  status,    \* "ERROR", or "RESOLVED": but for a skeleton "PENDING" is no different
  dialog,    \* the confirmation that is open, or None
  confirmed  \* the confirmations whose box is ticked

pollVars == <<polling, halted, polls, details, status>>
dialogVars == <<dialog, confirmed>>
detailsVars == <<pollVars, dialogVars>>

Response == [id : Task, state : States]
Dialogs == {"unlock", "force"}

-----------------------------------------------------------------------------
showActions == status # "ERROR"
Shown == showActions /\ details # None

-----------------------------------------------------------------------------
(* A request is always sent, whatever is in flight: within the bound, what *)
(* sends one waits for a free slot.                                        *)
MayPoll == \E s \in Slot : polls[s] = None

Request(ps, t) ==
  [ps EXCEPT ![CHOOSE s \in Slot : ps[s] = None] = [id |-> t, answer |-> None]]

(* withInterval: a request now, and one at every tick.                     *)
taskReloadStart(t) ==
  /\ MayPoll
  /\ polling' = TRUE /\ halted' = None
  /\ polls' = Request(polls, t) /\ status' = "RESOLVED"

(* What the buttons do before their request.                               *)
StartUnlessPolling ==
  /\ IF polling THEN UNCHANGED <<polling, halted, polls, status>> ELSE taskReloadStart(page)
  /\ UNCHANGED details

Tick ==
  /\ polling /\ MayPoll
  /\ polls' = Request(polls, page) /\ status' = "RESOLVED"
  /\ UNCHANGED <<page, tasks, actionVars, polling, halted, details, dialogVars>>

(* The server answers with what the task is now.                           *)
DetailsServed(s) ==
  /\ polls[s] # None /\ polls[s].answer = None
  /\ \E d \in {[id |-> polls[s].id, state |-> tasks[polls[s].id]], Refused} :
       polls' = [polls EXCEPT ![s].answer = d]
  /\ UNCHANGED <<page, tasks, actionVars, polling, halted, details, status, dialogVars>>

(* Mutant: a task that pauses is not looked at any more.                   *)
EndsPolling_Paused(d) == d # Refused /\ d.state \in {"paused", "stopped"}

(* handleSuccess, the error apart.                                         *)
EndsPolling(d) == d # Refused /\ d.state = "stopped"

(* An answer comes.  It does not say which interval it belongs to, and is  *)
(* stored also when the interval is over.                                  *)
DetailsArrive(s) ==
  /\ polls[s] # None /\ polls[s].answer # None
  /\ polls' = [polls EXCEPT ![s] = None]
  /\ LET d == polls[s].answer IN
       /\ details' = IF d = Refused THEN None ELSE d
       /\ status' = IF d = Refused THEN "ERROR" ELSE "RESOLVED"
       /\ polling' = (polling /\ d # Refused /\ ~EndsPolling(d))
       /\ halted' = IF polling' THEN None
                    ELSE IF polls[s].id # page THEN "late"
                    ELSE IF ~polling THEN halted
                    ELSE IF d = Refused THEN "error" ELSE "stopped"
       /\ IF d = Refused THEN UNCHANGED dialog /\ confirmed' = {} ELSE UNCHANGED dialogVars
  /\ UNCHANGED <<page, tasks, actionVars>>

-----------------------------------------------------------------------------
(* The page is loaded, or switches to another task: the effect of the old  *)
(* id ends the interval, that of the new one starts it.                    *)
DetailsMount(t) ==
  /\ polling' = TRUE /\ halted' = None
  /\ polls' = Request([s \in Slot |-> None], t)
  /\ details' = None /\ status' = "RESOLVED"
  /\ dialog' = None /\ confirmed' = {}

(* Mutant: the interval is not started again for the new task.             *)
SwitchTo_NoStart(t) ==
  /\ t # page /\ page' = t
  /\ UNCHANGED <<tasks, actionVars, detailsVars>>

SwitchTo(t) ==
  /\ t # page /\ page' = t
  /\ taskReloadStart(t)
  /\ UNCHANGED <<tasks, actionVars, details, dialogVars>>

taskProgressToggle ==
  /\ showActions
  /\ IF polling THEN polling' = FALSE /\ halted' = "user" /\ UNCHANGED <<polls, status>>
     ELSE taskReloadStart(page)
  /\ UNCHANGED <<page, tasks, actionVars, details, dialogVars>>

-----------------------------------------------------------------------------
(* The buttons.  They send the id of the route, and are enabled by what    *)
(* the response says.                                                      *)
Enabled(op) ==
  /\ Shown /\ dialog = None
  /\ page \in Editable /\ Able(op, details.state)

ClickCancel ==
  /\ Enabled("cancel") /\ StartUnlessPolling /\ cancelTaskRequest(page)
  /\ UNCHANGED <<page, tasks, dialogVars>>

ClickResume ==
  /\ Enabled("resume") /\ StartUnlessPolling /\ resumeTaskRequest(page)
  /\ UNCHANGED <<page, tasks, dialogVars>>

(* Cancel of a running step: the steps of a running task are listed.       *)
ClickCancelStep ==
  /\ Shown /\ dialog = None /\ details.state = "running"
  /\ StartUnlessPolling /\ cancelStep(page)
  /\ UNCHANGED <<page, tasks, dialogVars>>

OpenDialog(op) ==
  /\ Enabled(op) /\ dialog' = op
  /\ UNCHANGED <<page, tasks, actionVars, pollVars, confirmed>>

TickBox ==
  /\ dialog # None /\ showActions
  /\ confirmed' = IF dialog \in confirmed THEN confirmed \ {dialog} ELSE confirmed \cup {dialog}
  /\ UNCHANGED <<page, tasks, actionVars, pollVars, dialog>>

(* Mutant: the box stays ticked for the next time.                         *)
onClose_Ticked == dialog' = None /\ UNCHANGED confirmed

onClose == dialog' = None /\ confirmed' = confirmed \ {dialog}

CloseDialog ==
  /\ dialog # None /\ showActions /\ onClose
  /\ UNCHANGED <<page, tasks, actionVars, pollVars>>

(* unlock and forceUnlock of the header, then the dialog closes.           *)
ConfirmDialog ==
  /\ dialog # None /\ showActions /\ dialog \in confirmed
  /\ StartUnlessPolling
  /\ IF dialog = "unlock" THEN unlockTaskRequest(page) ELSE forceCancelTaskRequest(page)
  /\ onClose
  /\ UNCHANGED <<page, tasks>>

(* The answer to a button: toasts and nothing else.                        *)
ButtonAnswered(c) == TaskAnswered(c) /\ UNCHANGED detailsVars
=============================================================================
