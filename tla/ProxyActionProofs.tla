------------------------- MODULE ProxyActionProofs -------------------------
(***************************************************************************)
(* Proofs about ProxyAction, for any limit of retries, any ways to launch, *)
(* any failures and requests.  The invariant says who may still launch: an *)
(* action that found no row or one under concurrency control, or the batch *)
(* trigger that holds a row it loaded while it was new.                    *)
(***************************************************************************)
EXTENDS ProxyAction, FiniteSetTheorems, TLAPS

(* Every resumed action may fail once more.                                *)
RetryInv ==
  /\ failed <= RetryCount + resumes
  /\ action = "suspended" => failed < RetryCount + resumes

(* A task that ended does not start again.                                 *)
Ended == \E k \in Launch : proxy[k] \notin {"none", "running"}
EndedInv == "callback" \in inbox \/ action = "success" => Ended

(* The batch trigger and the action never launch for the same mode; what   *)
(* either loaded is as it was, unless the plan stopped meanwhile.          *)
RowGone == action = "stopped" /\ row = "none"
LoadedInv ==
  /\ dispatching => mode = "batch" /\ (row = "new" \/ RowGone)
  /\ launching # "no" => mode # "batch" /\ action \in {"suspended", "stopped"}
  /\ launching = "insert" => row = "none"
  /\ launching = "update" => row = "external" \/ RowGone
  /\ mode = "batch" => row # "external" /\ (row = "none" => RowGone)

(* The hook follows the stop, and so may an insertion under way.           *)
StopInv ==
  /\ cleaning # "none" <=> action = "stopped"
  /\ action = "stopped" /\ launching = "insert" => cut

LaunchInv ==
  /\ ~lost => \A j, k \in Launched : j = k
  /\ ~lost /\ Launched # {} => ~dispatching /\ launching = "no" /\ (row = "triggered" \/ RowGone)

Inv == TypeOK /\ RetryInv /\ EndedInv /\ NoRowAfterStop /\ LoadedInv /\ StopInv /\ LaunchInv

Outcomes == {"none", "done", "cancelled", "missing", "failed", "connection"}
Retried == {"start", "cancel", "abort", "stopped"}
ProxyStates == {"none", "running", "success", "error", "gone"}

-----------------------------------------------------------------------------
LEMMA InvInitially == Init => Inv
<1> SUFFICES ASSUME Init PROVE Inv
  OBVIOUS
<1>1. /\ mode \in {"single", "batch", "external"} /\ row \in {"none", "new", "external"}
      /\ mode = "batch" => row = "new"
  BY ModesAssumption DEF Init
<1>2. Launched = {} /\ proxy \in [Launch -> ProxyStates]
  BY DEF Init, Launched, ProxyStates
<1>3. TypeOK
  <2>1. failed \in 0..(RetryCount + MaxResume) /\ resumes \in 0..MaxResume
    BY RetryAssumption, BoundsAssumption DEF Init
  <2>2. inbox \subseteq Events /\ pings \subseteq {"start", "cancel", "abort", "stopped"}
        /\ lost \in BOOLEAN /\ cancelSent \in BOOLEAN /\ dispatching \in BOOLEAN
    BY DEF Init, Events
  <2>3. /\ mode \in Modes /\ action = "suspended" /\ outcome = "none" /\ id = 0
        /\ launching = "no" /\ cleaning = "none" /\ cut = FALSE
    BY DEF Init
  <2> QED
    BY <1>1, <1>2, <2>1, <2>2, <2>3 DEF TypeOK, ProxyStates
<1>4. LoadedInv /\ StopInv /\ NoRowAfterStop
  BY <1>1 DEF Init, LoadedInv, StopInv, NoRowAfterStop
<1> QED
  BY <1>2, <1>3, <1>4, RetryAssumption, BoundsAssumption
     DEF Init, Inv, RetryInv, EndedInv, LaunchInv

(* What a failed request does to the action.                               *)
LEMMA FailureCounted ==
  ASSUME Inv, action = "suspended", NEW e \in Retried, CountFailure(e), UNCHANGED resumes
  PROVE  /\ action' \in {"suspended", "error"} /\ outcome' \in Outcomes
         /\ pings' \subseteq Retried /\ failed' \in 0..(RetryCount + MaxResume) /\ RetryInv'
<1>1. /\ failed \in Nat /\ resumes \in Nat /\ resumes <= MaxResume /\ MaxResume \in Nat
      /\ RetryCount \in Nat /\ failed < RetryCount + resumes
      /\ pings \subseteq Retried /\ outcome \in Outcomes
  BY RetryAssumption, BoundsAssumption DEF Inv, TypeOK, RetryInv, Retried, Outcomes
<1>2. /\ failed' = failed + 1
      /\ \/ failed' < RetryCount /\ action' = action /\ outcome' = outcome /\ pings' = pings \cup {e}
         \/ action' = "error" /\ outcome' = "connection" /\ pings' = pings
  BY DEF CountFailure
<1> QED
  BY <1>1, <1>2 DEF RetryInv, Outcomes

(* What a handler does to the action.                                      *)
LEMMA Handlers ==
  ASSUME Inv, action = "suspended", NEW e \in Events, UNCHANGED resumes,
         \/ Suspend(e)
         \/ \E why \in Outcomes : End(e, "error", why) \/ (Ended /\ End(e, "success", why))
         \/ e \in Retried /\ ConnectionError(e)
  PROVE  /\ action' \in {"suspended", "error", "success"} /\ outcome' \in Outcomes
         /\ inbox' = inbox \ {e} /\ inbox' \subseteq Events /\ pings' \subseteq Retried
         /\ failed' \in 0..(RetryCount + MaxResume) /\ RetryInv'
         /\ action' = "success" => Ended
<1>1. /\ failed \in 0..(RetryCount + MaxResume) /\ RetryInv
      /\ inbox \subseteq Events /\ pings \subseteq Retried /\ outcome \in Outcomes
  BY DEF Inv, TypeOK, Retried, Outcomes
<1>2. CASE Suspend(e)
  BY <1>1, <1>2 DEF Suspend, actionVars, RetryInv
<1>3. CASE \E why \in Outcomes : End(e, "error", why) \/ (Ended /\ End(e, "success", why))
  <2>1. PICK why \in Outcomes : End(e, "error", why) \/ (Ended /\ End(e, "success", why))
    BY <1>3
  <2>2. /\ action' \in {"error", "success"} /\ outcome' \in Outcomes
        /\ inbox' = inbox \ {e} /\ pings' = pings /\ failed' = failed
        /\ action' = "success" => Ended
    BY <2>1 DEF End
  <2> QED
    BY <1>1, <2>2 DEF RetryInv
<1>4. CASE e \in Retried /\ ConnectionError(e)
  <2>1. e \in Retried /\ CountFailure(e) /\ inbox' = inbox \ {e}
    BY <1>4 DEF ConnectionError
  <2> QED
    BY <1>1, <2>1, FailureCounted
<1> QED
  BY <1>2, <1>3, <1>4

(* A handler that leaves the row alone: it may begin a launch.             *)
LEMMA HandlerKeeps ==
  ASSUME Inv, action = "suspended", launching = "no", NEW e \in Events, cancelSent' \in BOOLEAN,
         \/ Suspend(e)
         \/ \E why \in Outcomes : End(e, "error", why) \/ (Ended /\ End(e, "success", why))
         \/ e \in Retried /\ ConnectionError(e),
         \/ launching' = "no"
         \/ launching' = "insert" /\ row = "none" /\ action' = "suspended"
         \/ launching' = "update" /\ row = "external" /\ action' = "suspended",
         UNCHANGED <<row, id, dispatching, proxy, lost, planVars>>
  PROVE  Inv'
<1> USE DEF planVars
<1>1. /\ action' \in {"suspended", "error", "success"} /\ outcome' \in Outcomes
      /\ inbox' = inbox \ {e} /\ inbox' \subseteq Events /\ pings' \subseteq Retried
      /\ failed' \in 0..(RetryCount + MaxResume) /\ RetryInv'
      /\ action' = "success" => Ended
  BY Handlers
<1>2. TypeOK'
  BY <1>1 DEF Inv, TypeOK, Outcomes, Retried
<1>3. EndedInv'
  BY <1>1 DEF Inv, EndedInv, Ended
<1>4. ~RowGone /\ ~RowGone' /\ action' # "stopped"
  BY <1>1 DEF RowGone
<1>5. NoRowAfterStop' /\ LoadedInv' /\ StopInv'
  BY <1>1, <1>4 DEF Inv, NoRowAfterStop, LoadedInv, StopInv
<1>6. Launched' = Launched
  BY DEF Launched
<1>7. LaunchInv'
  BY <1>4, <1>6 DEF Inv, LaunchInv
<1> QED
  BY <1>1, <1>2, <1>3, <1>5, <1>7 DEF Inv

(* Steps that only write the inbox, the pings or dispatching.              *)
LEMMA InboxKeeps ==
  ASSUME Inv, inbox' \subseteq Events, pings' \subseteq pings,
         "callback" \in inbox' => "callback" \in inbox,
         dispatching' = dispatching \/ (dispatching' = TRUE /\ row = "new" /\ mode = "batch"),
         UNCHANGED <<action, outcome, failed, cancelSent, row, id, launching, proxy, lost, planVars>>
  PROVE  Inv'
<1> USE DEF planVars
<1>1. TypeOK'
  <2>1. dispatching' \in BOOLEAN /\ pings' \subseteq {"start", "cancel", "abort", "stopped"}
    BY DEF Inv, TypeOK
  <2> QED
    BY <2>1 DEF Inv, TypeOK
<1>2. RowGone' = RowGone
  BY DEF RowGone
<1>3. RetryInv' /\ EndedInv' /\ NoRowAfterStop' /\ LoadedInv' /\ StopInv'
  BY <1>2 DEF Inv, RetryInv, EndedInv, Ended, NoRowAfterStop, LoadedInv, StopInv
<1>4. Launched' = Launched
  BY DEF Launched
<1>5. LaunchInv'
  BY <1>2, <1>4 DEF Inv, LaunchInv, RowGone
<1> QED
  BY <1>1, <1>3, <1>5 DEF Inv

(* A launch by whoever may.                                                *)
LEMMA StartedOne ==
  ASSUME Inv, NEW k \in Launch, StartOnProxy(k)
  PROVE  /\ proxy' \in [Launch -> ProxyStates]
         /\ Launched' = Launched \cup {k}
         /\ Ended => Ended'
<1>1. /\ proxy' \in [Launch -> ProxyStates] /\ proxy'[k] = "running" /\ proxy[k] = "none"
      /\ \A j \in Launch : j # k => proxy'[j] = proxy[j]
  BY DEF StartOnProxy, Inv, TypeOK, ProxyStates
<1> QED
  BY <1>1 DEF Launched, Ended

-----------------------------------------------------------------------------
(* The events.                                                             *)
LEMMA EventKeeps == ASSUME Inv, HandleEvent PROVE Inv'
<1>1. {"start", "cancel", "abort", "callback", "stopped", "missing", "failed"} \subseteq Events
      /\ {"cancel", "abort", "stopped"} \subseteq Retried
      /\ {"cancelled", "done", "missing", "failed"} \subseteq Outcomes
      /\ cancelSent \in BOOLEAN
  BY DEF Events, Retried, Outcomes, Inv, TypeOK
<1>2. CASE Cancel
  <2>1. cancelSent' \in BOOLEAN
    BY <1>1, <1>2 DEF Cancel
  <2> QED
    BY <1>1, <1>2, <2>1, HandlerKeeps DEF Cancel, Receive
<1>3. CASE Abort
  BY <1>1, <1>3, HandlerKeeps DEF Abort, Receive
<1>4. CASE Callback
  <2>1. Ended
    BY <1>4 DEF Callback, Receive, Inv, EndedInv
  <2> QED
    BY <1>1, <1>4, <2>1, HandlerKeeps DEF Callback, Receive
<1>5. CASE CheckTaskStatus
  <2>1. Known /\ proxy[id] = "success" => Ended
    BY DEF Known, Ended, Inv, TypeOK
  <2> QED
    BY <1>1, <1>5, <2>1, HandlerKeeps DEF CheckTaskStatus, Receive
<1>6. ASSUME NEW e \in Events, EndWithError(e) PROVE Inv'
  BY <1>1, <1>6, HandlerKeeps DEF EndWithError, Receive
<1>7. CASE StartOrResume
  <2>1. \/ launching' = "no"
        \/ launching' = "insert" /\ row = "none" /\ action' = "suspended"
        \/ launching' = "update" /\ row = "external" /\ action' = "suspended"
    BY <1>7 DEF StartOrResume, Suspend, Receive, actionVars
  <2> QED
    BY <1>1, <1>7, <2>1, HandlerKeeps DEF StartOrResume, Receive
<1> QED
  BY <1>2, <1>3, <1>4, <1>5, <1>6, <1>7 DEF HandleEvent

LEMMA SendKeeps ==
  ASSUME Inv, \/ \E e \in Events : Ping(e) \/ Request(e)
              \/ LoadPending \/ Watch \/ UNCHANGED vars
  PROVE  Inv'
<1> USE DEF actionVars
<1> inbox \subseteq Events /\ pings \subseteq Retried
  BY DEF Inv, TypeOK, Retried
<1>1. ASSUME NEW e \in Events, Ping(e) PROVE Inv'
  <2>1. e # "callback"
    BY <1>1 DEF Ping, Retried
  <2> QED
    BY <1>1, <2>1, InboxKeeps DEF Ping, Told
<1>2. ASSUME NEW e \in Events, Request(e) PROVE Inv'
  BY <1>2, InboxKeeps DEF Request
<1>3. CASE LoadPending
  BY <1>3, InboxKeeps DEF LoadPending
<1>4. CASE Watch
  BY <1>4, InboxKeeps DEF Watch, Events
<1>5. CASE UNCHANGED vars
  BY <1>5, InboxKeeps DEF vars, planVars
<1> QED
  BY <1>1, <1>2, <1>3, <1>4, <1>5

-----------------------------------------------------------------------------
(* The launches.  A launch ends that was the only one under way.           *)
LEMMA LaunchEnds ==
  ASSUME Inv, dispatching \/ launching # "no",
         dispatching' = FALSE, launching' = "no",
         UNCHANGED <<cancelSent, planVars>>,
         action' \in {action, "error"}, action = "stopped" => action' = "stopped",
         action # "stopped" => action' # "stopped",
         outcome' \in Outcomes, pings' \subseteq Retried,
         failed' \in 0..(RetryCount + MaxResume), RetryInv',
         inbox' \subseteq Events, "callback" \in inbox' => "callback" \in inbox,
         action' = "success" => action = "success",
         lost' \in BOOLEAN, lost => lost', id' \in {0} \cup Launch,
         row' \in {"none", "new", "external", "triggered"},
         \/ row' = row
         \/ row # "none" /\ row' = "triggered"
         \/ launching = "insert" /\ row' # "none",
         \/ UNCHANGED proxy
         \/ \E k \in Launch : StartOnProxy(k)
                           /\ (~lost' => row' = "triggered" \/ (row = "none" /\ row' = row /\ launching # "insert"))
  PROVE  Inv'
<1> USE DEF planVars
<1>1. proxy' \in [Launch -> ProxyStates] /\ (Ended => Ended')
      /\ (UNCHANGED proxy => Launched' = Launched)
      /\ \A k \in Launch : StartOnProxy(k) => Launched' = Launched \cup {k}
  BY StartedOne DEF Launched, Ended, Inv, TypeOK, ProxyStates
<1>2. TypeOK'
  <2>1. action' \in {"suspended", "error", "success", "stopped"} /\ dispatching' \in BOOLEAN
    BY DEF Inv, TypeOK
  <2>2. mode' \in Modes /\ cancelSent' \in BOOLEAN /\ resumes' \in 0..MaxResume
    BY DEF Inv, TypeOK
  <2>3. cleaning' \in {"none", "due", "done", "lost"} /\ cut' \in BOOLEAN
    BY DEF Inv, TypeOK
  <2>4. row' \in {"none", "new", "external", "triggered"} /\ id' \in {0} \cup Launch
        /\ failed' \in 0..(RetryCount + MaxResume) /\ lost' \in BOOLEAN /\ launching' = "no"
        /\ inbox' \subseteq Events
    OBVIOUS
  <2>5. outcome' \in {"none", "done", "cancelled", "missing", "failed", "connection"}
        /\ pings' \subseteq {"start", "cancel", "abort", "stopped"}
        /\ proxy' \in [Launch -> {"none", "running", "success", "error", "gone"}]
    BY <1>1 DEF Outcomes, Retried, ProxyStates
  <2> QED
    BY <2>1, <2>2, <2>3, <2>4, <2>5 DEF TypeOK
<1>3. EndedInv'
  BY <1>1 DEF Inv, EndedInv
<1>4. StopInv'
  BY DEF Inv, StopInv
<1>5. row = "none" => launching = "insert" \/ RowGone
  BY DEF Inv, TypeOK, LoadedInv
<1>6. LoadedInv'
  BY <1>5 DEF Inv, LoadedInv, RowGone
<1>7. NoRowAfterStop'
  <2> SUFFICES ASSUME cleaning = "done", row' # "none" PROVE cut
    BY DEF NoRowAfterStop
  <2>1. action = "stopped" /\ (row # "none" => cut)
    BY DEF Inv, StopInv, NoRowAfterStop
  <2>2. CASE row # "none"
    BY <2>1, <2>2
  <2>3. CASE row = "none"
    BY <2>1, <2>3 DEF Inv, StopInv
  <2> QED
    BY <2>2, <2>3
<1>8. LaunchInv'
  <2> SUFFICES ASSUME ~lost'
               PROVE  /\ \A j, k \in Launched' : j = k
                      /\ Launched' # {} => row' = "triggered" \/ RowGone'
    BY DEF LaunchInv
  <2>1. Launched = {}
    BY DEF Inv, LaunchInv
  <2>2. CASE UNCHANGED proxy
    BY <1>1, <2>1, <2>2
  <2>3. ASSUME NEW k \in Launch, StartOnProxy(k),
               row' = "triggered" \/ (row = "none" /\ row' = row /\ launching # "insert")
        PROVE  /\ \A i, j \in Launched' : i = j
               /\ row' = "triggered" \/ RowGone'
    <3>1. Launched' = {k}
      BY <1>1, <2>1, <2>3
    <3>2. row' = "triggered" \/ RowGone'
      BY <1>5, <2>3 DEF RowGone
    <3> QED
      BY <3>1, <3>2
  <2> QED
    BY <2>2, <2>3
<1> QED
  BY <1>2, <1>3, <1>4, <1>6, <1>7, <1>8 DEF Inv

(* What both launches have in common.                                      *)
LEMMA LaunchFacts ==
  ASSUME Inv
  PROVE  /\ outcome \in Outcomes /\ pings \subseteq Retried /\ inbox \subseteq Events
         /\ failed \in 0..(RetryCount + MaxResume) /\ RetryInv /\ lost \in BOOLEAN
         /\ id \in {0} \cup Launch /\ row \in {"none", "new", "external", "triggered"}
         /\ \A answer \in {"failed", "stopped"} :
              Told(answer) \subseteq Events /\ ("callback" \in Told(answer) => "callback" \in inbox)
BY DEF Inv, TypeOK, Outcomes, Retried, Events, Told

LEMMA DispatchKeeps == ASSUME Inv, Dispatch PROVE Inv'
<1> USE DEF actionVars, planVars
<1>1. /\ dispatching /\ dispatching' = FALSE /\ launching = "no" /\ launching' = "no"
      /\ UNCHANGED <<action, outcome, pings, failed, cancelSent, planVars>> /\ RetryInv'
  BY DEF Dispatch, Inv, LoadedInv, RetryInv
<1>2. CASE UNCHANGED <<row, proxy, lost>> /\ id' \in {0, id}
           /\ inbox' \in {inbox, Told("failed"), Told("stopped")}
  BY <1>1, <1>2, LaunchFacts, LaunchEnds
<1>3. ASSUME NEW k \in Launch, StartOnProxy(k), SaveRow(FALSE, "triggered", k), UNCHANGED <<inbox, lost>>
      PROVE  Inv'
  <2>1. \/ row # "none" /\ row' = "triggered" /\ id' = k
        \/ row = "none" /\ row' = row /\ id' = id
    BY <1>3 DEF SaveRow
  <2>2. \E j \in Launch : StartOnProxy(j)
                         /\ (~lost' => row' = "triggered" \/ (row = "none" /\ row' = row /\ launching # "insert"))
    BY <1>1, <1>3, <2>1
  <2> QED
    BY <1>1, <1>3, <2>1, <2>2, LaunchFacts, LaunchEnds
<1>4. ASSUME NEW k \in Launch, StartOnProxy(k), lost' = TRUE, UNCHANGED row, id' \in {0, id},
             inbox' \in {inbox, Told("failed")}
      PROVE  Inv'
  <2>1. \E j \in Launch : StartOnProxy(j)
                         /\ (~lost' => row' = "triggered" \/ (row = "none" /\ row' = row /\ launching # "insert"))
    BY <1>4
  <2> QED
    BY <1>1, <1>4, <2>1, LaunchFacts, LaunchEnds
<1> QED
  BY <1>2, <1>3, <1>4 DEF Dispatch

LEMMA TriggerKeeps == ASSUME Inv, TriggerProxyTask PROVE Inv'
<1> USE DEF actionVars, planVars
<1>1. /\ launching # "no" /\ launching' = "no" /\ dispatching = FALSE /\ dispatching' = FALSE
      /\ UNCHANGED <<cancelSent, planVars>> /\ mode # "batch" /\ action \in {"suspended", "stopped"}
      /\ (launching = "insert" => row = "none")
  BY DEF TriggerProxyTask, Inv, TypeOK, LoadedInv
<1>2. ASSUME LaunchRaises
      PROVE  /\ action' \in {action, "error"} /\ (action = "stopped" <=> action' = "stopped")
             /\ outcome' \in Outcomes /\ pings' \subseteq Retried
             /\ failed' \in 0..(RetryCount + MaxResume) /\ RetryInv' /\ action' # "success"
  <2>1. CASE action = "suspended" /\ CountFailure("start")
    BY <1>1, <2>1, FailureCounted DEF Retried
  <2>2. CASE ~(action = "suspended" /\ CountFailure("start"))
    BY <1>1, <1>2, <2>2, LaunchFacts DEF LaunchRaises, RetryInv, Outcomes
  <2> QED
    BY <2>1, <2>2
<1>3. ASSUME UNCHANGED <<action, outcome, pings, failed>>
      PROVE  /\ action' \in {action, "error"} /\ (action = "stopped" <=> action' = "stopped")
             /\ outcome' \in Outcomes /\ pings' \subseteq Retried
             /\ failed' \in 0..(RetryCount + MaxResume) /\ RetryInv' /\ action' # "success"
  BY <1>1, <1>3, LaunchFacts DEF RetryInv
<1>4. ASSUME NEW k \in Launch, StartOnProxy(k), SaveRow(launching = "insert", "triggered", k),
             UNCHANGED <<inbox, lost, action, outcome, pings, failed>>
      PROVE  Inv'
  <2>1. \/ (launching = "insert" \/ row # "none") /\ row' = "triggered" /\ id' = k
        \/ launching # "insert" /\ row = "none" /\ row' = row /\ id' = id
    BY <1>4 DEF SaveRow
  <2>2. \E j \in Launch : StartOnProxy(j)
                         /\ (~lost' => row' = "triggered" \/ (row = "none" /\ row' = row /\ launching # "insert"))
    BY <1>4, <2>1
  <2> QED
    BY <1>1, <1>3, <1>4, <2>1, <2>2, LaunchFacts, LaunchEnds
<1>5. ASSUME NEW answer \in {"failed", "stopped"}, inbox' = Told(answer),
             IF launching = "insert"
               THEN SaveRow(TRUE, IF mode = "external" THEN "external" ELSE "new", 0)
               ELSE SaveRow(FALSE, row, 0),
             UNCHANGED <<proxy, lost, action, outcome, pings, failed>>
      PROVE  Inv'
  <2>1. /\ id' \in {0, id}
        /\ row' = row \/ (launching = "insert" /\ row' \in {"external", "new"})
    BY <1>5 DEF SaveRow
  <2> QED
    BY <1>1, <1>3, <1>5, <2>1, LaunchFacts, LaunchEnds
<1>6. ASSUME LaunchRaises, UNCHANGED <<inbox, row, id, proxy, lost>> PROVE Inv'
  BY <1>1, <1>2, <1>6, LaunchFacts, LaunchEnds
<1>7. ASSUME NEW k \in Launch, StartOnProxy(k), lost' = TRUE, LaunchRaises, UNCHANGED <<inbox, row, id>>
      PROVE  Inv'
  <2>1. \E j \in Launch : StartOnProxy(j)
                         /\ (~lost' => row' = "triggered" \/ (row = "none" /\ row' = row /\ launching # "insert"))
    BY <1>7
  <2> QED
    BY <1>1, <1>2, <1>7, <2>1, LaunchFacts, LaunchEnds
<1> QED
  BY <1>4, <1>5, <1>6, <1>7 DEF TriggerProxyTask

(* The smart proxy.                                                        *)
LEMMA ProxyKeeps ==
  ASSUME Inv, ProxyRestarts \/ \E k \in Launch : ProxyEnds(k) PROVE Inv'
<1> USE DEF actionVars, planVars
<1>1. /\ UNCHANGED <<cancelSent, actionVars, row, id, dispatching, lost, launching, planVars>>
      /\ RetryInv' /\ NoRowAfterStop' /\ LoadedInv' /\ StopInv' /\ RowGone' = RowGone
  BY DEF ProxyRestarts, ProxyEnds, Inv, RetryInv, NoRowAfterStop, LoadedInv, StopInv, RowGone
<1>2. ASSUME proxy' \in [Launch -> ProxyStates], inbox' \subseteq Events,
             \A k \in Launch : proxy'[k] = "none" <=> proxy[k] = "none",
             \A k \in Launch : proxy[k] \notin {"none", "running"} => proxy'[k] \notin {"none", "running"},
             "callback" \in inbox' => "callback" \in inbox \/ Ended'
      PROVE  Inv'
  <2>1. Launched' = Launched
    BY <1>2 DEF Launched
  <2>2. LaunchInv'
    BY <1>1, <2>1 DEF Inv, LaunchInv
  <2>3. Ended => Ended'
    BY <1>2 DEF Ended
  <2>4. EndedInv'
    BY <1>1, <1>2, <2>3 DEF Inv, EndedInv
  <2>5. TypeOK'
    BY <1>1, <1>2 DEF Inv, TypeOK, ProxyStates
  <2> QED
    BY <1>1, <2>2, <2>4, <2>5 DEF Inv
<1>3. CASE ProxyRestarts
  <2>1. proxy' = [k \in Launch |-> IF proxy[k] = "none" THEN "none" ELSE "gone"] /\ inbox' = inbox
    BY <1>3 DEF ProxyRestarts
  <2>2. proxy' \in [Launch -> ProxyStates] /\ inbox' \subseteq Events
    BY <2>1 DEF ProxyStates, Inv, TypeOK
  <2> QED
    BY <1>2, <2>1, <2>2
<1>4. ASSUME NEW k \in Launch, ProxyEnds(k) PROVE Inv'
  <2>1. PICK s \in {"success", "error"} : proxy' = [proxy EXCEPT ![k] = s]
    BY <1>4 DEF ProxyEnds
  <2>2. /\ proxy[k] = "running" /\ proxy'[k] = s /\ proxy' \in [Launch -> ProxyStates]
        /\ \A j \in Launch : j # k => proxy'[j] = proxy[j]
    BY <1>4, <2>1 DEF ProxyEnds, Inv, TypeOK, ProxyStates
  <2>3. Ended'
    BY <2>2 DEF Ended
  <2>4. inbox' \subseteq Events
    BY <1>4 DEF ProxyEnds, Told, Inv, TypeOK, Events
  <2> QED
    BY <1>2, <2>2, <2>3, <2>4
<1> QED
  BY <1>3, <1>4

(* The execution plan.                                                     *)
LEMMA PlanKeeps == ASSUME Inv, Resume \/ Stop PROVE Inv'
<1> USE DEF planVars
<1>1. Launched' = Launched /\ (Ended => Ended')
  BY DEF Resume, Stop, Launched, Ended
<1>2. CASE Resume
  <2>1. TypeOK'
    <3>1. resumes' \in 0..MaxResume
      BY <1>2, BoundsAssumption DEF Resume, Inv, TypeOK
    <3>2. inbox' \subseteq Events /\ action' = "suspended" /\ outcome' = "none"
      BY <1>2 DEF Resume, Events
    <3> QED
      BY <1>2, <3>1, <3>2 DEF Resume, Inv, TypeOK
  <2>2. RetryInv'
    BY <1>2, RetryAssumption, BoundsAssumption DEF Resume, Inv, TypeOK, RetryInv
  <2>3. ~RowGone /\ ~RowGone' /\ launching = "no"
    BY <1>2 DEF Resume, RowGone, Inv, TypeOK, LoadedInv
  <2>4. EndedInv' /\ NoRowAfterStop' /\ LoadedInv' /\ StopInv'
    BY <1>2, <2>3 DEF Resume, Inv, EndedInv, NoRowAfterStop, LoadedInv, StopInv
  <2>5. LaunchInv'
    BY <1>1, <1>2, <2>3 DEF Resume, Inv, LaunchInv
  <2> QED
    BY <2>1, <2>2, <2>4, <2>5 DEF Inv
<1>3. CASE Stop
  <2>1. TypeOK'
    BY <1>3 DEF Stop, Inv, TypeOK
  <2>2. RowGone => RowGone'
    BY <1>3 DEF Stop, RowGone
  <2>3. RetryInv' /\ EndedInv' /\ NoRowAfterStop' /\ StopInv'
    BY <1>3 DEF Stop, Inv, RetryInv, EndedInv, NoRowAfterStop, StopInv
  <2>4. LoadedInv'
    BY <1>3, <2>2 DEF Stop, Inv, LoadedInv
  <2>5. LaunchInv'
    BY <1>1, <1>3, <2>2 DEF Stop, Inv, LaunchInv
  <2> QED
    BY <2>1, <2>3, <2>4, <2>5 DEF Inv
<1> QED
  BY <1>2, <1>3

LEMMA HookKeeps == ASSUME Inv, CleanRemoteTask \/ LoseHook PROVE Inv'
<1> USE DEF actionVars
<1>1. Launched' = Launched /\ (Ended => Ended') /\ action = "stopped" /\ action' = "stopped"
  BY DEF CleanRemoteTask, LoseHook, Launched, Ended, Inv, StopInv
<1>2. TypeOK'
  <2>1. CASE CleanRemoteTask
    BY <2>1 DEF CleanRemoteTask, Inv, TypeOK
  <2>2. CASE LoseHook
    BY <2>2 DEF LoseHook, Inv, TypeOK
  <2> QED
    BY <2>1, <2>2
<1>3. RetryInv' /\ EndedInv' /\ NoRowAfterStop' /\ StopInv'
  BY <1>1 DEF CleanRemoteTask, LoseHook, Inv, RetryInv, EndedInv, NoRowAfterStop, StopInv
<1>4. LoadedInv' /\ LaunchInv'
  BY <1>1 DEF CleanRemoteTask, LoseHook, Inv, LoadedInv, LaunchInv, RowGone
<1> QED
  BY <1>2, <1>3, <1>4 DEF Inv

LEMMA InvNext == Inv /\ [Next]_vars => Inv'
BY EventKeeps, SendKeeps, TriggerKeeps, DispatchKeeps, ProxyKeeps, PlanKeeps, HookKeeps DEF Next

-----------------------------------------------------------------------------
(* The types hold for any limit of retries and any number of resumes; the  *)
(* failures that are counted stay within the two together.                 *)
THEOREM TypesKept == Spec => []TypeOK
<1>1. Inv => TypeOK
  BY DEF Inv
<1> QED
  BY <1>1, InvInitially, InvNext, PTL DEF Spec

(* However a task may be launched, retried, resumed and dispatched, it is  *)
(* not launched a second time while no answer is lost.                     *)
THEOREM OneLaunch == Spec => []LaunchedOnce
<1>1. Inv => LaunchedOnce
  <2> SUFFICES ASSUME Inv, ~lost PROVE Cardinality(Launched) <= 1
    BY DEF LaunchedOnce
  <2>1. \A j, k \in Launched : j = k
    BY Zenon DEF Inv, LaunchInv
  <2> Launched = {} \/ \E k : Launched = {k}
    BY <2>1
  <2>2. Cardinality(Launched) = 0 \/ Cardinality(Launched) = 1
    BY FS_EmptySet, FS_Singleton
  <2> QED
    BY <2>2
<1> QED
  BY <1>1, InvInitially, InvNext, PTL DEF Spec

(* No way to success goes around a task that ended on the proxy.           *)
THEOREM EarnedSuccess == Spec => []SuccessIsEarned
<1>1. Inv => SuccessIsEarned
  BY DEF Inv, EndedInv, Ended, SuccessIsEarned, Launched
<1> QED
  BY <1>1, InvInitially, InvNext, PTL DEF Spec

(* A row that the hook of a stopped plan destroyed comes back only by an   *)
(* insertion that was under way when the plan was halted.                  *)
THEOREM RowStaysGone == Spec => []NoRowAfterStop
<1>1. Inv => NoRowAfterStop
  BY DEF Inv
<1> QED
  BY <1>1, InvInitially, InvNext, PTL DEF Spec
=============================================================================
