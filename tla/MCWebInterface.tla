------------------------ MODULE MCWebInterface ------------------------
(* Instances of WebInterface for TLC: a task and its two sub-tasks, some   *)
(* over and some not.  One instance has the requests of all pages and the  *)
(* polling of the details, one the list and the dashboard, one a           *)
(* cancellation by search.                                                 *)
EXTENDS WebInterface, TLC

CONSTANTS t1, t2, t3, s1, s2

Pages == {"index", "sub_tasks", t1, t2, t3}

(* All pages: a sub-task goes on beside a task and a sub-task that are     *)
(* over; the user may change all but the sub-task that is over.           *)
MCStarts == {t1 :> "stopped" @@ t2 :> "paused" @@ t3 :> "stopped"}
MCCalls == [p \in Pages |-> IF p \in {"sub_tasks", t2} THEN 1 ELSE 0]
MCNone == [p \in Pages |-> 0]
MCLinks == [p \in Pages |->
  CASE p = "sub_tasks" -> {NoQuery, [NoQuery EXCEPT !.state = "stopped"]}
    [] p \in {t1, t2} -> {NoQuery}
    [] OTHER -> {}]

(* The list: nothing moves, and the dashboard is used, the page reloaded   *)
(* by its button, and the history gone through.                            *)
MCOver == {t1 :> "stopped" @@ t2 :> "stopped" @@ t3 :> "paused"}
MCLoads == [p \in Pages |-> IF p = "index" THEN 2 ELSE 0]
MCListLinks == [p \in Pages |-> IF p = "index" THEN
  {NoQuery, [NoQuery EXCEPT !.state = "paused", !.mode = "recent", !.time = "H12"]} ELSE {}]

(* The cancellation by search: all run, and the table lists those that do. *)
MCAllRun == {t1 :> "running" @@ t2 :> "running" @@ t3 :> "running"}
MCRunningLinks == [MCLinks EXCEPT !["sub_tasks"] = {[NoQuery EXCEPT !.state = "running"]}]
=============================================================================
