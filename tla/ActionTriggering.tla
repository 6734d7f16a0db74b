--------------------------- MODULE ActionTriggering ---------------------------
(***************************************************************************)
(* A record whose class prepends ForemanTasks::Concerns::ActionTriggering: *)
(* saving or destroying it plans a hook action inside the transaction of   *)
(* the save and executes the plan after the commit.  The concern passes    *)
(* what it has to remember through instance variables of the record, while *)
(* callbacks of the record may raise or save the record once more.         *)
(*                                                                         *)
(* One object of the record in one thread.  update and update! assign the  *)
(* attributes and call save inside a wrapping of their own, which resets   *)
(* the flags a moment earlier and does the same otherwise.                 *)
(***************************************************************************)
EXTENDS Naturals, Sequences

CONSTANTS
  MaxCall,   \* bound on the calls of save and destroy, nested ones included
  MaxNesting,  \* bound on how deep they nest
  MaxPlan    \* bound on the plans

ASSUME BoundsAssumption ==
  MaxCall \in Nat /\ MaxNesting \in Nat \ {0} /\ MaxPlan \in Nat \ {0}

VARIABLES
  outer,          \* the caller has a transaction of its own open
  disabled,       \* @_disable_dynflow_hooks
  wrapped,        \* @_dynflow_task_wrapped
  hook,           \* @_dynflow_hook_action is set
  sync,           \* @dynflow_sync_action
  executionPlan,  \* @execution_plan, 0 for nil
  stack,          \* the calls of save and destroy that have not returned
  plan,           \* plan[p]: an execution plan and the rows of its planning
  calls,          \* the calls made so far
  plain           \* so far no call was nested and none raised

flags == <<disabled, wrapped, hook, sync, executionPlan>>
triggeringVars == <<outer, flags, stack, plan, calls, plain>>

HookPlan == 1..MaxPlan
Unused == [state |-> "none", rows |-> "none", wanted |-> FALSE, starts |-> 0, end |-> "none"]
Call == [wraps : BOOLEAN, step : {"before", "after", "committed", "waiting"}]
PlanRow == [state : {"none", "planned", "failed"},
            rows : {"none", "open", "committed", "rolledback"}, wanted : BOOLEAN,
            starts : 0..1, end : {"none", "running", "success", "error"}]

TriggeringTypeOK ==
  /\ outer \in BOOLEAN /\ disabled \in BOOLEAN /\ wrapped \in BOOLEAN
  /\ hook \in BOOLEAN /\ sync \in BOOLEAN /\ plain \in BOOLEAN
  /\ executionPlan \in 0..MaxPlan
  /\ stack \in Seq(Call) /\ Len(stack) <= MaxNesting
  /\ plan \in [HookPlan -> PlanRow]
  /\ calls \in 0..MaxCall

TriggeringInit ==
  /\ outer = FALSE /\ disabled = FALSE /\ wrapped = FALSE /\ hook = FALSE
  /\ sync = FALSE /\ executionPlan = 0 /\ stack = <<>>
  /\ plan = [p \in HookPlan |-> Unused]
  /\ calls = 0 /\ plain = TRUE

-----------------------------------------------------------------------------
noCall == stack = <<>>
TopCall == stack[Len(stack)]
At(step) == ~noCall /\ TopCall.step = step
GoTo(step) == stack' = [stack EXCEPT ![Len(stack)].step = step]
Return == stack' = SubSeq(stack, 1, Len(stack) - 1)

(* Code outside the concern runs between calls and in their callbacks.     *)
CodeRuns == ~At("waiting")

(* A save inside the transaction of another one joins it.                  *)
OpenBelow(n) == outer \/ \E i \in 1..n : stack[i].step # "committed"
Joined == OpenBelow(Len(stack) - 1)

Settled(rows) ==
  [p \in HookPlan |-> IF plan[p].rows = "open" THEN [plan[p] EXCEPT !.rows = rows] ELSE plan[p]]

(* The ensure of dynflow_task_wrap, which also follows the early return.   *)
ResetWrap == hook' = FALSE /\ wrapped' = FALSE

(* An exception leaves all the calls and rolls the transaction back; the   *)
(* other flags stay as they are.                                           *)
Raised(planned) ==
  /\ stack' = <<>> /\ ResetWrap /\ plain' = FALSE
  /\ plan' = [p \in HookPlan |-> IF planned[p].rows = "open" /\ ~outer
                                 THEN [planned[p] EXCEPT !.rows = "rolledback"] ELSE planned[p]]

-----------------------------------------------------------------------------
(* Mutant: no ensure_not_in_transaction!.                                  *)
Refused_Never(h) == FALSE

Refused(h) == h /\ OpenBelow(Len(stack))

(* save or destroy is called.  h: create_action, update_action or          *)
(* destroy_action names an action; s: it calls sync_action! as well.       *)
Enter(h, s) ==
  /\ CodeRuns /\ calls < MaxCall /\ Len(stack) < MaxNesting
  /\ calls' = calls + 1
  /\ UNCHANGED <<outer, disabled, executionPlan>>
  /\ IF disabled \/ wrapped
     THEN /\ stack' = Append(stack, [wraps |-> FALSE, step |-> "before"])
          /\ plain' = (plain /\ noCall)
          /\ UNCHANGED <<wrapped, hook, sync, plan>>
     ELSE /\ sync' = (sync \/ (h /\ s))
          /\ IF Refused(h)
             THEN Raised(plan)
             ELSE /\ wrapped' = TRUE /\ hook' = h
                  /\ stack' = Append(stack, [wraps |-> TRUE, step |-> "before"])
                  /\ plain' = (plain /\ noCall)
                  /\ UNCHANGED plan

NewPlan(p, state) ==
  [plan EXCEPT ![p] = [state |-> state, rows |-> "open", wanted |-> sync,
                       starts |-> 0, end |-> "none"]]

FirstUnused(p) == plan[p] = Unused /\ \A q \in 1..(p - 1) : plan[q] # Unused

(* Mutant: @execution_plan ||= ..., the plan of an earlier call stays.     *)
PlanHook_KeepsFirst ==
  /\ At("before") /\ hook
  /\ \E p \in HookPlan :
       /\ FirstUnused(p)
       /\ executionPlan' = IF executionPlan = 0 THEN p ELSE executionPlan
       /\ plan' = NewPlan(p, "planned")
  /\ GoTo("after")
  /\ UNCHANGED <<outer, disabled, wrapped, hook, sync, calls, plain>>

(* The row is written, and the hook plans its action.                      *)
PlanHook ==
  /\ At("before") /\ hook
  /\ \E p \in HookPlan :
       /\ FirstUnused(p)
       /\ executionPlan' = p
       /\ plan' = NewPlan(p, "planned")
  /\ GoTo("after")
  /\ UNCHANGED <<outer, disabled, wrapped, hook, sync, calls, plain>>

PlanHookFails ==
  /\ At("before") /\ hook
  /\ \E p \in HookPlan :
       /\ FirstUnused(p)
       /\ executionPlan' = p
       /\ Raised(NewPlan(p, "failed"))
  /\ UNCHANGED <<outer, disabled, sync, calls>>

WriteOnly ==
  /\ At("before") /\ ~hook
  /\ GoTo("after")
  /\ UNCHANGED <<outer, flags, plan, calls, plain>>

(* Rails commits, unless the transaction belongs to a call further out.    *)
Commit ==
  /\ At("after") /\ ~Joined
  /\ plan' = Settled("committed")
  /\ GoTo("committed")
  /\ UNCHANGED <<outer, flags, calls, plain>>

(* A callback raises, or save! finds the record invalid.                   *)
CallbackRaises ==
  /\ ~noCall /\ CodeRuns
  /\ Raised(plan)
  /\ UNCHANGED <<outer, disabled, sync, executionPlan, calls>>

(* The record is invalid or a callback halts: save returns false.          *)
NotSaved ==
  /\ At("before")
  /\ plan' = IF Joined THEN plan ELSE Settled("rolledback")
  /\ Return /\ ResetWrap
  /\ sync' = (sync /\ ~TopCall.wraps)
  /\ UNCHANGED <<outer, disabled, executionPlan, calls, plain>>

-----------------------------------------------------------------------------
(* save returns true: dynflow_task_wrap goes on.                           *)
Saved == At("committed") \/ (At("after") /\ Joined)

ReturnOnly ==
  /\ Saved /\ (~TopCall.wraps \/ executionPlan = 0)
  /\ Return /\ ResetWrap
  /\ sync' = (sync /\ ~TopCall.wraps)
  /\ UNCHANGED <<outer, disabled, executionPlan, plan, calls, plain>>

(* Dynflow rejects a plan that failed.                                     *)
Started(p) == [plan EXCEPT ![p].starts = @ + 1,
                           ![p].end = IF plan[p].state = "failed" THEN "error" ELSE "running"]

Execute ==
  /\ Saved /\ TopCall.wraps /\ executionPlan # 0 /\ ~sync
  /\ plan' = Started(executionPlan)
  /\ executionPlan' = 0
  /\ Return /\ ResetWrap
  /\ UNCHANGED <<outer, disabled, sync, calls, plain>>

ExecuteAndWait ==
  /\ Saved /\ TopCall.wraps /\ executionPlan # 0 /\ sync
  /\ plan' = Started(executionPlan)
  /\ GoTo("waiting")
  /\ UNCHANGED <<outer, flags, calls, plain>>

(* Mutant: any end will do.                                                *)
WaitOver_AnyEnd ==
  /\ At("waiting") /\ plan[executionPlan].end \in {"success", "error"}
  /\ executionPlan' = 0 /\ sync' = FALSE
  /\ Return /\ ResetWrap
  /\ UNCHANGED <<outer, disabled, plan, calls, plain>>

WaitOver ==
  /\ At("waiting") /\ plan[executionPlan].end = "success"
  /\ executionPlan' = 0 /\ sync' = FALSE
  /\ Return /\ ResetWrap
  /\ UNCHANGED <<outer, disabled, plan, calls, plain>>

(* The TaskError leaves sync_action_flag_reset! out.                       *)
WaitRaises ==
  /\ At("waiting") /\ plan[executionPlan].end = "error"
  /\ executionPlan' = 0
  /\ Raised(plan)
  /\ UNCHANGED <<outer, disabled, sync, calls>>

-----------------------------------------------------------------------------
(* The surroundings: an executor, the caller's own transaction, and        *)
(* disable_dynflow_hooks and enable_dynflow_hooks.                         *)
EndPlan(p) ==
  /\ plan[p].end = "running"
  /\ \E end \in {"success", "error"} : plan' = [plan EXCEPT ![p].end = end]
  /\ UNCHANGED <<outer, flags, stack, calls, plain>>

OuterBegins ==
  /\ noCall /\ ~outer
  /\ outer' = TRUE
  /\ UNCHANGED <<flags, stack, plan, calls, plain>>

OuterEnds ==
  /\ noCall /\ outer
  /\ outer' = FALSE
  /\ \E rows \in {"committed", "rolledback"} : plan' = Settled(rows)
  /\ UNCHANGED <<flags, stack, calls, plain>>

ToggleHooks ==
  /\ CodeRuns
  /\ disabled' = ~disabled
  /\ UNCHANGED <<outer, wrapped, hook, sync, executionPlan, stack, plan, calls, plain>>

WrapStep ==
  \/ PlanHook \/ PlanHookFails \/ WriteOnly \/ Commit \/ CallbackRaises \/ NotSaved
  \/ ReturnOnly \/ Execute \/ ExecuteAndWait \/ WaitOver \/ WaitRaises

TriggeringNext ==
  \/ WrapStep \/ OuterBegins \/ OuterEnds \/ ToggleHooks
  \/ \E h, s \in BOOLEAN : Enter(h, s)
  \/ \E p \in HookPlan : EndPlan(p)

TriggeringSpec == TriggeringInit /\ [][TriggeringNext]_triggeringVars

-----------------------------------------------------------------------------
(* Properties.                                                             *)

(* As long as callbacks neither save nor raise, every committed plan has   *)
(* been started by the time the caller goes on, once, after its commit and *)
(* not inside a transaction of the caller.                                 *)
PlainCallsExecute ==
  plain => \A p \in HookPlan :
             /\ plan[p].starts > 0 => plan[p].rows = "committed"
             /\ plan[p].rows = "committed" /\ noCall => plan[p].starts = 1

(* In such calls a hook action that was made synchronous has succeeded     *)
(* when save returns: the caller learns of its failure by an exception.    *)
SyncAnswered ==
  plain /\ noCall => \A p \in HookPlan :
                     plan[p].wanted /\ plan[p].rows = "committed" => plan[p].end = "success"

(* Also after exceptions and with nested saves, a call whose hook has been *)
(* planned never starts what an earlier call left behind: the plan started *)
(* is the newest one there is, and it has not been started before.         *)
StartsNewest ==
  [][\A p, q \in HookPlan :
       plan'[p].starts > plan[p].starts /\ plan[q] # Unused =>
         q <= p /\ plan[p].starts = 0]_triggeringVars

(* The comment above plan_action: the transaction of the planning phase is *)
(* expected to be committed when the execution occurs.                     *)
ExecutedAfterCommit ==
  \A p \in HookPlan : plan[p].state = "planned" /\ plan[p].starts > 0 => plan[p].rows = "committed"
=============================================================================
