--------------------------- MODULE TaskLocksProofs ---------------------------
(***************************************************************************)
(* Proofs about TaskLocks for every set of tasks and resources and every   *)
(* parent relation: type correctness, the inductive invariant LocksInv,    *)
(* the two exclusion properties that follow from it, and the refinement of *)
(* AbstractLock and AbstractTask.                                          *)
(***************************************************************************)
EXTENDS TaskLocks, TLAPS

(* The lookup for existing locks ranges over the task and over tasks only. *)
LEMMA FamilyFacts ==
  \A t \in Task : t \in SelfAndParents(t) /\ SelfAndParents(t) \subseteq Task
  BY DEF SelfAndParents

(* Type correctness: every step of planning, running, the hooks and the    *)
(* consistency check keeps the variables in their types.                   *)
THEOREM TypeCorrect == Spec => []TypeOK
<1>1. Init => TypeOK
  BY DEF Init, TypeOK, PlanStates, RowStates
<1>2. TypeOK /\ [Next]_vars => TypeOK'
  <2> SUFFICES ASSUME TypeOK, [Next]_vars PROVE TypeOK'
    OBVIOUS
  <2> USE DEF TypeOK, PlanStates, RowStates, planningVars, checkerVars
  <2>1. CASE CheckNext
    BY <2>1 DEF CheckNext, CheckBegin, CheckResync, CheckSelect, CheckDestroy, CheckEnd
  <2>2. ASSUME NEW t \in Task, PlanNext(t) PROVE TypeOK'
    <3>1. CASE BeginPlanning(t)
      BY <3>1 DEF BeginPlanning
    <3>2. ASSUME NEW r \in Resource,
                 UseFamilyLock(t, r) \/ RequestLock(t, r) \/ LinkOnly(t, r)
          PROVE TypeOK'
      BY <3>2, RelatedAssumption DEF UseFamilyLock, RequestLock, LinkOnly, LinkAll
    <3>3. CASE InsertLock(t)
      BY <3>3, RelatedAssumption DEF InsertLock, LinkAll
    <3>4. CASE Rollback(t)
      BY <3>4 DEF Rollback, StopPlan
    <3>5. CASE Commit(t)
      BY <3>5 DEF Commit
    <3>6. CASE StartRun(t) \/ Invalidate(t)
      BY <3>6 DEF StartRun, Invalidate, StopPlan
    <3>7. CASE CrashPlanner(t) /\ txn[t] = "open"
      BY <3>7 DEF CrashPlanner
    <3>8. CASE CrashPlanner(t) /\ txn[t] # "open"
      BY <3>8 DEF CrashPlanner
    <3> QED
      BY <2>2, <3>1, <3>2, <3>3, <3>4, <3>5, <3>6, <3>7, <3>8
      DEF PlanNext, ValidationConflict, InsertConflict, DeadlockVictim, PlanError
  <2>3. ASSUME NEW t \in Task, RunNext(t) PROVE TypeOK'
    BY <2>3 DEF RunNext, Finish, Halt, SyncHook, DropLock, DropDone, HookLost, StopPlan
  <2>4. CASE UNCHANGED vars
    BY <2>4 DEF vars
  <2> QED
    BY <2>1, <2>2, <2>3, <2>4 DEF Next
<1> QED
  BY <1>1, <1>2, PTL DEF Spec

-----------------------------------------------------------------------------
(* A plan that is stopped stays stopped, so a task whose ancestors are all *)
(* live after a step had them live before it.                              *)
LEMMA StopIsFinal ==
  ASSUME TypeOK, [Next]_vars, NEW t \in Task, plan[t] = "stopped"
  PROVE  plan'[t] = "stopped"
<1> USE DEF TypeOK
<1>1. CASE CheckNext
  BY <1>1 DEF CheckNext, CheckBegin, CheckResync, CheckSelect, CheckDestroy, CheckEnd
<1>2. ASSUME NEW u \in Task, PlanNext(u) PROVE plan'[t] = "stopped"
  <2>1. CASE Rollback(u)
    BY <2>1 DEF Rollback, StopPlan
  <2>2. CASE BeginPlanning(u) \/ StartRun(u) \/ CrashPlanner(u) \/ Invalidate(u)
             \/ InsertLock(u) \/ Commit(u)
    BY <2>2 DEF BeginPlanning, StartRun, CrashPlanner, Invalidate, InsertLock, Commit,
                StopPlan
  <2>3. ASSUME NEW r \in Resource,
               UseFamilyLock(u, r) \/ RequestLock(u, r) \/ LinkOnly(u, r)
        PROVE plan'[t] = "stopped"
    BY <2>3 DEF UseFamilyLock, RequestLock, LinkOnly
  <2> QED
    BY <1>2, <2>1, <2>2, <2>3
    DEF PlanNext, ValidationConflict, InsertConflict, DeadlockVictim, PlanError
<1>3. ASSUME NEW u \in Task, RunNext(u) PROVE plan'[t] = "stopped"
  BY <1>3 DEF RunNext, Finish, Halt, SyncHook, DropLock, DropDone, HookLost, StopPlan
<1>4. CASE UNCHANGED vars
  BY <1>4 DEF vars
<1> QED
  BY <1>1, <1>2, <1>3, <1>4 DEF Next

LEMMA AncestorsLiveBefore ==
  ASSUME TypeOK, [Next]_vars, NEW t \in Task, AncestorsLive(t)'
  PROVE  AncestorsLive(t)
  BY StopIsFinal, FamilyFacts DEF AncestorsLive

-----------------------------------------------------------------------------
(* The inductive invariant, one lemma per kind of step.                    *)

LEMMA CheckerKeepsLocksInv ==
  ASSUME TypeOK, TypeOK', LocksInv, CheckNext
  PROVE  LocksInv'
<1> USE DEF TypeOK
<1>1. [Next]_vars
  BY DEF Next
<1>2. UNCHANGED <<plan, hooks, planningVars>>
  BY DEF CheckNext, CheckBegin, CheckResync, CheckSelect, CheckDestroy, CheckEnd
<1>3. \A t \in Task :
        /\ row'[t] = "stopped" \/ t \in stale' => plan[t] = "stopped"
        /\ \A r \in Resource : <<r, t>> \in victims' => plan[t] = "stopped"
  <2> USE DEF LocksInv, StopKnown
  <2>1. CASE CheckBegin
    BY <2>1 DEF CheckBegin
  <2>2. ASSUME NEW u \in Task, CheckResync(u)
        PROVE \A t \in Task : row'[t] = "stopped" \/ t \in stale' => plan[t] = "stopped"
    BY <2>2 DEF CheckResync
  <2>3. ASSUME NEW u \in Task, CheckResync(u) PROVE UNCHANGED victims
    BY <2>3 DEF CheckResync
  <2>4. CASE CheckSelect
    BY <2>4 DEF CheckSelect
  <2>5. ASSUME NEW u \in Task, NEW q \in Resource, CheckDestroy(q, u)
        PROVE UNCHANGED <<row, stale>> /\ victims' \subseteq victims
    BY <2>5 DEF CheckDestroy
  <2>6. CASE CheckEnd
    BY <2>6 DEF CheckEnd
  <2> QED
    BY <2>1, <2>2, <2>3, <2>4, <2>5, <2>6 DEF CheckNext
<1>4. \A r \in Resource : \/ lock'[r] = lock[r]
                          \/ lock[r] \in Task /\ plan[lock[r]] = "stopped"
                             /\ lock'[r] = NoTask
  BY DEF LocksInv, StopKnown, CheckNext, CheckBegin, CheckResync, CheckSelect,
         CheckDestroy, CheckEnd
<1>5. OneRow'
  BY <1>2, <1>4 DEF LocksInv, OneRow, planningVars
<1>6. OwnerCommitted'
  BY <1>2, <1>4, NoTaskAssumption DEF LocksInv, OwnerCommitted, planningVars
<1>7. StopKnown'
  BY <1>2, <1>3 DEF LocksInv, StopKnown
<1>8. TxnMatchesPlan'
  BY <1>2 DEF LocksInv, TxnMatchesPlan, planningVars
<1>9. UsesCovered'
  <2> SUFFICES ASSUME NEW t \in Task, plan[t] # "stopped", AncestorsLive(t),
                      NEW r \in uses[t]
               PROVE  r \in inserted[t] \/ lock'[r] \in SelfAndParents(t)
    BY <1>2 DEF UsesCovered, AncestorsLive, planningVars
  <2>1. r \in inserted[t] \/ lock[r] \in SelfAndParents(t)
    BY DEF LocksInv, UsesCovered
  <2> QED
    BY <2>1, <1>4 DEF AncestorsLive
<1> QED
  BY <1>5, <1>6, <1>7, <1>8, <1>9 DEF LocksInv

(* Running, halting and the hooks: the plan may stop, a lock of a stopped  *)
(* plan may go.                                                            *)
LEMMA RunKeepsLocksInv ==
  ASSUME TypeOK, TypeOK', LocksInv, NEW t \in Task, RunNext(t)
  PROVE  LocksInv'
<1> USE DEF TypeOK
<1>1. [Next]_vars
  BY DEF Next
<1>2. UNCHANGED <<planningVars, checkerVars>>
  BY DEF RunNext, Finish, Halt, SyncHook, DropLock, DropDone, HookLost, StopPlan
<1>3. \/ /\ UNCHANGED <<plan, lock>>
         /\ hooks'[t] \subseteq hooks[t]
         /\ \A u \in Task \ {t} : hooks'[u] = hooks[u]
         /\ (hooks[t] = {} => row' = row)
         /\ \A u \in Task \ {t} : row'[u] = row[u]
      \/ UNCHANGED <<row, lock>> /\ plan[t] = "running" /\ StopPlan(t)
      \/ /\ UNCHANGED <<row, plan, hooks>> /\ hooks[t] # {}
         /\ \E r \in Resource : lock[r] = t /\ lock' = [lock EXCEPT ![r] = NoTask]
  BY DEF RunNext, Finish, Halt, SyncHook, DropLock, DropDone, HookLost
<1>4. \A u \in Task : plan[u] = "stopped" => plan'[u] = "stopped"
  BY <1>1, StopIsFinal
<1>5. \A r \in Resource : \/ lock'[r] = lock[r]
                          \/ lock[r] = t /\ plan[t] = "stopped" /\ lock'[r] = NoTask
  BY <1>3 DEF LocksInv, StopKnown
<1>6. OneRow'
  BY <1>2, <1>5 DEF LocksInv, OneRow, planningVars
<1>7. OwnerCommitted'
  BY <1>2, <1>5 DEF LocksInv, OwnerCommitted, planningVars
<1>8. StopKnown'
  <2>1. ASSUME NEW u \in Task,
               row'[u] = "stopped" \/ hooks'[u] # {} \/ u \in stale'
        PROVE  plan'[u] = "stopped"
    <3>1. stale' = stale
      BY <1>2 DEF checkerVars
    <3>2. hooks[t] = {} => row' = row
      BY <1>3
    <3>3. hooks[t] = {} => hooks'[t] = {} \/ plan'[t] = "stopped"
      BY <1>3 DEF StopPlan
    <3>4. u # t => row'[u] = row[u] /\ hooks'[u] = hooks[u]
      BY <1>3 DEF StopPlan
    <3>5. row[u] = "stopped" \/ hooks[u] # {} \/ u \in stale => plan[u] = "stopped"
      BY DEF LocksInv, StopKnown
    <3> QED
      BY <1>4, <2>1, <3>1, <3>2, <3>3, <3>4, <3>5
  <2>2. ASSUME NEW u \in Task, NEW r \in Resource, <<r, u>> \in victims'
        PROVE  plan'[u] = "stopped"
    BY <1>2, <1>4, <2>2 DEF LocksInv, StopKnown, checkerVars
  <2> QED
    BY <2>1, <2>2 DEF StopKnown
<1>9. TxnMatchesPlan'
  BY <1>2, <1>3 DEF LocksInv, TxnMatchesPlan, planningVars, StopPlan
<1>10. UsesCovered'
  <2> SUFFICES ASSUME NEW u \in Task, AncestorsLive(u)', plan'[u] # "stopped",
                      NEW r \in uses[u]
               PROVE  r \in inserted[u] \/ lock'[r] \in SelfAndParents(u)
    BY <1>2 DEF UsesCovered, planningVars
  <2>1. AncestorsLive(u) /\ plan[u] # "stopped"
    BY <1>1, <1>4, AncestorsLiveBefore
  <2>2. r \in inserted[u] \/ lock[r] \in SelfAndParents(u)
    BY <2>1 DEF LocksInv, UsesCovered
  <2> QED
    BY <2>1, <2>2, <1>5 DEF AncestorsLive
<1> QED
  BY <1>6, <1>7, <1>8, <1>9, <1>10 DEF LocksInv

(* Steps of a planner that end neither its plan nor its transaction: only  *)
(* a new row of its own or a lock of its family adds to what it relies on. *)
LEMMA LockingKeepsLocksInv ==
  ASSUME TypeOK, TypeOK', LocksInv, NEW t \in Task,
         \/ InsertLock(t)
         \/ \E r \in Resource : UseFamilyLock(t, r) \/ RequestLock(t, r) \/ LinkOnly(t, r)
  PROVE  LocksInv'
<1> USE DEF TypeOK
<1>1. /\ Planning(t)
      /\ UNCHANGED <<plan, row, hooks, lock, txn, planners, checkerVars>>
  BY DEF InsertLock, UseFamilyLock, RequestLock, LinkOnly
<1>2. \/ UNCHANGED <<inserted, uses>>
      \/ \E r \in Resource :
           /\ VisibleOwner(t, r) \in SelfAndParents(t)
           /\ uses' = [uses EXCEPT ![t] = @ \cup {r}] /\ UNCHANGED inserted
      \/ \E r \in Resource :
           /\ lock[r] = NoTask /\ Blockers(t, r) = {}
           /\ inserted' = [inserted EXCEPT ![t] = @ \cup {r}]
           /\ uses' = [uses EXCEPT ![t] = @ \cup {r}]
  BY DEF InsertLock, UseFamilyLock, RequestLock, LinkOnly
<1>3. OneRow'
  BY <1>1, <1>2 DEF LocksInv, OneRow, Planning, Blockers
<1>4. OwnerCommitted' /\ StopKnown'
  BY <1>1 DEF LocksInv, OwnerCommitted, StopKnown, checkerVars
<1>5. TxnMatchesPlan'
  BY <1>1, <1>2 DEF LocksInv, TxnMatchesPlan, Planning
<1>6. UsesCovered'
  <2> SUFFICES ASSUME NEW u \in Task, AncestorsLive(u), plan[u] # "stopped",
                      NEW r \in uses'[u]
               PROVE  r \in inserted'[u] \/ lock[r] \in SelfAndParents(u)
    BY <1>1 DEF UsesCovered, AncestorsLive
  <2> QED
    BY <1>2 DEF LocksInv, UsesCovered, VisibleOwner
<1> QED
  BY <1>3, <1>4, <1>5, <1>6 DEF LocksInv

(* A commit turns the rows of t into committed ones; OneRow says that it   *)
(* overwrites no lock.                                                     *)
LEMMA CommitKeepsLocksInv ==
  ASSUME TypeOK, TypeOK', LocksInv, NEW t \in Task, Commit(t)
  PROVE  LocksInv'
<1> USE DEF TypeOK
<1>1. /\ UNCHANGED <<plan, row, hooks, planners, waiting, uses, links, checkerVars>>
      /\ plan[t] = "planning" /\ txn[t] = "open" /\ t \in planners
      /\ txn' = [txn EXCEPT ![t] = "committed"]
      /\ inserted' = [inserted EXCEPT ![t] = {}]
      /\ \A r \in Resource : \/ r \in inserted[t] /\ lock[r] = NoTask /\ lock'[r] = t
                             \/ r \notin inserted[t] /\ lock'[r] = lock[r]
  BY DEF Commit, LocksInv, OneRow
<1>2. OneRow'
  BY <1>1 DEF LocksInv, OneRow
<1>3. OwnerCommitted'
  BY <1>1 DEF LocksInv, OwnerCommitted
<1>4. StopKnown'
  BY <1>1 DEF LocksInv, StopKnown, checkerVars
<1>5. TxnMatchesPlan'
  BY <1>1 DEF LocksInv, TxnMatchesPlan
<1>6. UsesCovered'
  <2> SUFFICES ASSUME NEW u \in Task, AncestorsLive(u), plan[u] # "stopped",
                      NEW r \in uses[u]
               PROVE  r \in inserted'[u] \/ lock'[r] \in SelfAndParents(u)
    BY <1>1 DEF UsesCovered, AncestorsLive
  <2>1. r \in inserted[u] \/ lock[r] \in SelfAndParents(u)
    BY DEF LocksInv, UsesCovered
  <2> QED
    BY <1>1, <2>1, FamilyFacts, NoTaskAssumption
<1> QED
  BY <1>2, <1>3, <1>4, <1>5, <1>6 DEF LocksInv

(* The ends of a planning phase and the start of a run. *)
LEMMA EndOfPlanningKeepsLocksInv ==
  ASSUME TypeOK, TypeOK', LocksInv, NEW t \in Task,
         \/ BeginPlanning(t) \/ StartRun(t) \/ CrashPlanner(t) \/ Invalidate(t)
         \/ Rollback(t) /\ txn[t] = "open",
         [Next]_vars
  PROVE  LocksInv'
<1> USE DEF TypeOK
<1>1. UNCHANGED <<lock, checkerVars>>
  BY DEF BeginPlanning, Rollback, StartRun, CrashPlanner, Invalidate
<1>2. /\ \A u \in Task \ {t} :
           /\ inserted'[u] = inserted[u] /\ uses'[u] = uses[u]
           /\ txn'[u] = txn[u] /\ plan'[u] = plan[u]
           /\ (u \in planners' <=> u \in planners)
           /\ hooks'[u] = hooks[u] /\ row'[u] = row[u]
      /\ row'[t] = row[t] \/ row'[t] = "active"
      /\ \/ txn'[t] = txn[t] /\ inserted'[t] = inserted[t] /\ uses'[t] = uses[t]
         \/ txn[t] = "none" /\ txn'[t] = "open"
            /\ inserted'[t] = inserted[t] /\ uses'[t] = uses[t]
         \/ txn[t] = "open" /\ txn'[t] = "rolledback" /\ inserted'[t] = {} /\ uses'[t] = {}
  <2> USE DEF LocksInv, TxnMatchesPlan
  <2>1. CASE BeginPlanning(t)
    BY <2>1 DEF BeginPlanning
  <2>2. CASE StartRun(t)
    BY <2>2 DEF StartRun
  <2>3. CASE CrashPlanner(t)
    BY <2>3 DEF CrashPlanner
  <2>4. CASE Invalidate(t)
    BY <2>4 DEF Invalidate, StopPlan, planningVars
  <2>5. CASE Rollback(t) /\ txn[t] = "open"
    BY <2>5 DEF Rollback, StopPlan
  <2> QED
    BY <2>1, <2>2, <2>3, <2>4, <2>5
<1>3. OneRow'
  BY <1>1, <1>2 DEF LocksInv, OneRow
<1>4. OwnerCommitted'
  BY <1>1, <1>2 DEF LocksInv, OwnerCommitted
<1>5. StopKnown'
  <2>1. \A u \in Task : plan[u] = "stopped" => plan'[u] = "stopped"
    BY StopIsFinal
  <2>2. hooks'[t] = hooks[t] \/ plan'[t] = "stopped"
    BY DEF BeginPlanning, Rollback, StopPlan, StartRun, CrashPlanner, Invalidate
  <2> QED
    BY <1>1, <1>2, <2>1, <2>2 DEF LocksInv, StopKnown, checkerVars
<1>6. TxnMatchesPlan'
  <2>1. /\ txn'[t] = "open" => t \in planners'
        /\ t \in planners' => plan'[t] = "planning" /\ txn'[t] \in {"open", "committed"}
        /\ plan'[t] = "new" <=> txn'[t] = "none"
        /\ plan'[t] = "running" => txn'[t] = "committed"
        /\ txn'[t] \in {"none", "rolledback"} => uses'[t] = {}
    <3> USE DEF LocksInv, TxnMatchesPlan
    <3>1. CASE BeginPlanning(t)
      BY <3>1 DEF BeginPlanning
    <3>2. CASE StartRun(t)
      BY <3>2 DEF StartRun
    <3>3. CASE CrashPlanner(t)
      BY <3>3 DEF CrashPlanner
    <3>4. CASE Invalidate(t)
      BY <3>4 DEF Invalidate, StopPlan, planningVars
    <3>5. CASE Rollback(t) /\ txn[t] = "open"
      BY <3>5 DEF Rollback, StopPlan
    <3> QED
      BY <3>1, <3>2, <3>3, <3>4, <3>5
  <2> QED
    BY <1>2, <2>1 DEF LocksInv, TxnMatchesPlan
<1>7. UsesCovered'
  <2> SUFFICES ASSUME NEW u \in Task, AncestorsLive(u)', plan'[u] # "stopped",
                      NEW r \in uses'[u]
               PROVE  r \in inserted'[u] \/ lock[r] \in SelfAndParents(u)
    BY <1>1 DEF UsesCovered
  <2>1. AncestorsLive(u) /\ plan[u] # "stopped"
    BY StopIsFinal, AncestorsLiveBefore
  <2> QED
    BY <1>2, <2>1 DEF LocksInv, UsesCovered
<1> QED
  BY <1>3, <1>4, <1>5, <1>6, <1>7 DEF LocksInv

-----------------------------------------------------------------------------
(* LocksInv holds in every reachable state: whatever planners, hooks,      *)
(* crashes and the consistency check do, lock rows stay unique, belong to  *)
(* committed plannings and are removed only after their task is over.      *)
THEOREM LocksInvariant == Spec => []LocksInv
<1>1. Init => LocksInv
  BY NoResourceAssumption
  DEF Init, LocksInv, OneRow, OwnerCommitted, StopKnown, TxnMatchesPlan, UsesCovered
<1>2. TypeOK /\ TypeOK' /\ LocksInv /\ [Next]_vars => LocksInv'
  <2> SUFFICES ASSUME TypeOK, TypeOK', LocksInv, [Next]_vars PROVE LocksInv'
    OBVIOUS
  <2>1. CASE CheckNext
    BY <2>1, CheckerKeepsLocksInv
  <2>2. ASSUME NEW t \in Task, PlanNext(t) PROVE LocksInv'
    <3>2. CASE Commit(t)
      BY <3>2, CommitKeepsLocksInv
    <3>3. CASE \/ InsertLock(t)
               \/ \E r \in Resource :
                    UseFamilyLock(t, r) \/ RequestLock(t, r) \/ LinkOnly(t, r)
      BY <3>3, LockingKeepsLocksInv
    <3>4. CASE BeginPlanning(t) \/ StartRun(t) \/ CrashPlanner(t) \/ Invalidate(t)
      BY <3>4, EndOfPlanningKeepsLocksInv
    <3>5. CASE \/ InsertConflict(t) \/ DeadlockVictim(t) \/ PlanError(t)
               \/ \E r \in Resource : ValidationConflict(t, r)
      <4>1. Rollback(t) /\ txn[t] = "open"
        BY <3>5 DEF InsertConflict, DeadlockVictim, PlanError, ValidationConflict, Planning
      <4> QED
        BY <4>1, EndOfPlanningKeepsLocksInv
    <3> QED
      BY <2>2, <3>2, <3>3, <3>4, <3>5 DEF PlanNext
  <2>3. ASSUME NEW t \in Task, RunNext(t) PROVE LocksInv'
    BY <2>3, RunKeepsLocksInv
  <2>4. CASE UNCHANGED vars
    BY <2>4 DEF vars, planningVars, checkerVars, LocksInv, OneRow, OwnerCommitted,
                StopKnown, TxnMatchesPlan, UsesCovered, AncestorsLive
  <2> QED
    BY <2>1, <2>2, <2>3, <2>4 DEF Next
<1> QED
  BY <1>1, <1>2, TypeCorrect, PTL DEF Spec

(* The lock a task relies on is not removed while it and its ancestors run. *)
THEOREM LockedThroughRunHolds == Spec => []LockedThroughRun
<1>1. TypeOK /\ LocksInv => LockedThroughRun
  BY DEF TypeOK, LocksInv, OneRow, UsesCovered, LockedThroughRun, Live
<1> QED
  BY <1>1, TypeCorrect, LocksInvariant, PTL

(* Mutual exclusion: no two unrelated tasks run with a lock on the same    *)
(* resource.                                                               *)
THEOREM MutualExclusion == Spec => []ExclusiveUse
<1>1. LockedThroughRun => ExclusiveUse
  BY DEF LockedThroughRun, ExclusiveUse
<1> QED
  BY <1>1, LockedThroughRunHolds, PTL

-----------------------------------------------------------------------------
(* Refinement of the abstract lock service.                                *)

(* The state function of AbstractLock that stands for the plans. *)
Phase == [t \in Task |-> IF plan[t] = "stopped" THEN "over"
                         ELSE IF txn[t] = "committed" THEN "working"
                         ELSE "idle"]

LEMMA StepsImplement ==
  ASSUME TypeOK, TypeOK', LocksInv, [Next]_vars
  PROVE  Abstract!Next \/ UNCHANGED Abstract!vars
<1> DEFINE Stutter == UNCHANGED <<lock, Phase>>
<1> USE DEF TypeOK
<1>1. ASSUME NEW t \in Task, plan[t] # "stopped", lock' = lock, StopPlan(t),
             \A u \in Task \ {t} : txn'[u] = txn[u]
      PROVE Abstract!Next
  <2>1. Phase' = [Phase EXCEPT ![t] = "over"]
    BY <1>1 DEF Phase, StopPlan
  <2>2. Phase[t] # "over"
    BY <1>1 DEF Phase
  <2> QED
    BY <1>1, <2>1, <2>2 DEF Abstract!Next, Abstract!Finish, Phase
<1>2. ASSUME Stutter PROVE UNCHANGED Abstract!vars
  BY <1>2 DEF Abstract!vars, Phase
<1>3. ASSUME NEW r \in Resource, lock[r] \in Task, plan[lock[r]] = "stopped",
             lock' = [lock EXCEPT ![r] = NoTask], UNCHANGED <<plan, txn>>
      PROVE Abstract!Next
  BY <1>3, NoTaskAssumption DEF Abstract!Next, Abstract!Release
<1>4. CASE CheckNext
  <2>1. UNCHANGED <<plan, txn>>
    BY <1>4 DEF CheckNext, CheckBegin, CheckResync, CheckSelect, CheckDestroy, CheckEnd,
                planningVars
  <2>2. CASE lock' = lock
    BY <1>2, <2>1, <2>2 DEF Phase
  <2>3. CASE lock' # lock
    <3>1. \E r \in Resource : lock[r] \in Task /\ plan[lock[r]] = "stopped"
                              /\ lock' = [lock EXCEPT ![r] = NoTask]
      BY <1>4, <2>3 DEF CheckNext, CheckBegin, CheckResync, CheckSelect, CheckDestroy,
                        CheckEnd, LocksInv, StopKnown
    <3> QED
      BY <1>3, <2>1, <3>1
  <2> QED
    BY <2>2, <2>3
<1>5. ASSUME NEW t \in Task, PlanNext(t) PROVE Abstract!Next \/ UNCHANGED Abstract!vars
  <2>1. CASE Commit(t)
    <3>1. Phase[t] = "idle" /\ Phase' = [Phase EXCEPT ![t] = "working"]
      BY <2>1 DEF Commit, Phase
    <3>2. \A r \in inserted[t] : lock[r] = NoTask
      BY DEF LocksInv, OneRow
    <3>3. lock' = [r \in Resource |-> IF r \in inserted[t] THEN t ELSE lock[r]]
      BY <2>1 DEF Commit
    <3>4. PICK S \in SUBSET Resource : S = inserted[t]
      OBVIOUS
    <3>5. Abstract!Acquire(t, S)
      BY <3>1, <3>2, <3>3, <3>4 DEF Abstract!Acquire, Phase
    <3> QED
      BY <3>5 DEF Abstract!Next
  <2>2. CASE Rollback(t) /\ plan[t] = "planning" /\ txn[t] = "open"
    BY <1>1, <2>2 DEF Rollback
  <2>3. CASE Invalidate(t)
    BY <1>1, <2>3 DEF Invalidate, planningVars
  <2>4. CASE BeginPlanning(t) \/ StartRun(t)
    <3>1. UNCHANGED <<lock, Phase>>
      BY <2>4 DEF BeginPlanning, StartRun, Phase, LocksInv, TxnMatchesPlan
    <3> QED
      BY <1>2, <3>1
  <2>5. CASE CrashPlanner(t)
    BY <1>2, <2>5 DEF CrashPlanner, Phase
  <2>6. CASE \/ InsertLock(t)
             \/ \E r \in Resource :
                  UseFamilyLock(t, r) \/ RequestLock(t, r) \/ LinkOnly(t, r)
    BY <1>2, <2>6 DEF InsertLock, UseFamilyLock, RequestLock, LinkOnly, Phase
  <2> QED
    BY <1>5, <2>1, <2>2, <2>3, <2>4, <2>5, <2>6
    DEF PlanNext, InsertConflict, DeadlockVictim, PlanError, ValidationConflict, Planning
<1>6. ASSUME NEW t \in Task, RunNext(t) PROVE Abstract!Next \/ UNCHANGED Abstract!vars
  <2>1. CASE Finish(t) \/ Halt(t)
    BY <1>1, <2>1 DEF Finish, Halt, planningVars
  <2>2. ASSUME NEW r \in Resource, DropLock(t, r) PROVE Abstract!Next
    BY <1>3, <2>2 DEF DropLock, LocksInv, StopKnown, planningVars
  <2>3. CASE SyncHook(t) \/ DropDone(t) \/ \E h \in {"sync", "drop"} : HookLost(t, h)
    BY <1>2, <2>3 DEF SyncHook, DropDone, HookLost, Phase, planningVars
  <2> QED
    BY <1>6, <2>1, <2>2, <2>3 DEF RunNext
<1>7. CASE UNCHANGED vars
  BY <1>2, <1>7 DEF vars, planningVars, Phase
<1> QED
  BY <1>4, <1>5, <1>6, <1>7 DEF Next

(* Every behaviour of the lock table is one of the abstract lock service:  *)
(* a planning takes its locks atomically and each is given back only by a  *)
(* task that is over.                                                      *)
THEOREM Refinement == Spec => ImplementsAbstractLock
<1>1. Init => Abstract!Init
  BY DEF Init, Abstract!Init
<1>2. TypeOK /\ TypeOK' /\ LocksInv /\ [Next]_vars => [Abstract!Next]_(Abstract!vars)
  BY StepsImplement
<1> QED
  BY <1>1, <1>2, TypeCorrect, LocksInvariant, PTL
  DEF Spec, ImplementsAbstractLock, Abstract!Spec

-----------------------------------------------------------------------------
(* Refinement of the row of a task.                                        *)

(* A row exists only for a plan, and what a check has selected has a row.  *)
RowsFollow ==
  \A t \in Task : /\ plan[t] = "new" => row[t] = "none"
                  /\ t \in stale => row[t] # "none"

LEMMA RowsFollowPlans == Spec => []RowsFollow
<1>1. Init => RowsFollow
  BY DEF Init, RowsFollow
<1>2. TypeOK /\ LocksInv /\ RowsFollow /\ [Next]_vars => RowsFollow'
  <2> SUFFICES ASSUME TypeOK, LocksInv, RowsFollow, [Next]_vars PROVE RowsFollow'
    OBVIOUS
  <2> USE DEF TypeOK, RowsFollow, planningVars, checkerVars, StopPlan
  <2>1. CASE CheckNext
    BY <2>1 DEF CheckNext, CheckBegin, CheckResync, CheckSelect, CheckDestroy, CheckEnd
  <2>2. ASSUME NEW t \in Task, PlanNext(t) PROVE RowsFollow'
    <3>1. CASE BeginPlanning(t)
      BY <3>1 DEF BeginPlanning
    <3>2. CASE \/ InsertConflict(t) \/ DeadlockVictim(t) \/ PlanError(t) \/ Invalidate(t)
               \/ \E r \in Resource : ValidationConflict(t, r)
      BY <3>2 DEF InsertConflict, DeadlockVictim, PlanError, ValidationConflict, Rollback,
                  Invalidate
    <3>3. CASE \/ InsertLock(t) \/ Commit(t) \/ StartRun(t) \/ CrashPlanner(t)
               \/ \E r \in Resource :
                    UseFamilyLock(t, r) \/ RequestLock(t, r) \/ LinkOnly(t, r)
      BY <3>3 DEF InsertLock, Commit, StartRun, CrashPlanner, UseFamilyLock, RequestLock,
                  LinkOnly
    <3> QED
      BY <2>2, <3>1, <3>2, <3>3 DEF PlanNext
  <2>3. ASSUME NEW t \in Task, RunNext(t) PROVE RowsFollow'
    BY <2>3 DEF RunNext, Finish, Halt, SyncHook, DropDone, DropLock, HookLost
  <2>4. CASE UNCHANGED vars
    BY <2>4 DEF vars
  <2> QED
    BY <2>1, <2>2, <2>3, <2>4 DEF Next
<1> QED
  BY <1>1, <1>2, TypeCorrect, LocksInvariant, PTL DEF Spec

(* What AbstractTask sees of a plan and of a row.                          *)
Life == [t \in Task |-> IF plan[t] = "new" THEN "idle"
                        ELSE IF plan[t] = "stopped" THEN "over" ELSE "going"]
RowState == [t \in Task |-> IF row[t] = "active" THEN "open"
                            ELSE IF row[t] = "stopped" THEN "closed" ELSE "none"]

LEMMA StepsFollowTask ==
  ASSUME TypeOK, TypeOK', LocksInv, RowsFollow, [Next]_vars
  PROVE  AsTask!Next \/ UNCHANGED AsTask!vars
<1> DEFINE Result == AsTask!Next \/ UNCHANGED AsTask!vars
<1> USE DEF TypeOK
<1>1. ASSUME UNCHANGED <<Life, RowState>> PROVE Result
  BY <1>1 DEF AsTask!vars, Life, RowState
<1>2. ASSUME NEW t \in Task, plan[t] # "new", row' = row,
             plan' = [plan EXCEPT ![t] = "stopped"]
      PROVE  Result
  <2>1. Life' = [u \in Task |-> IF u \in {t} THEN "over" ELSE Life[u]]
    BY <1>2 DEF Life
  <2>2. RowState' = RowState /\ \A u \in {t} : Life[u] # "idle"
    BY <1>2 DEF Life, RowState
  <2>3. AsTask!End({t})
    BY <2>1, <2>2 DEF AsTask!End, Life, RowState
  <2> QED
    BY <2>3 DEF AsTask!Next
<1>3. ASSUME NEW t \in Task, plan[t] = "stopped", row[t] # "none", plan' = plan,
             row' = [row EXCEPT ![t] = "stopped"]
      PROVE  Result
  <2>1. CASE row[t] = "active"
    <3>1. /\ Life[t] = "over" /\ RowState[t] = "open" /\ Life' = Life
          /\ RowState' = [RowState EXCEPT ![t] = "closed"]
      BY <1>3, <2>1 DEF Life, RowState
    <3>2. AsTask!Close(t)
      BY <3>1 DEF AsTask!Close, Life, RowState
    <3> QED
      BY <3>2 DEF AsTask!Next
  <2>2. CASE row[t] = "stopped"
    BY <1>1, <1>3, <2>2 DEF Life, RowState
  <2> QED
    BY <1>3, <2>1, <2>2 DEF RowStates
<1>4. ASSUME UNCHANGED <<plan, row>> PROVE Result
  BY <1>1, <1>4 DEF Life, RowState
<1>5. CASE CheckNext
  <2>1. ASSUME NEW t \in Task, CheckResync(t) PROVE Result
    BY <1>3, <2>1 DEF CheckResync, LocksInv, StopKnown, RowsFollow
  <2>2. CASE CheckBegin \/ CheckSelect \/ CheckEnd
             \/ \E t \in Task, r \in Resource : CheckDestroy(r, t)
    BY <1>4, <2>2 DEF CheckBegin, CheckSelect, CheckEnd, CheckDestroy
  <2> QED
    BY <1>5, <2>1, <2>2 DEF CheckNext
<1>6. ASSUME NEW t \in Task, PlanNext(t) PROVE Result
  <2>1. CASE BeginPlanning(t)
    <3>1. Life[t] = "idle" /\ RowState[t] = "none" /\ Life' = [Life EXCEPT ![t] = "going"]
      BY <2>1 DEF BeginPlanning, RowsFollow, Life, RowState
    <3>2. RowState' \in {RowState, [RowState EXCEPT ![t] = "open"]}
      <4>1. CASE row' = row
        BY <4>1 DEF RowState
      <4>2. CASE row' = [row EXCEPT ![t] = "active"]
        <5>1. RowState' = [RowState EXCEPT ![t] = "open"]
          BY <4>2 DEF RowState
        <5> QED
          BY <5>1
      <4> QED
        BY <2>1, <4>1, <4>2 DEF BeginPlanning
    <3>3. AsTask!Begin(t)
      BY <3>1, <3>2 DEF AsTask!Begin, Life, RowState
    <3> QED
      BY <3>3 DEF AsTask!Next
  <2>2. CASE \/ InsertConflict(t) \/ DeadlockVictim(t) \/ PlanError(t) \/ Invalidate(t)
             \/ \E r \in Resource : ValidationConflict(t, r)
    BY <1>2, <2>2 DEF InsertConflict, DeadlockVictim, PlanError, ValidationConflict, Rollback,
                      Invalidate, Planning, StopPlan
  <2>3. CASE StartRun(t)
    BY <1>1, <2>3 DEF StartRun, Life, RowState
  <2>4. CASE \/ InsertLock(t) \/ Commit(t) \/ CrashPlanner(t)
             \/ \E r \in Resource : UseFamilyLock(t, r) \/ RequestLock(t, r) \/ LinkOnly(t, r)
    BY <1>4, <2>4 DEF InsertLock, Commit, CrashPlanner, UseFamilyLock, RequestLock, LinkOnly
  <2> QED
    BY <1>6, <2>1, <2>2, <2>3, <2>4 DEF PlanNext
<1>7. ASSUME NEW t \in Task, RunNext(t) PROVE Result
  <2>1. CASE Finish(t) \/ Halt(t)
    BY <1>2, <2>1 DEF Finish, Halt, StopPlan
  <2>2. CASE SyncHook(t)
    <3>1. plan[t] = "stopped" /\ plan' = plan
      BY <2>2 DEF SyncHook, LocksInv, StopKnown
    <3> QED
      BY <1>3, <1>4, <2>2, <3>1 DEF SyncHook
  <2>3. CASE \/ DropDone(t) \/ \E r \in Resource : DropLock(t, r)
             \/ \E h \in {"sync", "drop"} : HookLost(t, h)
    BY <1>4, <2>3 DEF DropDone, DropLock, HookLost
  <2> QED
    BY <1>7, <2>1, <2>2, <2>3 DEF RunNext
<1>8. CASE UNCHANGED vars
  BY <1>4, <1>8 DEF vars
<1> QED
  BY <1>5, <1>6, <1>7, <1>8 DEF Next

(* The rows that decide which locks the check destroys follow the plans as *)
(* AbstractTask says: created once, closed after the end, never reopened.  *)
THEOREM RowRefinement == Spec => ImplementsTask
<1>1. Init => AsTask!Init
  BY DEF Init, AsTask!Init
<1>2. TypeOK /\ TypeOK' /\ LocksInv /\ RowsFollow /\ [Next]_vars
        => [AsTask!Next]_(AsTask!vars)
  BY StepsFollowTask
<1> QED
  BY <1>1, <1>2, TypeCorrect, LocksInvariant, RowsFollowPlans, PTL
  DEF Spec, ImplementsTask, AsTask!Spec
=============================================================================
