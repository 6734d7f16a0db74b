--------------------------- MODULE CleanerProofs ---------------------------
(***************************************************************************)
(* Proofs about Cleaner, for any tasks, rules, filters and batch size.     *)
(* The invariant says what the cleaner knows of the identifiers it loaded, *)
(* and what a deleted task may still have in which phase of a run.         *)
(***************************************************************************)
EXTENDS Cleaner, FiniteSetTheorems, TLAPS

Batching == {"load", "rows", "plans", "remotes"}

ChunkInv ==
  \A t \in chunk :
    /\ pc = "rows" => row[t] = "stopped"
    /\ pc \in {"plans", "remotes"} => row[t] = "deleted"

(* While no cleaner was killed.                                            *)
LeftoverInv ==
  crashes = 0 =>
    \A t \in Task : row[t] = "deleted" =>
      /\ plan[t] = "deleted" \/ (pc = "plans" /\ t \in chunk)
      /\ t \notin remotes \/ (pc \in {"plans", "remotes"} /\ t \in chunk)
      /\ t \notin locks \/ pc \in Batching \cup {"locks"}
      /\ t \notin links \/ pc \in Batching \cup {"locks", "links"}

Inv == TypeOK /\ ChunkInv /\ LeftoverInv

-----------------------------------------------------------------------------
(* A chunk is not empty and not larger than batch_size.                    *)
LEMMA ChunkSize ==
  ASSUME NEW source, source \subseteq Task, NEW c \in Chunks(source)
  PROVE  c \subseteq source /\ Cardinality(c) <= Batch /\ (source # {} => c # {})
<1>1. IsFiniteSet(source) /\ Cardinality(source) \in Nat
  BY TaskAssumption, FS_Subset, FS_CardinalityType
<1>2. c \subseteq source
        /\ Cardinality(c) = IF Cardinality(source) < Batch THEN Cardinality(source) ELSE Batch
  BY DEF Chunks
<1>3. Cardinality(c) <= Batch
  BY <1>1, <1>2, BatchAssumption
<1>4. source # {} => Cardinality(c) # 0
  BY <1>1, <1>2, FS_EmptySet, BatchAssumption
<1> QED
  BY <1>2, <1>3, <1>4, FS_EmptySet

LEMMA InvInitially == Init => Inv
<1>1. Init => TypeOK
  BY MaxCrashAssumption DEF Init, TypeOK, Steps
<1> QED
  BY <1>1 DEF Init, Inv, ChunkInv, LeftoverInv

(* What a step of a task does to the tables.                               *)
LEMMA TaskStepKeeps == ASSUME Inv, NEW t \in Task, TaskStep(t) PROVE Inv'
<1> USE DEF cleaner, tables
<1>1. TypeOK'
  BY DEF TaskStep, Create, CreateRow, LockAndLink, Delegate, Stop, SyncRow, DropLocks,
         CleanRemoteTask, Age, Inv, TypeOK
<1>2. /\ UNCHANGED <<pc, chunk, crashes>>
      /\ \A u \in Task : row'[u] = "deleted" <=> row[u] = "deleted"
      /\ \A u \in Task : row[u] = "stopped" => row'[u] = "stopped"
      /\ \A u \in Task : plan[u] = "deleted" => plan'[u] = "deleted"
      /\ \A u \in Task : row[u] = "deleted" =>
           (u \in locks' => u \in locks) /\ (u \in links' => u \in links)
           /\ (u \in remotes' => u \in remotes)
  BY DEF TaskStep, Create, CreateRow, LockAndLink, Delegate, Stop, SyncRow, DropLocks,
         CleanRemoteTask, Age, Inv, TypeOK
<1>3. ChunkInv'
  BY <1>2 DEF Inv, TypeOK, ChunkInv
<1>4. LeftoverInv'
  BY <1>2 DEF Inv, LeftoverInv
<1> QED
  BY <1>1, <1>3, <1>4 DEF Inv

(* The steps of the cleaner that delete nothing.                           *)
LEMMA LoadsKeep ==
  ASSUME Inv, Start \/ LoadTasks \/ LoadOrphanedPlans \/ Crash \/ UNCHANGED vars PROVE Inv'
<1> USE DEF tables
<1>1. CASE Start
  BY <1>1 DEF Start, Inv, TypeOK, Steps, ChunkInv, LeftoverInv, Batching
<1>2. CASE LoadTasks
  <2>1. Found \subseteq Task /\ \A t \in Found : row[t] = "stopped"
    BY RuleAssumption DEF Found, Inv, TypeOK
  <2>2. CASE Found # {} /\ chunk' \in Chunks(Found) /\ pc' = "rows"
    <3>1. chunk' \subseteq Found /\ chunk' # {} /\ Cardinality(chunk') <= Batch
      BY <2>1, <2>2, ChunkSize
    <3>2. TypeOK'
      BY <1>2, <2>1, <2>2, <3>1 DEF LoadTasks, Inv, TypeOK, Steps
    <3>3. ChunkInv' /\ LeftoverInv'
      BY <1>2, <2>1, <2>2, <3>1 DEF LoadTasks, Inv, ChunkInv, LeftoverInv, Batching
    <3> QED
      BY <3>2, <3>3 DEF Inv
  <2>3. CASE Found = {} /\ chunk' = {} /\ pc' = "locks"
    BY <1>2, <2>3 DEF LoadTasks, Inv, TypeOK, Steps, ChunkInv, LeftoverInv, Batching
  <2> QED
    BY <1>2, <2>2, <2>3 DEF LoadTasks, NextChunk
<1>3. CASE LoadOrphanedPlans
  <2>1. OrphanedPlans \subseteq Task
    BY DEF OrphanedPlans, Without
  <2>2. CASE OrphanedPlans # {} /\ chunk' \in Chunks(OrphanedPlans) /\ pc' = "sweep"
    <3>1. chunk' \subseteq Task /\ chunk' # {} /\ Cardinality(chunk') <= Batch
      BY <2>1, <2>2, ChunkSize
    <3> QED
      BY <1>3, <2>2, <3>1
         DEF LoadOrphanedPlans, Inv, TypeOK, Steps, ChunkInv, LeftoverInv, Batching
  <2>3. CASE OrphanedPlans = {} /\ chunk' = {} /\ pc' = "idle"
    BY <1>3, <2>3 DEF LoadOrphanedPlans, Inv, TypeOK, Steps, ChunkInv, LeftoverInv, Batching
  <2> QED
    BY <1>3, <2>2, <2>3 DEF LoadOrphanedPlans, NextChunk
<1>4. CASE Crash
  <2>1. crashes' # 0 /\ crashes' \in 0..MaxCrash
    BY <1>4, MaxCrashAssumption DEF Crash, Inv, TypeOK
  <2> QED
    BY <1>4, <2>1 DEF Crash, Inv, TypeOK, Steps, ChunkInv, LeftoverInv
<1>5. CASE UNCHANGED vars
  BY <1>5 DEF vars, Inv, TypeOK, ChunkInv, LeftoverInv
<1> QED
  BY <1>1, <1>2, <1>3, <1>4, <1>5

(* The steps that delete.                                                  *)
LEMMA DeletionsKeep ==
  ASSUME Inv, \/ DeleteTasks \/ DeletePlans \/ DeleteRemotes
              \/ DeleteOrphanedLocks \/ DeleteOrphanedLinks \/ DeleteOrphanedPlans
  PROVE  Inv'
<1>1. CASE DeleteTasks
  <2>1. TypeOK'
    BY <1>1 DEF DeleteTasks, Inv, TypeOK, Steps
  <2>2. ChunkInv'
    BY <1>1 DEF DeleteTasks, Inv, TypeOK, ChunkInv
  <2>3. LeftoverInv'
    <3> SUFFICES ASSUME crashes = 0, NEW t \in Task, row'[t] = "deleted"
                 PROVE  /\ plan[t] = "deleted" \/ t \in chunk
                        /\ t \notin remotes \/ t \in chunk
      BY <1>1 DEF DeleteTasks, LeftoverInv, Batching
    <3>1. t \in chunk \/ row[t] = "deleted"
      BY <1>1 DEF DeleteTasks
    <3> QED
      BY <1>1, <3>1 DEF DeleteTasks, Inv, LeftoverInv
  <2> QED
    BY <2>1, <2>2, <2>3 DEF Inv
<1>2. CASE DeletePlans
  <2>1. TypeOK' /\ ChunkInv'
    BY <1>2 DEF DeletePlans, DeletedPlans, Inv, TypeOK, Steps, ChunkInv
  <2>2. LeftoverInv'
    <3> SUFFICES ASSUME crashes = 0, NEW t \in Task, row[t] = "deleted"
                 PROVE  plan'[t] = "deleted" /\ (t \notin remotes \/ t \in chunk)
      BY <1>2 DEF DeletePlans, LeftoverInv, Batching
    <3> QED
      BY <1>2 DEF DeletePlans, DeletedPlans, Inv, LeftoverInv
  <2> QED
    BY <2>1, <2>2 DEF Inv
<1>3. CASE DeleteRemotes
  <2>1. TypeOK' /\ ChunkInv'
    BY <1>3 DEF DeleteRemotes, Inv, TypeOK, Steps, ChunkInv
  <2>2. LeftoverInv'
    <3> SUFFICES ASSUME crashes = 0, NEW t \in Task, row[t] = "deleted"
                 PROVE  plan[t] = "deleted" /\ t \notin remotes'
      BY <1>3 DEF DeleteRemotes, LeftoverInv, Batching
    <3> QED
      BY <1>3 DEF DeleteRemotes, Inv, LeftoverInv
  <2> QED
    BY <2>1, <2>2 DEF Inv
<1>4. CASE DeleteOrphanedLocks
  <2>1. TypeOK' /\ ChunkInv'
    BY <1>4 DEF DeleteOrphanedLocks, Inv, TypeOK, Steps, ChunkInv
  <2>2. LeftoverInv'
    BY <1>4 DEF DeleteOrphanedLocks, Inv, LeftoverInv, Without, Batching
  <2> QED
    BY <2>1, <2>2 DEF Inv
<1>5. CASE DeleteOrphanedLinks
  <2>1. TypeOK' /\ ChunkInv'
    BY <1>5 DEF DeleteOrphanedLinks, Inv, TypeOK, Steps, ChunkInv
  <2>2. LeftoverInv'
    BY <1>5 DEF DeleteOrphanedLinks, Inv, LeftoverInv, Without, Batching
  <2> QED
    BY <2>1, <2>2 DEF Inv
<1>6. CASE DeleteOrphanedPlans
  BY <1>6 DEF DeleteOrphanedPlans, DeletedPlans, Inv, TypeOK, Steps, ChunkInv, LeftoverInv, Batching
<1> QED
  BY <1>1, <1>2, <1>3, <1>4, <1>5, <1>6

LEMMA InvNext == Inv /\ [Next]_vars => Inv'
BY TaskStepKeeps, LoadsKeep, DeletionsKeep DEF Next, CleanerStep

-----------------------------------------------------------------------------
(* The types hold for any number of tasks and rules; no chunk is empty or  *)
(* larger than batch_size.                                                 *)
THEOREM TypesKept == Spec => []TypeOK
<1>1. Inv => TypeOK
  BY DEF Inv
<1> QED
  BY <1>1, InvInitially, InvNext, PTL DEF Spec

(* Runs that were not killed leave nothing of a deleted task, whatever the *)
(* tasks and other rules did meanwhile.                                    *)
THEOREM NothingLeft == Spec => []CleanWithoutCrash
<1>1. Inv => CleanWithoutCrash
  BY DEF Inv, TypeOK, LeftoverInv, CleanWithoutCrash, Batching
<1> QED
  BY <1>1, InvInitially, InvNext, PTL DEF Spec

(* No step of any cleaner takes anything from a task that is under way,    *)
(* but for a plan that was swept up before its row was created.            *)
THEOREM LiveTasksSpared == Spec => LiveTasksKept
<1> DEFINE Kept(t) ==
      (plan[t] = "running" /\ row[t] = "active" /\ ~(pc = "sweep" /\ t \in chunk)) =>
        /\ row'[t] = "active" /\ plan'[t] # "deleted"
        /\ (t \in locks => t \in locks') /\ (t \in links => t \in links')
<1>1. Inv /\ [Next]_vars => [\A t \in Task : Kept(t)]_vars
  <2> SUFFICES ASSUME Inv, Next, NEW t \in Task, plan[t] = "running", row[t] = "active",
                      ~(pc = "sweep" /\ t \in chunk)
               PROVE  /\ row'[t] = "active" /\ plan'[t] # "deleted"
                      /\ (t \in locks => t \in locks') /\ (t \in links => t \in links')
    OBVIOUS
  <2> USE DEF tables, cleaner
  <2>1. CASE Start \/ LoadTasks \/ LoadOrphanedPlans \/ Crash \/ DeleteRemotes
    BY <2>1 DEF Start, LoadTasks, LoadOrphanedPlans, Crash, DeleteRemotes
  <2>2. CASE DeleteTasks
    BY <2>2 DEF DeleteTasks, Inv, ChunkInv
  <2>3. CASE DeletePlans
    BY <2>3 DEF DeletePlans, DeletedPlans, Inv, ChunkInv
  <2>4. CASE DeleteOrphanedLocks
    <3>1. \A c \in Chunks(Without(locks)) : t \notin c
      BY DEF Chunks, Without
    <3> QED
      BY <2>4, <3>1 DEF DeleteOrphanedLocks
  <2>5. CASE DeleteOrphanedLinks
    <3>1. \A c \in Chunks(Without(links)) : t \notin c
      BY DEF Chunks, Without
    <3> QED
      BY <2>5, <3>1 DEF DeleteOrphanedLinks
  <2>6. CASE DeleteOrphanedPlans
    BY <2>6 DEF DeleteOrphanedPlans, DeletedPlans
  <2>7. ASSUME NEW u \in Task, TaskStep(u)
        PROVE  /\ row'[t] = "active" /\ plan'[t] # "deleted"
               /\ (t \in locks => t \in locks') /\ (t \in links => t \in links')
    BY <2>7 DEF TaskStep, Create, CreateRow, LockAndLink, Delegate, Stop, SyncRow, DropLocks,
         CleanRemoteTask, Age, Inv, TypeOK
  <2> QED
    BY <2>1, <2>2, <2>3, <2>4, <2>5, <2>6, <2>7 DEF Next, CleanerStep
<1> QED
  BY <1>1, InvInitially, InvNext, PTL DEF Spec, LiveTasksKept

-----------------------------------------------------------------------------
(* Refinement: what the cleaner removes was closed, and stays removed.     *)

(* A row has a plan, a stopped or deleted one a plan that is over; what    *)
(* the sweep of orphans loaded are plans that began.                       *)
BegunInv ==
  /\ \A t \in Task : /\ plan[t] = "none" => row[t] = "none"
                     /\ row[t] \in {"stopped", "deleted"} => plan[t] \in {"stopped", "deleted"}
  /\ pc = "sweep" => \A t \in chunk : plan[t] # "none"

LEMMA BegunInvKept == Inv /\ BegunInv /\ [Next]_vars => BegunInv'
<1> SUFFICES ASSUME Inv, BegunInv, [Next]_vars PROVE BegunInv'
  OBVIOUS
<1> USE DEF tables, cleaner
<1>1. CASE Start \/ Crash \/ DeleteRemotes \/ DeleteOrphanedLocks \/ DeleteOrphanedLinks
  BY <1>1 DEF Start, Crash, DeleteRemotes, DeleteOrphanedLocks, DeleteOrphanedLinks, BegunInv
<1>2. CASE LoadTasks
  BY <1>2 DEF LoadTasks, NextChunk, BegunInv
<1>3. CASE LoadOrphanedPlans
  <2>1. \A t \in OrphanedPlans : plan[t] # "none"
    BY DEF OrphanedPlans, Without
  <2>2. \A c \in Chunks(OrphanedPlans) : c \subseteq OrphanedPlans
    BY DEF Chunks
  <2> QED
    BY <1>3, <2>1, <2>2 DEF LoadOrphanedPlans, NextChunk, BegunInv
<1>4. CASE DeleteTasks
  BY <1>4 DEF DeleteTasks, Inv, TypeOK, ChunkInv, BegunInv
<1>5. CASE DeletePlans \/ DeleteOrphanedPlans
  BY <1>5 DEF DeletePlans, DeleteOrphanedPlans, DeletedPlans, Inv, TypeOK, ChunkInv, BegunInv
<1>6. ASSUME NEW t \in Task, TaskStep(t) PROVE BegunInv'
  BY <1>6 DEF TaskStep, Create, CreateRow, LockAndLink, Delegate, Stop, SyncRow, DropLocks,
              CleanRemoteTask, Age, Inv, TypeOK, BegunInv
<1>7. CASE UNCHANGED vars
  BY <1>7 DEF vars, BegunInv
<1> QED
  BY <1>1, <1>2, <1>3, <1>4, <1>5, <1>6, <1>7 DEF Next, CleanerStep

(* What AbstractTask sees of a plan and of a row.                          *)
Life == [t \in Task |-> IF plan[t] = "none" THEN "idle"
                        ELSE IF plan[t] = "running" THEN "going" ELSE "over"]
RowState == [t \in Task |-> IF row[t] = "active" THEN "open"
                            ELSE IF row[t] = "stopped" THEN "closed"
                            ELSE IF row[t] = "deleted" THEN "removed" ELSE "none"]

LEMMA StepsFollowTask ==
  ASSUME Inv, BegunInv, [Next]_vars
  PROVE  AsTask!Next \/ UNCHANGED AsTask!vars
<1> DEFINE Result == AsTask!Next \/ UNCHANGED AsTask!vars
<1>1. /\ plan \in [Task -> {"none", "running", "stopped", "deleted"}]
      /\ row \in [Task -> {"none", "active", "stopped", "deleted"}] /\ chunk \subseteq Task
  BY DEF Inv, TypeOK
<1>2. ASSUME UNCHANGED <<plan, row>> PROVE Result
  BY <1>2 DEF AsTask!vars
<1>3. ASSUME NEW S \in SUBSET Task, \A t \in S : plan[t] # "none", row' = row,
             Life' = [t \in Task |-> IF t \in S THEN "over" ELSE Life[t]]
      PROVE  Result
  <2>1. RowState' = RowState /\ \A t \in S : Life[t] # "idle"
    BY <1>3 DEF RowState, Life
  <2>2. AsTask!End(S)
    BY <1>3, <2>1 DEF AsTask!End, Life, RowState
  <2> QED
    BY <2>2 DEF AsTask!Next
<1>4. CASE \/ Start \/ LoadTasks \/ LoadOrphanedPlans \/ Crash \/ DeleteRemotes
           \/ DeleteOrphanedLocks \/ DeleteOrphanedLinks \/ UNCHANGED vars
  BY <1>2, <1>4 DEF Start, LoadTasks, LoadOrphanedPlans, Crash, DeleteRemotes,
                    DeleteOrphanedLocks, DeleteOrphanedLinks, vars, tables
<1>5. CASE DeleteTasks
  <2>1. PICK S \in SUBSET Task : S = chunk
    BY <1>1
  <2>2. \A t \in S : RowState[t] = "closed"
    BY <1>1, <1>5, <2>1 DEF DeleteTasks, Inv, ChunkInv, RowState
  <2>3. Life' = Life /\ RowState' = [t \in Task |-> IF t \in S THEN "removed" ELSE RowState[t]]
    BY <1>1, <1>5, <2>1 DEF DeleteTasks, Life, RowState
  <2>4. AsTask!Remove(S)
    BY <2>2, <2>3 DEF AsTask!Remove, Life, RowState
  <2> QED
    BY <2>4 DEF AsTask!Next
<1>6. CASE DeletePlans \/ DeleteOrphanedPlans
  <2>1. row' = row /\ plan' = [t \in Task |-> IF t \in chunk THEN "deleted" ELSE plan[t]]
    BY <1>6 DEF DeletePlans, DeleteOrphanedPlans, DeletedPlans
  <2>2. \A t \in chunk : plan[t] # "none"
    BY <1>1, <1>6 DEF DeletePlans, DeleteOrphanedPlans, Inv, ChunkInv, BegunInv
  <2>3. Life' = [t \in Task |-> IF t \in chunk THEN "over" ELSE Life[t]]
    BY <1>1, <2>1 DEF Life
  <2> QED
    BY <1>1, <1>3, <2>1, <2>2, <2>3
<1>7. ASSUME NEW t \in Task, TaskStep(t) PROVE Result
  <2>1. CASE LockAndLink(t) \/ Delegate(t) \/ DropLocks(t) \/ CleanRemoteTask(t) \/ Age(t)
    BY <1>2, <2>1 DEF LockAndLink, Delegate, DropLocks, CleanRemoteTask, Age, tables
  <2>2. CASE Create(t)
    <3>1. /\ Life[t] = "idle" /\ RowState[t] = "none" /\ RowState' = RowState
          /\ Life' = [Life EXCEPT ![t] = "going"]
      BY <1>1, <2>2 DEF Create, BegunInv, Life, RowState
    <3>2. AsTask!Begin(t)
      BY <3>1 DEF AsTask!Begin, Life, RowState
    <3> QED
      BY <3>2 DEF AsTask!Next
  <2>3. CASE CreateRow(t)
    <3>1. /\ Life[t] # "idle" /\ RowState[t] = "none" /\ Life' = Life
          /\ RowState' = [RowState EXCEPT ![t] = "open"]
      BY <1>1, <2>3 DEF CreateRow, Life, RowState
    <3>2. AsTask!Open(t)
      BY <3>1 DEF AsTask!Open, Life, RowState
    <3> QED
      BY <3>2 DEF AsTask!Next
  <2>4. CASE Stop(t)
    <3>1. Life' = [u \in Task |-> IF u \in {t} THEN "over" ELSE Life[u]]
      BY <1>1, <2>4 DEF Stop, Life
    <3>2. {t} \in SUBSET Task /\ (\A u \in {t} : plan[u] # "none") /\ row' = row
      BY <2>4 DEF Stop
    <3> QED
      BY <1>3, <3>1, <3>2
  <2>5. CASE SyncRow(t)
    <3>1. /\ Life[t] = "over" /\ RowState[t] = "open" /\ Life' = Life
          /\ RowState' = [RowState EXCEPT ![t] = "closed"]
      BY <1>1, <2>5 DEF SyncRow, Life, RowState
    <3>2. AsTask!Close(t)
      BY <3>1 DEF AsTask!Close, Life, RowState
    <3> QED
      BY <3>2 DEF AsTask!Next
  <2> QED
    BY <1>7, <2>1, <2>2, <2>3, <2>4, <2>5 DEF TaskStep
<1> QED
  BY <1>4, <1>5, <1>6, <1>7 DEF Next, CleanerStep

(* The cleaner deletes by identifiers that it loaded long before; still it *)
(* removes only rows that were closed, and no row comes back.              *)
THEOREM RowRefinement == Spec => ImplementsTask
<1>1. Init => AsTask!Init /\ BegunInv
  BY DEF Init, AsTask!Init, BegunInv
<1>2. Inv /\ BegunInv /\ [Next]_vars => [AsTask!Next]_(AsTask!vars)
  BY StepsFollowTask
<1> QED
  BY <1>1, <1>2, BegunInvKept, InvInitially, InvNext, PTL
  DEF Spec, ImplementsTask, AsTask!Spec
=============================================================================
