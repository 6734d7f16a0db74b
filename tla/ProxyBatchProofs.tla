-------------------------- MODULE ProxyBatchProofs --------------------------
(***************************************************************************)
(* Proofs about ProxyBatch, for any number of sub-tasks, any proxies and   *)
(* any size of the batches.  The invariant says of every sub-task what the *)
(* part of the batch that was already sent did to it.                      *)
(***************************************************************************)
EXTENDS ProxyBatch, FiniteSetTheorems, SequenceTheorems, TLAPS

(* A row is there from the planning of the sub-task to its end at least.   *)
RowInv ==
  \A t \in Task : /\ sub[t] = "unplanned" => row[t] = "none"
                  /\ row[t] = "none" => sub[t] \in {"unplanned", "ended"}

(* An event is only there for an action that has suspended.                *)
ToldInv == \A t \in told : sub[t] \in {"suspended", "error", "ended"}

(* A batch is of a run, and of sub-tasks that are planned.                 *)
BatchInv ==
  /\ batch # {} => step = "running" /\ amount > 0
  /\ batch \subseteq tried
  /\ \A t \in tried : sub[t] # "unplanned"

(* Whoever was sent is known to run, or to be told that it does not, or is *)
(* one of those whom the batch could not tell.                             *)
Handled(t) ==
  \/ row[t] = "triggered"
  \/ t \in told
  \/ sub[t] \in {"error", "ended"}
  \/ t \in unheard
HandledInv == \A t \in tried \ rest : Handled(t)

(* What was not sent, or can be sent again, was not launched, unless its   *)
(* row was not written then.                                               *)
Unsent(t) == row[t] = "new" \/ t \in rest \/ sub[t] = "unplanned"
LaunchInv ==
  \A t \in Task \ unmarked : launches[t] <= 1 /\ (Unsent(t) => launches[t] = 0)

Inv == TypeOK /\ RowInv /\ ToldInv /\ BatchInv /\ HandledInv /\ LaunchInv

-----------------------------------------------------------------------------
LEMMA TaskSets ==
  /\ IsFiniteSet(Task)
  /\ \A S : S \subseteq Task => IsFiniteSet(S) /\ Cardinality(S) \in Nat
<1>1. IsFiniteSet(Task)
  BY CountAssumption, FS_Interval DEF Task
<1> QED
  BY <1>1, FS_Subset, FS_CardinalityType

LEMMA Order ==
  ASSUME NEW t \in Task, NEW u \in Task
  PROVE  /\ ~Before(t, t)
         /\ t = u \/ Before(t, u) \/ Before(u, t)
         /\ \A w \in Task : Before(w, t) /\ Before(t, u) => Before(w, u)
BY ProxyAssumption, CountAssumption DEF Before, Task

(* .first(batch_size) of any rows: no two rows have the same number of     *)
(* rows before them, and of the chosen ones it is less than batch_size.    *)
LEMMA FirstOfRows ==
  ASSUME NEW S, S \subseteq Task,
         NEW chosen, chosen = {t \in S : Cardinality({u \in S : Before(u, t)}) < BatchSize}
  PROVE  chosen \subseteq Task /\ Cardinality(chosen) <= BatchSize
<1> DEFINE Earlier(t) == {u \in S : Before(u, t)}
<1> DEFINE rank == [t \in chosen |-> Cardinality(Earlier(t))]
<1>1. IsFiniteSet(chosen) /\ Cardinality(chosen) \in Nat
  BY TaskSets
<1>2. ASSUME NEW t \in chosen
      PROVE  IsFiniteSet(Earlier(t)) /\ Cardinality(Earlier(t)) \in Nat
  <2>1. Earlier(t) \subseteq Task
    OBVIOUS
  <2> QED
    BY <2>1, TaskSets
<1>3. rank \in [chosen -> 0..(BatchSize - 1)]
  <2> SUFFICES ASSUME NEW t \in chosen PROVE Cardinality(Earlier(t)) \in 0..(BatchSize - 1)
    OBVIOUS
  <2>1. Cardinality(Earlier(t)) < BatchSize /\ Cardinality(Earlier(t)) \in Nat
    BY <1>2
  <2> QED
    BY <2>1, CountAssumption
<1>4. ASSUME NEW t \in chosen, NEW u \in chosen, Before(t, u) PROVE rank[t] # rank[u]
  <2>1. Earlier(t) \subseteq Earlier(u) /\ t \in Earlier(u) /\ t \notin Earlier(t)
    BY <1>4, Order
  <2>2. IsFiniteSet(Earlier(u))
    BY <1>2
  <2>3. Cardinality(Earlier(t)) # Cardinality(Earlier(u))
    BY <2>1, <2>2, FS_Subset
  <2> QED
    BY <2>3
<1>5. IsFiniteSet(0..(BatchSize - 1)) /\ Cardinality(0..(BatchSize - 1)) = BatchSize
  BY CountAssumption, FS_Interval
<1>6. ~(Cardinality(0..(BatchSize - 1)) < Cardinality(chosen))
  <2> SUFFICES ASSUME Cardinality(0..(BatchSize - 1)) < Cardinality(chosen) PROVE FALSE
    OBVIOUS
  <2> HIDE DEF rank
  <2>1. PICK t \in chosen, u \in chosen : t # u /\ rank[t] = rank[u]
    BY <1>1, <1>3, <1>5, FS_PigeonHole
  <2>2. Before(t, u) \/ Before(u, t)
    BY <2>1, Order
  <2> QED
    BY <1>4, <2>1, <2>2
<1> QED
  BY <1>1, <1>5, <1>6, CountAssumption

LEMMA InvInitially == Init => Inv
<1> SUFFICES ASSUME Init PROVE Inv
  OBVIOUS
<1>1. Cardinality({}) = 0 /\ <<>> \in Seq(0..MaxAmount)
  BY FS_EmptySet
<1>2. TypeOK
  <2>1. batch \subseteq Task /\ rest \subseteq batch /\ Cardinality(batch) <= BatchSize
    BY <1>1, CountAssumption DEF Init
  <2>2. events \in Seq(0..MaxAmount) /\ announced \in 0..(MaxEvents + 1) /\ amount \in 0..MaxAmount
    BY <1>1, BoundAssumption DEF Init
  <2>3. /\ row \in [Task -> {"none", "new", "triggered"}]
        /\ sub \in [Task -> {"unplanned", "planned", "suspended", "error", "ended"}]
        /\ launches \in [Task -> 0..MaxLaunch]
        /\ failures \in 0..MaxFailures
    BY BoundAssumption DEF Init
  <2> QED
    BY <2>1, <2>2, <2>3 DEF Init, TypeOK
<1> QED
  BY <1>2 DEF Init, Inv, RowInv, ToldInv, BatchInv, HandledInv, LaunchInv

-----------------------------------------------------------------------------
(* The sub-tasks and their planner.                                        *)
LEMMA SubTaskKeeps ==
  ASSUME Inv, NEW t \in Task,
         PlanSubTask(t) \/ RunSubTask(t) \/ ProcessStopped(t) \/ EndSubTask(t) \/ CleanRemoteTask(t)
  PROVE  Inv'
<1> USE DEF counts, launchVars
<1>1. CASE PlanSubTask(t)
  <2>1. TypeOK'
    BY <1>1 DEF PlanSubTask, Inv, TypeOK
  <2>2. RowInv' /\ BatchInv'
    BY <1>1 DEF PlanSubTask, Inv, TypeOK, RowInv, BatchInv
  <2>6. ToldInv'
    BY <1>1 DEF PlanSubTask, Inv, TypeOK, ToldInv
  <2>3. t \notin tried /\ row'[t] = "new" /\ sub'[t] = "planned"
        /\ \A u \in Task : u # t => row'[u] = row[u] /\ sub'[u] = sub[u]
    BY <1>1 DEF PlanSubTask, Inv, TypeOK, BatchInv
  <2>4. HandledInv'
    <3> SUFFICES ASSUME NEW u \in tried' \ rest' PROVE Handled(u)'
      BY DEF HandledInv
    <3>1. u \in tried \ rest /\ u # t /\ u \in Task
      BY <1>1, <2>3 DEF PlanSubTask, Inv, TypeOK
    <3>2. Handled(u)
      BY <3>1 DEF Inv, HandledInv
    <3> QED
      BY <1>1, <2>3, <3>1, <3>2 DEF PlanSubTask, Handled
  <2>5. LaunchInv'
    BY <1>1, <2>3 DEF PlanSubTask, Inv, LaunchInv, Unsent
  <2> QED
    BY <2>1, <2>2, <2>4, <2>5, <2>6 DEF Inv
<1>2. CASE ProcessStopped(t)
  <2> DEFINE s == IF sub[t] = "suspended" THEN "error" ELSE sub[t]
  <2>1. sub' = [sub EXCEPT ![t] = s]
    BY <1>2 DEF ProcessStopped
  <2>2. s \in {"unplanned", "planned", "error", "ended"} /\ (s # "error" => s = sub[t])
        /\ (s = "error" => sub[t] \in {"suspended", "error"})
        /\ s \in {"error", "ended"}
    BY <1>2 DEF ProcessStopped, Inv, TypeOK, ToldInv
  <2> HIDE DEF s
  <2>3. sub'[t] = s /\ \A u \in Task : u # t => sub'[u] = sub[u]
    BY <2>1 DEF Inv, TypeOK
  <2>4. TypeOK'
    BY <1>2, <2>1, <2>2 DEF ProcessStopped, Inv, TypeOK
  <2>5. RowInv' /\ BatchInv'
    BY <1>2, <2>2, <2>3 DEF ProcessStopped, Inv, TypeOK, RowInv, BatchInv
  <2>8. ToldInv'
    BY <1>2, <2>2, <2>3 DEF ProcessStopped, Inv, TypeOK, ToldInv
  <2>6. HandledInv'
    <3> SUFFICES ASSUME NEW u \in tried' \ rest' PROVE Handled(u)'
      BY DEF HandledInv
    <3>1. u \in tried \ rest /\ u \in Task /\ sub[u] # "unplanned"
      BY <1>2 DEF ProcessStopped, Inv, TypeOK, BatchInv
    <3>2. Handled(u)
      BY <3>1 DEF Inv, HandledInv
    <3>3. CASE u = t
      BY <2>2, <2>3, <3>1, <3>3 DEF Handled
    <3>4. CASE u # t
      BY <1>2, <2>3, <3>1, <3>2, <3>4 DEF ProcessStopped, Handled
    <3> QED
      BY <3>3, <3>4
  <2>7. LaunchInv'
    <3>1. \A u \in Task : Unsent(u)' => Unsent(u)
      BY <1>2, <2>2, <2>3 DEF ProcessStopped, Unsent
    <3> QED
      BY <1>2, <3>1 DEF ProcessStopped, Inv, LaunchInv
  <2> QED
    BY <2>4, <2>5, <2>6, <2>7, <2>8 DEF Inv
<1>3. CASE RunSubTask(t) \/ EndSubTask(t)
  <2> DEFINE s == IF RunSubTask(t) THEN "suspended" ELSE "ended"
  <2>1. /\ sub' = [sub EXCEPT ![t] = s] /\ s \in {"suspended", "ended"}
        /\ sub[t] \in {"planned", "suspended", "error"}
        /\ s = "suspended" => sub[t] = "planned"
    BY <1>3 DEF RunSubTask, EndSubTask
  <2> HIDE DEF s
  <2>2. sub'[t] = s /\ \A u \in Task : u # t => sub'[u] = sub[u]
    BY <2>1 DEF Inv, TypeOK
  <2>3. UNCHANGED <<row, told, unheard, launches, unmarked, tried, events, announced, step, amount,
                    batch, rest, planned, failed, lastSeen, failures>>
    BY <1>3 DEF RunSubTask, EndSubTask
  <2>4. TypeOK'
    BY <2>1, <2>3 DEF Inv, TypeOK
  <2>5. RowInv' /\ BatchInv'
    BY <2>1, <2>2, <2>3 DEF Inv, TypeOK, RowInv, BatchInv
  <2>8. ToldInv'
    BY <2>1, <2>2, <2>3 DEF Inv, TypeOK, ToldInv
  <2>6. HandledInv'
    <3> SUFFICES ASSUME NEW u \in tried' \ rest' PROVE Handled(u)'
      BY DEF HandledInv
    <3>1. u \in tried \ rest /\ u \in Task
      BY <2>3 DEF Inv, TypeOK
    <3>2. Handled(u)
      BY <3>1 DEF Inv, HandledInv
    <3>3. sub[u] \in {"error", "ended"} => sub'[u] \in {"error", "ended"}
      BY <2>1, <2>2, <3>1
    <3> QED
      BY <2>3, <3>2, <3>3 DEF Handled
  <2>7. LaunchInv'
    <3>1. \A u \in Task : Unsent(u)' => Unsent(u)
      BY <2>1, <2>2, <2>3 DEF Unsent
    <3> QED
      BY <2>3, <3>1 DEF Inv, LaunchInv
  <2> QED
    BY <2>4, <2>5, <2>6, <2>7, <2>8 DEF Inv
<1>4. CASE CleanRemoteTask(t)
  <2>1. /\ row' = [row EXCEPT ![t] = "none"] /\ sub[t] = "ended"
        /\ row'[t] = "none" /\ \A u \in Task : u # t => row'[u] = row[u]
    BY <1>4 DEF CleanRemoteTask, Inv, TypeOK
  <2>2. UNCHANGED <<sub, told, unheard, launches, unmarked, tried, events, announced, step, amount,
                    batch, rest, planned, failed, lastSeen, failures>>
    BY <1>4 DEF CleanRemoteTask
  <2>3. TypeOK'
    BY <2>1, <2>2 DEF Inv, TypeOK
  <2>4. RowInv' /\ ToldInv' /\ BatchInv'
    BY <2>1, <2>2 DEF Inv, RowInv, ToldInv, BatchInv
  <2>5. HandledInv'
    <3> SUFFICES ASSUME NEW u \in tried' \ rest' PROVE Handled(u)'
      BY DEF HandledInv
    <3>1. u \in Task /\ Handled(u)
      BY <2>2 DEF Inv, TypeOK, HandledInv
    <3> QED
      BY <2>1, <2>2, <3>1 DEF Handled
  <2>6. LaunchInv'
    <3>1. \A u \in Task : Unsent(u)' => Unsent(u)
      BY <2>1, <2>2 DEF Unsent
    <3> QED
      BY <2>2, <3>1 DEF Inv, LaunchInv
  <2> QED
    BY <2>3, <2>4, <2>5, <2>6 DEF Inv
<1> QED
  BY <1>1, <1>2, <1>3, <1>4

(* Steps that change neither the sub-tasks nor the batch.                  *)
LEMMA QuietKeeps ==
  ASSUME Inv, TypeOK', batch = {} \/ (step' = step /\ amount' = amount),
         UNCHANGED <<subVars, launchVars, batch, rest>>
  PROVE  Inv'
<1> USE DEF subVars, launchVars
<1>1. RowInv' /\ ToldInv' /\ BatchInv'
  BY DEF Inv, RowInv, ToldInv, BatchInv
<1>2. HandledInv'
  <2> SUFFICES ASSUME NEW u \in tried' \ rest' PROVE Handled(u)'
    BY DEF HandledInv
  <2> QED
    BY DEF Inv, HandledInv, Handled
<1>3. LaunchInv'
  BY DEF Inv, LaunchInv, Unsent
<1> QED
  BY <1>1, <1>2, <1>3 DEF Inv

LEMMA QuietStepsKeep ==
  ASSUME Inv,
         \/ \E n \in 1..MaxAmount : TriggerNextBatch(n)
         \/ TriggerLastBatch \/ ReceiveEvent \/ EndRun \/ Resume \/ UNCHANGED vars
  PROVE  Inv'
<1> USE DEF counts, subVars, launchVars
<1>1. ASSUME NEW e \in 0..MaxAmount, Send(e) PROVE events' \in Seq(0..MaxAmount)
  <2>1. events \in Seq(0..MaxAmount)
    BY DEF Inv, TypeOK
  <2>2. Append(events, e) \in Seq(0..MaxAmount)
    BY <2>1, AppendProperties
  <2> QED
    BY <1>1, <2>1, <2>2 DEF Send
<1>2. ASSUME NEW n \in 1..MaxAmount, TriggerNextBatch(n) PROVE Inv'
  <2>1. n \in 0..MaxAmount
    OBVIOUS
  <2>2. events' \in Seq(0..MaxAmount)
    BY <1>1, <1>2, <2>1 DEF TriggerNextBatch
  <2>3. TypeOK'
    BY <1>2, <2>2, BoundAssumption DEF TriggerNextBatch, Inv, TypeOK
  <2> QED
    BY <1>2, <2>3, QuietKeeps DEF TriggerNextBatch
<1>3. CASE TriggerLastBatch
  <2>1. events' \in Seq(0..MaxAmount)
    BY <1>1, <1>3, BoundAssumption DEF TriggerLastBatch, Last
  <2>2. TypeOK'
    BY <1>3, <2>1, BoundAssumption DEF TriggerLastBatch, Inv, TypeOK
  <2> QED
    BY <1>3, <2>2, QuietKeeps DEF TriggerLastBatch
<1>4. CASE ReceiveEvent
  <2>1. batch = {}
    BY <1>4 DEF ReceiveEvent, Inv, BatchInv
  <2>2. events' \in Seq(0..MaxAmount) /\ Head(events) \in 0..MaxAmount
    <3>1. events \in Seq(0..MaxAmount) /\ events # <<>>
      BY <1>4 DEF ReceiveEvent, Inv, TypeOK
    <3>2. Tail(events) \in Seq(0..MaxAmount) /\ Head(events) \in 0..MaxAmount
      BY <3>1, HeadTailProperties
    <3> QED
      BY <1>4, <3>2 DEF ReceiveEvent
  <2>3. amount' \in 0..MaxAmount
    BY <1>4, <2>2, BoundAssumption DEF ReceiveEvent
  <2>4. lastSeen' \in BOOLEAN
    BY <1>4 DEF ReceiveEvent
  <2>5. TypeOK'
    BY <1>4, <2>2, <2>3, <2>4 DEF ReceiveEvent, Inv, TypeOK
  <2> QED
    BY <1>4, <2>1, <2>5, QuietKeeps DEF ReceiveEvent
<1>5. CASE EndRun
  <2>1. batch = {}
    BY <1>5 DEF EndRun, Inv, BatchInv
  <2>2. TypeOK'
    BY <1>5 DEF EndRun, Inv, TypeOK
  <2> QED
    BY <1>5, <2>1, <2>2, QuietKeeps DEF EndRun
<1>6. CASE Resume
  <2>1. batch = {}
    BY <1>6 DEF Resume, Inv, BatchInv
  <2>2. step' \in {"success", "running"} /\ amount' \in {amount, 1}
    BY <1>6 DEF Resume
  <2>3. TypeOK'
    BY <1>6, <2>2, BoundAssumption DEF Resume, Inv, TypeOK
  <2> QED
    BY <1>6, <2>1, <2>3, QuietKeeps DEF Resume
<1>7. CASE UNCHANGED vars
  <2>1. TypeOK'
    BY <1>7 DEF vars, Inv, TypeOK
  <2> QED
    BY <1>7, <2>1, QuietKeeps DEF vars
<1> QED
  BY <1>2, <1>3, <1>4, <1>5, <1>6, <1>7

-----------------------------------------------------------------------------
(* The batches.                                                            *)
LEMMA SelectKeeps == ASSUME Inv, SelectBatch PROVE Inv'
<1> USE DEF counts, subVars, launchVars
<1>1. batch' \subseteq Task /\ Cardinality(batch') <= BatchSize
  <2>1. Pending \subseteq Task
    BY DEF Pending
  <2>2. batch' = {t \in Pending : Cardinality({u \in Pending : Before(u, t)}) < BatchSize}
    BY DEF SelectBatch
  <2> QED
    BY <2>1, <2>2, FirstOfRows
<1>2. \A t \in batch' : t \in Task /\ row[t] = "new"
  BY DEF SelectBatch, Pending
<1>3. batch = {} /\ rest = {} /\ rest' = batch' /\ tried' = tried \cup batch'
  BY DEF SelectBatch, Inv, TypeOK
<1>4. TypeOK'
  <2>1. amount' \in 0..MaxAmount
    <3>1. amount \in 0..MaxAmount /\ amount > 0
      BY DEF SelectBatch, Inv, TypeOK
    <3>2. amount' = amount \/ amount' = amount - 1
      BY DEF SelectBatch
    <3> QED
      BY <3>1, <3>2, BoundAssumption
  <2> QED
    BY <1>1, <1>3, <2>1 DEF SelectBatch, Inv, TypeOK
<1>5. RowInv' /\ ToldInv' /\ BatchInv'
  <2>1. batch' # {} => step' = "running" /\ amount' > 0
    BY DEF SelectBatch
  <2>2. \A t \in batch' : sub[t] # "unplanned"
    BY <1>2 DEF Inv, RowInv
  <2> QED
    BY <1>3, <2>1, <2>2 DEF SelectBatch, Inv, RowInv, ToldInv, BatchInv
<1>6. HandledInv'
  <2> SUFFICES ASSUME NEW u \in tried' \ rest' PROVE Handled(u)'
    BY DEF HandledInv
  <2>1. Handled(u)
    BY <1>3 DEF Inv, HandledInv
  <2> QED
    BY <2>1 DEF SelectBatch, Handled
<1>7. LaunchInv'
  <2>1. \A t \in Task : Unsent(t)' => Unsent(t)
    BY <1>2, <1>3 DEF SelectBatch, Unsent
  <2> QED
    BY <2>1 DEF SelectBatch, Inv, LaunchInv
<1> QED
  BY <1>4, <1>5, <1>6, <1>7 DEF Inv

(* A request to a proxy, however it ends: some tasks are started, and of   *)
(* these some have their rows written.  The rows of the others are told.   *)
LEMMA StartKeeps ==
  ASSUME Inv, NEW started, started \subseteq Group, NEW written, written \subseteq started,
         Start(started, written), rest' \subseteq rest, rest' \cap started = {}, UNCHANGED sub
  PROVE  /\ row' \in [Task -> {"none", "new", "triggered"}]
         /\ launches' \in [Task -> 0..MaxLaunch]
         /\ unmarked' \subseteq Task
         /\ RowInv' /\ LaunchInv'
         /\ \A t \in tried \cap written : row'[t] = "triggered" \/ sub[t] = "ended"
         /\ \A t \in Task : row[t] = "triggered" => row'[t] = "triggered"
<1>1. Group \subseteq rest /\ rest \subseteq batch /\ batch \subseteq Task /\ batch \subseteq tried
  BY DEF Group, Inv, TypeOK, BatchInv
<1>2. /\ launches' = [t \in Task |-> IF t \in started THEN launches[t] + 1 ELSE launches[t]]
      /\ unmarked' = unmarked \cup (started \ written)
      /\ row' = [t \in Task |-> IF t \in written /\ row[t] # "none" THEN "triggered" ELSE row[t]]
      /\ \A t \in started : launches[t] < MaxLaunch
  BY DEF Start
<1>3. launches' \in [Task -> 0..MaxLaunch]
  <2> SUFFICES ASSUME NEW t \in Task PROVE launches'[t] \in 0..MaxLaunch
    BY <1>2
  <2>1. launches[t] \in 0..MaxLaunch
    BY DEF Inv, TypeOK
  <2> QED
    BY <1>2, <2>1, BoundAssumption
<1>4. row' \in [Task -> {"none", "new", "triggered"}] /\ unmarked' \subseteq Task
  BY <1>1, <1>2 DEF Inv, TypeOK
<1>5. RowInv'
  BY <1>2 DEF Inv, RowInv
<1>6. LaunchInv'
  <2> SUFFICES ASSUME NEW t \in Task \ unmarked'
               PROVE  launches'[t] <= 1 /\ (Unsent(t)' => launches'[t] = 0)
    BY DEF LaunchInv
  <2>1. launches[t] \in Nat /\ launches[t] <= 1 /\ (Unsent(t) => launches[t] = 0)
    <3>1. launches[t] \in 0..MaxLaunch /\ t \notin unmarked
      BY <1>2 DEF Inv, TypeOK
    <3> QED
      BY <3>1, BoundAssumption DEF Inv, LaunchInv
  <2>2. CASE t \in started
    <3>1. t \in written /\ t \in rest /\ t \notin rest' /\ sub[t] # "unplanned"
      BY <1>1, <1>2, <2>2 DEF Inv, BatchInv
    <3>2. launches'[t] = 1
      BY <1>2, <2>1, <2>2, <3>1 DEF Unsent
    <3>3. ~Unsent(t)'
      BY <1>2, <3>1 DEF Unsent
    <3> QED
      BY <3>2, <3>3
  <2>3. CASE t \notin started
    <3>1. launches'[t] = launches[t] /\ (Unsent(t)' => Unsent(t))
      BY <1>2, <2>3 DEF Unsent
    <3> QED
      BY <2>1, <3>1
  <2> QED
    BY <2>2, <2>3
<1>7. \A t \in tried \cap written : row'[t] = "triggered" \/ sub[t] = "ended"
  BY <1>1, <1>2 DEF Inv, TypeOK, RowInv, BatchInv
<1>8. \A t \in Task : row[t] = "triggered" => row'[t] = "triggered"
  BY <1>2
<1> QED
  BY <1>3, <1>4, <1>5, <1>6, <1>7, <1>8

(* Every sub-task that had a plan when it was told hears, is deaf, or over.*)
LEMMA TellsAll ==
  ASSUME Inv, NEW S, S \subseteq Task, NEW t \in S, sub[t] # "unplanned"
  PROVE  t \in Hearing(S) \/ t \in Deaf(S) \/ sub[t] \in {"error", "ended"}
BY DEF Inv, TypeOK, Hearing, Deaf

LEMMA LaunchKeeps == ASSUME Inv, LaunchGroup PROVE Inv'
<1> USE DEF counts, subVars
<1>1. PICK accepted \in SUBSET Group :
        /\ Start(accepted, accepted)
        /\ told' = told \cup Hearing(Group \ accepted)
        /\ unheard' = unheard \cup Deaf(Group \ accepted)
        /\ UNCHANGED sub
  BY DEF LaunchGroup
<1>2. /\ accepted \subseteq Group /\ Group \subseteq rest /\ rest \subseteq batch /\ batch \subseteq Task
      /\ batch # {}
  BY <1>1 DEF LaunchGroup, Group, Inv, TypeOK
<1>3. rest' = rest \ Group /\ batch' \subseteq batch /\ rest' \subseteq batch'
      /\ (batch' = batch \/ batch' = {})
  BY <1>2 DEF LaunchGroup, EndBatch
<1>4. Cardinality(batch') <= BatchSize /\ Cardinality(batch) \in Nat
  BY <1>2, <1>3, TaskSets, FS_EmptySet, CountAssumption DEF Inv, TypeOK
<1>5. amount' \in 0..MaxAmount /\ (batch' # {} => amount' = amount)
  <2>1. amount \in 0..MaxAmount /\ amount > 0
    BY <1>2 DEF Inv, TypeOK, BatchInv
  <2>2. amount' = amount \/ (amount' = amount - 1 /\ batch' = {})
    BY DEF LaunchGroup, EndBatch
  <2> QED
    BY <2>1, <2>2, BoundAssumption
<1>6. rest' \subseteq rest /\ rest' \cap accepted = {}
  BY <1>2, <1>3
<1>7. /\ row' \in [Task -> {"none", "new", "triggered"}]
      /\ launches' \in [Task -> 0..MaxLaunch]
      /\ unmarked' \subseteq Task
      /\ RowInv' /\ LaunchInv'
      /\ \A t \in tried \cap accepted : row'[t] = "triggered" \/ sub[t] = "ended"
      /\ \A t \in Task : row[t] = "triggered" => row'[t] = "triggered"
  BY <1>1, <1>2, <1>6, StartKeeps
<1>8. TypeOK'
  <2>1. told' \subseteq Task /\ unheard' \subseteq Task
    BY <1>1, <1>2 DEF Hearing, Deaf, Inv, TypeOK
  <2>2. planned' \in Nat
    BY <1>4 DEF LaunchGroup, Inv, TypeOK
  <2> QED
    BY <1>1, <1>2, <1>3, <1>4, <1>5, <1>7, <2>1, <2>2 DEF LaunchGroup, Inv, TypeOK
<1>9. ToldInv' /\ BatchInv'
  BY <1>1, <1>3, <1>5 DEF LaunchGroup, Hearing, Inv, ToldInv, BatchInv
<1>10. HandledInv'
  <2> SUFFICES ASSUME NEW u \in tried' \ rest' PROVE Handled(u)'
    BY DEF HandledInv
  <2>1. u \in tried /\ u \in Task /\ sub[u] # "unplanned" /\ sub'[u] = sub[u]
    BY <1>1 DEF LaunchGroup, Inv, TypeOK, BatchInv
  <2>2. CASE u \notin rest
    <3>1. Handled(u)
      BY <2>1, <2>2 DEF Inv, HandledInv
    <3> QED
      BY <1>1, <1>7, <2>1, <3>1 DEF Handled
  <2>3. CASE u \in Group /\ u \in accepted
    BY <1>7, <2>1, <2>3 DEF Handled
  <2>4. CASE u \in Group /\ u \notin accepted
    <3>1. u \in Hearing(Group \ accepted) \/ u \in Deaf(Group \ accepted) \/ sub[u] \in {"error", "ended"}
      BY <1>2, <2>1, <2>4, TellsAll
    <3> QED
      BY <1>1, <2>1, <3>1 DEF Handled
  <2> QED
    BY <1>3, <2>2, <2>3, <2>4
<1> QED
  BY <1>7, <1>8, <1>9, <1>10 DEF Inv

LEMMA RaisesKeeps == ASSUME Inv, LaunchRaises PROVE Inv'
<1> USE DEF counts, subVars
<1>1. /\ batch \subseteq Task /\ batch # {} /\ rest \subseteq batch
      /\ batch' = {} /\ rest' = {} /\ amount' = amount - 1
      /\ told' = told \cup Hearing(batch) /\ unheard' = unheard \cup Deaf(batch)
      /\ sub' = sub /\ tried' = tried
  BY DEF LaunchRaises, EndBatch, Inv, TypeOK
<1>2. PICK served \in {{}, Group} : Start(served, {})
  BY DEF LaunchRaises
<1>3. /\ row' \in [Task -> {"none", "new", "triggered"}]
      /\ launches' \in [Task -> 0..MaxLaunch]
      /\ unmarked' \subseteq Task
      /\ RowInv' /\ LaunchInv'
      /\ \A t \in Task : row[t] = "triggered" => row'[t] = "triggered"
  <2>1. served \subseteq Group /\ rest' \subseteq rest /\ rest' \cap served = {} /\ {} \subseteq served
    BY <1>1, <1>2
  <2> QED
    BY <1>1, <1>2, <2>1, StartKeeps
<1>4. TypeOK'
  <2>1. amount' \in 0..MaxAmount
    <3>1. amount \in 0..MaxAmount /\ amount > 0
      BY <1>1 DEF Inv, TypeOK, BatchInv
    <3> QED
      BY <1>1, <3>1, BoundAssumption
  <2>2. Cardinality(batch') <= BatchSize
    BY <1>1, FS_EmptySet, CountAssumption
  <2>3. failed' \in Nat
    BY <1>1, TaskSets DEF LaunchRaises, Inv, TypeOK
  <2>4. failures' \in 0..MaxFailures
    BY BoundAssumption DEF LaunchRaises, Fail, Inv, TypeOK
  <2>5. told' \subseteq Task /\ unheard' \subseteq Task
    BY <1>1 DEF Hearing, Deaf, Inv, TypeOK
  <2> QED
    BY <1>1, <1>3, <2>1, <2>2, <2>3, <2>4, <2>5 DEF LaunchRaises, Inv, TypeOK
<1>5. ToldInv' /\ BatchInv'
  BY <1>1 DEF Hearing, Inv, ToldInv, BatchInv
<1>6. HandledInv'
  <2> SUFFICES ASSUME NEW u \in tried' PROVE Handled(u)'
    BY DEF HandledInv
  <2>1. u \in tried /\ sub[u] # "unplanned"
    BY <1>1 DEF Inv, BatchInv
  <2>2. CASE u \in rest
    <3>1. u \in Hearing(batch) \/ u \in Deaf(batch) \/ sub[u] \in {"error", "ended"}
      BY <1>1, <2>1, <2>2, TellsAll
    <3> QED
      BY <1>1, <3>1 DEF Handled
  <2>3. CASE u \notin rest
    <3>1. Handled(u) /\ u \in Task
      BY <2>1, <2>3 DEF Inv, TypeOK, HandledInv
    <3> QED
      BY <1>1, <1>3, <3>1 DEF Handled
  <2> QED
    BY <2>2, <2>3
<1> QED
  BY <1>3, <1>4, <1>5, <1>6 DEF Inv

LEMMA BreaksKeeps == ASSUME Inv, LaunchBreaks PROVE Inv'
<1> USE DEF counts, subVars
<1>1. PICK accepted \in SUBSET Group, handled \in Beginnings(Group) :
        /\ Start(accepted, accepted \cap handled)
        /\ told' = told \cup Hearing(handled \ accepted)
        /\ unheard' = unheard \cup (rest \ handled) \cup Deaf(handled \ accepted)
  BY DEF LaunchBreaks
<1>2. /\ handled \subseteq Group /\ Group \subseteq rest /\ rest \subseteq batch /\ batch \subseteq Task
      /\ batch' = {} /\ rest' = {} /\ amount' = 0 /\ events' = <<>>
      /\ step' = "error" /\ UNCHANGED <<sub, tried, announced, planned, failed, lastSeen>>
  BY DEF LaunchBreaks, Beginnings, Group, Inv, TypeOK
<1>3. /\ row' \in [Task -> {"none", "new", "triggered"}]
      /\ launches' \in [Task -> 0..MaxLaunch]
      /\ unmarked' \subseteq Task
      /\ RowInv' /\ LaunchInv'
      /\ \A t \in tried \cap (accepted \cap handled) : row'[t] = "triggered" \/ sub[t] = "ended"
      /\ \A t \in Task : row[t] = "triggered" => row'[t] = "triggered"
  <2>1. /\ accepted \subseteq Group /\ accepted \cap handled \subseteq accepted
        /\ rest' \subseteq rest /\ rest' \cap accepted = {}
    BY <1>1, <1>2
  <2> QED
    BY <1>1, <1>2, <2>1, StartKeeps
<1>4. TypeOK'
  <2>1. events' \in Seq(0..MaxAmount) /\ Cardinality(batch') <= BatchSize
    BY <1>2, EmptySeq, FS_EmptySet, CountAssumption
  <2>2. failures' \in 0..MaxFailures
    BY BoundAssumption DEF LaunchBreaks, Fail, Inv, TypeOK
  <2>3. told' \subseteq Task /\ unheard' \subseteq Task
    BY <1>1, <1>2 DEF Hearing, Deaf, Inv, TypeOK
  <2> QED
    BY <1>2, <1>3, <2>1, <2>2, <2>3, BoundAssumption DEF Inv, TypeOK
<1>5. ToldInv' /\ BatchInv'
  BY <1>1, <1>2 DEF Hearing, Inv, ToldInv, BatchInv
<1>6. HandledInv'
  <2> SUFFICES ASSUME NEW u \in tried' PROVE Handled(u)'
    BY DEF HandledInv
  <2>1. u \in tried /\ u \in Task /\ sub[u] # "unplanned"
    BY <1>2 DEF Inv, TypeOK, BatchInv
  <2>2. CASE u \notin rest
    <3>1. Handled(u)
      BY <2>1, <2>2 DEF Inv, HandledInv
    <3> QED
      BY <1>1, <1>2, <1>3, <2>1, <3>1 DEF Handled
  <2>3. CASE u \in rest /\ u \notin handled
    BY <1>1, <2>3 DEF Handled
  <2>4. CASE u \in handled /\ u \in accepted
    BY <1>2, <1>3, <2>1, <2>4 DEF Handled
  <2>5. CASE u \in handled /\ u \notin accepted
    <3>1. u \in Hearing(handled \ accepted) \/ u \in Deaf(handled \ accepted) \/ sub[u] \in {"error", "ended"}
      BY <1>2, <2>1, <2>5, TellsAll
    <3> QED
      BY <1>1, <1>2, <3>1 DEF Handled
  <2> QED
    BY <2>2, <2>3, <2>4, <2>5
<1> QED
  BY <1>3, <1>4, <1>5, <1>6 DEF Inv

LEMMA InvNext == Inv /\ [Next]_vars => Inv'
BY SubTaskKeeps, QuietStepsKeep, SelectKeeps, LaunchKeeps, RaisesKeeps, BreaksKeeps DEF Next

-----------------------------------------------------------------------------
(* The types hold for any number of sub-tasks, and a batch is never larger *)
(* than batch_size.                                                        *)
THEOREM TypesKept == Spec => []TypeOK
<1>1. Inv => TypeOK
  BY DEF Inv
<1> QED
  BY <1>1, InvInitially, InvNext, PTL DEF Spec

(* Whatever proxies answer, and whatever a request raises, each sub-task   *)
(* of a batch that is over runs on its proxy, or is over, or gets told, or *)
(* is one of those that could not be told when its batch failed.           *)
THEOREM AllGetToKnow == Spec => []NobodyForgotten
<1>1. Inv => NobodyForgotten
  BY DEF Inv, TypeOK, HandledInv, Handled, NobodyForgotten
<1> QED
  BY <1>1, InvInitially, InvNext, PTL DEF Spec

(* Batches overlap in no sub-task, except those whose rows could not be    *)
(* written after the proxy had started their tasks.                        *)
THEOREM BatchesAreDisjoint == Spec => []LaunchedOnce
<1>1. Inv => LaunchedOnce
  BY DEF Inv, LaunchInv, LaunchedOnce
<1> QED
  BY <1>1, InvInitially, InvNext, PTL DEF Spec
=============================================================================
