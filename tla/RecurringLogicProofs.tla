------------------------ MODULE RecurringLogicProofs ------------------------
(***************************************************************************)
(* Proofs about RecurringLogic, for any iteration limit, any number of     *)
(* occurrences and any requests.  The invariant follows a token: what will *)
(* bring the next occurrence is one waiting task or one call of the hook.  *)
(***************************************************************************)
EXTENDS RecurringLogic, FiniteSetTheorems, TLAPS

Slot == [phase : {"none", "due", "loaded", "saved", "delaying"},
         copy : LogicRow \cup {NoCopy}, next : Caller]

(* A call belongs to a plan that was planned or stopped, and the delay     *)
(* record stays until then.                                                *)
PlanInv ==
  \A n \in Occurrence :
    /\ occ[n] \notin {"planned", "stopped"} => repeat[n].phase = "none"
    /\ occ[n] \in {"scheduled", "planning"} => n \in records
    /\ occ[n] \in {"none", "pending", "running"} => n \notin records

(* What a call holds.                                                      *)
CopyInv(c) ==
  /\ repeat[c].phase \in {"loaded", "saved", "delaying"} => repeat[c].copy \in LogicRow
  /\ repeat[c].phase = "loaded" => repeat[c].copy.iteration = logic.iteration
  /\ repeat[c].phase = "loaded" /\ repeat[c].copy.state = "cancelled" => canceller # "idle"
  /\ repeat[c].phase = "loaded" /\ repeat[c].copy.state = "finished" =>
       ended \/ logic.iteration >= MaxIteration
  /\ repeat[c].phase = "delaying" =>
       repeat[c].next \in Occurrence /\ occ[repeat[c].next] = "pending"
CallInv == \A c \in Caller : CopyInv(c)

(* One token.                                                              *)
TokenInv ==
  /\ \A m, n \in Waiting : m = n
  /\ \A c, d \in Repeating : c = d
  /\ \A n \in Waiting, c \in Repeating : FALSE

(* The counter is ahead by one between the save and the new plan.          *)
CountInv ==
  /\ logic.iteration <= MaxIteration
  /\ Cardinality(Created) <= logic.iteration
  /\ (\E c \in Caller : repeat[c].phase = "saved") => Cardinality(Created) + 1 <= logic.iteration

(* The token is lost for a reason, and the logic ends for one.             *)
LifeInv ==
  /\ logic.state = "cancelled" => canceller # "idle"
  /\ logic.state = "finished" => ended \/ logic.iteration >= MaxIteration
  /\ canceller = "idle" /\ ~broken /\ ~ended /\ logic.iteration < MaxIteration =>
       Waiting \cup Repeating # {}

(* Once a late occurrence is there, no call will create another: those at  *)
(* work found the logic cancelled or finished.                             *)
LateInv ==
  /\ known # Occurrence => logic.state \in Done
  /\ \A m, n \in Created \ known : m = n
  /\ Created \ known # {} =>
       \A c \in Caller : /\ repeat[c].phase # "saved"
                         /\ repeat[c].phase = "loaded" => repeat[c].copy.state \in Done

Inv == TypeOK /\ PlanInv /\ CallInv /\ TokenInv /\ CountInv /\ LifeInv

-----------------------------------------------------------------------------
LEMMA CreatedFinite ==
  /\ IsFiniteSet(Created) /\ Cardinality(Created) \in Nat
  /\ IsFiniteSet(Created') /\ Cardinality(Created') \in Nat
<1>1. IsFiniteSet(Occurrence)
  BY BoundAssumption, FS_Interval DEF Occurrence
<1>2. Created \subseteq Occurrence /\ Created' \subseteq Occurrence
  BY DEF Created
<1> QED
  BY <1>1, <1>2, FS_Subset, FS_CardinalityType

LEMMA InvInitially == Init => Inv
<1> SUFFICES ASSUME Init PROVE Inv
  OBVIOUS
<1>1. /\ repeat \in [Caller -> Slot]
      /\ \A c \in Caller : repeat[c] = IF c = 0 THEN Loaded(Started) ELSE Idle
  <2> DEFINE r == Loaded(Started)
  <2>2. repeat = [c \in Caller |-> IF c = 0 THEN r ELSE Idle]
    BY DEF Init
  <2>3. 0 \in Caller /\ Started \in LogicRow
    BY BoundAssumption DEF Started, LogicRow, LogicStates, Caller
  <2>4. r \in Slot /\ Idle \in Slot
    BY <2>3 DEF Slot, Idle, Loaded
  <2> QED
    BY <2>2, <2>4
<1>2. TypeOK
  BY <1>1 DEF Init, TypeOK, Slot, LogicRow, LogicStates, Started, PlanStates
<1>3. PlanInv
  BY <1>1 DEF Init, PlanInv, Occurrence, Caller, Idle, Loaded
<1>4. CallInv
  BY <1>1 DEF Init, CallInv, CopyInv, Idle, Loaded, Started, LogicRow, LogicStates
<1>5. TokenInv
  BY <1>1 DEF Init, TokenInv, Waiting, Repeating, Idle, Loaded
<1>6. CountInv
  <2>1. Created = {}
    BY DEF Init, Created
  <2> QED
    BY <1>1, <2>1, FS_EmptySet, LimitAssumption DEF Init, CountInv, Started, Idle, Loaded
<1>7. LifeInv
  <2>1. 0 \in Repeating
    BY <1>1, BoundAssumption DEF Repeating, Caller, Loaded
  <2> QED
    BY <2>1 DEF Init, LifeInv, Started
<1> QED
  BY <1>2, <1>3, <1>4, <1>5, <1>6, <1>7 DEF Inv

-----------------------------------------------------------------------------
(* Steps that leave the plans, the calls and the counter alone.            *)
LEMMA FrameKeeps ==
  ASSUME Inv, TypeOK', UNCHANGED <<occ, records, repeat, broken>>,
         logic'.iteration = logic.iteration,
         canceller' = "idle" => canceller = "idle",
         ended => ended',
         logic'.state = "cancelled" => canceller' # "idle",
         logic'.state = "finished" => logic.state = "finished"
  PROVE  Inv'
<1>1. PlanInv'
  BY DEF Inv, PlanInv
<1>2. CallInv'
  BY DEF Inv, CallInv, CopyInv
<1>3. Waiting' = Waiting /\ Repeating' = Repeating /\ Created' = Created
  BY DEF Waiting, Repeating, Created
<1>4. TokenInv'
  BY <1>3 DEF Inv, TokenInv
<1>5. CountInv'
  BY <1>3 DEF Inv, CountInv
<1>6. LifeInv'
  BY <1>3 DEF Inv, LifeInv
<1> QED
  BY <1>1, <1>2, <1>4, <1>5, <1>6 DEF Inv

LEMMA SlotTypes ==
  ASSUME Inv
  PROVE  /\ repeat \in [Caller -> Slot] /\ logic \in LogicRow
         /\ logic.state \in LogicStates /\ logic.iteration \in Nat
         /\ \A c \in Caller : repeat[c].next \in Caller /\ repeat[c].copy \in LogicRow \cup {NoCopy}
         /\ Idle \in Slot /\ Due \in Slot
         /\ logic = [state |-> logic.state, iteration |-> logic.iteration]
<1>1. repeat \in [Caller -> Slot] /\ logic \in LogicRow
  BY DEF Inv, TypeOK, Slot
<1>2. 0 \in Caller
  BY BoundAssumption DEF Caller
<1>3. Idle \in Slot /\ Due \in Slot
  BY <1>2 DEF Idle, Due, Slot
<1>4. logic.state \in LogicStates /\ logic.iteration \in Nat
      /\ logic = [state |-> logic.state, iteration |-> logic.iteration]
  BY <1>1 DEF LogicRow
<1>5. \A c \in Caller : repeat[c].next \in Caller /\ repeat[c].copy \in LogicRow \cup {NoCopy}
  BY <1>1 DEF Slot
<1> QED
  BY <1>1, <1>3, <1>4, <1>5

LEMMA UserStepsKeep ==
  ASSUME Inv,
         \/ EndTimeComes \/ CancelSave \/ CancelLoad \/ CancelAborts \/ CancelDone \/ SwitchSave
         \/ \E value \in {"enable", "disable"} : SwitchTask(value)
         \/ UNCHANGED vars
  PROVE  Inv'
<1> USE DEF requestVars, planVars
<1>1. CASE EndTimeComes
  <2>1. TypeOK'
    BY <1>1 DEF EndTimeComes, Inv, TypeOK
  <2> QED
    BY <1>1, <2>1, FrameKeeps DEF EndTimeComes, Inv, LifeInv
<1>2. CASE CancelSave
  <2>1. logic' = [state |-> "cancelled", iteration |-> logic.iteration]
    BY <1>2 DEF CancelSave, Inv, TypeOK, LogicRow
  <2>2. TypeOK'
    BY <1>2, <2>1 DEF CancelSave, KnownIn, Created, Inv, TypeOK, LogicRow, LogicStates
  <2> QED
    BY <1>2, <2>1, <2>2, FrameKeeps DEF CancelSave
<1>3. CASE CancelLoad
  <2>1. TypeOK'
    BY <1>3 DEF CancelLoad, Inv, TypeOK
  <2> QED
    BY <1>3, <2>1, FrameKeeps DEF CancelLoad, Inv, LifeInv
<1>4. CASE CancelAborts
  <2>1. TypeOK'
    BY <1>4 DEF CancelAborts, Inv, TypeOK
  <2> QED
    BY <1>4, <2>1, FrameKeeps DEF CancelAborts, Inv, LifeInv
<1>5. CASE CancelDone
  <2>1. TypeOK'
    BY <1>5 DEF CancelDone, Inv, TypeOK
  <2> QED
    BY <1>5, <2>1, FrameKeeps DEF CancelDone, Inv, LifeInv
<1>6. CASE SwitchSave
  <2>1. \/ logic' = logic
        \/ \E state \in {"active", "disabled"} :
             logic' = [state |-> state, iteration |-> logic.iteration]
    BY <1>6 DEF SwitchSave, Inv, TypeOK, LogicRow
  <2>2. logic' \in LogicRow /\ logic'.iteration = logic.iteration
        /\ logic'.state \in {logic.state, "active", "disabled"}
    BY <2>1, SlotTypes DEF LogicRow, LogicStates
  <2>3. TypeOK'
    BY <1>6, <2>2 DEF SwitchSave, Inv, TypeOK
  <2> QED
    BY <1>6, <2>2, <2>3, FrameKeeps DEF SwitchSave, Inv, LifeInv
<1>7. ASSUME NEW value \in {"enable", "disable"}, SwitchTask(value) PROVE Inv'
  <2>1. frozen' \subseteq Occurrence
    BY <1>7 DEF SwitchTask, Inv, TypeOK
  <2>2. switcher' \in [value : {"enable", "disable"}, copy : LogicStates, found : BOOLEAN]
    <3>1. logic.state \in LogicStates
      BY DEF Inv, TypeOK, LogicRow
    <3>2. \E b \in BOOLEAN : switcher' = [value |-> value, copy |-> logic.state, found |-> b]
      BY <1>7 DEF SwitchTask
    <3> QED
      BY <3>1, <3>2
  <2>3. TypeOK'
    BY <1>7, <2>1, <2>2 DEF SwitchTask, Inv, TypeOK
  <2> QED
    BY <1>7, <2>3, FrameKeeps DEF SwitchTask, Inv, LifeInv
<1>8. CASE UNCHANGED vars
  <2>1. TypeOK'
    BY <1>8 DEF vars, Inv, TypeOK
  <2> QED
    BY <1>8, <2>1, FrameKeeps DEF vars, Inv, LifeInv
<1> QED
  BY <1>1, <1>2, <1>3, <1>4, <1>5, <1>6, <1>7, <1>8

-----------------------------------------------------------------------------
(* Steps of the calls: each writes one call.                               *)
LEMMA TypeFromSlot ==
  ASSUME Inv, NEW c \in Caller, NEW r \in Slot, repeat' = [repeat EXCEPT ![c] = r],
         known' \subseteq Occurrence,
         logic' \in LogicRow, ended' = ended, occ' \in [Occurrence -> PlanStates],
         frozen' \subseteq Occurrence, records' \subseteq Occurrence, broken' \in BOOLEAN,
         canceller' = canceller, todo' \subseteq todo, switcher' = switcher
  PROVE  TypeOK' /\ repeat'[c] = r /\ \A d \in Caller : d # c => repeat'[d] = repeat[d]
<1>1. repeat \in [Caller -> Slot]
  BY SlotTypes
<1>2. repeat' \in [Caller -> Slot]
  BY <1>1
<1>3. repeat'[c] = r /\ \A d \in Caller : d # c => repeat'[d] = repeat[d]
  BY <1>1
<1> QED
  BY <1>2, <1>3 DEF Inv, TypeOK, Slot

(* A call that ends, with the token or not.                                *)
LEMMA CallEnds ==
  ASSUME Inv, NEW c \in Caller, repeat' = [repeat EXCEPT ![c] = Idle],
         UNCHANGED <<ended, occ, records, frozen, canceller, todo, switcher>>,
         broken' \in BOOLEAN, broken => broken', known' \subseteq Occurrence,
         logic' \in LogicRow, logic'.iteration = logic.iteration,
         logic'.state \in {logic.state, "finished"},
         c \in Repeating => \/ broken' \/ canceller # "idle" \/ ended
                            \/ logic.iteration >= MaxIteration,
         logic'.state = "finished" => \/ logic.state = "finished" \/ ended
                                      \/ logic.iteration >= MaxIteration
  PROVE  Inv'
<1>1. TypeOK' /\ repeat'[c] = Idle /\ \A d \in Caller : d # c => repeat'[d] = repeat[d]
  BY SlotTypes, TypeFromSlot DEF Inv, TypeOK
<1>2. PlanInv'
  BY <1>1 DEF Inv, PlanInv, Idle, Occurrence, Caller
<1>3. CallInv'
  BY <1>1 DEF Inv, CallInv, CopyInv, Idle
<1>4. Waiting' = Waiting /\ Created' = Created
  BY DEF Waiting, Created
<1>5. Repeating' = Repeating \ {c}
  BY <1>1 DEF Repeating, Idle
<1>6. TokenInv'
  BY <1>4, <1>5 DEF Inv, TokenInv
<1>7. CountInv'
  BY <1>1, <1>4 DEF Inv, CountInv, Idle
<1>8. LifeInv'
  <2>1. logic'.state = "cancelled" => canceller' # "idle"
    BY DEF Inv, LifeInv
  <2>2. logic'.state = "finished" => ended' \/ logic'.iteration >= MaxIteration
    BY DEF Inv, LifeInv
  <2>3. ASSUME canceller' = "idle", ~broken', ~ended', logic'.iteration < MaxIteration
        PROVE  Waiting' \cup Repeating' # {}
    <3>1. ~(logic.iteration >= MaxIteration) /\ ~ended /\ ~broken
      BY <2>3, SlotTypes, LimitAssumption
    <3>2. Waiting \cup Repeating # {} /\ c \notin Repeating
      BY <2>3, <3>1 DEF Inv, LifeInv
    <3> QED
      BY <3>2, <1>4, <1>5
  <2> QED
    BY <2>1, <2>2, <2>3 DEF LifeInv
<1> QED
  BY <1>1, <1>2, <1>3, <1>6, <1>7, <1>8 DEF Inv

LEMMA LoadKeeps == ASSUME Inv, NEW c \in Caller, LoadLogic(c) PROVE Inv'
<1> USE DEF requestVars, planVars
<1>1. CASE c \notin records
  <2>1. c \notin Repeating
    BY <1>1 DEF LoadLogic, Repeating
  <2>2. repeat' = [repeat EXCEPT ![c] = Idle] /\ logic' = logic /\ broken' = broken
        /\ UNCHANGED <<ended, occ, records, frozen, canceller, todo, switcher>>
    BY <1>1 DEF LoadLogic
  <2>3. broken \in BOOLEAN /\ logic \in LogicRow /\ known' \subseteq Occurrence
    BY DEF LoadLogic, Inv, TypeOK
  <2> QED
    BY <2>1, <2>2, <2>3, CallEnds
<1>2. CASE c \in records
  <2> DEFINE r == Loaded(logic)
  <2>1. repeat' = [repeat EXCEPT ![c] = r]
    BY <1>2 DEF LoadLogic
  <2>2. r \in Slot
    BY SlotTypes, BoundAssumption DEF Slot, Loaded, Caller
  <2>3. TypeOK' /\ repeat'[c] = r /\ \A d \in Caller : d # c => repeat'[d] = repeat[d]
    BY <2>1, <2>2, SlotTypes, TypeFromSlot DEF LoadLogic, Inv, TypeOK
  <2>4. PlanInv'
    BY <1>2, <2>3 DEF LoadLogic, Inv, PlanInv, Occurrence, Caller, Loaded
  <2>5. CallInv'
    BY <1>2, <2>3, SlotTypes DEF LoadLogic, Inv, CallInv, CopyInv, LifeInv, Loaded
  <2>6. Waiting' = Waiting /\ Created' = Created
    BY DEF LoadLogic, Waiting, Created
  <2>7. Repeating' = Repeating
    BY <1>2, <2>3 DEF LoadLogic, Repeating, Loaded
  <2>8. TokenInv' /\ CountInv' /\ LifeInv'
    BY <2>3, <2>6, <2>7 DEF LoadLogic, Inv, TokenInv, CountInv, LifeInv, Loaded
  <2> QED
    BY <2>3, <2>4, <2>5, <2>8 DEF Inv
<1> QED
  BY <1>1, <1>2

LEMMA EndKeeps ==
  ASSUME Inv, NEW c \in Caller, GiveUp(c) \/ FinishLogic(c) \/ LoseRepeat(c) PROVE Inv'
<1> USE DEF requestVars, planVars
<1>1. broken \in BOOLEAN /\ logic \in LogicRow /\ known' \subseteq Occurrence
  BY DEF GiveUp, FinishLogic, LoseRepeat, KnownIn, Created, Inv, TypeOK
<1>2. CASE GiveUp(c)
  <2>1. canceller # "idle"
    BY <1>2 DEF GiveUp, Inv, CallInv, CopyInv
  <2> QED
    BY <1>1, <1>2, <2>1, CallEnds DEF GiveUp
<1>3. CASE FinishLogic(c)
  <2>1. /\ repeat[c].copy \in LogicRow /\ repeat[c].copy.iteration = logic.iteration
        /\ repeat[c].copy.state = "finished" => ended \/ logic.iteration >= MaxIteration
    BY <1>3 DEF FinishLogic, Inv, CallInv, CopyInv
  <2>2. ended \/ logic.iteration >= MaxIteration
    BY <1>3, <2>1, LimitAssumption DEF FinishLogic, CanContinue, LogicRow, LogicStates
  <2>3. PICK s \in {logic.state, "finished"} : logic' = [logic EXCEPT !.state = s]
    BY <1>3 DEF FinishLogic
  <2>4. logic' \in LogicRow /\ logic'.iteration = logic.iteration
        /\ logic'.state \in {logic.state, "finished"}
    BY <2>3, SlotTypes DEF LogicRow, LogicStates
  <2> QED
    BY <1>1, <1>3, <2>2, <2>4, CallEnds DEF FinishLogic
<1>4. CASE LoseRepeat(c)
  BY <1>1, <1>4, CallEnds DEF LoseRepeat
<1> QED
  BY <1>2, <1>3, <1>4

LEMMA CountKeeps == ASSUME Inv, NEW c \in Caller, CountIteration(c) PROVE Inv'
<1> USE DEF requestVars, planVars
<1> DEFINE r == [phase |-> "saved", copy |-> repeat[c].copy, next |-> repeat[c].next]
<1>1. /\ repeat[c].phase = "loaded" /\ repeat[c].copy \in LogicRow
      /\ repeat[c].copy.iteration = logic.iteration
      /\ logic.iteration < MaxIteration
  BY DEF CountIteration, CanContinue, Inv, CallInv, CopyInv
<1>2. repeat' = [repeat EXCEPT ![c] = r]
  <2>1. repeat[c] = [phase |-> repeat[c].phase, copy |-> repeat[c].copy, next |-> repeat[c].next]
    BY SlotTypes DEF Slot
  <2>2. [repeat[c] EXCEPT !.phase = "saved"] = r
    BY <2>1
  <2>3. repeat' = [repeat EXCEPT ![c] = [repeat[c] EXCEPT !.phase = "saved"]]
    BY DEF CountIteration
  <2> QED
    BY <2>2, <2>3
<1>3. r \in Slot
  BY SlotTypes DEF Slot
<1>4. logic' = [state |-> logic.state, iteration |-> logic.iteration + 1] /\ logic' \in LogicRow
  BY <1>1, SlotTypes DEF CountIteration, LogicRow
<1>5. TypeOK' /\ repeat'[c] = r /\ \A d \in Caller : d # c => repeat'[d] = repeat[d]
  BY <1>2, <1>3, <1>4, TypeFromSlot DEF CountIteration, Inv, TypeOK
<1>6. PlanInv'
  BY <1>1, <1>5 DEF CountIteration, Inv, PlanInv, Occurrence, Caller
<1>7. Waiting' = Waiting /\ Created' = Created
  BY DEF CountIteration, Waiting, Created
<1>8. Repeating' = Repeating /\ c \in Repeating
  BY <1>1, <1>5 DEF CountIteration, Repeating
<1>9. \A d \in Caller : d # c => d \notin Repeating
  BY <1>8 DEF Inv, TokenInv
<1>10. CallInv'
  <2> SUFFICES ASSUME NEW d \in Caller PROVE CopyInv(d)'
    BY DEF CallInv
  <2>1. CASE d = c
    BY <2>1, <1>1, <1>5 DEF CopyInv
  <2>2. CASE d # c
    BY <2>2, <1>5, <1>9 DEF CountIteration, Inv, CallInv, CopyInv, Repeating
  <2> QED
    BY <2>1, <2>2
<1>11. CountInv'
  <2>1. \A d \in Caller : repeat[d].phase # "saved"
    BY <1>1, <1>9 DEF Repeating
  <2> QED
    BY <1>1, <1>4, <1>7, CreatedFinite, SlotTypes, LimitAssumption DEF Inv, CountInv
<1>12. TokenInv'
  BY <1>7, <1>8 DEF Inv, TokenInv
<1>13. LifeInv'
  <2>1. logic'.state = logic.state /\ logic'.iteration = logic.iteration + 1
    BY <1>4
  <2>2. logic'.state = "cancelled" => canceller' # "idle"
    BY <2>1 DEF CountIteration, Inv, LifeInv
  <2>3. logic'.state = "finished" => ended' \/ logic'.iteration >= MaxIteration
    BY <1>1, <2>1, SlotTypes, LimitAssumption DEF CountIteration, Inv, LifeInv
  <2> QED
    BY <2>2, <2>3, <1>8 DEF LifeInv
<1> QED
  BY <1>5, <1>6, <1>10, <1>11, <1>12, <1>13 DEF Inv

LEMMA CreateKeeps == ASSUME Inv, NEW c \in Caller, CreateNext(c) PROVE Inv'
<1> USE DEF requestVars, planVars
<1>1. PICK n \in Occurrence : /\ occ[n] = "none" /\ occ' = [occ EXCEPT ![n] = "pending"]
                              /\ repeat' = [repeat EXCEPT ![c] = [phase |-> "delaying",
                                                  copy |-> repeat[c].copy, next |-> n]]
  BY DEF CreateNext
<1> DEFINE r == [phase |-> "delaying", copy |-> repeat[c].copy, next |-> n]
<1>2. repeat' = [repeat EXCEPT ![c] = r]
  BY <1>1
<1>3. r \in Slot
  BY SlotTypes DEF Slot, Occurrence, Caller
<1>4. /\ occ' \in [Occurrence -> PlanStates] /\ occ'[n] = "pending"
      /\ \A m \in Occurrence : m # n => occ'[m] = occ[m]
  BY <1>1 DEF Inv, TypeOK, PlanStates
<1>5. TypeOK' /\ repeat'[c] = r /\ \A d \in Caller : d # c => repeat'[d] = repeat[d]
  <2>1. /\ logic' \in LogicRow /\ ended' = ended /\ broken' \in BOOLEAN
        /\ frozen' \subseteq Occurrence /\ records' \subseteq Occurrence
        /\ canceller' = canceller /\ todo' \subseteq todo /\ switcher' = switcher
        /\ known' \subseteq Occurrence
    BY DEF CreateNext, Inv, TypeOK
  <2> HIDE DEF r
  <2> QED
    BY <2>1, <1>2, <1>3, <1>4, TypeFromSlot
<1>6. repeat[c].phase = "saved" /\ repeat[c].copy \in LogicRow
  BY DEF CreateNext, Inv, CallInv, CopyInv
<1>7. PlanInv'
  <2> SUFFICES ASSUME NEW m \in Occurrence
               PROVE  /\ occ'[m] \notin {"planned", "stopped"} => repeat'[m].phase = "none"
                      /\ occ'[m] \in {"scheduled", "planning"} => m \in records'
                      /\ occ'[m] \in {"none", "pending", "running"} => m \notin records'
    BY DEF PlanInv
  <2>1. m \in Caller /\ (m = c => occ[m] \in {"planned", "stopped"})
    BY <1>6 DEF Inv, PlanInv, Occurrence, Caller
  <2> QED
    BY <2>1, <1>1, <1>4, <1>5 DEF CreateNext, Inv, PlanInv
<1>8. Waiting' = Waiting
  BY <1>1, <1>4 DEF Waiting
<1>9. Repeating' = Repeating /\ c \in Repeating
  BY <1>5, <1>6 DEF CreateNext, Repeating
<1>10. \A d \in Caller : d # c => d \notin Repeating
  BY <1>9 DEF Inv, TokenInv
<1>11. CallInv'
  <2> SUFFICES ASSUME NEW d \in Caller PROVE CopyInv(d)'
    BY DEF CallInv
  <2>1. CASE d = c
    BY <2>1, <1>4, <1>5, <1>6 DEF CopyInv
  <2>2. CASE d # c
    BY <2>2, <1>5, <1>10 DEF CreateNext, Inv, CallInv, CopyInv, Repeating
  <2> QED
    BY <2>1, <2>2
<1>12. CountInv'
  <2>1. \A d \in Caller : repeat'[d].phase # "saved"
    BY <1>5, <1>10 DEF Repeating
  <2>2. Created' = Created \cup {n} /\ n \notin Created
    BY <1>1, <1>4 DEF Created
  <2>3. Cardinality(Created') = Cardinality(Created) + 1
    BY <2>2, CreatedFinite, FS_AddElement
  <2> QED
    BY <1>6, <2>1, <2>3 DEF CreateNext, Inv, CountInv
<1>13. TokenInv' /\ LifeInv'
  BY <1>8, <1>9 DEF CreateNext, Inv, TokenInv, LifeInv
<1> QED
  BY <1>5, <1>7, <1>11, <1>12, <1>13 DEF Inv

LEMMA ScheduleKeeps == ASSUME Inv, NEW c \in Caller, ScheduleNext(c) PROVE Inv'
<1> USE DEF requestVars, planVars
<1> DEFINE n == repeat[c].next
<1>1. repeat[c].phase = "delaying" /\ n \in Occurrence /\ occ[n] = "pending"
  BY DEF ScheduleNext, Inv, CallInv, CopyInv
<1>2. /\ occ' = [occ EXCEPT ![n] = "scheduled"] /\ records' = records \cup {n}
      /\ repeat' = [repeat EXCEPT ![c] = Idle]
  BY DEF ScheduleNext
<1> HIDE DEF n
<1>3. /\ occ' \in [Occurrence -> PlanStates] /\ occ'[n] = "scheduled"
      /\ \A m \in Occurrence : m # n => occ'[m] = occ[m]
  BY <1>1, <1>2 DEF Inv, TypeOK, PlanStates
<1>4. TypeOK' /\ repeat'[c] = Idle /\ \A d \in Caller : d # c => repeat'[d] = repeat[d]
  <2>1. /\ logic' \in LogicRow /\ ended' = ended /\ broken' \in BOOLEAN
        /\ records' \subseteq Occurrence
        /\ canceller' = canceller /\ todo' \subseteq todo /\ switcher' = switcher
        /\ known' \subseteq Occurrence
    BY <1>1, <1>2 DEF ScheduleNext, Inv, TypeOK
  <2>2. frozen' \subseteq Occurrence
    BY <1>1 DEF ScheduleNext, Inv, TypeOK, n
  <2> QED
    BY <2>1, <2>2, <1>2, <1>3, SlotTypes, TypeFromSlot
<1>5. PlanInv'
  <2> SUFFICES ASSUME NEW m \in Occurrence
               PROVE  /\ occ'[m] \notin {"planned", "stopped"} => repeat'[m].phase = "none"
                      /\ occ'[m] \in {"scheduled", "planning"} => m \in records'
                      /\ occ'[m] \in {"none", "pending", "running"} => m \notin records'
    BY DEF PlanInv
  <2>1. m \in Caller
    BY DEF Occurrence, Caller
  <2> QED
    BY <2>1, <1>1, <1>2, <1>3, <1>4 DEF Inv, PlanInv, Idle
<1>6. c \in Repeating /\ \A d \in Caller : d # c => d \notin Repeating
  BY <1>1 DEF Inv, TokenInv, Repeating
<1>7. Repeating' = {}
  <2> SUFFICES ASSUME NEW d \in Caller, d \in Repeating' PROVE FALSE
    BY DEF Repeating
  <2>1. d # c /\ repeat'[d] = repeat[d]
    BY <1>4 DEF Repeating, Idle
  <2>2. d = n /\ repeat[d].phase = "due"
    BY <2>1, <1>2, <1>6 DEF Repeating
  <2> QED
    BY <2>2, <1>1 DEF Inv, PlanInv
<1>8. Waiting' = {n}
  <2>1. Waiting = {}
    BY <1>6 DEF Inv, TokenInv, Waiting
  <2> QED
    BY <2>1, <1>1, <1>3 DEF Waiting
<1>9. CallInv'
  <2> SUFFICES ASSUME NEW d \in Caller PROVE CopyInv(d)'
    BY DEF CallInv
  <2>1. repeat'[d].phase \notin {"loaded", "saved", "delaying"}
    BY <1>7 DEF Repeating
  <2> QED
    BY <2>1 DEF CopyInv
<1>10. CountInv'
  <2>1. Created' = Created
    BY <1>1, <1>3 DEF Created
  <2>2. \A d \in Caller : repeat'[d].phase # "saved"
    BY <1>7 DEF Repeating
  <2> QED
    BY <2>1, <2>2 DEF ScheduleNext, Inv, CountInv
<1>11. TokenInv' /\ LifeInv'
  BY <1>7, <1>8 DEF ScheduleNext, Inv, TokenInv, LifeInv
<1> QED
  BY <1>4, <1>5, <1>9, <1>10, <1>11 DEF Inv

-----------------------------------------------------------------------------
(* Steps of a plan.                                                        *)

(* A step that ends one plan and runs its hook.                            *)
LEMMA StopKeeps ==
  ASSUME Inv, NEW n \in Occurrence, occ[n] \in {"scheduled", "planning", "running"},
         NEW s \in {"planned", "stopped"}, s = "planned" => occ[n] = "planning",
         occ' = [occ EXCEPT ![n] = s], repeat' = [repeat EXCEPT ![n] = Due],
         todo' \subseteq todo,
         UNCHANGED <<logic, ended, frozen, records, canceller, switcher, broken, known>>
  PROVE  Inv'
<1>1. n \in Caller /\ repeat[n].phase = "none"
  BY DEF Inv, PlanInv, Occurrence, Caller
<1>2. /\ occ' \in [Occurrence -> PlanStates] /\ occ'[n] = s
      /\ \A m \in Occurrence : m # n => occ'[m] = occ[m]
  BY DEF Inv, TypeOK, PlanStates
<1>3. TypeOK' /\ repeat'[n] = Due /\ \A d \in Caller : d # n => repeat'[d] = repeat[d]
  <2>1. /\ logic' \in LogicRow /\ broken' \in BOOLEAN
        /\ records' \subseteq Occurrence /\ frozen' \subseteq Occurrence
        /\ known' \subseteq Occurrence
    BY DEF Inv, TypeOK
  <2> QED
    BY <1>1, <1>2, <2>1, SlotTypes, TypeFromSlot
<1>4. PlanInv'
  BY <1>1, <1>2, <1>3 DEF Inv, PlanInv, Occurrence, Caller
<1>5. CallInv'
  <2> SUFFICES ASSUME NEW d \in Caller PROVE CopyInv(d)'
    BY DEF CallInv
  <2>1. CASE d = n
    BY <2>1, <1>3 DEF CopyInv, Due
  <2>2. CASE d # n
    BY <2>2, <1>2, <1>3 DEF Inv, CallInv, CopyInv
  <2> QED
    BY <2>1, <2>2
<1>6. Created' = Created
  BY <1>2 DEF Created
<1>7. CountInv'
  BY <1>1, <1>3, <1>6 DEF Inv, CountInv, Due
<1>8. CASE occ[n] = "running"
  <2>1. Waiting' = Waiting
    BY <1>2, <1>8 DEF Waiting
  <2>2. n \notin records
    BY <1>8 DEF Inv, PlanInv
  <2>3. Repeating' = Repeating
    BY <1>1, <1>3, <2>2 DEF Repeating, Due
  <2>4. TokenInv' /\ LifeInv'
    BY <2>1, <2>3 DEF Inv, TokenInv, LifeInv
  <2> QED
    BY <2>4, <1>3, <1>4, <1>5, <1>7 DEF Inv
<1>9. CASE occ[n] # "running"
  <2>1. n \in Waiting /\ n \in records
    BY <1>9 DEF Waiting, Inv, PlanInv
  <2>2. Waiting = {n} /\ Repeating = {}
    BY <2>1 DEF Inv, TokenInv, Repeating, Waiting
  <2>3. Waiting' = {}
    BY <2>2, <1>2 DEF Waiting
  <2>4. Repeating' = {n}
    BY <2>1, <2>2, <1>1, <1>3 DEF Repeating, Due
  <2>5. TokenInv' /\ LifeInv'
    BY <2>2, <2>3, <2>4 DEF Inv, TokenInv, LifeInv
  <2> QED
    BY <2>5, <1>3, <1>4, <1>5, <1>7 DEF Inv
<1> QED
  BY <1>8, <1>9

(* A step of a plan outside its hooks.                                     *)
LEMMA MoveKeeps ==
  ASSUME Inv, NEW n \in Occurrence, repeat[n].phase = "none",
         NEW s \in PlanStates, occ' = [occ EXCEPT ![n] = s],
         \/ occ[n] = "scheduled" /\ s = "planning" /\ records' = records
         \/ occ[n] = "planned" /\ s = "running" /\ records' = records \ {n}
         \/ occ[n] = "running" /\ s = "stopped" /\ records' = records,
         UNCHANGED <<logic, ended, frozen, repeat, requestVars, broken, known>>
  PROVE  Inv'
<1>1. /\ occ' \in [Occurrence -> PlanStates] /\ occ'[n] = s
      /\ \A m \in Occurrence : m # n => occ'[m] = occ[m]
  BY DEF Inv, TypeOK
<1>2. TypeOK'
  BY <1>1 DEF requestVars, Inv, TypeOK
<1>3. PlanInv'
  BY <1>1 DEF Inv, PlanInv
<1>4. CallInv'
  <2> SUFFICES ASSUME NEW d \in Caller PROVE CopyInv(d)'
    BY DEF CallInv
  <2> QED
    BY <1>1 DEF requestVars, Inv, CallInv, CopyInv
<1>5. Waiting' = Waiting /\ Created' = Created
  BY <1>1 DEF Waiting, Created
<1>6. Repeating' = Repeating
  BY DEF Repeating
<1>7. TokenInv' /\ CountInv' /\ LifeInv'
  BY <1>5, <1>6 DEF requestVars, Inv, TokenInv, CountInv, LifeInv
<1> QED
  BY <1>2, <1>3, <1>4, <1>7 DEF Inv

(* A halt runs the hook of a plan with a failed step, or no hook at all.   *)
LEMMA HaltKeeps == ASSUME Inv, NEW n \in Occurrence, HaltTask(n) PROVE Inv'
<1> USE DEF requestVars
<1>1. CASE occ[n] = "running"
  <2>1. broken' = broken
    BY <1>1 DEF HaltTask, Inv, TypeOK
  <2>2. CASE repeat' = [repeat EXCEPT ![n] = Due]
    BY <1>1, <2>1, <2>2, StopKeeps DEF HaltTask
  <2>3. CASE repeat' = repeat
    <3>1. repeat[n].phase = "none"
      BY <1>1 DEF Inv, PlanInv
    <3> QED
      BY <1>1, <2>1, <2>3, <3>1, MoveKeeps DEF HaltTask, PlanStates
  <2> QED
    BY <1>1, <2>2, <2>3 DEF HaltTask
<1>2. CASE occ[n] \in {"scheduled", "planned"}
  <2>1. /\ occ' \in [Occurrence -> PlanStates] /\ occ'[n] = "stopped"
        /\ \A m \in Occurrence : m # n => occ'[m] = occ[m]
    BY DEF HaltTask, Inv, TypeOK, PlanStates
  <2>2. repeat' = repeat /\ broken' \in BOOLEAN /\ (broken => broken')
        /\ (occ[n] = "scheduled" => broken')
    BY <1>2 DEF HaltTask, Inv, TypeOK
  <2>3. TypeOK'
    BY <2>1, <2>2 DEF HaltTask, Inv, TypeOK
  <2>4. PlanInv'
    BY <1>2, <2>1, <2>2 DEF HaltTask, Inv, PlanInv
  <2>5. CallInv'
    <3> SUFFICES ASSUME NEW d \in Caller PROVE CopyInv(d)'
      BY DEF CallInv
    <3> QED
      BY <1>2, <2>1, <2>2 DEF HaltTask, Inv, CallInv, CopyInv
  <2>6. Created' = Created /\ Waiting' = Waiting \ {n} /\ Repeating' = Repeating
    BY <1>2, <2>1, <2>2 DEF HaltTask, Created, Waiting, Repeating
  <2>7. CASE occ[n] = "scheduled"
    BY <2>2, <2>3, <2>4, <2>5, <2>6, <2>7 DEF HaltTask, Inv, TokenInv, CountInv, LifeInv
  <2>8. CASE occ[n] = "planned"
    <3>1. Waiting' = Waiting
      BY <2>6, <2>8 DEF Waiting
    <3> QED
      BY <2>2, <2>3, <2>4, <2>5, <2>6, <3>1 DEF HaltTask, Inv, TokenInv, CountInv, LifeInv
  <2> QED
    BY <1>2, <2>7, <2>8
<1> QED
  BY <1>1, <1>2 DEF HaltTask

LEMMA PlanStepsKeep ==
  ASSUME Inv, NEW n \in Occurrence,
         \/ Plan(n) \/ EndPlanning(n) \/ Run(n) \/ EndRun(n)
         \/ CancelTask(n) \/ HaltTask(n) \/ CancelEach(n)
  PROVE  Inv'
<1> USE DEF requestVars, planVars
<1>1. CASE Plan(n)
  BY <1>1, MoveKeeps DEF Plan, PlanStates
<1>2. CASE EndPlanning(n)
  <2>1. PICK s \in {"planned", "stopped"} : occ' = [occ EXCEPT ![n] = s]
    BY <1>2 DEF EndPlanning
  <2> QED
    BY <1>2, <2>1, StopKeeps DEF EndPlanning
<1>3. CASE Run(n)
  BY <1>3, MoveKeeps DEF Run, PlanStates
<1>4. CASE EndRun(n)
  <2>1. CASE repeat' = [repeat EXCEPT ![n] = Due]
    BY <1>4, <2>1, StopKeeps DEF EndRun
  <2>2. CASE repeat' = repeat
    <3>1. repeat[n].phase = "none"
      BY <1>4 DEF EndRun, Inv, PlanInv
    <3> QED
      BY <1>4, <2>2, <3>1, MoveKeeps DEF EndRun, PlanStates
  <2> QED
    BY <1>4, <2>1, <2>2 DEF EndRun
<1>5. CASE CancelTask(n)
  BY <1>5, StopKeeps DEF CancelTask, StopTask
<1>6. CASE CancelEach(n) /\ StopTask(n)
  <2>1. todo' \subseteq todo
    BY <1>6 DEF CancelEach
  <2> QED
    BY <1>6, <2>1, StopKeeps DEF CancelEach, StopTask
<1>7. CASE CancelEach(n) /\ UNCHANGED <<occ, repeat>>
  <2>1. TypeOK'
    BY <1>7 DEF CancelEach, Inv, TypeOK
  <2> QED
    BY <1>7, <2>1, FrameKeeps DEF CancelEach, Inv, LifeInv
<1>8. CASE HaltTask(n)
  BY <1>8, HaltKeeps
<1> QED
  BY <1>1, <1>2, <1>3, <1>4, <1>5, <1>6, <1>7, <1>8 DEF CancelEach

LEMMA InvNext == Inv /\ [Next]_vars => Inv'
<1> SUFFICES ASSUME Inv, [Next]_vars PROVE Inv'
  OBVIOUS
<1>1. ASSUME NEW c \in Caller, TriggerRepeat(c) \/ LoseRepeat(c) PROVE Inv'
  BY <1>1, LoadKeeps, EndKeeps, CountKeeps, CreateKeeps, ScheduleKeeps DEF TriggerRepeat
<1>2. ASSUME NEW n \in Occurrence,
             \/ Plan(n) \/ EndPlanning(n) \/ Run(n) \/ EndRun(n)
             \/ CancelTask(n) \/ HaltTask(n) \/ CancelEach(n)
      PROVE  Inv'
  BY <1>2, PlanStepsKeep
<1> QED
  BY <1>1, <1>2, UserStepsKeep DEF Next

-----------------------------------------------------------------------------
(* The late occurrence.                                                    *)

LEMMA LateInitially == Init => LateInv
  BY DEF Init, LateInv, Created, Idle, Loaded

(* What is needed of a step that creates no occurrence.                    *)
LEMMA LateFrame ==
  ASSUME LateInv, Created' = Created, known' = known,
         logic.state \in Done => logic'.state \in Done,
         NEW c \in Caller,
         \A d \in Caller : d # c => repeat'[d] = repeat[d],
         repeat'[c] # repeat[c] =>
           \/ repeat'[c].phase \notin {"loaded", "saved"}
           \/ repeat'[c].phase = "loaded" /\ repeat'[c].copy.state = logic.state
           \/ repeat'[c].phase = "saved" /\ repeat[c].phase = "loaded"
              /\ repeat[c].copy.state \notin Done
  PROVE  LateInv'
<1>1. Created' \ known' = Created \ known
  OBVIOUS
<1>2. known' # Occurrence => logic'.state \in Done
  BY DEF LateInv
<1>3. ASSUME Created \ known # {}, NEW d \in Caller
      PROVE  /\ repeat'[d].phase # "saved"
             /\ repeat'[d].phase = "loaded" => repeat'[d].copy.state \in Done
  <2>1. known # Occurrence /\ logic.state \in Done
    BY <1>3 DEF LateInv, Created
  <2>2. /\ repeat[d].phase # "saved"
        /\ repeat[d].phase = "loaded" => repeat[d].copy.state \in Done
    BY <1>3 DEF LateInv
  <2> QED
    BY <2>1, <2>2
<1> QED
  BY <1>1, <1>2, <1>3 DEF LateInv

LEMMA LateCreate ==
  ASSUME Inv, LateInv, NEW c \in Caller, CreateNext(c) PROVE LateInv'
<1>1. PICK n \in Occurrence : /\ occ' = [occ EXCEPT ![n] = "pending"]
                              /\ repeat' = [repeat EXCEPT ![c] = [phase |-> "delaying",
                                                  copy |-> repeat[c].copy, next |-> n]]
  BY DEF CreateNext
<1>2. Created' = Created \cup {n} /\ known' = known /\ logic' = logic
  BY <1>1 DEF CreateNext, Created, Inv, TypeOK
<1>3. Created \ known = {}
  BY DEF CreateNext, LateInv
<1>4. \A p, q \in Created' \ known' : p = q
  BY <1>2, <1>3
<1>5. ASSUME NEW d \in Caller PROVE repeat'[d].phase \notin {"loaded", "saved"}
  <2>1. d # c => d \notin Repeating
    BY DEF CreateNext, Inv, TokenInv, Repeating
  <2> QED
    BY <2>1, <1>1 DEF Repeating, Inv, TypeOK
<1> QED
  BY <1>2, <1>4, <1>5 DEF LateInv

(* Steps of requests and plans: no call is loaded or saved by them.        *)
LEMMA LateOther ==
  ASSUME Inv, LateInv, Created' = Created,
         \/ known' = known /\ (logic.state \in Done => logic'.state \in Done)
         \/ known' = KnownIn(logic'.state) /\ logic'.state \in Done
         \/ known' = Occurrence,
         \A d \in Caller : \/ repeat'[d] = repeat[d]
                           \/ repeat'[d].phase \notin {"loaded", "saved"}
  PROVE  LateInv'
<1>1. CASE known' = Occurrence
  BY <1>1 DEF LateInv, Created
<1>2. CASE known' = Created
  BY <1>2 DEF LateInv, KnownIn
<1>3. CASE known' = known /\ (logic.state \in Done => logic'.state \in Done)
  BY <1>3 DEF LateInv
<1> QED
  BY <1>1, <1>2, <1>3 DEF KnownIn, LateInv

LEMMA LateNext == Inv /\ LateInv /\ [Next]_vars => LateInv'
<1> SUFFICES ASSUME Inv, LateInv, [Next]_vars PROVE LateInv'
  OBVIOUS
<1> USE DEF requestVars, planVars
<1>1. ASSUME NEW c \in Caller, LoadLogic(c) \/ GiveUp(c) \/ CountIteration(c) PROVE LateInv'
  <2>1. Created' = Created /\ known' = known
    BY <1>1 DEF LoadLogic, GiveUp, CountIteration, Created
  <2>2. logic'.state = logic.state
    BY <1>1, SlotTypes DEF LoadLogic, GiveUp, CountIteration
  <2>3. \A d \in Caller : d # c => repeat'[d] = repeat[d]
    BY <1>1 DEF LoadLogic, GiveUp, CountIteration, Inv, TypeOK
  <2>4. CASE LoadLogic(c)
    <3>1. repeat'[c] \in {Idle, Loaded(logic)}
      BY <2>4 DEF LoadLogic, Inv, TypeOK
    <3> QED
      BY <2>1, <2>2, <2>3, <3>1, LateFrame DEF Idle, Loaded
  <2>5. CASE GiveUp(c)
    <3>1. repeat'[c] = Idle
      BY <2>5 DEF GiveUp, Inv, TypeOK
    <3> QED
      BY <2>1, <2>2, <2>3, <3>1, LateFrame DEF Idle
  <2>6. CASE CountIteration(c)
    <3>1. repeat'[c].phase = "saved"
      BY <2>6, SlotTypes DEF CountIteration, Slot
    <3> QED
      BY <2>1, <2>2, <2>3, <2>6, <3>1, LateFrame DEF CountIteration, CanContinue, Done
  <2> QED
    BY <1>1, <2>4, <2>5, <2>6
<1>2. ASSUME NEW c \in Caller, CreateNext(c) PROVE LateInv'
  BY <1>2, LateCreate
<1>3. ASSUME NEW c \in Caller, FinishLogic(c) PROVE LateInv'
  <2>1. Created' = Created
    BY <1>3 DEF FinishLogic, Created
  <2>2. logic'.state \in {logic.state, "finished"}
    BY <1>3, SlotTypes DEF FinishLogic
  <2>3. known' = KnownIn(logic'.state)
    BY <1>3 DEF FinishLogic
  <2>4. \A d \in Caller : repeat'[d] = repeat[d] \/ repeat'[d] = Idle
    BY <1>3 DEF FinishLogic, Inv, TypeOK
  <2>5. logic'.state \in Done \/ (known' = known /\ logic'.state = logic.state)
    BY <2>2, <2>3 DEF KnownIn, Done
  <2> QED
    BY <2>1, <2>3, <2>4, <2>5, LateOther DEF Idle
<1>4. ASSUME NEW c \in Caller, ScheduleNext(c) \/ LoseRepeat(c) PROVE LateInv'
  <2>1. Created' = Created
    <3>1. repeat[c].phase = "delaying" => occ[repeat[c].next] = "pending"
      BY DEF Inv, CallInv, CopyInv
    <3> QED
      BY <1>4, <3>1 DEF ScheduleNext, LoseRepeat, Created, Inv, TypeOK
  <2>2. \A d \in Caller : repeat'[d] = repeat[d] \/ repeat'[d] = Idle
    BY <1>4 DEF ScheduleNext, LoseRepeat, Inv, TypeOK
  <2>3. known' = known /\ logic' = logic
    BY <1>4 DEF ScheduleNext, LoseRepeat
  <2> QED
    BY <2>1, <2>2, <2>3, LateOther DEF Idle
<1>5. ASSUME NEW n \in Occurrence,
             \/ Plan(n) \/ EndPlanning(n) \/ Run(n) \/ EndRun(n)
             \/ CancelTask(n) \/ HaltTask(n) \/ CancelEach(n)
      PROVE  LateInv'
  <2>1. Created' = Created
    BY <1>5 DEF Plan, EndPlanning, Run, EndRun, CancelTask, HaltTask, CancelEach, StopTask,
       Created, Inv, TypeOK
  <2>2. \A d \in Caller : repeat'[d] = repeat[d] \/ repeat'[d] = Due
    BY <1>5 DEF Plan, EndPlanning, Run, EndRun, CancelTask, HaltTask, CancelEach, StopTask,
       Inv, TypeOK
  <2>3. known' = known /\ logic' = logic
    BY <1>5 DEF Plan, EndPlanning, Run, EndRun, CancelTask, HaltTask, CancelEach
  <2> QED
    BY <2>1, <2>2, <2>3, LateOther DEF Due
<1>6. ASSUME \/ EndTimeComes \/ CancelLoad \/ CancelAborts \/ CancelDone
             \/ \E value \in {"enable", "disable"} : SwitchTask(value)
             \/ UNCHANGED vars
      PROVE  LateInv'
  <2>1. UNCHANGED <<logic, occ, repeat, known>>
    BY <1>6 DEF EndTimeComes, CancelLoad, CancelAborts, CancelDone, SwitchTask, vars
  <2> QED
    BY <2>1 DEF LateInv, Created
<1>7. CASE CancelSave
  <2>1. UNCHANGED <<occ, repeat>> /\ logic'.state = "cancelled" /\ known' = KnownIn("cancelled")
    BY <1>7, SlotTypes DEF CancelSave
  <2> QED
    BY <2>1, LateOther DEF Created, Done
<1>8. CASE SwitchSave
  <2>1. UNCHANGED <<occ, repeat>> /\ (UNCHANGED <<logic, known>> \/ known' = Occurrence)
    BY <1>8 DEF SwitchSave
  <2> QED
    BY <2>1, LateOther DEF Created
<1> QED
  BY <1>1, <1>2, <1>3, <1>4, <1>5, <1>6, <1>7, <1>8 DEF Next, TriggerRepeat

-----------------------------------------------------------------------------
(* The types hold for any limit and any requests.                          *)
THEOREM TypesKept == Spec => []TypeOK
<1>1. Inv => TypeOK
  BY DEF Inv
<1> QED
  BY <1>1, InvInitially, InvNext, PTL DEF Spec

(* Two occurrences never wait, and no second hook triggers the next one,   *)
(* whatever requests and deaths of processes come between.                 *)
THEOREM OneWaits == Spec => []OneChain
<1>1. Inv => OneChain
  <2> SUFFICES ASSUME Inv PROVE OneChain
    OBVIOUS
  <2>1. Waiting = {} \/ \E n : Waiting = {n}
    BY DEF Inv, TokenInv
  <2>2. Repeating = {} \/ \E c : Repeating = {c}
    BY DEF Inv, TokenInv
  <2>3. Waiting = {} \/ Repeating = {}
    BY DEF Inv, TokenInv
  <2>4. /\ Cardinality(Waiting) = 0 \/ Cardinality(Waiting) = 1
        /\ Cardinality(Repeating) = 0 \/ Cardinality(Repeating) = 1
        /\ Cardinality(Waiting) = 0 \/ Cardinality(Repeating) = 0
    BY <2>1, <2>2, <2>3, FS_EmptySet, FS_Singleton
  <2> QED
    BY <2>4 DEF OneChain
<1> QED
  BY <1>1, InvInitially, InvNext, PTL DEF Spec

(* For any iteration limit, as many occurrences as were counted are        *)
(* created, and no more than the limit.                                    *)
THEOREM LimitHolds == Spec => []IterationsCounted
<1>1. Inv => IterationsCounted
  BY DEF Inv, CountInv, IterationsCounted, Created
<1> QED
  BY <1>1, InvInitially, InvNext, PTL DEF Spec

(* Only a lost hook, a forced unlock of the waiting occurrence, the end     *)
(* time, the limit or a cancellation breaks the chain.                     *)
THEOREM ChainGoesOn == Spec => []ChainAlive
<1>1. Inv => ChainAlive
  BY DEF Inv, LifeInv, ChainAlive, CanContinue
<1> QED
  BY <1>1, InvInitially, InvNext, PTL DEF Spec

(* A logic that was cancelled or finished brings at most one occurrence    *)
(* more: the hook that counts writes no older state back.                  *)
THEOREM LateAtMostOnce == Spec => []OneLateOccurrence
<1>1. LateInv => OneLateOccurrence
  <2> SUFFICES ASSUME LateInv PROVE OneLateOccurrence
    OBVIOUS
  <2>1. Created \ known = {} \/ \E n : Created \ known = {n}
    BY DEF LateInv
  <2>2. Cardinality(Created \ known) = 0 \/ Cardinality(Created \ known) = 1
    BY <2>1, FS_EmptySet, FS_Singleton
  <2> QED
    BY <2>2 DEF OneLateOccurrence
<1> QED
  BY <1>1, InvInitially, InvNext, LateInitially, LateNext, PTL DEF Spec
=============================================================================
