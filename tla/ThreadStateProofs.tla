--------------------------- MODULE ThreadStateProofs ---------------------------
(***************************************************************************)
(* Proofs about the state that is kept outside the database and survives   *)
(* exceptions: the context of pooled threads (ThreadContext) and the       *)
(* instance variables of a record (ActionTriggering).                      *)
(*                                                                         *)
(* ThreadContext, for any threads, plans, users, taxonomies, zones and     *)
(* depth.  The invariant follows the context of every frame of a thread,   *)
(* the ones that are suspended included: it is kept in the frame above.    *)
(*                                                                         *)
(* ActionTriggering, for any number of calls and plans and any depth.  The *)
(* invariant says which plan a record holds on to: the newest, not started *)
(* yet, and in plain calls nothing else is unfinished.                     *)
(***************************************************************************)
EXTENDS ThreadContext, ActionTriggering, SequenceTheorems, TLAPS

-----------------------------------------------------------------------------
(* The context of threads.                                                 *)
Frame == [plan : Plan, kind : Kinds, old : Context]
Phases == {"none", "delaying", "scheduled", "planning", "planned", "stopped"}

TypeInv ==
  /\ context \in [Thread -> Context]
  /\ frames \in [Thread -> Seq(Frame)]
  /\ \A th \in Thread : Len(frames[th]) <= MaxDepth
  /\ phase \in [Plan -> Phases]
  /\ input \in [Plan -> Context \cup {NotStored}] /\ owner \in [Plan -> Context]
  /\ users \subseteq User

(* The context that the frame at this depth has, or will have again.       *)
Ctx(th, i) == IF i = Len(frames[th]) THEN context[th] ELSE frames[th][i + 1].old

Depths(th) == 1..Len(frames[th])
Planning(th, i) == frames[th][i].kind \in {"delay", "plan"}

(* What a frame knows of its plan.                                         *)
FrameInv(th, i) ==
  LET f == frames[th][i] IN
    /\ phase[f.plan] # "none"
    /\ f.kind = "delay" => phase[f.plan] = "delaying" /\ Ctx(th, i) = owner[f.plan]
    /\ f.kind = "plan" => phase[f.plan] = "planning" /\ Ctx(th, i) = owner[f.plan]
    /\ f.kind \in {"run", "finalize"} =>
         phase[f.plan] \in {"planned", "stopped"} /\ Ctx(th, i) = owner[f.plan]
    /\ f.kind = "hook" => Ctx(th, i) = owner[f.plan] \/ phase[f.plan] = "stopped"

FramesInv == \A th \in Thread : \A i \in Depths(th) : FrameInv(th, i)

(* A plan is planned by one thread, in one frame.                          *)
PlannedOnce ==
  \A t1, t2 \in Thread : \A i \in Depths(t1), j \in Depths(t2) :
    (Planning(t1, i) /\ Planning(t2, j) /\ frames[t1][i].plan = frames[t2][j].plan) =>
      t1 = t2 /\ i = j

(* The input holds the context of the owner once the planning is over.     *)
InputInv ==
  \A p \in Plan :
    /\ input[p] \in {NotStored, owner[p]}
    /\ phase[p] = "none" => input[p] = NotStored
    /\ phase[p] \in {"scheduled", "planned"} => input[p] = owner[p]

(* At the bottom of a worker is the blank context.                         *)
BottomInv ==
  \A th \in Worker : IF idle(th) THEN context[th] = Blank ELSE frames[th][1].old = Blank

Inv == TypeInv /\ FramesInv /\ PlannedOnce /\ InputInv /\ BottomInv

-----------------------------------------------------------------------------
(* The contexts are as they were stored.                                   *)
LEMMA BlankContext == Blank \in Context /\ NotStored \notin Context
<1>1. Blank \in Context
  BY ZoneAssumption DEF Blank, Context
<1>2. NotStored.zone = None
  BY DEF NotStored, Blank
<1>3. \A c \in Context : c.zone # None
  BY NoneAssumption DEF Context
<1> QED
  BY <1>1, <1>2, <1>3

LEMMA RestoredOwner ==
  ASSUME NEW o \in Context PROVE Restored(Blank, o) = o /\ WithCurrent(Blank, o) = o
<1> DEFINE t == [user |-> None, organization |-> o.organization, location |-> o.location,
                 zone |-> Default]
<1>1. o = [user |-> o.user, organization |-> o.organization, location |-> o.location, zone |-> o.zone]
      /\ o.zone # None
  BY NoneAssumption DEF Context
<1>2. RestoreTaxonomies(Blank, o) = t
  <2>1. /\ Or(o.organization, Blank.organization) = o.organization
        /\ Or(o.location, Blank.location) = o.location
    BY DEF Or, Blank
  <2>2. RestoreTaxonomies(Blank, o) =
          [Blank EXCEPT !.organization = o.organization, !.location = o.location]
    BY <2>1 DEF RestoreTaxonomies
  <2> QED
    BY <2>2 DEF Blank
<1>3. ASSUME CurrentTaxonomies(Blank, o) PROVE Blank = t
  <2>1. o.organization = None /\ o.location = None
    BY <1>3 DEF CurrentTaxonomies, Blank
  <2> QED
    BY <2>1 DEF Blank
<1>4. RestoreUser(t, o) = [t EXCEPT !.user = o.user] /\ Blank.user = None
  BY DEF RestoreUser, Or, Blank
<1>5. RestoreZone([t EXCEPT !.user = o.user], o) = o
  <2> DEFINE u == [user |-> o.user, organization |-> o.organization, location |-> o.location,
                   zone |-> Default]
  <2>1. \A z : Or(o.zone, z) = o.zone
    BY <1>1 DEF Or
  <2>2. [t EXCEPT !.user = o.user] = u
    OBVIOUS
  <2>3. [u EXCEPT !.zone = o.zone] = o
    BY <1>1
  <2> HIDE DEF u
  <2> QED
    BY <2>1, <2>2, <2>3 DEF RestoreZone
<1> HIDE DEF t
<1>6. Restored(Blank, o) = o
  BY <1>2, <1>4, <1>5 DEF Restored
<1>7. WithCurrent(Blank, o) = RestoreZone(RestoreUser(t, o), o)
  <2>1. (IF CurrentTaxonomies(Blank, o) THEN Blank ELSE RestoreTaxonomies(Blank, o)) = t
    BY <1>2, <1>3
  <2> QED
    BY <1>4, <2>1 DEF WithCurrent
<1> QED
  BY <1>4, <1>5, <1>6, <1>7

LEMMA RestoredAgain ==
  ASSUME NEW o \in Context, NEW s \in {NotStored, o} PROVE Restored(o, s) = o
BY NoneAssumption DEF Context, Blank, NotStored, Restored, RestoreZone, RestoreUser,
   RestoreTaxonomies, Or

LEMMA RestoredContext ==
  ASSUME NEW c \in Context, NEW s \in Context \cup {NotStored} PROVE Restored(c, s) \in Context
BY NoneAssumption DEF Context, Blank, NotStored, Restored, RestoreZone, RestoreUser,
   RestoreTaxonomies, Or

-----------------------------------------------------------------------------
(* Entering a frame suspends the one below and changes no other.           *)
LEMMA Enters ==
  ASSUME TypeInv, NEW th \in Thread, NEW p \in Plan, NEW kind \in Kinds, NEW c \in Context,
         EnterAs(th, p, kind, c)
  PROVE  /\ context' \in [Thread -> Context] /\ frames' \in [Thread -> Seq(Frame)]
         /\ \A t \in Thread : Len(frames'[t]) <= MaxDepth
         /\ \A t \in Thread : \A i \in 1..Len(frames'[t]) :
              \/ i \in Depths(t) /\ frames'[t][i] = frames[t][i] /\ Ctx(t, i)' = Ctx(t, i)
              \/ /\ t = th /\ i = Len(frames[th]) + 1 /\ Ctx(t, i)' = c
                 /\ frames'[t][i] = [plan |-> p, kind |-> kind, old |-> context[th]]
<1> DEFINE f == [plan |-> p, kind |-> kind, old |-> context[th]]
<1>1. f \in Frame
  BY DEF TypeInv, Frame
<1>2. frames[th] \in Seq(Frame) /\ Len(frames[th]) \in Nat
  BY DEF TypeInv
<1>3. frames' = [frames EXCEPT ![th] = Append(frames[th], f)] /\ context' = [context EXCEPT ![th] = c]
  BY DEF EnterAs
<1>4. /\ Append(frames[th], f) \in Seq(Frame) /\ Len(Append(frames[th], f)) = Len(frames[th]) + 1
      /\ Append(frames[th], f)[Len(frames[th]) + 1] = f
      /\ \A i \in Depths(th) : Append(frames[th], f)[i] = frames[th][i]
  BY <1>1, <1>2 DEF Depths
<1>5. frames' \in [Thread -> Seq(Frame)] /\ context' \in [Thread -> Context]
  BY <1>3, <1>4 DEF TypeInv
<1>6. \A t \in Thread : Len(frames'[t]) <= MaxDepth
  BY <1>2, <1>3, <1>4, DepthAssumption DEF TypeInv, EnterAs
<1>7. ASSUME NEW t \in Thread, NEW i \in 1..Len(frames'[t]), t # th
      PROVE  i \in Depths(t) /\ frames'[t][i] = frames[t][i] /\ Ctx(t, i)' = Ctx(t, i)
  BY <1>3, <1>7 DEF TypeInv, Depths, Ctx
<1>8. ASSUME NEW i \in Depths(th)
      PROVE  frames'[th][i] = frames[th][i] /\ Ctx(th, i)' = Ctx(th, i)
  BY <1>2, <1>3, <1>4, <1>8 DEF TypeInv, Depths, Ctx
<1> PICK n \in Nat : n = Len(frames[th])
  BY <1>2
<1>9. Ctx(th, n + 1)' = c /\ frames'[th][n + 1] = f /\ Len(frames'[th]) = n + 1
  BY <1>2, <1>3, <1>4 DEF TypeInv, Ctx
<1>10. \A i \in 1..Len(frames'[th]) : i \in Depths(th) \/ i = n + 1
  BY <1>2, <1>9 DEF Depths
<1>11. ASSUME NEW i \in 1..Len(frames'[th])
       PROVE  \/ i \in Depths(th) /\ frames'[th][i] = frames[th][i] /\ Ctx(th, i)' = Ctx(th, i)
              \/ i = Len(frames[th]) + 1 /\ Ctx(th, i)' = c /\ frames'[th][i] = f
  <2>1. CASE i \in Depths(th)
    BY <1>8, <2>1
  <2>2. CASE i = n + 1
    BY <1>9, <2>2
  <2> QED
    BY <1>10, <2>1, <2>2
<1>12. ASSUME NEW t \in Thread, NEW i \in 1..Len(frames'[t])
       PROVE  \/ i \in Depths(t) /\ frames'[t][i] = frames[t][i] /\ Ctx(t, i)' = Ctx(t, i)
              \/ t = th /\ i = Len(frames[th]) + 1 /\ Ctx(t, i)' = c /\ frames'[t][i] = f
  <2>1. CASE t = th
    BY <1>11, <2>1
  <2>2. CASE t # th
    BY <1>7, <2>2
  <2> QED
    BY <2>1, <2>2
<1> QED
  BY <1>5, <1>6, <1>12

(* Leaving one brings the one below back.                                  *)
LEMMA Leaves ==
  ASSUME TypeInv, NEW th \in Thread, ~idle(th), Left(th),
         context' = [context EXCEPT ![th] = Top(th).old]
  PROVE  /\ Len(frames[th]) \in Depths(th)
         /\ context' \in [Thread -> Context] /\ frames' \in [Thread -> Seq(Frame)]
         /\ \A t \in Thread : Len(frames'[t]) <= MaxDepth
         /\ \A t \in Thread : \A i \in 1..Len(frames'[t]) :
              /\ i \in Depths(t) /\ frames'[t][i] = frames[t][i] /\ Ctx(t, i)' = Ctx(t, i)
              /\ t # th \/ i # Len(frames[th])
<1> DEFINE n == Len(frames[th])
<1>1. frames[th] \in Seq(Frame) /\ n \in Nat /\ n > 0
  BY EmptySeq DEF TypeInv, idle
<1>2. frames[th][n] \in Frame
  BY <1>1
<1>3. frames' = [frames EXCEPT ![th] = SubSeq(frames[th], 1, n - 1)]
  BY DEF Left
<1>4. /\ SubSeq(frames[th], 1, n - 1) \in Seq(Frame) /\ Len(SubSeq(frames[th], 1, n - 1)) = n - 1
      /\ \A i \in 1..(n - 1) : SubSeq(frames[th], 1, n - 1)[i] = frames[th][i]
  BY <1>1
<1> HIDE DEF n
<1>5. frames' \in [Thread -> Seq(Frame)] /\ context' \in [Thread -> Context]
  BY <1>2, <1>3, <1>4 DEF TypeInv, Top, Frame, n
<1>6. \A t \in Thread : Len(frames'[t]) <= MaxDepth
  BY <1>1, <1>3, <1>4, DepthAssumption DEF TypeInv, n
<1>7. ASSUME NEW t \in Thread, NEW i \in 1..Len(frames'[t]), t # th
      PROVE  i \in Depths(t) /\ frames'[t][i] = frames[t][i] /\ Ctx(t, i)' = Ctx(t, i)
  BY <1>3, <1>7 DEF TypeInv, Depths, Ctx
<1>8. ASSUME NEW i \in 1..Len(frames'[th])
      PROVE  /\ i \in Depths(th) /\ frames'[th][i] = frames[th][i] /\ Ctx(th, i)' = Ctx(th, i)
             /\ i # n
  <2>1. i \in 1..(n - 1) /\ Len(frames'[th]) = n - 1 /\ frames'[th][i] = frames[th][i]
    BY <1>3, <1>4, <1>8 DEF TypeInv
  <2>2. i # n - 1 => frames'[th][i + 1] = frames[th][i + 1]
    BY <1>1, <1>3, <1>4, <2>1 DEF TypeInv
  <2>3. context'[th] = frames[th][n].old
    BY DEF TypeInv, Top, n
  <2>4. Ctx(th, i)' = IF i = n - 1 THEN frames[th][n].old ELSE frames[th][i + 1].old
    BY <2>1, <2>2, <2>3 DEF Ctx
  <2>5. Ctx(th, i) = frames[th][i + 1].old
    BY <1>1, <2>1 DEF Ctx, n
  <2> QED
    BY <1>1, <2>1, <2>4, <2>5 DEF Depths, n
<1>9. n \in Depths(th)
  BY <1>1 DEF Depths, n
<1> QED
  BY <1>5, <1>6, <1>7, <1>8, <1>9 DEF n

(* The innermost frame has the context of the thread.                      *)
LEMMA Innermost ==
  ASSUME TypeInv, NEW th \in Thread, ~idle(th)
  PROVE  /\ Len(frames[th]) \in Depths(th) /\ Top(th) = frames[th][Len(frames[th])]
         /\ Top(th) \in Frame /\ Ctx(th, Len(frames[th])) = context[th]
<1>1. frames[th] \in Seq(Frame) /\ Len(frames[th]) \in Nat /\ Len(frames[th]) > 0
  BY EmptySeq DEF TypeInv, idle
<1> QED
  BY <1>1 DEF Depths, Top, Ctx

(* What a frame that stays allows its plan: it keeps its owner, and if it  *)
(* moves, the frame is none that plans it and no hook of a stopped plan.   *)
Steady(t, i) ==
  LET f == frames[t][i] IN
    /\ owner'[f.plan] = owner[f.plan]
    /\ \/ phase'[f.plan] = phase[f.plan]
       \/ /\ phase'[f.plan] # "none" /\ ~Planning(t, i)
          /\ f.kind \in {"run", "finalize"} => phase'[f.plan] = "stopped"
          /\ f.kind = "hook" => phase[f.plan] # "stopped" \/ phase'[f.plan] = "stopped"

LEMMA FrameStays ==
  ASSUME TypeInv, NEW t \in Thread, NEW i \in Depths(t), FrameInv(t, i),
         frames'[t][i] = frames[t][i], Ctx(t, i)' = Ctx(t, i), Steady(t, i)
  PROVE  FrameInv(t, i)'
BY DEF FrameInv, Planning, Steady

(* What a frame that is entered asks of its plan.                          *)
Begun(p, kind, c) ==
  /\ phase'[p] # "none"
  /\ kind = "delay" => phase'[p] = "delaying" /\ c = owner'[p]
  /\ kind = "plan" => phase'[p] = "planning" /\ c = owner'[p]
  /\ kind \in {"run", "finalize"} => phase'[p] \in {"planned", "stopped"} /\ c = owner'[p]
  /\ kind = "hook" => c = owner'[p] \/ phase'[p] = "stopped"

LEMMA EntersFrames ==
  ASSUME TypeInv, FramesInv, NEW th \in Thread, NEW p \in Plan, NEW kind \in Kinds,
         NEW c \in Context, EnterAs(th, p, kind, c), Begun(p, kind, c),
         \A t \in Thread : \A i \in Depths(t) : Steady(t, i)
  PROVE  FramesInv'
<1>1. \A t \in Thread : \A i \in 1..Len(frames'[t]) :
        \/ i \in Depths(t) /\ frames'[t][i] = frames[t][i] /\ Ctx(t, i)' = Ctx(t, i)
        \/ /\ t = th /\ i = Len(frames[th]) + 1 /\ Ctx(t, i)' = c
           /\ frames'[t][i] = [plan |-> p, kind |-> kind, old |-> context[th]]
  BY Enters
<1>2. ASSUME NEW t \in Thread, NEW i \in 1..Len(frames'[t])
      PROVE  FrameInv(t, i)'
  <2>1. CASE i \in Depths(t) /\ frames'[t][i] = frames[t][i] /\ Ctx(t, i)' = Ctx(t, i)
    <3>1. FrameInv(t, i) /\ Steady(t, i)
      BY <2>1 DEF FramesInv
    <3> QED
      BY <2>1, <3>1, FrameStays
  <2>2. CASE Ctx(t, i)' = c /\ frames'[t][i] = [plan |-> p, kind |-> kind, old |-> context[th]]
    BY <2>2 DEF FrameInv, Begun
  <2> QED
    BY <1>1, <2>1, <2>2
<1> QED
  BY <1>2 DEF FramesInv, Depths

LEMMA LeavesFrames ==
  ASSUME TypeInv, FramesInv, NEW th \in Thread, ~idle(th), Left(th),
         context' = [context EXCEPT ![th] = Top(th).old],
         \A t \in Thread : \A i \in Depths(t) : t # th \/ i # Len(frames[th]) => Steady(t, i)
  PROVE  FramesInv'
<1>1. \A t \in Thread : \A i \in 1..Len(frames'[t]) :
        /\ i \in Depths(t) /\ frames'[t][i] = frames[t][i] /\ Ctx(t, i)' = Ctx(t, i)
        /\ t # th \/ i # Len(frames[th])
  BY Leaves
<1>2. ASSUME NEW t \in Thread, NEW i \in 1..Len(frames'[t])
      PROVE  FrameInv(t, i)'
  <2>1. i \in Depths(t) /\ FrameInv(t, i) /\ Steady(t, i)
    BY <1>1 DEF FramesInv
  <2> QED
    BY <1>1, <2>1, FrameStays
<1> QED
  BY <1>2 DEF FramesInv, Depths

(* No plan that is being planned is entered for planning again.            *)
LEMMA EntersPlannedOnce ==
  ASSUME TypeInv, FramesInv, PlannedOnce,
         NEW th \in Thread, NEW p \in Plan, NEW kind \in Kinds, NEW c \in Context,
         EnterAs(th, p, kind, c),
         kind \in {"delay", "plan"} => phase[p] \in {"none", "scheduled"}
  PROVE  PlannedOnce'
<1>1. SUFFICES ASSUME NEW t1 \in Thread, NEW t2 \in Thread,
                      NEW i \in 1..Len(frames'[t1]), NEW j \in 1..Len(frames'[t2]),
                      frames'[t1][i].kind \in {"delay", "plan"}, frames'[t2][j].kind \in {"delay", "plan"},
                      frames'[t1][i].plan = frames'[t2][j].plan
               PROVE  t1 = t2 /\ i = j
  BY DEF PlannedOnce, Planning, Depths
<1> DEFINE old(t, k) == k \in Depths(t) /\ frames'[t][k] = frames[t][k]
           new(t, k) == t = th /\ k = Len(frames[th]) + 1 /\ frames'[t][k].plan = p /\ frames'[t][k].kind = kind
<1>2. (old(t1, i) \/ new(t1, i)) /\ (old(t2, j) \/ new(t2, j))
  <2>1. \A t \in Thread : \A k \in 1..Len(frames'[t]) :
          \/ k \in Depths(t) /\ frames'[t][k] = frames[t][k] /\ Ctx(t, k)' = Ctx(t, k)
          \/ /\ t = th /\ k = Len(frames[th]) + 1 /\ Ctx(t, k)' = c
             /\ frames'[t][k] = [plan |-> p, kind |-> kind, old |-> context[th]]
    BY Enters
  <2>2. \A t \in Thread : \A k \in 1..Len(frames'[t]) : old(t, k) \/ new(t, k)
    BY <2>1
  <2> HIDE DEF old, new
  <2> QED
    BY <2>2
<1>3. \A t \in Thread : \A k \in Depths(t) : frames[t][k].kind \in {"delay", "plan"} =>
        phase[frames[t][k].plan] \notin {"none", "scheduled"}
  BY DEF FramesInv, FrameInv
<1>4. CASE old(t1, i) /\ old(t2, j)
  BY <1>1, <1>4 DEF PlannedOnce, Planning
<1>5. CASE new(t1, i) /\ new(t2, j)
  BY <1>5
<1>6. ~(old(t1, i) /\ new(t2, j)) /\ ~(new(t1, i) /\ old(t2, j))
  BY <1>1, <1>3
<1> HIDE DEF old, new
<1> QED
  BY <1>2, <1>4, <1>5, <1>6

LEMMA LeavesPlannedOnce ==
  ASSUME TypeInv, PlannedOnce, NEW th \in Thread, ~idle(th), Left(th),
         context' = [context EXCEPT ![th] = Top(th).old]
  PROVE  PlannedOnce'
<1>1. \A t \in Thread : \A i \in 1..Len(frames'[t]) : i \in Depths(t) /\ frames'[t][i] = frames[t][i]
  BY Leaves
<1> SUFFICES ASSUME NEW t1 \in Thread, NEW t2 \in Thread,
                    NEW i \in 1..Len(frames'[t1]), NEW j \in 1..Len(frames'[t2]),
                    frames'[t1][i].kind \in {"delay", "plan"}, frames'[t2][j].kind \in {"delay", "plan"},
                    frames'[t1][i].plan = frames'[t2][j].plan
             PROVE  t1 = t2 /\ i = j
  BY DEF PlannedOnce, Planning, Depths
<1>2. i \in Depths(t1) /\ j \in Depths(t2) /\ frames'[t1][i] = frames[t1][i] /\ frames'[t2][j] = frames[t2][j]
  BY <1>1
<1> QED
  BY <1>2 DEF PlannedOnce, Planning

(* What a worker starts from is what it comes back to.                     *)
LEMMA EntersBottom ==
  ASSUME TypeInv, BottomInv, NEW th \in Thread, NEW p \in Plan, NEW kind \in Kinds,
         NEW c \in Context, EnterAs(th, p, kind, c)
  PROVE  BottomInv'
<1> DEFINE f == [plan |-> p, kind |-> kind, old |-> context[th]]
<1>1. frames[th] \in Seq(Frame) /\ f \in Frame
  BY DEF TypeInv, Frame
<1>2. frames' = [frames EXCEPT ![th] = Append(frames[th], f)] /\ context' = [context EXCEPT ![th] = c]
  BY DEF EnterAs
<1> HIDE DEF f
<1>3. Append(frames[th], f) # <<>>
      /\ Append(frames[th], f)[1] = IF idle(th) THEN f ELSE frames[th][1]
  <2>1. /\ Len(frames[th]) \in Nat /\ (idle(th) <=> Len(frames[th]) = 0)
        /\ Append(frames[th], f) \in Seq(Frame) /\ Len(Append(frames[th], f)) = Len(frames[th]) + 1
        /\ Append(frames[th], f)[Len(frames[th]) + 1] = f
        /\ \A i \in 1..Len(frames[th]) : Append(frames[th], f)[i] = frames[th][i]
    BY <1>1, EmptySeq DEF idle
  <2> QED
    BY <2>1, EmptySeq
<1>4. ASSUME NEW t \in Worker, t # th PROVE frames'[t] = frames[t] /\ context'[t] = context[t]
  BY <1>2, <1>4 DEF TypeInv, Thread
<1>5. frames'[th] # <<>> /\ frames'[th][1].old = IF idle(th) THEN context[th] ELSE frames[th][1].old
  BY <1>2, <1>3 DEF TypeInv, f
<1>6. ASSUME NEW t \in Worker
      PROVE  IF idle(t)' THEN context'[t] = Blank ELSE frames'[t][1].old = Blank
  <2>1. CASE t = th
    BY <1>5, <2>1 DEF BottomInv, idle
  <2>2. CASE t # th
    BY <1>4, <2>2 DEF BottomInv, idle
  <2> QED
    BY <2>1, <2>2
<1> QED
  BY <1>6 DEF BottomInv

LEMMA LeavesBottom ==
  ASSUME TypeInv, BottomInv, NEW th \in Thread, ~idle(th), Left(th),
         context' = [context EXCEPT ![th] = Top(th).old]
  PROVE  BottomInv'
<1> DEFINE n == Len(frames[th])
<1>1. n \in Nat \ {0} /\ frames[th] \in Seq(Frame)
  BY EmptySeq DEF TypeInv, idle
<1>2. frames' = [frames EXCEPT ![th] = SubSeq(frames[th], 1, n - 1)] /\ context'[th] = frames[th][n].old
  BY <1>1 DEF Left, TypeInv, Top
<1>3. frames'[th] = SubSeq(frames[th], 1, n - 1)
  BY <1>2 DEF TypeInv
<1> HIDE DEF n
<1>4. CASE n = 1
  <2>1. frames'[th] = <<>>
    BY <1>1, <1>3, <1>4
  <2> QED
    BY <1>2, <1>4, <2>1 DEF BottomInv, idle, TypeInv, Thread, Left
<1>5. CASE n > 1
  <2>1. frames'[th] # <<>> /\ frames'[th][1] = frames[th][1]
    <3>1. Len(SubSeq(frames[th], 1, n - 1)) = n - 1 /\ SubSeq(frames[th], 1, n - 1)[1] = frames[th][1]
      BY <1>1, <1>5 DEF n
    <3>2. Len(SubSeq(frames[th], 1, n - 1)) # 0
      BY <1>1, <1>5, <3>1
    <3>3. Len(<<>>) = 0
      BY EmptySeq
    <3> QED
      BY <1>3, <3>1, <3>2, <3>3
  <2> QED
    BY <1>2, <2>1 DEF BottomInv, idle, TypeInv, Thread
<1>6. n = 1 \/ n > 1
  BY <1>1
<1> QED
  BY <1>4, <1>5, <1>6

-----------------------------------------------------------------------------
(* The plan of a task that is triggered is in no frame yet.                *)
LEMMA TriggerKeeps ==
  ASSUME Inv, NEW th \in Thread, NEW p \in Plan, NEW kind \in {"delay", "plan"},
         Trigger(th, p, kind)
  PROVE  Inv'
<1> USE DEF Inv
<1>1. /\ EnterAs(th, p, kind, context[th]) /\ kind \in Kinds /\ context[th] \in Context
      /\ phase[p] = "none" /\ UNCHANGED <<input, users>>
      /\ owner' = [owner EXCEPT ![p] = context[th]]
      /\ phase' = [phase EXCEPT ![p] = IF kind = "delay" THEN "delaying" ELSE "planning"]
  BY DEF Trigger, Kinds, TypeInv
<1>2. TypeInv'
  <2>1. phase' \in [Plan -> Phases] /\ owner' \in [Plan -> Context]
    BY <1>1 DEF TypeInv, Phases
  <2> QED
    BY <1>1, <2>1, Enters DEF TypeInv
<1>3. FramesInv'
  <2>1. Begun(p, kind, context[th])
    BY <1>1 DEF Begun, TypeInv
  <2>2. ASSUME NEW t \in Thread, NEW i \in Depths(t) PROVE Steady(t, i)
    <3>1. frames[t][i].plan # p
      BY <1>1 DEF FramesInv, FrameInv
    <3> QED
      BY <1>1, <3>1 DEF Steady, TypeInv
  <2> QED
    BY <1>1, <2>1, <2>2, EntersFrames
<1>4. PlannedOnce'
  BY <1>1, EntersPlannedOnce
<1>5. InputInv'
  BY <1>1 DEF InputInv, TypeInv
<1>6. BottomInv'
  BY <1>1, EntersBottom
<1> QED
  BY <1>2, <1>3, <1>4, <1>5, <1>6

(* A worker that plans a delayed task starts from the blank context.       *)
LEMMA PlanDelayedKeeps ==
  ASSUME Inv, NEW th \in Thread, NEW p \in Plan, PlanDelayed(th, p)
  PROVE  Inv'
<1> USE DEF Inv
<1>1. phase[p] = "scheduled" /\ context[th] = Blank /\ input[p] = owner[p] /\ owner[p] \in Context
      /\ UNCHANGED <<input, owner, users>>
  BY DEF PlanDelayed, BottomInv, InputInv, TypeInv
<1>2. ASSUME NEW t \in Thread, NEW i \in Depths(t), NEW ph \in {"planning", "stopped"},
             phase' = [phase EXCEPT ![p] = ph]
      PROVE  Steady(t, i)
  BY <1>1, <1>2 DEF FramesInv, FrameInv, Steady, Planning, TypeInv
<1>3. CASE /\ EnterAs(th, p, "plan", WithCurrent(context[th], input[p]))
           /\ phase' = [phase EXCEPT ![p] = "planning"]
  <2>1. EnterAs(th, p, "plan", owner[p]) /\ "plan" \in Kinds
    BY <1>1, <1>3, RestoredOwner DEF Kinds
  <2>2. TypeInv'
    <3>1. phase' \in [Plan -> Phases]
      BY <1>3 DEF TypeInv, Phases
    <3> QED
      BY <1>1, <2>1, <3>1, Enters DEF TypeInv
  <2>3. FramesInv'
    <3>1. Begun(p, "plan", owner[p])
      BY <1>1, <1>3 DEF Begun, TypeInv
    <3> QED
      BY <1>1, <1>2, <1>3, <2>1, <3>1, EntersFrames
  <2>4. PlannedOnce'
    BY <1>1, <2>1, EntersPlannedOnce
  <2>5. InputInv'
    BY <1>1, <1>3 DEF InputInv, TypeInv
  <2>6. BottomInv'
    BY <1>1, <2>1, EntersBottom
  <2> QED
    BY <2>2, <2>3, <2>4, <2>5, <2>6
<1>4. CASE phase' = [phase EXCEPT ![p] = "stopped"] /\ UNCHANGED <<context, frames>>
  <2>1. TypeInv'
    BY <1>1, <1>4 DEF TypeInv, Phases
  <2>2. FramesInv'
    <3>1. ASSUME NEW t \in Thread, NEW i \in Depths(t) PROVE FrameInv(t, i)'
      <4>1. FrameInv(t, i) /\ Steady(t, i) /\ frames'[t][i] = frames[t][i] /\ Ctx(t, i)' = Ctx(t, i)
        BY <1>2, <1>4 DEF FramesInv, Ctx
      <4> QED
        BY <4>1, FrameStays
    <3> QED
      BY <1>4, <3>1 DEF FramesInv, Depths
  <2>3. PlannedOnce' /\ BottomInv'
    BY <1>4 DEF PlannedOnce, Planning, Depths, BottomInv, idle
  <2>4. InputInv'
    BY <1>1, <1>4 DEF InputInv, TypeInv
  <2> QED
    BY <2>1, <2>2, <2>3, <2>4
<1> QED
  BY <1>3, <1>4 DEF PlanDelayed

(* Steps and hooks move no plan when they are entered.                     *)
LEMMA WorkKeeps ==
  ASSUME Inv, NEW th \in Thread, NEW p \in Plan, NEW kind \in {"run", "finalize", "hook"},
         NEW c \in Context, EnterAs(th, p, kind, c), UNCHANGED <<phase, input, owner, users>>,
         phase[p] # "none", c = owner[p] \/ (kind = "hook" /\ phase[p] = "stopped"),
         kind # "hook" => phase[p] = "planned"
  PROVE  Inv'
<1> USE DEF Inv
<1>1. kind \in Kinds
  BY DEF Kinds
<1>2. TypeInv'
  BY <1>1, Enters DEF TypeInv
<1>3. FramesInv'
  <2>1. Begun(p, kind, c)
    BY DEF Begun
  <2>2. \A t \in Thread : \A i \in Depths(t) : Steady(t, i)
    BY DEF Steady
  <2> QED
    BY <1>1, <2>1, <2>2, EntersFrames
<1>4. PlannedOnce'
  BY <1>1, EntersPlannedOnce
<1>5. InputInv'
  BY DEF InputInv
<1>6. BottomInv'
  BY <1>1, EntersBottom
<1> QED
  BY <1>2, <1>3, <1>4, <1>5, <1>6

LEMMA StepKeeps ==
  ASSUME Inv, NEW th \in Thread, NEW p \in Plan, NEW kind \in {"run", "finalize"},
         Step(th, p, kind)
  PROVE  Inv'
<1>1. context[th] = Blank /\ input[p] = owner[p] /\ owner[p] \in Context /\ phase[p] = "planned"
  BY DEF Step, Inv, BottomInv, InputInv, TypeInv
<1>2. EnterAs(th, p, kind, owner[p])
  BY <1>1, RestoredOwner DEF Step
<1> QED
  BY <1>1, <1>2, WorkKeeps DEF Step

(* A hook in a thread that plans finds the context of the owner, one in a  *)
(* worker the blank one.                                                   *)
LEMMA HookKeeps ==
  ASSUME Inv, NEW th \in Thread, NEW p \in Plan, Hook(th, p)
  PROVE  Inv'
<1> USE DEF Inv
<1> DEFINE c == Restored(context[th], input[p])
<1>1. context[th] \in Context /\ input[p] \in {NotStored, owner[p]} /\ owner[p] \in Context
      /\ EnterAs(th, p, "hook", c) /\ UNCHANGED <<phase, input, owner, users>>
  BY DEF Hook, InputInv, TypeInv
<1>2. c \in Context
  BY <1>1, RestoredContext
<1>3. phase[p] # "none" /\ (c = owner[p] \/ phase[p] = "stopped")
  <2>1. CASE ~idle(th) /\ Top(th).plan = p /\ Top(th).kind \in {"delay", "plan"}
    <3>1. FrameInv(th, Len(frames[th]))
      BY <2>1, Innermost DEF FramesInv
    <3>2. context[th] = owner[p] /\ phase[p] # "none"
      BY <2>1, <3>1, Innermost DEF FrameInv
    <3> QED
      BY <1>1, <3>2, RestoredAgain
  <2>2. CASE th \in Worker /\ idle(th) /\ phase[p] = "planned"
    BY <1>1, <2>2, RestoredOwner DEF BottomInv, InputInv
  <2> QED
    BY <2>1, <2>2 DEF Hook
<1> HIDE DEF c
<1> QED
  BY <1>1, <1>2, <1>3, WorkKeeps

(* When the planning ends, what is stored is the context of the owner.     *)
LEMMA EndOfPlanningKeeps ==
  ASSUME Inv, NEW th \in Thread, EndOfPlanning(th)
  PROVE  Inv'
<1> USE DEF Inv
<1> DEFINE n == Len(frames[th])
           q == Top(th).plan
           ph == IF Top(th).kind = "delay" THEN "scheduled" ELSE "planned"
<1>1. /\ ~idle(th) /\ Left(th) /\ context' = [context EXCEPT ![th] = Top(th).old]
      /\ input' = [input EXCEPT ![q] = context[th]] /\ phase' = [phase EXCEPT ![q] = ph]
      /\ UNCHANGED <<owner, users>> /\ Top(th).kind \in {"delay", "plan"}
  BY DEF EndOfPlanning
<1>2. n \in Depths(th) /\ Top(th) = frames[th][n] /\ q \in Plan /\ Planning(th, n)
      /\ FrameInv(th, n) /\ Ctx(th, n) = context[th]
  BY <1>1, Innermost DEF Frame, Planning, FramesInv
<1>3. context[th] = owner[q] /\ owner[q] \in Context /\ phase[q] \in {"delaying", "planning"}
      /\ ph \in {"scheduled", "planned"}
  BY <1>1, <1>2 DEF FrameInv, TypeInv
<1>4. TypeInv'
  <2>1. phase' \in [Plan -> Phases] /\ input' \in [Plan -> Context \cup {NotStored}]
    BY <1>1, <1>3 DEF TypeInv, Phases
  <2> QED
    BY <1>1, <2>1, Leaves DEF TypeInv
<1>5. FramesInv'
  <2>1. ASSUME NEW t \in Thread, NEW i \in Depths(t), t # th \/ i # n
        PROVE  Steady(t, i)
    <3>1. CASE frames[t][i].plan = q
      <4>1. FrameInv(t, i) /\ ~Planning(t, i)
        BY <1>2, <2>1, <3>1 DEF FramesInv, PlannedOnce
      <4>2. frames[t][i].kind \notin {"run", "finalize"} /\ phase[q] # "stopped"
        BY <1>3, <3>1, <4>1 DEF FrameInv
      <4>3. phase'[q] # "none" /\ owner'[q] = owner[q]
        BY <1>1, <1>2, <1>3 DEF TypeInv
      <4> QED
        BY <3>1, <4>1, <4>2, <4>3 DEF Steady
    <3>2. CASE frames[t][i].plan # q
      BY <1>1, <3>2 DEF Steady, TypeInv
    <3> QED
      BY <3>1, <3>2
  <2> QED
    BY <1>1, <2>1, LeavesFrames
<1>6. PlannedOnce' /\ BottomInv'
  BY <1>1, LeavesPlannedOnce, LeavesBottom
<1>7. InputInv'
  <2>1. ASSUME NEW p \in Plan
        PROVE  /\ input'[p] \in {NotStored, owner'[p]}
               /\ phase'[p] = "none" => input'[p] = NotStored
               /\ phase'[p] \in {"scheduled", "planned"} => input'[p] = owner'[p]
    <3>1. CASE p = q
      BY <1>1, <1>2, <1>3, <3>1 DEF TypeInv
    <3>2. CASE p # q
      BY <1>1, <3>2 DEF InputInv, TypeInv
    <3> QED
      BY <3>1, <3>2
  <2> QED
    BY <2>1 DEF InputInv
<1> QED
  BY <1>4, <1>5, <1>6, <1>7

(* Leaving a frame of a plan that stays where it is or stops.              *)
LEMMA OverKeeps ==
  ASSUME Inv, NEW th \in Thread, ~idle(th), Left(th),
         context' = [context EXCEPT ![th] = Top(th).old], UNCHANGED <<input, owner, users>>,
         NEW ph \in {phase[Top(th).plan], "stopped"},
         phase' = [phase EXCEPT ![Top(th).plan] = ph],
         Top(th).kind = "hook" => ph = phase[Top(th).plan]
  PROVE  Inv'
<1> USE DEF Inv
<1> DEFINE n == Len(frames[th])
           q == Top(th).plan
<1>1. n \in Depths(th) /\ Top(th) = frames[th][n] /\ q \in Plan /\ Top(th).kind \in Kinds
      /\ FrameInv(th, n)
  BY Innermost DEF Frame, FramesInv
<1>2. TypeInv'
  <2>1. phase' \in [Plan -> Phases]
    BY <1>1 DEF TypeInv, Phases
  <2> QED
    BY <2>1, Leaves DEF TypeInv
<1>3. FramesInv'
  <2>1. ASSUME NEW t \in Thread, NEW i \in Depths(t), t # th \/ i # n
        PROVE  Steady(t, i)
    <3>1. CASE frames[t][i].plan = q /\ ph # phase[q]
      <4>1. FrameInv(t, i) /\ ph = "stopped" /\ Top(th).kind \in {"delay", "plan", "run", "finalize"}
        BY <1>1, <3>1 DEF FramesInv, Kinds
      <4>2. ~Planning(t, i)
        <5>1. CASE Top(th).kind \in {"delay", "plan"}
          BY <1>1, <2>1, <3>1, <5>1 DEF PlannedOnce, Planning
        <5>2. CASE Top(th).kind \in {"run", "finalize"}
          BY <1>1, <3>1, <4>1, <5>2 DEF FrameInv, Planning
        <5> QED
          BY <4>1, <5>1, <5>2
      <4>3. phase'[q] = "stopped" /\ owner'[q] = owner[q]
        BY <1>1, <4>1 DEF TypeInv
      <4> QED
        BY <3>1, <4>2, <4>3 DEF Steady
    <3>2. CASE frames[t][i].plan # q \/ ph = phase[q]
      BY <3>2 DEF Steady, TypeInv
    <3> QED
      BY <3>1, <3>2
  <2> QED
    BY <2>1, LeavesFrames
<1>4. PlannedOnce' /\ BottomInv'
  BY LeavesPlannedOnce, LeavesBottom
<1>5. InputInv'
  <2>1. \A p \in Plan : phase'[p] \in {phase[p], "stopped"}
    BY <1>1 DEF TypeInv
  <2> QED
    BY <2>1 DEF InputInv
<1> QED
  BY <1>2, <1>3, <1>4, <1>5

LEMMA FailsKeeps ==
  ASSUME Inv, NEW th \in Thread, Fails(th)
  PROVE  Inv'
<1> DEFINE ph == IF Top(th).kind \in {"delay", "plan"} THEN "stopped" ELSE phase[Top(th).plan]
<1>1. ph \in {phase[Top(th).plan], "stopped"} /\ (Top(th).kind = "hook" => ph = phase[Top(th).plan])
  OBVIOUS
<1>2. phase' = [phase EXCEPT ![Top(th).plan] = ph]
  BY DEF Fails
<1> HIDE DEF ph
<1> QED
  BY <1>1, <1>2, OverKeeps DEF Fails

LEMMA EndOfStepKeeps ==
  ASSUME Inv, NEW th \in Thread, EndOfStep(th)
  PROVE  Inv'
<1>1. PICK ph \in {phase[Top(th).plan], "stopped"} :
        /\ phase' = [phase EXCEPT ![Top(th).plan] = ph]
        /\ Top(th).kind = "hook" => ph = phase[Top(th).plan]
  BY DEF EndOfStep
<1> QED
  BY <1>1, OverKeeps DEF EndOfStep

(* A request is served by a web thread in no frame.                        *)
LEMMA RequestKeeps ==
  ASSUME Inv, NEW th \in Thread, Request(th)
  PROVE  Inv'
<1> USE DEF Inv
<1>1. PICK c \in Context : context' = [context EXCEPT ![th] = c]
  BY DEF Request
<1>2. th \in Web /\ idle(th) /\ UNCHANGED <<frames, phase, input, owner, users>>
  BY DEF Request
<1>3. TypeInv'
  BY <1>1, <1>2 DEF TypeInv
<1>4. FramesInv'
  <2>1. ASSUME NEW t \in Thread, NEW i \in Depths(t) PROVE FrameInv(t, i)'
    <3>1. t # th
      BY <1>2, EmptySeq DEF Depths, idle
    <3>2. FrameInv(t, i) /\ Steady(t, i) /\ frames'[t][i] = frames[t][i] /\ Ctx(t, i)' = Ctx(t, i)
      BY <1>1, <1>2, <3>1 DEF FramesInv, Ctx, Steady, TypeInv
    <3> QED
      BY <3>2, FrameStays
  <2> QED
    BY <1>2, <2>1 DEF FramesInv, Depths
<1>5. PlannedOnce' /\ InputInv'
  BY <1>2 DEF PlannedOnce, Planning, Depths, InputInv
<1>6. BottomInv'
  BY <1>1, <1>2, ThreadAssumption DEF BottomInv, idle, TypeInv, Thread
<1> QED
  BY <1>3, <1>4, <1>5, <1>6

(* Steps that change at most the users.                                    *)
LEMMA UsersKeep ==
  ASSUME Inv, UNCHANGED <<context, frames, phase, input, owner>>, users' \subseteq users
  PROVE  Inv'
BY DEF Inv, TypeInv, FramesInv, FrameInv, Ctx, Depths, PlannedOnce, Planning, InputInv, BottomInv, idle

LEMMA InvInitially == Init => Inv
<1> SUFFICES ASSUME Init PROVE Inv
  OBVIOUS
<1>1. \A th \in Thread : idle(th) /\ Depths(th) = {}
  BY EmptySeq DEF Init, idle, Depths
<1>2. TypeInv
  BY BlankContext, DepthAssumption, EmptySeq DEF Init, TypeInv, Phases
<1>3. InputInv
  BY DEF Init, InputInv
<1>4. FramesInv /\ PlannedOnce
  BY <1>1 DEF FramesInv, PlannedOnce
<1>5. BottomInv
  BY <1>1 DEF Init, BottomInv, Thread
<1> QED
  BY <1>2, <1>3, <1>4, <1>5 DEF Inv

LEMMA InvNext == Inv /\ [Next]_vars => Inv'
<1> SUFFICES ASSUME Inv, [Next]_vars PROVE Inv'
  OBVIOUS
<1>1. ASSUME NEW u \in User, DeleteUser(u) PROVE Inv'
  BY <1>1, UsersKeep DEF DeleteUser
<1>2. ASSUME NEW th \in Thread, Request(th) \/ EndOfPlanning(th) \/ Fails(th) \/ EndOfStep(th)
      PROVE  Inv'
  BY <1>2, RequestKeeps, EndOfPlanningKeeps, FailsKeeps, EndOfStepKeeps
<1>3. ASSUME NEW th \in Thread, NEW p \in Plan, NEW kind \in {"delay", "plan"}, Trigger(th, p, kind)
      PROVE  Inv'
  BY <1>3, TriggerKeeps
<1>4. ASSUME NEW th \in Thread, NEW p \in Plan, PlanDelayed(th, p) \/ Hook(th, p) PROVE Inv'
  BY <1>4, PlanDelayedKeeps, HookKeeps
<1>5. ASSUME NEW th \in Thread, NEW p \in Plan, NEW kind \in {"run", "finalize"}, Step(th, p, kind)
      PROVE  Inv'
  BY <1>5, StepKeeps
<1>6. CASE UNCHANGED vars
  BY <1>6, UsersKeep DEF vars
<1> QED
  BY <1>1, <1>2, <1>3, <1>4, <1>5, <1>6 DEF Next

-----------------------------------------------------------------------------
(* The types hold for any number of threads, plans and users.              *)
THEOREM TypesKept == Spec => []TypeOK
<1>1. Inv => TypeOK
  <2> SUFFICES ASSUME Inv PROVE TypeOK
    OBVIOUS
  <2>1. ASSUME NEW th \in Thread, NEW i \in 1..Len(frames[th])
        PROVE  frames[th][i] \in Frame
    BY DEF Inv, TypeInv
  <2> QED
    BY <2>1 DEF Inv, TypeInv, TypeOK, Frame, Phases
<1> QED
  BY <1>1, InvInitially, InvNext, PTL DEF Spec

(* Whatever nests in whatever, the planning of a plan, its steps and its   *)
(* hooks see the context of whoever triggered the plan.                    *)
THEOREM OwnersContext == Spec => []WorksAsOwner
<1>1. Inv => WorksAsOwner
  <2> SUFFICES ASSUME Inv, NEW th \in Thread, ~idle(th),
                      \/ Top(th).kind \in {"plan", "run", "finalize"}
                      \/ Top(th).kind = "hook" /\ phase[Top(th).plan] = "planned"
               PROVE  context[th] = owner[Top(th).plan]
    BY DEF WorksAsOwner
  <2>1. FrameInv(th, Len(frames[th])) /\ Top(th) = frames[th][Len(frames[th])]
        /\ Ctx(th, Len(frames[th])) = context[th]
    BY Innermost DEF Inv, FramesInv
  <2> QED
    BY <2>1 DEF FrameInv
<1> QED
  BY <1>1, InvInitially, InvNext, PTL DEF Spec

(* An idle worker has nobody's context, also after an exception.           *)
THEOREM NothingLeftBehind == Spec => []WorkersClean
<1>1. Inv => WorkersClean
  BY DEF Inv, BottomInv, WorkersClean
<1> QED
  BY <1>1, InvInitially, InvNext, PTL DEF Spec

-----------------------------------------------------------------------------
(* The calls of a record.  Plans are used in turn, and the one that        *)
(* @execution_plan names is the newest and has not been started, but when  *)
(* it is waited for.                                                       *)
PlansInv ==
  /\ \A p \in HookPlan : plan[p].state = "none" => plan[p] = Unused
  /\ \A p, q \in HookPlan : q < p /\ plan[p].state # "none" => plan[q].state # "none"
  /\ executionPlan # 0 =>
       /\ plan[executionPlan].state # "none"
       /\ plan[executionPlan].starts = IF At("waiting") THEN 1 ELSE 0
       /\ \A q \in HookPlan : plan[q].state # "none" => q <= executionPlan

(* Nothing is called by a call that waits.                                 *)
WaitInv ==
  /\ \A i \in 1..(Len(stack) - 1) : stack[i].step # "waiting"
  /\ At("waiting") => executionPlan # 0

(* What a plan that nobody has in hand looks like while calls are plain.   *)
Finished(p) ==
  /\ plan[p].rows # "open"
  /\ plan[p].starts > 0 => plan[p].rows = "committed"
  /\ plan[p].rows = "committed" => plan[p].starts = 1
  /\ plan[p].wanted /\ plan[p].rows = "committed" => plan[p].end = "success"

(* As long as calls are plain, what they plan is theirs.                   *)
PlainInv ==
  plain =>
    /\ Len(stack) <= 1
    /\ hook => ~outer
    /\ noCall => ~hook /\ ~sync
    /\ ~noCall /\ ~TopCall.wraps => ~hook /\ ~sync
    /\ At("before") => executionPlan = 0
    /\ executionPlan # 0 =>
         /\ hook
         /\ plan[executionPlan].rows = IF At("after") THEN "open" ELSE "committed"
         /\ plan[executionPlan].wanted = sync
    /\ \A p \in HookPlan \ {executionPlan} : Finished(p)

TriggeringInv == TriggeringTypeOK /\ PlansInv /\ WaitInv /\ PlainInv

(* The stack is changed at its top, loses it or gets another.              *)
LEMMA CallGoesOn ==
  ASSUME TriggeringTypeOK, ~noCall,
         NEW step \in {"before", "after", "committed", "waiting"}, GoTo(step)
  PROVE  /\ stack' \in Seq(Call) /\ Len(stack') = Len(stack) /\ ~noCall'
         /\ \A i \in 1..(Len(stack) - 1) : stack'[i] = stack[i]
         /\ \A s : At(s)' <=> s = step
         /\ TopCall'.wraps = TopCall.wraps
<1>1. stack \in Seq(Call) /\ stack # <<>> /\ Len(stack) \in 1..Len(stack)
  BY EmptySeq DEF noCall, TriggeringTypeOK
<1>2. TopCall \in Call
  BY <1>1, ElementOfSeq DEF TopCall
<1>3. DEFINE f == [TopCall EXCEPT !.step = step]
<1>4. f \in Call /\ f.step = step /\ f.wraps = TopCall.wraps
  BY <1>2 DEF Call
<1>5. stack' = [stack EXCEPT ![Len(stack)] = f]
  BY DEF GoTo, TopCall
<1> HIDE DEF f
<1>6. /\ stack' \in Seq(Call) /\ Len(stack') = Len(stack)
      /\ \A i \in 1..Len(stack) : stack'[i] = IF i = Len(stack) THEN f ELSE stack[i]
  BY <1>1, <1>4, <1>5, ExceptSeq
<1>7. stack' # <<>> /\ TopCall' = f /\ \A i \in 1..(Len(stack) - 1) : stack'[i] = stack[i]
  BY <1>1, <1>6, EmptySeq DEF TopCall
<1> QED
  BY <1>4, <1>6, <1>7 DEF At, noCall

LEMMA CallReturns ==
  ASSUME TriggeringTypeOK, WaitInv, ~noCall, Return
  PROVE  /\ stack' \in Seq(Call) /\ Len(stack') = Len(stack) - 1
         /\ \A i \in 1..(Len(stack) - 1) : stack'[i] = stack[i]
         /\ Len(stack) = 1 => noCall'
         /\ ~At("waiting")'
<1>1. stack \in Seq(Call) /\ stack # <<>> /\ Len(stack) \in Nat \ {0}
  BY EmptySeq DEF noCall, TriggeringTypeOK
<1>2. \A i \in 1..(Len(stack) - 1) : stack[i] \in Call
  BY <1>1, ElementOfSeq
<1>3. /\ stack' \in Seq(Call) /\ Len(stack') = Len(stack) - 1
      /\ \A i \in 1..(Len(stack) - 1) : stack'[i] = stack[i]
  <2>1. DEFINE m == Len(stack) - 1
  <2>2. m \in Nat /\ \A i \in 1..m : stack[i] \in Call
    BY <1>1, <1>2
  <2>3. stack' = SubSeq(stack, 1, m)
    BY DEF Return
  <2> HIDE DEF m
  <2>4. /\ stack' \in Seq(Call) /\ Len(stack') = IF 1 <= m THEN m - 1 + 1 ELSE 0
        /\ \A i \in 1..(m - 1 + 1) : stack'[i] = stack[1 + i - 1]
    BY <2>2, <2>3, SubSeqProperties
  <2>5. stack' \in Seq(Call) /\ Len(stack') = m /\ \A i \in 1..m : stack'[i] = stack[i]
    BY <2>2, <2>4
  <2> QED
    BY <2>5 DEF m
<1>4. Len(stack) = 1 => noCall'
  BY <1>3, EmptySeq DEF noCall
<1>5. ~At("waiting")'
  BY <1>1, <1>3, EmptySeq DEF WaitInv, At, noCall, TopCall
<1> QED
  BY <1>3, <1>4, <1>5

LEMMA CallEnters ==
  ASSUME TriggeringTypeOK, NEW f \in Call, stack' = Append(stack, f)
  PROVE  /\ stack' \in Seq(Call) /\ Len(stack') = Len(stack) + 1 /\ ~noCall'
         /\ \A i \in 1..Len(stack) : stack'[i] = stack[i]
         /\ TopCall' = f
         /\ \A s : At(s)' <=> s = f.step
<1>1. stack \in Seq(Call) /\ Len(stack) \in Nat
  BY LenProperties DEF TriggeringTypeOK
<1>2. /\ stack' \in Seq(Call) /\ Len(stack') = Len(stack) + 1
      /\ \A i \in 1..Len(stack) : stack'[i] = stack[i]
      /\ stack'[Len(stack) + 1] = f
  BY <1>1, AppendProperties
<1>3. stack' # <<>> /\ TopCall' = f
  BY <1>1, <1>2, EmptySeq DEF TopCall
<1> QED
  BY <1>2, <1>3 DEF At, noCall

LEMMA AllReturn ==
  ASSUME stack' = <<>>
  PROVE  stack' \in Seq(Call) /\ Len(stack') = 0 /\ noCall' /\ \A s : ~At(s)'
BY EmptySeq DEF noCall, At

(* What a step does to the plans.                                          *)
LEMMA UnusedRow == Unused \in PlanRow
BY DEF Unused, PlanRow

LEMMA SettledRows ==
  ASSUME TriggeringTypeOK, NEW rows \in {"committed", "rolledback"}
  PROVE  /\ Settled(rows) \in [HookPlan -> PlanRow]
         /\ \A p \in HookPlan :
              /\ Settled(rows)[p].rows = IF plan[p].rows = "open" THEN rows ELSE plan[p].rows
              /\ Settled(rows)[p].state = plan[p].state
              /\ Settled(rows)[p].wanted = plan[p].wanted
              /\ Settled(rows)[p].starts = plan[p].starts
              /\ Settled(rows)[p].end = plan[p].end
              /\ plan[p].rows # "open" => Settled(rows)[p] = plan[p]
BY DEF Settled, TriggeringTypeOK, PlanRow

LEMMA RaisedRows ==
  ASSUME NEW planned \in [HookPlan -> PlanRow], Raised(planned)
  PROVE  /\ plan' \in [HookPlan -> PlanRow]
         /\ \A p \in HookPlan :
              /\ plan'[p].state = planned[p].state
              /\ plan'[p].starts = planned[p].starts
              /\ planned[p].rows # "open" => plan'[p] = planned[p]
BY DEF Raised, PlanRow

LEMMA NewPlanRows ==
  ASSUME TriggeringTypeOK, NEW p \in HookPlan, NEW state \in {"planned", "failed"}
  PROVE  /\ NewPlan(p, state) \in [HookPlan -> PlanRow]
         /\ \A q \in HookPlan \ {p} : NewPlan(p, state)[q] = plan[q]
         /\ NewPlan(p, state)[p].state = state /\ NewPlan(p, state)[p].rows = "open"
         /\ NewPlan(p, state)[p].starts = 0 /\ NewPlan(p, state)[p].wanted = sync
<1>1. sync \in BOOLEAN /\ plan \in [HookPlan -> PlanRow]
  BY DEF TriggeringTypeOK
<1>2. DEFINE row == [state |-> state, rows |-> "open", wanted |-> sync,
                    starts |-> 0, end |-> "none"]
<1>3. /\ row.state = state /\ row.rows = "open" /\ row.starts = 0 /\ row.wanted = sync
      /\ row \in PlanRow
  BY <1>1 DEF PlanRow
<1>4. NewPlan(p, state) = [plan EXCEPT ![p] = row]
  BY DEF NewPlan
<1> HIDE DEF row
<1> QED
  BY <1>1, <1>3, <1>4

LEMMA StartedRows ==
  ASSUME TriggeringTypeOK, NEW p \in HookPlan, plan[p].starts = 0
  PROVE  /\ Started(p) \in [HookPlan -> PlanRow]
         /\ \A q \in HookPlan \ {p} : Started(p)[q] = plan[q]
         /\ Started(p)[p].state = plan[p].state /\ Started(p)[p].starts = 1
         /\ Started(p)[p].rows = plan[p].rows /\ Started(p)[p].wanted = plan[p].wanted
<1>1. plan \in [HookPlan -> PlanRow] /\ plan[p] \in PlanRow
  BY DEF TriggeringTypeOK
<1>2. DEFINE end == IF plan[p].state = "failed" THEN "error" ELSE "running"
             row == [plan[p] EXCEPT !.starts = @ + 1, !.end = end]
<1>3. /\ row \in PlanRow /\ row.state = plan[p].state /\ row.starts = 1
      /\ row.rows = plan[p].rows /\ row.wanted = plan[p].wanted
  <2>1. end \in {"running", "error"}
    OBVIOUS
  <2> HIDE DEF end
  <2>2. DEFINE one == [plan[p] EXCEPT !.starts = @ + 1]
  <2>3. /\ one \in PlanRow /\ one.state = plan[p].state /\ one.starts = 1
        /\ one.rows = plan[p].rows /\ one.wanted = plan[p].wanted
    BY <1>1 DEF PlanRow
  <2>4. row = [one EXCEPT !.end = end]
    BY <1>1 DEF PlanRow
  <2> HIDE DEF one, row
  <2> QED
    BY <2>1, <2>3, <2>4 DEF PlanRow
<1>4. Started(p) = [plan EXCEPT ![p] = row]
  BY <1>1 DEF Started
<1> HIDE DEF row
<1> QED
  BY <1>1, <1>3, <1>4

LEMMA TriggeringInitially == TriggeringInit => TriggeringInv
<1> SUFFICES ASSUME TriggeringInit PROVE TriggeringInv
  OBVIOUS
<1>0. stack = <<>> /\ Len(stack) = 0 /\ stack \in Seq(Call)
  BY EmptySeq DEF TriggeringInit
<1>1. plan \in [HookPlan -> PlanRow]
  BY UnusedRow DEF TriggeringInit
<1>2. /\ outer \in BOOLEAN /\ disabled \in BOOLEAN /\ wrapped \in BOOLEAN
      /\ hook \in BOOLEAN /\ sync \in BOOLEAN /\ plain \in BOOLEAN
  BY DEF TriggeringInit
<1>3. executionPlan \in 0..MaxPlan /\ calls \in 0..MaxCall /\ Len(stack) <= MaxNesting
  BY <1>0, BoundsAssumption DEF TriggeringInit
<1>4. TriggeringTypeOK
  BY <1>0, <1>1, <1>2, <1>3 DEF TriggeringTypeOK
<1>5. PlansInv /\ WaitInv
  BY <1>0 DEF TriggeringInit, PlansInv, WaitInv, At, noCall, Unused
<1>6. PlainInv
  BY <1>0 DEF TriggeringInit, PlainInv, Finished, At, noCall, Unused
<1> QED
  BY <1>4, <1>5, <1>6 DEF TriggeringInv

(* Plans stay in turn when no plan is made, and when the next one is.      *)
LEMMA PlansStay ==
  ASSUME TriggeringTypeOK, PlansInv,
         \A p \in HookPlan : /\ plan'[p].state = plan[p].state
                             /\ plan[p] = Unused => plan'[p] = plan[p],
         \/ executionPlan' = 0
         \/ /\ executionPlan' = executionPlan
            /\ executionPlan # 0 =>
                 plan'[executionPlan].starts = IF At("waiting")' THEN 1 ELSE 0
  PROVE  PlansInv'
<1>1. executionPlan # 0 => executionPlan \in HookPlan
  BY DEF TriggeringTypeOK, HookPlan
<1>2. \A p \in HookPlan : plan'[p].state = "none" => plan'[p] = Unused
  BY DEF PlansInv
<1>3. \A p, q \in HookPlan : q < p /\ plan'[p].state # "none" => plan'[q].state # "none"
  BY DEF PlansInv
<1>4. executionPlan' # 0 =>
        /\ plan'[executionPlan'].state # "none"
        /\ plan'[executionPlan'].starts = IF At("waiting")' THEN 1 ELSE 0
        /\ \A q \in HookPlan : plan'[q].state # "none" => q <= executionPlan'
  BY <1>1 DEF PlansInv
<1> QED
  BY <1>2, <1>3, <1>4 DEF PlansInv

LEMMA PlansGrow ==
  ASSUME TriggeringTypeOK, PlansInv, NEW p \in HookPlan, FirstUnused(p),
         \A q \in HookPlan \ {p} : /\ plan'[q].state = plan[q].state
                                   /\ plan[q] = Unused => plan'[q] = plan[q],
         plan'[p].state # "none", plan'[p].starts = 0,
         executionPlan' = p, ~At("waiting")'
  PROVE  PlansInv'
<1>1. p \in Nat /\ p >= 1 /\ plan[p].state = "none"
  BY DEF HookPlan, FirstUnused, Unused
<1>2. \A q \in HookPlan : q < p => plan[q].state # "none"
  BY <1>1 DEF HookPlan, FirstUnused, PlansInv
<1>3. \A q \in HookPlan : p < q => plan[q].state = "none"
  BY <1>1 DEF PlansInv
<1>4. \A q \in HookPlan : plan'[q].state = "none" => plan'[q] = Unused
  BY DEF PlansInv
<1>5. \A q \in HookPlan : plan'[q].state # "none" <=> q <= p
  BY <1>1, <1>2, <1>3 DEF HookPlan
<1>6. \A q, r \in HookPlan : r < q /\ plan'[q].state # "none" => plan'[r].state # "none"
  BY <1>1, <1>5 DEF HookPlan
<1> QED
  BY <1>1, <1>4, <1>5, <1>6 DEF PlansInv

(* An exception ends everything that is said of plain calls.               *)
LEMMA RaisedKeeps ==
  ASSUME NEW planned \in [HookPlan -> PlanRow], Raised(planned), PlansInv',
         outer' \in BOOLEAN, disabled' \in BOOLEAN, sync' \in BOOLEAN,
         executionPlan' \in 0..MaxPlan, calls' \in 0..MaxCall
  PROVE  TriggeringInv'
<1>1. stack' \in Seq(Call) /\ Len(stack') = 0 /\ noCall' /\ \A t : ~At(t)'
  BY AllReturn DEF Raised
<1>2. plan' \in [HookPlan -> PlanRow]
  BY RaisedRows
<1>3. hook' = FALSE /\ wrapped' = FALSE /\ plain' = FALSE
  BY DEF Raised, ResetWrap
<1>4. TriggeringTypeOK'
  <2>1. Len(stack') <= MaxNesting
    BY <1>1, BoundsAssumption
  <2>2. hook' \in BOOLEAN /\ wrapped' \in BOOLEAN /\ plain' \in BOOLEAN
    BY <1>3
  <2> QED
    BY <1>1, <1>2, <2>1, <2>2 DEF TriggeringTypeOK
<1>5. WaitInv' /\ PlainInv'
  BY <1>1, <1>3 DEF WaitInv, PlainInv
<1> QED
  BY <1>4, <1>5 DEF TriggeringInv

LEMMA RaisedStays ==
  ASSUME TriggeringTypeOK, PlansInv, Raised(plan),
         executionPlan' = 0 \/ (executionPlan' = executionPlan /\ ~At("waiting"))
  PROVE  PlansInv'
<1>1. \A t : ~At(t)'
  BY AllReturn DEF Raised
<1>2. \A p \in HookPlan :
        /\ plan'[p].state = plan[p].state /\ plan'[p].starts = plan[p].starts
        /\ plan[p] = Unused => plan'[p] = plan[p]
  BY RaisedRows DEF TriggeringTypeOK, Unused
<1>3. executionPlan # 0 => executionPlan \in HookPlan
  BY DEF TriggeringTypeOK, HookPlan
<1> QED
  BY <1>1, <1>2, <1>3, PlansStay DEF PlansInv

(* A call that returns leaves nothing behind, as long as calls are plain.  *)
LEMMA ReturnKeeps ==
  ASSUME TriggeringInv, ~noCall, Return, ResetWrap, PlansInv',
         UNCHANGED <<outer, disabled, calls, plain>>,
         plan' \in [HookPlan -> PlanRow], sync' \in BOOLEAN, executionPlan' \in 0..MaxPlan,
         plain => /\ ~sync' /\ executionPlan' = 0
                  /\ \A p \in HookPlan : Finished(p)'
  PROVE  TriggeringInv'
<1>1. TriggeringTypeOK /\ WaitInv /\ PlainInv
  BY DEF TriggeringInv
<1>2. /\ stack' \in Seq(Call) /\ Len(stack') = Len(stack) - 1
      /\ \A i \in 1..(Len(stack) - 1) : stack'[i] = stack[i]
      /\ Len(stack) = 1 => noCall'
      /\ ~At("waiting")'
  BY <1>1, CallReturns
<1>3. Len(stack) \in Nat \ {0}
  BY <1>1, EmptySeq DEF noCall, TriggeringTypeOK
<1>4. hook' = FALSE /\ wrapped' = FALSE
  BY DEF ResetWrap
<1>5. TriggeringTypeOK'
  <2>1. Len(stack') <= MaxNesting
    BY <1>1, <1>2, <1>3, BoundsAssumption DEF TriggeringTypeOK
  <2>2. hook' \in BOOLEAN /\ wrapped' \in BOOLEAN
    BY <1>4
  <2> QED
    BY <1>1, <1>2, <2>1, <2>2 DEF TriggeringTypeOK
<1>6. WaitInv'
  BY <1>1, <1>2, <1>3 DEF WaitInv
<1>7. PlainInv'
  <2> SUFFICES ASSUME plain' PROVE PlainInv'
    BY DEF PlainInv
  <2>1. noCall' /\ Len(stack') <= 1
    BY <1>1, <1>2, <1>3 DEF PlainInv
  <2> QED
    BY <1>4, <2>1 DEF PlainInv, At
<1> QED
  BY <1>5, <1>6, <1>7 DEF TriggeringInv

-----------------------------------------------------------------------------
(* The actions, one by one.                                                *)
LEMMA EnterKeeps ==
  ASSUME TriggeringInv, NEW h \in BOOLEAN, NEW s \in BOOLEAN, Enter(h, s)
  PROVE  TriggeringInv'
<1>1. TriggeringTypeOK /\ PlansInv /\ WaitInv /\ PlainInv
  BY DEF TriggeringInv
<1>2. /\ stack \in Seq(Call) /\ Len(stack) \in Nat /\ plan \in [HookPlan -> PlanRow]
      /\ calls' \in 0..MaxCall /\ Len(stack) + 1 <= MaxNesting
      /\ sync \in BOOLEAN /\ hook \in BOOLEAN /\ wrapped \in BOOLEAN
      /\ plain \in BOOLEAN /\ disabled \in BOOLEAN /\ outer \in BOOLEAN
  BY <1>1, LenProperties, BoundsAssumption DEF TriggeringTypeOK, Enter
<1>3. CASE Raised(plan) /\ sync' = (sync \/ (h /\ s)) /\ Refused(h)
  <2>1. /\ outer' \in BOOLEAN /\ disabled' \in BOOLEAN /\ sync' \in BOOLEAN
        /\ executionPlan' = executionPlan /\ ~At("waiting")
    BY <1>2, <1>3 DEF Enter, CodeRuns
  <2>2. PlansInv'
    BY <1>1, <1>3, <2>1, RaisedStays
  <2> QED
    BY <1>1, <1>2, <1>3, <2>1, <2>2, RaisedKeeps DEF TriggeringTypeOK
<1>4. ASSUME NEW f \in Call, f.step = "before", stack' = Append(stack, f),
             plan' = plan, plain' = (plain /\ noCall),
             hook' \in BOOLEAN, sync' \in BOOLEAN, wrapped' \in BOOLEAN,
             plain /\ noCall => (hook' => ~outer) /\ (~f.wraps => ~hook' /\ ~sync')
      PROVE  TriggeringInv'
  <2>1. /\ stack' \in Seq(Call) /\ Len(stack') = Len(stack) + 1 /\ ~noCall'
        /\ \A i \in 1..Len(stack) : stack'[i] = stack[i]
        /\ TopCall' = f /\ \A t : At(t)' <=> t = "before"
    BY <1>1, <1>4, CallEnters
  <2>2. ~At("waiting") /\ executionPlan' = executionPlan /\ outer' = outer
    BY DEF Enter, CodeRuns
  <2>3. TriggeringTypeOK'
    BY <1>1, <1>2, <1>4, <2>1 DEF Enter, TriggeringTypeOK
  <2>4. PlansInv'
    BY <1>1, <1>4, <2>1, <2>2, PlansStay DEF PlansInv
  <2>5. WaitInv'
    <3>1. \A i \in 1..Len(stack) : stack[i].step # "waiting"
      BY <1>1, <1>2, <2>2, EmptySeq DEF WaitInv, At, noCall, TopCall
    <3> QED
      BY <1>2, <2>1, <3>1 DEF WaitInv
  <2>6. PlainInv'
    <3> SUFFICES ASSUME plain' PROVE PlainInv'
      BY DEF PlainInv
    <3>1. plain /\ noCall
      BY <1>4
    <3>2. Len(stack) = 0 /\ executionPlan = 0 /\ ~hook /\ ~sync
      BY <1>1, <3>1, EmptySeq DEF PlainInv, noCall
    <3>3. \A p \in HookPlan \ {executionPlan} : Finished(p)'
      BY <1>1, <1>4, <3>1, <3>2 DEF PlainInv, Finished
    <3> QED
      BY <1>4, <2>1, <2>2, <3>1, <3>2, <3>3 DEF PlainInv
  <2> QED
    BY <2>3, <2>4, <2>5, <2>6 DEF TriggeringInv
<1>5. CASE disabled \/ wrapped
  <2>1. [wraps |-> FALSE, step |-> "before"] \in Call
    BY DEF Call
  <2>2. plain /\ noCall => ~hook /\ ~sync
    BY <1>1 DEF PlainInv
  <2> QED
    BY <1>2, <1>4, <1>5, <2>1, <2>2 DEF Enter
<1>6. CASE ~(disabled \/ wrapped) /\ ~Refused(h)
  <2>1. [wraps |-> TRUE, step |-> "before"] \in Call
    BY DEF Call
  <2>2. hook' = h /\ wrapped' = TRUE /\ sync' = (sync \/ (h /\ s))
    BY <1>6 DEF Enter
  <2>3. h => ~outer
    BY <1>6 DEF Refused, OpenBelow
  <2> QED
    BY <1>2, <1>4, <1>6, <2>1, <2>2, <2>3 DEF Enter
<1> QED
  BY <1>3, <1>5, <1>6 DEF Enter

LEMMA PlanHookKeeps ==
  ASSUME TriggeringInv, PlanHook
  PROVE  TriggeringInv'
<1>1. TriggeringTypeOK /\ PlansInv /\ WaitInv /\ PlainInv /\ At("before") /\ hook
  BY DEF TriggeringInv, PlanHook
<1>2. PICK p \in HookPlan : FirstUnused(p) /\ executionPlan' = p /\ plan' = NewPlan(p, "planned")
  BY DEF PlanHook
<1>3. /\ stack' \in Seq(Call) /\ Len(stack') = Len(stack) /\ ~noCall'
      /\ \A i \in 1..(Len(stack) - 1) : stack'[i] = stack[i]
      /\ \A t : At(t)' <=> t = "after"
      /\ TopCall'.wraps = TopCall.wraps
  BY <1>1, CallGoesOn DEF PlanHook, At
<1>4. /\ plan' \in [HookPlan -> PlanRow]
      /\ \A q \in HookPlan \ {p} : plan'[q] = plan[q]
      /\ plan'[p].state = "planned" /\ plan'[p].rows = "open"
      /\ plan'[p].starts = 0 /\ plan'[p].wanted = sync
  BY <1>1, <1>2, NewPlanRows
<1>5. UNCHANGED <<outer, disabled, wrapped, hook, sync, calls, plain>>
  BY DEF PlanHook
<1>6. TriggeringTypeOK'
  BY <1>1, <1>2, <1>3, <1>4, <1>5 DEF TriggeringTypeOK, HookPlan
<1>7. PlansInv'
  BY <1>1, <1>2, <1>3, <1>4, PlansGrow
<1>8. WaitInv'
  BY <1>1, <1>3 DEF WaitInv
<1>9. PlainInv'
  <2> SUFFICES ASSUME plain' PROVE PlainInv'
    BY DEF PlainInv
  <2>1. /\ executionPlan = 0 /\ Len(stack) <= 1 /\ ~outer /\ TopCall.wraps
        /\ \A q \in HookPlan : Finished(q)
    BY <1>1, <1>5 DEF PlainInv, HookPlan, At
  <2>2. \A q \in HookPlan \ {p} : Finished(q)'
    BY <1>4, <2>1 DEF Finished
  <2> QED
    BY <1>1, <1>2, <1>3, <1>4, <1>5, <2>1, <2>2 DEF PlainInv
<1> QED
  BY <1>6, <1>7, <1>8, <1>9 DEF TriggeringInv

LEMMA PlanHookFailsKeeps ==
  ASSUME TriggeringInv, PlanHookFails
  PROVE  TriggeringInv'
<1>1. TriggeringTypeOK /\ PlansInv
  BY DEF TriggeringInv
<1>2. PICK p \in HookPlan :
        FirstUnused(p) /\ executionPlan' = p /\ Raised(NewPlan(p, "failed"))
  BY DEF PlanHookFails
<1> DEFINE planned == NewPlan(p, "failed")
<1>3. /\ planned \in [HookPlan -> PlanRow]
      /\ \A q \in HookPlan \ {p} : planned[q] = plan[q]
      /\ planned[p].state = "failed" /\ planned[p].starts = 0
  BY <1>1, NewPlanRows
<1>4. Raised(planned)
  BY <1>2
<1> HIDE DEF planned
<1>5. \A q \in HookPlan :
        /\ plan'[q].state = planned[q].state /\ plan'[q].starts = planned[q].starts
        /\ planned[q].rows # "open" => plan'[q] = planned[q]
  BY <1>3, <1>4, RaisedRows
<1>6. \A t : ~At(t)'
  BY <1>4, AllReturn DEF Raised
<1>7. PlansInv'
  <2>1. \A q \in HookPlan \ {p} : /\ plan'[q].state = plan[q].state
                                  /\ plan[q] = Unused => plan'[q] = plan[q]
    BY <1>3, <1>5 DEF Unused
  <2>2. plan'[p].state # "none" /\ plan'[p].starts = 0
    BY <1>3, <1>5
  <2> QED
    BY <1>1, <1>2, <1>6, <2>1, <2>2, PlansGrow
<1>8. /\ UNCHANGED <<outer, disabled, sync, calls>> /\ executionPlan' \in 0..MaxPlan
  BY <1>2 DEF PlanHookFails, HookPlan
<1> QED
  BY <1>1, <1>3, <1>4, <1>7, <1>8, RaisedKeeps DEF TriggeringTypeOK

LEMMA WriteOnlyKeeps ==
  ASSUME TriggeringInv, WriteOnly
  PROVE  TriggeringInv'
<1>1. TriggeringTypeOK /\ PlansInv /\ WaitInv /\ PlainInv /\ At("before") /\ ~hook
  BY DEF TriggeringInv, WriteOnly
<1>2. /\ stack' \in Seq(Call) /\ Len(stack') = Len(stack) /\ ~noCall'
      /\ \A i \in 1..(Len(stack) - 1) : stack'[i] = stack[i]
      /\ \A t : At(t)' <=> t = "after"
      /\ TopCall'.wraps = TopCall.wraps
  BY <1>1, CallGoesOn DEF WriteOnly, At
<1>3. UNCHANGED <<outer, disabled, wrapped, hook, sync, executionPlan, plan, calls, plain>>
  BY DEF WriteOnly, flags
<1>4. TriggeringTypeOK'
  BY <1>1, <1>2, <1>3 DEF TriggeringTypeOK
<1>5. PlansInv'
  <2>1. executionPlan # 0 => plan[executionPlan].starts = 0
    BY <1>1 DEF PlansInv, At
  <2> QED
    BY <1>1, <1>2, <1>3, <2>1, PlansStay
<1>6. WaitInv'
  BY <1>1, <1>2 DEF WaitInv
<1>7. PlainInv'
  BY <1>1, <1>2, <1>3 DEF PlainInv, Finished, At
<1> QED
  BY <1>4, <1>5, <1>6, <1>7 DEF TriggeringInv

LEMMA CommitKeeps ==
  ASSUME TriggeringInv, Commit
  PROVE  TriggeringInv'
<1>1. /\ TriggeringTypeOK /\ PlansInv /\ WaitInv /\ PlainInv /\ At("after")
      /\ plan' = Settled("committed")
  BY DEF TriggeringInv, Commit
<1>2. /\ stack' \in Seq(Call) /\ Len(stack') = Len(stack) /\ ~noCall'
      /\ \A i \in 1..(Len(stack) - 1) : stack'[i] = stack[i]
      /\ \A t : At(t)' <=> t = "committed"
      /\ TopCall'.wraps = TopCall.wraps
  BY <1>1, CallGoesOn DEF Commit, At
<1>3. UNCHANGED <<outer, disabled, wrapped, hook, sync, executionPlan, calls, plain>>
  BY DEF Commit, flags
<1>4. /\ plan' \in [HookPlan -> PlanRow]
      /\ \A p \in HookPlan :
           /\ plan'[p].rows = IF plan[p].rows = "open" THEN "committed" ELSE plan[p].rows
           /\ plan'[p].state = plan[p].state /\ plan'[p].wanted = plan[p].wanted
           /\ plan'[p].starts = plan[p].starts
           /\ plan[p].rows # "open" => plan'[p] = plan[p]
  BY <1>1, SettledRows
<1>5. executionPlan # 0 => executionPlan \in HookPlan
  BY <1>1 DEF TriggeringTypeOK, HookPlan
<1>6. TriggeringTypeOK'
  BY <1>1, <1>2, <1>3, <1>4 DEF TriggeringTypeOK
<1>7. PlansInv'
  <2>1. executionPlan # 0 => plan'[executionPlan].starts = 0
    BY <1>1, <1>4, <1>5 DEF PlansInv, At
  <2>2. \A p \in HookPlan : plan[p] = Unused => plan'[p] = plan[p]
    BY <1>4 DEF Unused
  <2> QED
    BY <1>1, <1>2, <1>3, <1>4, <2>1, <2>2, PlansStay
<1>8. WaitInv'
  BY <1>1, <1>2 DEF WaitInv
<1>9. PlainInv'
  <2> SUFFICES ASSUME plain' PROVE PlainInv'
    BY DEF PlainInv
  <2>1. /\ Len(stack) <= 1 /\ (hook => ~outer) /\ (~TopCall.wraps => ~hook /\ ~sync)
        /\ \A p \in HookPlan \ {executionPlan} : Finished(p)
        /\ executionPlan # 0 =>
             hook /\ plan[executionPlan].rows = "open" /\ plan[executionPlan].wanted = sync
    BY <1>1, <1>3 DEF PlainInv, At
  <2>2. \A p \in HookPlan \ {executionPlan} : Finished(p)'
    BY <1>4, <2>1 DEF Finished
  <2>3. executionPlan # 0 =>
          plan'[executionPlan].rows = "committed" /\ plan'[executionPlan].wanted = sync
    BY <1>4, <1>5, <2>1
  <2> QED
    BY <1>2, <1>3, <2>1, <2>2, <2>3 DEF PlainInv
<1> QED
  BY <1>6, <1>7, <1>8, <1>9 DEF TriggeringInv

LEMMA CallbackRaisesKeeps ==
  ASSUME TriggeringInv, CallbackRaises
  PROVE  TriggeringInv'
<1>1. TriggeringTypeOK /\ PlansInv /\ Raised(plan) /\ ~At("waiting")
  BY DEF TriggeringInv, CallbackRaises, CodeRuns
<1>2. UNCHANGED <<outer, disabled, sync, executionPlan, calls>>
  BY DEF CallbackRaises
<1>3. PlansInv'
  BY <1>1, <1>2, RaisedStays
<1> QED
  BY <1>1, <1>2, <1>3, RaisedKeeps DEF TriggeringTypeOK

LEMMA NotSavedKeeps ==
  ASSUME TriggeringInv, NotSaved
  PROVE  TriggeringInv'
<1>1. /\ TriggeringTypeOK /\ PlansInv /\ WaitInv /\ PlainInv /\ At("before") /\ ~noCall
      /\ Return /\ ResetWrap /\ sync' = (sync /\ ~TopCall.wraps)
      /\ plan' = IF Joined THEN plan ELSE Settled("rolledback")
      /\ UNCHANGED <<outer, disabled, executionPlan, calls, plain>>
  BY DEF TriggeringInv, NotSaved, At
<1>2. /\ plan' \in [HookPlan -> PlanRow]
      /\ \A p \in HookPlan :
           /\ plan'[p].state = plan[p].state /\ plan'[p].starts = plan[p].starts
           /\ plan[p].rows # "open" => plan'[p] = plan[p]
  BY <1>1, SettledRows DEF TriggeringTypeOK
<1>3. PlansInv'
  <2>1. \A p \in HookPlan : plan[p] = Unused => plan'[p] = plan[p]
    BY <1>2 DEF Unused
  <2>2. executionPlan # 0 => plan'[executionPlan].starts = 0 /\ ~At("waiting")'
    BY <1>1, <1>2, CallReturns DEF PlansInv, At, TriggeringTypeOK, HookPlan
  <2> QED
    BY <1>1, <1>2, <2>1, <2>2, PlansStay
<1>4. plain => /\ ~sync' /\ executionPlan' = 0
               /\ \A p \in HookPlan : Finished(p)'
  <2>1. plain => /\ executionPlan = 0 /\ (~TopCall.wraps => ~sync)
                 /\ \A p \in HookPlan : Finished(p)
    BY <1>1 DEF PlainInv, HookPlan
  <2> QED
    BY <1>1, <1>2, <2>1 DEF Finished
<1>5. sync' \in BOOLEAN /\ executionPlan' \in 0..MaxPlan
  BY <1>1 DEF TriggeringTypeOK
<1> QED
  BY <1>1, <1>2, <1>3, <1>4, <1>5, ReturnKeeps

LEMMA ReturnOnlyKeeps ==
  ASSUME TriggeringInv, ReturnOnly
  PROVE  TriggeringInv'
<1>1. /\ TriggeringTypeOK /\ PlansInv /\ WaitInv /\ PlainInv /\ ~noCall /\ ~At("waiting")
      /\ ~TopCall.wraps \/ executionPlan = 0
      /\ Return /\ ResetWrap /\ sync' = (sync /\ ~TopCall.wraps)
      /\ UNCHANGED <<outer, disabled, executionPlan, plan, calls, plain>>
  BY DEF TriggeringInv, ReturnOnly, Saved, At
<1>2. PlansInv'
  <2>1. executionPlan # 0 => plan'[executionPlan].starts = 0 /\ ~At("waiting")'
    BY <1>1, CallReturns DEF PlansInv
  <2> QED
    BY <1>1, <2>1, PlansStay
<1>3. plain => /\ ~sync' /\ executionPlan' = 0
               /\ \A p \in HookPlan : Finished(p)'
  <2>1. plain => /\ executionPlan = 0 /\ (~TopCall.wraps => ~sync)
                 /\ \A p \in HookPlan : Finished(p)
    BY <1>1 DEF PlainInv, HookPlan
  <2> QED
    BY <1>1, <2>1 DEF Finished
<1>4. /\ sync' \in BOOLEAN /\ executionPlan' \in 0..MaxPlan
      /\ plan' \in [HookPlan -> PlanRow]
  BY <1>1 DEF TriggeringTypeOK
<1> QED
  BY <1>1, <1>2, <1>3, <1>4, ReturnKeeps

(* The plan that is started is the newest, and it was not started before.  *)
LEMMA StartsOne ==
  ASSUME TriggeringInv, Saved, executionPlan # 0, plan' = Started(executionPlan)
  PROVE  /\ ~noCall /\ ~At("waiting") /\ executionPlan \in HookPlan
         /\ plan' \in [HookPlan -> PlanRow]
         /\ plan[executionPlan].starts = 0 /\ plan'[executionPlan].starts = 1
         /\ plan'[executionPlan].rows = plan[executionPlan].rows
         /\ plan'[executionPlan].wanted = plan[executionPlan].wanted
         /\ \A q \in HookPlan \ {executionPlan} : plan'[q] = plan[q]
         /\ \A q \in HookPlan : plan'[q].state = plan[q].state
         /\ \A q \in HookPlan : plan[q] = Unused => plan'[q] = plan[q]
         /\ \A q \in HookPlan : plan[q] # Unused => q <= executionPlan
<1>1. /\ ~noCall /\ ~At("waiting") /\ executionPlan \in HookPlan
      /\ TriggeringTypeOK /\ PlansInv
  BY DEF TriggeringInv, Saved, At, TriggeringTypeOK, HookPlan
<1>2. plan[executionPlan].starts = 0 /\ plan[executionPlan] # Unused
  BY <1>1 DEF PlansInv, Unused
<1>3. /\ plan' \in [HookPlan -> PlanRow]
      /\ plan'[executionPlan].starts = 1
      /\ plan'[executionPlan].rows = plan[executionPlan].rows
      /\ plan'[executionPlan].wanted = plan[executionPlan].wanted
      /\ plan'[executionPlan].state = plan[executionPlan].state
      /\ \A q \in HookPlan \ {executionPlan} : plan'[q] = plan[q]
  BY <1>1, <1>2, StartedRows
<1>4. \A q \in HookPlan : plan[q] # Unused => q <= executionPlan
  BY <1>1 DEF PlansInv
<1> QED
  BY <1>1, <1>2, <1>3, <1>4

LEMMA ExecuteKeeps ==
  ASSUME TriggeringInv, Execute
  PROVE  TriggeringInv'
<1>1. /\ TriggeringTypeOK /\ PlansInv /\ PlainInv /\ TopCall.wraps
      /\ ~sync /\ executionPlan # 0 /\ executionPlan' = 0 /\ Return /\ ResetWrap
      /\ UNCHANGED <<outer, disabled, sync, calls, plain>>
  BY DEF TriggeringInv, Execute
<1>2. /\ ~noCall /\ ~At("waiting") /\ executionPlan \in HookPlan
      /\ plan' \in [HookPlan -> PlanRow]
      /\ plan'[executionPlan].starts = 1
      /\ plan'[executionPlan].rows = plan[executionPlan].rows
      /\ plan'[executionPlan].wanted = plan[executionPlan].wanted
      /\ \A q \in HookPlan \ {executionPlan} : plan'[q] = plan[q]
      /\ \A q \in HookPlan : plan'[q].state = plan[q].state
      /\ \A q \in HookPlan : plan[q] = Unused => plan'[q] = plan[q]
  BY StartsOne DEF Execute
<1>3. PlansInv'
  BY <1>1, <1>2, PlansStay
<1>4. plain => /\ ~sync' /\ executionPlan' = 0
               /\ \A p \in HookPlan : Finished(p)'
  <2> SUFFICES ASSUME plain PROVE \A p \in HookPlan : Finished(p)'
    BY <1>1
  <2>1. /\ \A p \in HookPlan \ {executionPlan} : Finished(p)
        /\ hook /\ ~outer /\ Len(stack) <= 1
        /\ plan[executionPlan].rows = IF At("after") THEN "open" ELSE "committed"
        /\ plan[executionPlan].wanted = sync
    BY <1>1 DEF PlainInv
  <2>2. ~Joined
    BY <1>1, <2>1 DEF Joined, OpenBelow, TriggeringTypeOK
  <2>3. At("committed") /\ ~At("after")
    BY <2>2 DEF Execute, Saved, At
  <2>4. \A p \in HookPlan : p = executionPlan => Finished(p)'
    BY <1>1, <1>2, <2>1, <2>3 DEF Finished
  <2>5. \A p \in HookPlan \ {executionPlan} : Finished(p)'
    BY <1>2, <2>1 DEF Finished
  <2> QED
    BY <2>4, <2>5
<1>5. sync' \in BOOLEAN /\ executionPlan' \in 0..MaxPlan
  BY <1>1, BoundsAssumption DEF TriggeringTypeOK
<1> QED
  BY <1>1, <1>2, <1>3, <1>4, <1>5, ReturnKeeps

LEMMA ExecuteAndWaitKeeps ==
  ASSUME TriggeringInv, ExecuteAndWait
  PROVE  TriggeringInv'
<1>1. /\ TriggeringTypeOK /\ PlansInv /\ WaitInv /\ PlainInv /\ TopCall.wraps
      /\ executionPlan # 0 /\ GoTo("waiting")
      /\ UNCHANGED <<outer, disabled, wrapped, hook, sync, executionPlan, calls, plain>>
  BY DEF TriggeringInv, ExecuteAndWait, flags
<1>2. /\ ~noCall /\ ~At("waiting") /\ executionPlan \in HookPlan
      /\ plan' \in [HookPlan -> PlanRow]
      /\ plan'[executionPlan].starts = 1
      /\ plan'[executionPlan].rows = plan[executionPlan].rows
      /\ plan'[executionPlan].wanted = plan[executionPlan].wanted
      /\ \A q \in HookPlan \ {executionPlan} : plan'[q] = plan[q]
      /\ \A q \in HookPlan : plan'[q].state = plan[q].state
      /\ \A q \in HookPlan : plan[q] = Unused => plan'[q] = plan[q]
  BY StartsOne DEF ExecuteAndWait
<1>3. /\ stack' \in Seq(Call) /\ Len(stack') = Len(stack) /\ ~noCall'
      /\ \A i \in 1..(Len(stack) - 1) : stack'[i] = stack[i]
      /\ \A t : At(t)' <=> t = "waiting"
      /\ TopCall'.wraps = TopCall.wraps
  BY <1>1, <1>2, CallGoesOn
<1>4. TriggeringTypeOK'
  BY <1>1, <1>2, <1>3 DEF TriggeringTypeOK
<1>5. PlansInv'
  BY <1>1, <1>2, <1>3, PlansStay
<1>6. WaitInv'
  BY <1>1, <1>3 DEF WaitInv
<1>7. PlainInv'
  <2> SUFFICES ASSUME plain' PROVE PlainInv'
    BY DEF PlainInv
  <2>1. /\ \A p \in HookPlan \ {executionPlan} : Finished(p)
        /\ hook /\ ~outer /\ Len(stack) <= 1
        /\ plan[executionPlan].rows = IF At("after") THEN "open" ELSE "committed"
        /\ plan[executionPlan].wanted = sync
    BY <1>1 DEF PlainInv
  <2>2. ~Joined
    BY <1>1, <2>1 DEF Joined, OpenBelow, TriggeringTypeOK
  <2>3. At("committed") /\ ~At("after")
    BY <2>2 DEF ExecuteAndWait, Saved, At
  <2>4. \A p \in HookPlan \ {executionPlan} : Finished(p)'
    BY <1>2, <2>1 DEF Finished
  <2> QED
    BY <1>1, <1>2, <1>3, <2>1, <2>3, <2>4 DEF PlainInv
<1> QED
  BY <1>4, <1>5, <1>6, <1>7 DEF TriggeringInv

LEMMA WaitOverKeeps ==
  ASSUME TriggeringInv, WaitOver
  PROVE  TriggeringInv'
<1>1. /\ TriggeringTypeOK /\ PlansInv /\ WaitInv /\ PlainInv /\ At("waiting") /\ ~noCall
      /\ plan[executionPlan].end = "success" /\ executionPlan' = 0 /\ sync' = FALSE
      /\ Return /\ ResetWrap /\ UNCHANGED <<outer, disabled, plan, calls, plain>>
  BY DEF TriggeringInv, WaitOver, At
<1>2. executionPlan # 0 /\ executionPlan \in HookPlan /\ plan[executionPlan].starts = 1
  BY <1>1 DEF WaitInv, PlansInv, TriggeringTypeOK, HookPlan
<1>3. PlansInv'
  BY <1>1, PlansStay
<1>4. plain => /\ ~sync' /\ executionPlan' = 0
               /\ \A p \in HookPlan : Finished(p)'
  <2> SUFFICES ASSUME plain PROVE \A p \in HookPlan : Finished(p)'
    BY <1>1
  <2>1. ~At("after")
    BY <1>1 DEF At
  <2>2. /\ \A p \in HookPlan \ {executionPlan} : Finished(p)
        /\ plan[executionPlan].rows = "committed"
    BY <1>1, <1>2, <2>1 DEF PlainInv
  <2> QED
    BY <1>1, <1>2, <2>2 DEF Finished
<1>5. sync' \in BOOLEAN
  BY <1>1
<1>6. executionPlan' \in 0..MaxPlan /\ plan' \in [HookPlan -> PlanRow]
  BY <1>1, BoundsAssumption DEF TriggeringTypeOK
<1> QED
  BY <1>1, <1>3, <1>4, <1>5, <1>6, ReturnKeeps

LEMMA WaitRaisesKeeps ==
  ASSUME TriggeringInv, WaitRaises
  PROVE  TriggeringInv'
<1>1. /\ TriggeringTypeOK /\ PlansInv /\ Raised(plan) /\ executionPlan' = 0
      /\ UNCHANGED <<outer, disabled, sync, calls>>
  BY DEF TriggeringInv, WaitRaises
<1>2. PlansInv'
  BY <1>1, RaisedStays
<1>3. executionPlan' \in 0..MaxPlan
  BY <1>1, BoundsAssumption
<1> QED
  BY <1>1, <1>2, <1>3, RaisedKeeps DEF TriggeringTypeOK

LEMMA EndPlanKeeps ==
  ASSUME TriggeringInv, NEW p \in HookPlan, EndPlan(p)
  PROVE  TriggeringInv'
<1>1. /\ TriggeringTypeOK /\ PlansInv /\ WaitInv /\ PlainInv /\ plan[p].end = "running"
      /\ UNCHANGED <<outer, disabled, wrapped, hook, sync, executionPlan, stack, calls, plain>>
  BY DEF TriggeringInv, EndPlan, flags
<1>2. PICK end \in {"success", "error"} : plan' = [plan EXCEPT ![p].end = end]
  BY DEF EndPlan
<1>3. plan \in [HookPlan -> PlanRow]
  BY <1>1 DEF TriggeringTypeOK
<1>4. /\ plan' \in [HookPlan -> PlanRow]
      /\ \A q \in HookPlan :
           /\ plan'[q].state = plan[q].state /\ plan'[q].rows = plan[q].rows
           /\ plan'[q].starts = plan[q].starts /\ plan'[q].wanted = plan[q].wanted
           /\ q # p => plan'[q] = plan[q]
  <2>1. DEFINE row == [plan[p] EXCEPT !.end = end]
  <2>2. /\ row \in PlanRow /\ row.state = plan[p].state /\ row.rows = plan[p].rows
        /\ row.starts = plan[p].starts /\ row.wanted = plan[p].wanted
    BY <1>2, <1>3 DEF PlanRow
  <2>3. plan' = [plan EXCEPT ![p] = row]
    BY <1>2
  <2> HIDE DEF row
  <2> QED
    BY <1>3, <2>2, <2>3
<1>5. TriggeringTypeOK'
  BY <1>1, <1>4 DEF TriggeringTypeOK
<1>6. /\ noCall' <=> noCall /\ TopCall' = TopCall
      /\ \A t : At(t)' <=> At(t)
  BY <1>1 DEF noCall, TopCall, At
<1>7. PlansInv'
  <2>1. \A q \in HookPlan : plan[q] = Unused => plan'[q] = plan[q]
    BY <1>1, <1>4 DEF Unused
  <2>2. executionPlan # 0 =>
          plan'[executionPlan].starts = IF At("waiting")' THEN 1 ELSE 0
    BY <1>1, <1>4, <1>6 DEF PlansInv, TriggeringTypeOK, HookPlan
  <2> QED
    BY <1>1, <1>4, <2>1, <2>2, PlansStay
<1>8. WaitInv'
  BY <1>1, <1>6 DEF WaitInv
<1>9. PlainInv'
  <2> SUFFICES ASSUME plain' PROVE PlainInv'
    BY DEF PlainInv
  <2>1. \A q \in HookPlan \ {executionPlan} : Finished(q)'
    BY <1>1, <1>4 DEF PlainInv, Finished
  <2>2. executionPlan # 0 =>
          /\ plan'[executionPlan].rows = plan[executionPlan].rows
          /\ plan'[executionPlan].wanted = plan[executionPlan].wanted
    BY <1>1, <1>4 DEF TriggeringTypeOK, HookPlan
  <2> QED
    BY <1>1, <1>6, <2>1, <2>2 DEF PlainInv, TopCall, noCall
<1> QED
  BY <1>5, <1>7, <1>8, <1>9 DEF TriggeringInv

LEMMA OuterBeginsKeeps ==
  ASSUME TriggeringInv, OuterBegins
  PROVE  TriggeringInv'
<1>1. /\ TriggeringTypeOK /\ PlansInv /\ WaitInv /\ PlainInv /\ noCall /\ outer' = TRUE
      /\ UNCHANGED <<disabled, wrapped, hook, sync, executionPlan, stack, plan, calls, plain>>
  BY DEF TriggeringInv, OuterBegins, flags
<1>2. outer' \in BOOLEAN
  BY <1>1
<1>3. TriggeringTypeOK'
  BY <1>1, <1>2 DEF TriggeringTypeOK
<1>4. PlansInv' /\ WaitInv'
  BY <1>1 DEF PlansInv, WaitInv, At, noCall, TopCall
<1>5. PlainInv'
  BY <1>1 DEF PlainInv, Finished, At, noCall, TopCall
<1> QED
  BY <1>3, <1>4, <1>5 DEF TriggeringInv

LEMMA OuterEndsKeeps ==
  ASSUME TriggeringInv, OuterEnds
  PROVE  TriggeringInv'
<1>1. /\ TriggeringTypeOK /\ PlansInv /\ WaitInv /\ PlainInv /\ noCall /\ outer' = FALSE
      /\ UNCHANGED <<disabled, wrapped, hook, sync, executionPlan, stack, calls, plain>>
  BY DEF TriggeringInv, OuterEnds, flags
<1>2. PICK rows \in {"committed", "rolledback"} : plan' = Settled(rows)
  BY DEF OuterEnds
<1>3. /\ plan' \in [HookPlan -> PlanRow]
      /\ \A p \in HookPlan :
           /\ plan'[p].state = plan[p].state /\ plan'[p].starts = plan[p].starts
           /\ plan[p].rows # "open" => plan'[p] = plan[p]
  BY <1>1, <1>2, SettledRows
<1>4. TriggeringTypeOK'
  <2>1. outer' \in BOOLEAN
    BY <1>1
  <2> QED
    BY <1>1, <1>3, <2>1 DEF TriggeringTypeOK
<1>5. ~At("waiting") /\ ~At("waiting")'
  BY <1>1 DEF At, noCall
<1>6. PlansInv'
  <2>1. \A p \in HookPlan : plan[p] = Unused => plan'[p] = plan[p]
    BY <1>3 DEF Unused
  <2>2. executionPlan # 0 => plan'[executionPlan].starts = 0
    BY <1>1, <1>3, <1>5 DEF PlansInv, TriggeringTypeOK, HookPlan
  <2> QED
    BY <1>1, <1>3, <1>5, <2>1, <2>2, PlansStay
<1>7. WaitInv'
  BY <1>1, <1>5 DEF WaitInv
<1>8. PlainInv'
  <2> SUFFICES ASSUME plain' PROVE PlainInv'
    BY DEF PlainInv
  <2>1. /\ executionPlan = 0 /\ ~hook /\ ~sync /\ Len(stack) <= 1
        /\ \A p \in HookPlan : Finished(p)
    BY <1>1 DEF PlainInv, HookPlan
  <2>2. \A p \in HookPlan : Finished(p)'
    BY <1>3, <2>1 DEF Finished
  <2>3. noCall' /\ \A t : ~At(t)'
    BY <1>1 DEF noCall, At
  <2> QED
    BY <1>1, <2>1, <2>2, <2>3 DEF PlainInv
<1> QED
  BY <1>4, <1>6, <1>7, <1>8 DEF TriggeringInv

(* Also for stuttering steps.                                              *)
LEMMA NothingElse ==
  ASSUME TriggeringInv, disabled' \in BOOLEAN,
         UNCHANGED <<outer, wrapped, hook, sync, executionPlan, stack, plan, calls, plain>>
  PROVE  TriggeringInv'
<1>1. TriggeringTypeOK'
  BY DEF TriggeringInv, TriggeringTypeOK
<1>2. PlansInv' /\ WaitInv'
  BY DEF TriggeringInv, PlansInv, WaitInv, At, noCall, TopCall
<1>3. PlainInv'
  BY DEF TriggeringInv, PlainInv, Finished, At, noCall, TopCall
<1> QED
  BY <1>1, <1>2, <1>3 DEF TriggeringInv

LEMMA TriggeringStep == TriggeringInv /\ [TriggeringNext]_triggeringVars => TriggeringInv'
<1> SUFFICES ASSUME TriggeringInv, [TriggeringNext]_triggeringVars PROVE TriggeringInv'
  OBVIOUS
<1>1. ASSUME NEW h \in BOOLEAN, NEW s \in BOOLEAN, Enter(h, s) PROVE TriggeringInv'
  BY <1>1, EnterKeeps
<1>2. ASSUME NEW p \in HookPlan, EndPlan(p) PROVE TriggeringInv'
  BY <1>2, EndPlanKeeps
<1>3. CASE WrapStep
  BY <1>3, PlanHookKeeps, PlanHookFailsKeeps, WriteOnlyKeeps, CommitKeeps,
     CallbackRaisesKeeps, NotSavedKeeps, ReturnOnlyKeeps, ExecuteKeeps,
     ExecuteAndWaitKeeps, WaitOverKeeps, WaitRaisesKeeps DEF WrapStep
<1>4. CASE ToggleHooks
  <2>1. disabled' \in BOOLEAN
    BY <1>4 DEF ToggleHooks
  <2> QED
    BY <1>4, <2>1, NothingElse DEF ToggleHooks
<1>5. CASE UNCHANGED triggeringVars
  BY <1>5, NothingElse DEF triggeringVars, flags, TriggeringInv, TriggeringTypeOK
<1> QED
  BY <1>1, <1>2, <1>3, <1>4, <1>5, OuterBeginsKeeps, OuterEndsKeeps DEF TriggeringNext

(* No other action starts a plan.                                          *)
LEMMA OnlyExecuteStarts ==
  ASSUME TriggeringInv, [TriggeringNext]_triggeringVars, ~Execute, ~ExecuteAndWait
  PROVE  \A p \in HookPlan : plan'[p].starts = plan[p].starts
<1>1. TriggeringTypeOK /\ plan \in [HookPlan -> PlanRow]
  BY DEF TriggeringInv, TriggeringTypeOK
<1>2. CASE plan' = plan
  BY <1>2
<1>3. ASSUME NEW rows \in {"committed", "rolledback"}, plan' = Settled(rows)
      PROVE  \A p \in HookPlan : plan'[p].starts = plan[p].starts
  BY <1>1, <1>3, SettledRows
<1>4. CASE Raised(plan)
  BY <1>1, <1>4, RaisedRows
<1>5. CASE PlanHook \/ PlanHookFails
  <2>1. PICK p \in HookPlan, state \in {"planned", "failed"} :
          FirstUnused(p) /\ (plan' = NewPlan(p, state) \/ Raised(NewPlan(p, state)))
    BY <1>5 DEF PlanHook, PlanHookFails
  <2> DEFINE planned == NewPlan(p, state)
  <2>2. planned \in [HookPlan -> PlanRow] /\ (plan' = planned \/ Raised(planned))
    BY <1>1, <2>1, NewPlanRows
  <2>3. \A q \in HookPlan : planned[q].starts = plan[q].starts
    BY <1>1, <2>1, NewPlanRows DEF FirstUnused, Unused
  <2> HIDE DEF planned
  <2>4. \A q \in HookPlan : plan'[q].starts = planned[q].starts
    BY <2>2, RaisedRows
  <2> QED
    BY <2>3, <2>4
<1>6. ASSUME NEW p \in HookPlan, EndPlan(p)
      PROVE  \A q \in HookPlan : plan'[q].starts = plan[q].starts
  BY <1>1, <1>6 DEF EndPlan, PlanRow
<1>7. CASE \E h, s \in BOOLEAN : Enter(h, s)
  BY <1>2, <1>4, <1>7 DEF Enter
<1>8. CASE WrapStep
  BY <1>2, <1>3, <1>4, <1>5, <1>8
     DEF WrapStep, WriteOnly, Commit, CallbackRaises, NotSaved, ReturnOnly, WaitOver, WaitRaises
<1>9. CASE OuterBegins \/ OuterEnds \/ ToggleHooks \/ UNCHANGED triggeringVars
  BY <1>2, <1>3, <1>9 DEF OuterBegins, OuterEnds, ToggleHooks, triggeringVars
<1> QED
  BY <1>6, <1>7, <1>8, <1>9 DEF TriggeringNext

(* The inductive invariant, which the theorems rest on.                    *)
THEOREM TriggeringKept == TriggeringSpec => []TriggeringInv
<1> QED
  BY TriggeringInitially, TriggeringStep, PTL DEF TriggeringSpec

THEOREM TriggeringTypesKept == TriggeringSpec => []TriggeringTypeOK
<1>1. TriggeringInv => TriggeringTypeOK
  BY DEF TriggeringInv
<1> QED
  BY <1>1, TriggeringKept, PTL

(* A plain call has its plan executed, once and after the commit.          *)
THEOREM PlainCalls == TriggeringSpec => []PlainCallsExecute
<1>1. TriggeringInv => PlainCallsExecute
  <2> SUFFICES ASSUME TriggeringInv, plain, NEW p \in HookPlan
               PROVE  /\ plan[p].starts > 0 => plan[p].rows = "committed"
                      /\ plan[p].rows = "committed" /\ noCall => plan[p].starts = 1
    BY DEF PlainCallsExecute
  <2>1. CASE p # executionPlan
    BY <2>1 DEF TriggeringInv, PlainInv, Finished
  <2>2. CASE p = executionPlan
    <3>1. p # 0
      BY DEF HookPlan
    <3>2. ~noCall /\ plan[p].rows = IF At("after") THEN "open" ELSE "committed"
      BY <2>2, <3>1 DEF TriggeringInv, PlainInv
    <3>3. At("after") => plan[p].starts = 0
      BY <2>2, <3>1 DEF TriggeringInv, PlansInv, At
    <3> QED
      BY <3>2, <3>3
  <2> QED
    BY <2>1, <2>2
<1> QED
  BY <1>1, TriggeringKept, PTL

(* And a synchronous one has succeeded.                                    *)
THEOREM PlainCallsAnswer == TriggeringSpec => []SyncAnswered
<1>1. TriggeringInv => SyncAnswered
  BY DEF TriggeringInv, PlainInv, Finished, SyncAnswered, HookPlan
<1> QED
  BY <1>1, TriggeringKept, PTL

(* With exceptions and nested saves as well.                               *)
THEOREM NewestStarts == TriggeringSpec => StartsNewest
<1>1. ASSUME TriggeringInv, [TriggeringNext]_triggeringVars,
             NEW p \in HookPlan, NEW q \in HookPlan,
             plan'[p].starts > plan[p].starts, plan[q] # Unused
      PROVE  q <= p /\ plan[p].starts = 0
  <2>1. CASE Execute \/ ExecuteAndWait
    <3>1. /\ \A r \in HookPlan \ {executionPlan} : plan'[r] = plan[r]
          /\ \A r \in HookPlan : plan[r] # Unused => r <= executionPlan
      BY <1>1, <2>1, StartsOne DEF Execute, ExecuteAndWait
    <3>2. plan[p].starts \in Nat
      BY <1>1 DEF TriggeringInv, TriggeringTypeOK, PlanRow
    <3>3. ~At("waiting")
      BY <2>1 DEF Execute, ExecuteAndWait, Saved, At
    <3>4. p = executionPlan
      BY <1>1, <3>1, <3>2
    <3>5. plan[p].starts = 0
      BY <1>1, <2>1, <3>3, <3>4 DEF TriggeringInv, PlansInv, Execute, ExecuteAndWait
    <3> QED
      BY <1>1, <3>1, <3>4, <3>5
  <2>2. CASE ~Execute /\ ~ExecuteAndWait
    <3>1. plan'[p].starts = plan[p].starts /\ plan[p].starts \in Nat
      BY <1>1, <2>2, OnlyExecuteStarts DEF TriggeringInv, TriggeringTypeOK, PlanRow
    <3> QED
      BY <1>1, <3>1
  <2> QED
    BY <2>1, <2>2
<1>2. TriggeringInv /\ [TriggeringNext]_triggeringVars =>
        [\A p, q \in HookPlan :
           plan'[p].starts > plan[p].starts /\ plan[q] # Unused =>
             q <= p /\ plan[p].starts = 0]_triggeringVars
  BY <1>1
<1> QED
  BY <1>2, TriggeringKept, PTL DEF TriggeringSpec, StartsNewest
=============================================================================
