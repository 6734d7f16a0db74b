----------------------------- MODULE ThreadContext -----------------------------
(***************************************************************************)
(* The middlewares that carry the user, the organization, the location and *)
(* the time zone of whoever triggered a task to the threads that plan, run *)
(* and finalize it and run its hooks: KeepCurrentUser, KeepCurrentTaxono-  *)
(* mies and KeepCurrentTimezone.  The four are variables of a thread; a    *)
(* worker of the pool serves one plan after the other, and planning nests  *)
(* in the steps and hooks of others.                                       *)
(***************************************************************************)
EXTENDS Naturals, Sequences, FiniteSets

CONSTANTS
  Worker,    \* the threads of executors
  Web,       \* the threads of the web server
  Plan,      \* the execution plans
  User,      \* the users
  Taxonomy,  \* the organizations and locations
  Zone,      \* the time zones
  Default,   \* the time zone of a thread without a request
  None,      \* nil
  MaxDepth   \* bound on how deep planning, steps and hooks nest

ASSUME NoneAssumption == None \notin User \cup Taxonomy \cup Zone
ASSUME ZoneAssumption == Default \in Zone
ASSUME ThreadAssumption == Worker \cap Web = {}
ASSUME DepthAssumption == MaxDepth \in Nat \ {0}

VARIABLES
  context,  \* context[th]: User.current, Organization.current, Location.current
  frames,   \* frames[th]: what the thread is in, innermost last
  phase,    \* phase[p]: how far the plan has come
  input,    \* input[p]: the context stored in the input of its action
  owner,    \* owner[p]: the context of whoever triggered it
  users     \* the users that have not been deleted

vars == <<context, frames, phase, input, owner, users>>

Thread == Worker \cup Web
Context == [user : User \cup {None}, organization : Taxonomy \cup {None},
            location : Taxonomy \cup {None}, zone : Zone]
Blank == [user |-> None, organization |-> None, location |-> None, zone |-> Default]
NotStored == [Blank EXCEPT !.zone = None]
Kinds == {"delay", "plan", "run", "finalize", "hook"}

TypeOK ==
  /\ context \in [Thread -> Context]
  /\ \A th \in Thread :
       /\ Len(frames[th]) <= MaxDepth
       /\ \A i \in 1..Len(frames[th]) :
            frames[th][i] \in [plan : Plan, kind : Kinds, old : Context]
  /\ phase \in [Plan -> {"none", "delaying", "scheduled", "planning", "planned", "stopped"}]
  /\ input \in [Plan -> Context \cup {NotStored}] /\ owner \in [Plan -> Context]
  /\ users \subseteq User

Init ==
  /\ context = [th \in Thread |-> Blank]
  /\ frames = [th \in Thread |-> <<>>]
  /\ phase = [p \in Plan |-> "none"]
  /\ input = [p \in Plan |-> NotStored] /\ owner = [p \in Plan |-> Blank]
  /\ users = User

-----------------------------------------------------------------------------
idle(th) == frames[th] = <<>>
Top(th) == frames[th][Len(frames[th])]

(* What present? finds in the input replaces what the thread has.          *)
Or(stored, current) == IF stored = None THEN current ELSE stored

RestoreTaxonomies(c, stored) ==
  [c EXCEPT !.organization = Or(stored.organization, @), !.location = Or(stored.location, @)]

RestoreUser(c, stored) == [c EXCEPT !.user = Or(stored.user, @)]
RestoreZone(c, stored) == [c EXCEPT !.zone = Or(stored.zone, @)]

(* current_taxonomies?: nothing stored is missing in the thread.           *)
CurrentTaxonomies(c, stored) ==
  /\ c.organization # None \/ stored.organization = None
  /\ c.location # None \/ stored.location = None

(* with_current_taxonomies, with_current_user and with_current_timezone,   *)
(* around the planning: a user the thread has is kept, a zone is not.      *)
WithCurrent(c, stored) ==
  LET t == IF CurrentTaxonomies(c, stored) THEN c ELSE RestoreTaxonomies(c, stored)
  IN  RestoreZone(IF c.user # None THEN t ELSE RestoreUser(t, stored), stored)

Restored(c, stored) == RestoreZone(RestoreUser(RestoreTaxonomies(c, stored), stored), stored)

(* User.unscoped.find raises for the stored id of a deleted user: a plan,  *)
(* step or hook that has to restore this user does nothing at all.         *)
Findable(stored) == stored.user = None \/ stored.user \in users

EnterAs(th, p, kind, c) ==
  /\ Len(frames[th]) < MaxDepth
  /\ frames' = [frames EXCEPT ![th] = Append(@, [plan |-> p, kind |-> kind, old |-> context[th]])]
  /\ context' = [context EXCEPT ![th] = c]

-----------------------------------------------------------------------------
(* A request comes to a thread of the web server, which resets what the    *)
(* last one left.                                                          *)
Request(th) ==
  /\ th \in Web /\ idle(th)
  /\ \E c \in Context :
       /\ c.user \in users \cup {None}
       /\ context' = [context EXCEPT ![th] = c]
  /\ UNCHANGED <<frames, phase, input, owner, users>>

(* A task is triggered or delayed by a request, or by planning, a step or  *)
(* a hook of another one.  Its input holds no context yet.                 *)
Trigger(th, p, kind) ==
  /\ phase[p] = "none" /\ kind \in {"delay", "plan"}
  /\ th \in Web \/ ~idle(th)
  /\ EnterAs(th, p, kind, context[th])
  /\ owner' = [owner EXCEPT ![p] = context[th]]
  /\ phase' = [phase EXCEPT ![p] = IF kind = "delay" THEN "delaying" ELSE "planning"]
  /\ UNCHANGED <<input, users>>

(* The time of a delayed task comes: an executor plans it.                 *)
PlanDelayed(th, p) ==
  /\ th \in Worker /\ idle(th)
  /\ phase[p] = "scheduled"
  /\ \/ /\ Findable(input[p])
        /\ EnterAs(th, p, "plan", WithCurrent(context[th], input[p]))
        /\ phase' = [phase EXCEPT ![p] = "planning"]
        /\ UNCHANGED <<input, owner, users>>
     \/ /\ ~Findable(input[p])
        /\ phase' = [phase EXCEPT ![p] = "stopped"]
        /\ UNCHANGED <<context, frames, input, owner, users>>

(* An executor runs or finalizes a step of the plan.                       *)
Step(th, p, kind) ==
  /\ th \in Worker /\ idle(th)
  /\ phase[p] = "planned" /\ kind \in {"run", "finalize"}
  /\ Findable(input[p])
  /\ EnterAs(th, p, kind, Restored(context[th], input[p]))
  /\ UNCHANGED <<phase, input, owner, users>>

(* A hook of the plan: in the thread that plans it, or in an executor.     *)
Hook(th, p) ==
  /\ \/ ~idle(th) /\ Top(th).plan = p /\ Top(th).kind \in {"delay", "plan"}
     \/ th \in Worker /\ idle(th) /\ phase[p] \in {"planned", "stopped"}
  /\ Findable(input[p])
  /\ EnterAs(th, p, "hook", Restored(context[th], input[p]))
  /\ UNCHANGED <<phase, input, owner, users>>

Left(th) == frames' = [frames EXCEPT ![th] = SubSeq(@, 1, Len(@) - 1)]

(* Mutant: the context is stored when the old one is back.                 *)
EndOfPlanning_StoredLate(th) ==
  /\ ~idle(th) /\ Top(th).kind \in {"delay", "plan"}
  /\ Left(th) /\ context' = [context EXCEPT ![th] = Top(th).old]
  /\ input' = [input EXCEPT ![Top(th).plan] = Top(th).old]
  /\ phase' = [phase EXCEPT ![Top(th).plan] =
                 IF Top(th).kind = "delay" THEN "scheduled" ELSE "planned"]
  /\ UNCHANGED <<owner, users>>

(* The planning or delaying ends: what is current is stored, then the old  *)
(* context comes back.                                                     *)
EndOfPlanning(th) ==
  /\ ~idle(th) /\ Top(th).kind \in {"delay", "plan"}
  /\ Left(th) /\ context' = [context EXCEPT ![th] = Top(th).old]
  /\ input' = [input EXCEPT ![Top(th).plan] = context[th]]
  /\ phase' = [phase EXCEPT ![Top(th).plan] =
                 IF Top(th).kind = "delay" THEN "scheduled" ELSE "planned"]
  /\ UNCHANGED <<owner, users>>

(* Mutant: without ensure an exception leaves the context as it is.        *)
Fails_KeepsContext(th) ==
  /\ ~idle(th)
  /\ Left(th) /\ UNCHANGED context
  /\ phase' = [phase EXCEPT ![Top(th).plan] = IF @ = "planned" THEN @ ELSE "stopped"]
  /\ UNCHANGED <<input, owner, users>>

(* An exception: nothing is stored, and the old context comes back.  Dynflow *)
(* keeps it in the plan; an action that failed can be resumed.             *)
Fails(th) ==
  /\ ~idle(th)
  /\ Left(th) /\ context' = [context EXCEPT ![th] = Top(th).old]
  /\ phase' = [phase EXCEPT ![Top(th).plan] =
                 IF Top(th).kind \in {"delay", "plan"} THEN "stopped" ELSE @]
  /\ UNCHANGED <<input, owner, users>>

EndOfStep(th) ==
  /\ ~idle(th) /\ Top(th).kind \in {"run", "finalize", "hook"}
  /\ Left(th) /\ context' = [context EXCEPT ![th] = Top(th).old]
  /\ \E ph \in {phase[Top(th).plan]} \cup
               (IF Top(th).kind = "hook" THEN {} ELSE {"stopped"}) :
       phase' = [phase EXCEPT ![Top(th).plan] = ph]
  /\ UNCHANGED <<input, owner, users>>

(* A user is deleted; the tasks of the user stay, without an owner.        *)
DeleteUser(u) ==
  /\ u \in users
  /\ users' = users \ {u}
  /\ UNCHANGED <<context, frames, phase, input, owner>>

Next ==
  \/ \E u \in User : DeleteUser(u)
  \/ \E th \in Thread :
       \/ Request(th) \/ EndOfPlanning(th) \/ Fails(th) \/ EndOfStep(th)
       \/ \E p \in Plan :
            \/ Trigger(th, p, "plan") \/ Trigger(th, p, "delay")
            \/ PlanDelayed(th, p) \/ Hook(th, p)
            \/ Step(th, p, "run") \/ Step(th, p, "finalize")

Spec == Init /\ [][Next]_vars

-----------------------------------------------------------------------------
(* Properties.                                                             *)

(* A plan keeps to whoever triggered it, whatever the thread did before:   *)
(* its planning, also when it was delayed, and, once it is planned, its    *)
(* steps and hooks see that user, those taxonomies and that zone and,      *)
(* where there were none, nobody else's.                                   *)
WorksAsOwner ==
  \A th \in Thread : ~idle(th) =>
    LET f == Top(th) IN
      f.kind \in {"plan", "run", "finalize"} \/ (f.kind = "hook" /\ phase[f.plan] = "planned") =>
        context[th] = owner[f.plan]

(* A worker that is done, normally or by an exception, has nobody's        *)
(* context left for the next plan.                                         *)
WorkersClean == \A th \in Worker : idle(th) => context[th] = Blank
=============================================================================
