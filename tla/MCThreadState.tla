---------------------------- MODULE MCThreadState ----------------------------
(* Instances of ThreadContext and ActionTriggering for TLC.  A worker and  *)
(* a web thread serve two plans, of a user and of nobody; planning nests   *)
(* in steps and hooks.  A record takes enough calls for one that leaves a  *)
(* plan behind, one that nests two saves, and one that follows.            *)
(*                                                                         *)
(* The two share nothing, so that each is explored with the other at rest  *)
(* in its initial state: their properties read one of the two.             *)
EXTENDS ThreadContext, ActionTriggering

CONSTANTS alice, acme, utc, local, p1, p2, worker, web

VARIABLE explored  \* the one of the two that moves

ThreadStateInit == Init /\ TriggeringInit /\ explored \in {"context", "record"}

ThreadStateNext ==
  /\ UNCHANGED explored
  /\ \/ explored = "context" /\ Next /\ UNCHANGED triggeringVars
     \/ explored = "record" /\ TriggeringNext /\ UNCHANGED vars

ThreadStateSpec ==
  ThreadStateInit /\ [][ThreadStateNext]_<<vars, triggeringVars, explored>>
=============================================================================
