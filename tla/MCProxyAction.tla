---------------------------- MODULE MCProxyAction ----------------------------
(* Instances of ProxyAction for TLC.                                       *)
EXTENDS ProxyAction

AllRequests == {"cancel", "abort", "halt"}
AllModes == {"single", "batch", "external"}
AllFailures == FailureKinds
=============================================================================
