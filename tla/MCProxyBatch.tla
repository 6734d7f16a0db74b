---------------------------- MODULE MCProxyBatch ----------------------------
(* Instances of ProxyBatch for TLC.                                        *)
EXTENDS ProxyBatch

TwoProxies == [t \in Task |-> IF t = 2 THEN 2 ELSE 1]
=============================================================================
