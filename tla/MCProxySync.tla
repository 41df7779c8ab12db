---------------------------- MODULE MCProxySync ----------------------------
(* Instances of ProxySync for TLC; the configurations give the constants.   *)
EXTENDS ProxySync
=============================================================================
