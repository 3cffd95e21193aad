---------------------------- MODULE MCHostBridge ----------------------------
(* Model checking of HostBridge: the constants are given in the cfg files.  *)
EXTENDS HostBridge
=============================================================================
