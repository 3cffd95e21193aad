----------------------------- MODULE MCArbiter -----------------------------
(* Model checking of Arbiter: the constants are given in the cfg files.     *)
EXTENDS Arbiter
=============================================================================
