---------------------------- MODULE MCExclusive ----------------------------
(* Model checking of Exclusive, and of Arbiter in it: the constants are     *)
(* given in the cfg file.                                                   *)
EXTENDS Exclusive
=============================================================================
