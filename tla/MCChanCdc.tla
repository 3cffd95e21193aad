------------------------------ MODULE MCChanCdc ------------------------------
(* Model checking of ChanCdc: the constants are given in the cfg files.     *)
EXTENDS ChanCdc
=============================================================================
