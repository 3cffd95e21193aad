------------------------------- MODULE MCFifo -------------------------------
(* Model checking of Fifo: the constants are given in the cfg files.        *)
EXTENDS Fifo
=============================================================================
