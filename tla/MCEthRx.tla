------------------------------ MODULE MCEthRx ------------------------------
(* Model checking of EthRx: the constants are given in the cfg files.       *)
EXTENDS EthRx
=============================================================================
