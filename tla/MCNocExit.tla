----------------------------- MODULE MCNocExit -----------------------------
(* Model checking of NocExit, and of both bridges in it: the constants are  *)
(* given in the cfg file.                                                   *)
EXTENDS NocExit
=============================================================================
