----------------------------- MODULE MCChannel -----------------------------
(* Model checking of Channel with Buffer beside it: the kinds of channel    *)
(* are named here, the other constants are given in the cfg file.           *)
EXTENDS ChannelUnit

Plain == [unreg |-> FALSE, axi |-> FALSE, senderFirst |-> FALSE, shared |-> TRUE]

(* Both ends shared, polled in any order, without and with the bypass; and  *)
(* the putter alone at an #[axi] port, without and with the bypass.         *)
MCMakes ==
  {Plain,
   [Plain EXCEPT !.unreg = TRUE],
   [Plain EXCEPT !.axi = TRUE, !.shared = FALSE],
   [unreg |-> TRUE, axi |-> TRUE, senderFirst |-> TRUE, shared |-> FALSE]}
=============================================================================
