------------------------------ MODULE ChanEnd ------------------------------
(***************************************************************************)
(* A channel as a unit at its end sees it, from one edge of its clock to   *)
(* the next: a sequence of at most two transactions.  Module Channel is    *)
(* the same cell within a step, and shows that its two entries are such a  *)
(* sequence.                                                               *)
(***************************************************************************)
LOCAL INSTANCE Naturals
LOCAL INSTANCE Sequences

(* Tx::ready, as the edge left it.                                         *)
Room(c) == Len(c) < 2

(* Rx::peek finds something.                                               *)
Offered(c) == c # <<>>

(* ChanCell::apply: the take, then the push of what came in (a sequence of *)
(* at most one).                                                           *)
Edge(c, took, in) == (IF took THEN Tail(c) ELSE c) \o in

Item(really, n) == IF really THEN <<n>> ELSE <<>>
=============================================================================
