------------------------------- MODULE Queue -------------------------------
(***************************************************************************)
(* What every buffer of the tree promises the two units it joins: a FIFO   *)
(* of at most Capacity transactions that loses, repeats and reorders none, *)
(* except that a reset empties it.                                         *)
(*                                                                         *)
(* Transactions are numbered 1, 2, 3, ... in the order the sender's sends  *)
(* returned, so "the right one, in order" is a matter of arithmetic: sent  *)
(* is the number of the last one accepted, and rcvd that of the last one   *)
(* the receiver was handed.  No buffer looks at what it carries, so the    *)
(* numbers stand for any payload.                                          *)
(*                                                                         *)
(* Channel (lib/src/comp.rs), Buffer (lib/parts/src/buffer.rs), Fifo       *)
(* (lib/parts/src/fifo.rs) and ChanCdc (lib/parts/src/cdc.rs) implement    *)
(* this module.                                                            *)
(***************************************************************************)
EXTENDS Naturals, Sequences

CONSTANT Capacity   \* the most transactions that may be on the way at once

VARIABLES
  q,      \* what is on the way, oldest first
  rst,    \* whether the reset is asserted
  sent,   \* how many transactions the sender's sends have returned for
  rcvd    \* the number of the last transaction handed over, or reset away

vars == <<q, rst, sent, rcvd>>

Init ==
  /\ q = <<>>
  /\ rst \in BOOLEAN
  /\ sent = 0
  /\ rcvd = 0

(***************************************************************************)
(* One edge: up to one transaction goes in and up to one comes out, and    *)
(* the one that comes out is the oldest, the one that goes in included     *)
(* (an unregistered channel passes it in the step it is offered).          *)
(***************************************************************************)
Arrivals(in) == IF in = 1 THEN <<sent + 1>> ELSE <<>>

Move(in, out) ==
  LET all == q \o Arrivals(in) IN
    /\ ~rst
    /\ out <= Len(all)
    /\ q' = SubSeq(all, out + 1, Len(all))
    /\ Len(q') <= Capacity
    /\ sent' = sent + in
    /\ rcvd' = rcvd + out

(* Under reset the edge empties the buffer; what was on the way is gone.   *)
Flush(in) ==
  /\ rst
  /\ q' = <<>>
  /\ sent' = sent + in
  /\ rcvd' = sent'

Next ==
  /\ rst' \in BOOLEAN
  /\ \/ \E in, out \in 0..1 : Move(in, out)
     \/ \E in \in 0..1 : Flush(in)
     \/ UNCHANGED <<q, sent, rcvd>>

Spec == Init /\ [][Next]_vars

=============================================================================
