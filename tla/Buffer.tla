------------------------------- MODULE Buffer -------------------------------
(***************************************************************************)
(* The channel as a unit of registers, Buffer in lib/parts/src/buffer.rs,  *)
(* with the registers of the source.  One action is one cycle: the sides   *)
(* drive tx_valid and rx_ready, read tx_ready and rx_valid as the edge     *)
(* left the registers, and the edge commits the unit's writes, or the      *)
(* reset.                                                                  *)
(***************************************************************************)
EXTENDS Naturals, Sequences

CONSTANT MaxSent   \* bound: the transactions a run may send

VARIABLES
  head, head_full,  \* the older entry, what the receiver is offered
  tail, tail_full,  \* the younger entry
  rst,              \* the reset in this cycle
  sent, rcvd        \* counts as of the last edge (see Queue)

vars == <<head, head_full, tail, tail_full, rst, sent, rcvd>>

Init ==
  /\ head = 0 /\ tail = 0
  /\ head_full = FALSE /\ tail_full = FALSE
  /\ rst \in BOOLEAN
  /\ sent = 0 /\ rcvd = 0

tx_ready == ~tail_full

(* Wrong: the push lands in the head whenever the head is taken.           *)
LandsInHeadOnPop(pop) == pop \/ ~head_full

(* Whether a push lands in the head: it is free once the tail moved up.    *)
LandsInHead(pop) == IF pop THEN ~tail_full ELSE ~head_full

(* Whether the tail still holds what it held.                              *)
TailLeft(pop) == tail_full /\ ~pop

(* The head after the take: the tail, moved up.                            *)
MovedHead(pop) == IF pop THEN tail ELSE head

Write(pop, push) ==
  /\ head' = IF push /\ LandsInHead(pop) THEN sent + 1 ELSE MovedHead(pop)
  /\ head_full' = (push \/ ~LandsInHead(pop))
  /\ tail' = IF push /\ ~LandsInHead(pop) THEN sent + 1 ELSE tail
  /\ tail_full' = (TailLeft(pop) \/ (push /\ ~LandsInHead(pop)))

(* The reset: every register goes back to its first value.                 *)
Clear == head' = 0 /\ tail' = 0 /\ head_full' = FALSE /\ tail_full' = FALSE

Cycle(tx_valid, rx_ready) ==
  LET push == tx_valid /\ tx_ready
      pop  == rx_ready /\ head_full
  IN
    /\ push => sent < MaxSent
    /\ IF rst THEN Clear ELSE Write(pop, push)
    /\ sent' = sent + (IF push THEN 1 ELSE 0)
    /\ rcvd' = IF rst THEN sent' ELSE rcvd + (IF pop THEN 1 ELSE 0)
    /\ rst' \in BOOLEAN

Next == \E tx_valid, rx_ready \in BOOLEAN : Cycle(tx_valid, rx_ready)

Spec == Init /\ [][Next]_vars

-----------------------------------------------------------------------------
TypeOK ==
  /\ head \in Nat /\ tail \in Nat
  /\ head_full \in BOOLEAN /\ tail_full \in BOOLEAN
  /\ tail_full => head_full
  /\ rst \in BOOLEAN
  /\ sent \in Nat /\ rcvd \in Nat

(* What the receiver is offered is the oldest transaction it has not       *)
(* taken, the tail holds the next one, and nothing else is on the way, so  *)
(* whatever the two sides do, no transaction is lost, repeated or          *)
(* reordered (the mux chain of Buffer::run).                               *)
InOrder ==
  /\ sent = rcvd + (IF head_full THEN 1 ELSE 0) + (IF tail_full THEN 1 ELSE 0)
  /\ head_full => head = rcvd + 1
  /\ tail_full => tail = rcvd + 2

(* A take always leaves room, so that a sender and a receiver that both    *)
(* run every cycle are never held off (Buffer's doc).                      *)
TakeMakesRoom == [][rcvd' # rcvd /\ ~rst => tx_ready']_vars

Buffered ==
  IF ~head_full THEN <<>>
  ELSE IF ~tail_full THEN <<head>>
  ELSE <<head, tail>>

(* The registers keep the runtime channel's rules (module Channel): a      *)
(* queue of two.                                                           *)
Q == INSTANCE Queue WITH q <- Buffered, Capacity <- 2

BufferIsQueue == Q!Spec
=============================================================================
