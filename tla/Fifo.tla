-------------------------------- MODULE Fifo --------------------------------
(***************************************************************************)
(* The FIFO between two channels, Fifo in lib/parts/src/fifo.rs: a memory, *)
(* two pointers and the bit that tells full from empty, with the registers *)
(* of the source.  One action is one cycle of its clock, with whatever the *)
(* units at the far ends of its two channels do in it.                     *)
(***************************************************************************)
EXTENDS Naturals, Sequences, ChanEnd

CONSTANTS
  D,         \* the depth, 1 << PTRS
  MaxSent    \* bound: the transactions a run may send

ASSUME FifoAssumption == D \in Nat \ {0} /\ MaxSent \in Nat

Slots == 0..(D - 1)

VARIABLES
  mem,         \* the words
  head, tail,  \* where the oldest is, where the next one lands
  full,        \* tells full from empty when the pointers are equal
  inq, outq,   \* the channels at its two ends
  rst,         \* the reset in this cycle
  sent, rcvd   \* counts as of the last edge (see Queue)

vars == <<mem, head, tail, full, inq, outq, rst, sent, rcvd>>

Init ==
  /\ mem = [i \in Slots |-> 0]
  /\ head = 0 /\ tail = 0 /\ full = FALSE
  /\ inq = <<>> /\ outq = <<>>
  /\ rst \in BOOLEAN
  /\ sent = 0 /\ rcvd = 0

(* Wrong: a pointer a bit too wide.                                        *)
AfterWide(p) == p + 1

(* A pointer of PTRS bits, plus one.                                       *)
After(p) == IF p = D - 1 THEN 0 ELSE p + 1

(* Wrong: a full FIFO looks empty.                                         *)
EmptyOrFull == head = tail

empty == head = tail /\ ~full

(* Wrong: a word leaves though the output has no room.                     *)
PopBlind == ~empty

pop == ~empty /\ Room(outq)

push == Offered(inq) /\ ~full

FullNext == IF pop THEN FALSE ELSE full \/ (push /\ After(tail) = head)

(* The edge of a cycle without a reset.                                    *)
Write ==
  /\ mem' = IF push THEN [mem EXCEPT ![tail] = Head(inq)] ELSE mem
  /\ tail' = IF push THEN After(tail) ELSE tail
  /\ head' = IF pop THEN After(head) ELSE head
  /\ full' = FullNext

(* The edge of a cycle under reset: the registers go back to their first   *)
(* values, the channels are emptied, the memory's write is dropped.        *)
Clear ==
  /\ head' = 0 /\ tail' = 0 /\ full' = FALSE
  /\ inq' = <<>> /\ outq' = <<>>
  /\ UNCHANGED mem

(* send: the unit at the input sends; take: the one at the output takes.   *)
Cycle(send, take) ==
  /\ send => Room(inq) /\ sent < MaxSent
  /\ take => Offered(outq)
  /\ IF rst
     THEN Clear
     ELSE /\ Write
          /\ inq' = Edge(inq, push, Item(send, sent + 1))
          /\ outq' = Edge(outq, take, Item(pop, mem[head]))
  /\ sent' = sent + (IF send THEN 1 ELSE 0)
  /\ rcvd' = IF rst THEN sent' ELSE rcvd + (IF take THEN 1 ELSE 0)
  /\ rst' \in BOOLEAN

Next == \E send, take \in BOOLEAN : Cycle(send, take)

Spec == Init /\ [][Next]_vars

(* The clock ticks, so what the unit can do it does, and the unit at the   *)
(* output takes what it is offered in the end.  Neither says that anybody  *)
(* sends, nor that the reset is ever released or asserted.                 *)
Moving == (push \/ pop) /\ Next /\ ~rst'
Taking == (\E send \in BOOLEAN : Cycle(send, TRUE)) /\ ~rst'
FairSpec == Spec /\ WF_vars(Moving) /\ WF_vars(Taking)

-----------------------------------------------------------------------------
TypeOK ==
  /\ mem \in [Slots -> Nat]
  /\ head \in Slots /\ tail \in Slots /\ full \in BOOLEAN
  /\ inq \in Seq(Nat) /\ outq \in Seq(Nat)
  /\ rst \in BOOLEAN
  /\ sent \in Nat /\ rcvd \in Nat

(* How many words the memory holds.                                        *)
Count ==
  IF full THEN D ELSE IF tail >= head THEN tail - head ELSE tail + D - head

(* The slot of the i-th oldest word.                                       *)
Slot(i) == IF head + i < D THEN head + i ELSE head + i - D

(* Whatever is sent is received, if the reset stays away and the unit at   *)
(* the output takes in the end: the bit never locks the FIFO.            *)
Through ==
  <>[]~rst => []<>(rcvd = sent) \/ []<><<rcvd' # rcvd>>_vars

(* The FIFO with its channels is a queue of D + 4.                         *)
Stored == [i \in 1..Count |-> mem[Slot(i - 1)]]

Q == INSTANCE Queue WITH q <- outq \o Stored \o inq, Capacity <- D + 4

FifoIsQueue == Q!Spec
=============================================================================
