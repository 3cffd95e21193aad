------------------------------ MODULE ChanCdc ------------------------------
(***************************************************************************)
(* The channel from one clock to another, ChanCdc in lib/parts/src/cdc.rs, *)
(* with the registers of the source: two processes, one per clock, that    *)
(* share a memory and see each other's Gray pointer through two flops.     *)
(*                                                                         *)
(* One action is one instant at which the writing clock, the reading clock *)
(* or both have an edge, in any order: the periods and phases of the two   *)
(* clocks are anything.  A flop that samples the other side's pointer at   *)
(* the instant it changes catches each bit before or after the change: the *)
(* case the Gray code is for.  In the runtime an instant's reads all       *)
(* precede its writes, so there every bit is caught before it.             *)
(*                                                                         *)
(* The reset is one for the design.  Each side answers it at its own       *)
(* clock's edges, and it is held until both clocks had one: a shorter one  *)
(* leaves the two sides' pointers apart.                                   *)
(***************************************************************************)
EXTENDS Naturals, Sequences, ChanEnd

CONSTANTS
  AW,        \* the width of an address
  MaxSent    \* bound: the transactions a run may send

ASSUME ChanCdcAssumption ==
  AW \in Nat \ {0} /\ MaxSent \in Nat

(* What a power of two is, for the provers, which know of none.            *)
ASSUME PowerAssumption ==
  /\ 2 ^ 0 = 1
  /\ \A i \in 0..AW : 2 ^ i \in Nat \ {0} /\ 2 ^ (i + 1) = 2 * 2 ^ i

D == 2 ^ AW
PW == AW + 1
Bits == 0..(PW - 1)
Pointers == 0..(2 * D - 1)
Clocks == {"w", "r"}

VARIABLES
  mem,
  wbin, wgray, rgray_w1, rgray_w2,   \* on the writing clock
  rbin, rgray, wgray_r1, wgray_r2,   \* on the reading clock
  inq, outq,     \* the channels at the two ends
  rst,           \* the reset
  cleared,       \* the clocks that had an edge in this reset
  sent, rcvd     \* counts as of the last edge (see Queue)

wside == <<wbin, wgray, rgray_w1, rgray_w2, inq>>
rside == <<rbin, rgray, wgray_r1, wgray_r2, outq>>
vars == <<mem, wside, rside, rst, cleared, sent, rcvd>>

Bit(n, i) == (n \div 2 ^ i) % 2 = 1

(* Wrong: the pointers cross in binary.                                    *)
Binary(n) == [i \in Bits |-> Bit(n, i)]

(* n ^ (n >> 1), as its bits.                                              *)
Gray(n) == [i \in Bits |-> Bit(n, i) # Bit(n, i + 1)]

Init ==
  /\ mem = [a \in 0..(D - 1) |-> 0]
  /\ wbin = 0 /\ wgray = Gray(0) /\ rgray_w1 = Gray(0) /\ rgray_w2 = Gray(0)
  /\ rbin = 0 /\ rgray = Gray(0) /\ wgray_r1 = Gray(0) /\ wgray_r2 = Gray(0)
  /\ inq = <<>> /\ outq = <<>>
  /\ rst \in BOOLEAN /\ cleared = {}
  /\ sent = 0 /\ rcvd = 0

(* Wrong: a pointer as wide as an address.                                 *)
Plus1Narrow(p) == (p + 1) % D

Plus1(p) == (p + 1) % (2 * D)

(* One lap apart: equal in every bit but the top two.                      *)
full ==
  /\ \A i \in Bits \ {PW - 1, PW - 2} : wgray[i] = rgray_w2[i]
  /\ wgray[PW - 1] # rgray_w2[PW - 1]
  /\ wgray[PW - 2] # rgray_w2[PW - 2]

empty == rgray = wgray_r2

push == Offered(inq) /\ ~full
pop == ~empty /\ Room(outq)

(* What a flop catches of the other side's pointer.                        *)
Samples(old, new) ==
  {s \in [Bits -> BOOLEAN] : \A i \in Bits : s[i] \in {old[i], new[i]}}

(* Wrong: the synchroniser runs only on a push.                            *)
WriteSyncOnPush ==
  IF push THEN rgray_w1' \in Samples(rgray, rgray') /\ rgray_w2' = rgray_w1
  ELSE UNCHANGED <<rgray_w1, rgray_w2>>

(* The two flops of the writing clock, every cycle.                        *)
WriteSync == rgray_w1' \in Samples(rgray, rgray') /\ rgray_w2' = rgray_w1

ReadSync == wgray_r1' \in Samples(wgray, wgray') /\ wgray_r2' = wgray_r1

(* The writing process at an edge of its clock: send says whether the unit *)
(* at the input sends.                                                     *)
WriteEdge(send) ==
  /\ mem' = IF push THEN [mem EXCEPT ![wbin % D] = Head(inq)] ELSE mem
  /\ wbin' = IF push THEN Plus1(wbin) ELSE wbin
  /\ wgray' = IF push THEN Gray(Plus1(wbin)) ELSE wgray
  /\ inq' = Edge(inq, push, Item(send, sent + 1))

(* The reading process at an edge of its clock: take says whether the unit *)
(* at the output takes.                                                    *)
ReadEdge(take) ==
  /\ rbin' = IF pop THEN Plus1(rbin) ELSE rbin
  /\ rgray' = IF pop THEN Gray(Plus1(rbin)) ELSE rgray
  /\ outq' = Edge(outq, take, Item(pop, mem[rbin % D]))

(* Wrong: the reset leaves the pointer the other side sees.                *)
WriteClearBinary ==
  /\ wbin' = 0 /\ rgray_w1' = Gray(0) /\ rgray_w2' = Gray(0)
  /\ inq' = <<>>
  /\ UNCHANGED <<mem, wgray>>

(* The edge of a side under reset.                                         *)
WriteClear ==
  /\ wbin' = 0 /\ wgray' = Gray(0) /\ rgray_w1' = Gray(0) /\ rgray_w2' = Gray(0)
  /\ inq' = <<>>
  /\ UNCHANGED mem

ReadClear ==
  /\ rbin' = 0 /\ rgray' = Gray(0) /\ wgray_r1' = Gray(0) /\ wgray_r2' = Gray(0)
  /\ outq' = <<>>


(* One instant with edges of these clocks.                                 *)
Instant(edges, send, take) ==
  /\ send => "w" \in edges /\ Room(inq) /\ sent < MaxSent
  /\ take => "r" \in edges /\ Offered(outq)
  /\ IF "w" \notin edges THEN UNCHANGED <<mem, wside>>
     ELSE IF rst THEN WriteClear
     ELSE WriteEdge(send)
  /\ IF "r" \notin edges THEN UNCHANGED rside
     ELSE IF rst THEN ReadClear
     ELSE ReadEdge(take)
  /\ "w" \in edges /\ ~rst => WriteSync
  /\ "r" \in edges /\ ~rst => ReadSync
  /\ sent' = sent + (IF send THEN 1 ELSE 0)
  /\ rcvd' = IF rst THEN sent' ELSE rcvd + (IF take THEN 1 ELSE 0)
  /\ IF rst
     THEN \/ rst' = TRUE /\ cleared' = cleared \cup edges
          \/ rst' = FALSE /\ cleared \cup edges = Clocks /\ cleared' = {}
     ELSE rst' \in BOOLEAN /\ cleared' = {}

Next ==
  \E edges \in (SUBSET Clocks) \ {{}}, send, take \in BOOLEAN :
    Instant(edges, send, take)

Spec == Init /\ [][Next]_vars

(* Both clocks tick, so what a side can do it does, its flops included,    *)
(* and the unit at the output takes what it is offered in the end.         *)
Ticks(c) ==
  (\E edges \in SUBSET Clocks, send, take \in BOOLEAN :
     c \in edges /\ Instant(edges, send, take)) /\ ~rst'
WriteMoves == (push \/ rgray_w2 # rgray_w1 \/ rgray_w1 # rgray) /\ Ticks("w")
ReadMoves == (pop \/ wgray_r2 # wgray_r1 \/ wgray_r1 # wgray) /\ Ticks("r")
Taking ==
  (\E edges \in SUBSET Clocks, send \in BOOLEAN : Instant(edges, send, TRUE))
    /\ ~rst'

FairSpec ==
  Spec /\ WF_vars(WriteMoves) /\ WF_vars(ReadMoves) /\ WF_vars(Taking)

-----------------------------------------------------------------------------
TypeOK ==
  /\ mem \in [0..(D - 1) -> Nat]
  /\ wbin \in Pointers /\ rbin \in Pointers
  /\ {wgray, rgray_w1, rgray_w2, rgray, wgray_r1, wgray_r2}
       \subseteq [Bits -> BOOLEAN]
  /\ wgray = Gray(wbin) /\ rgray = Gray(rbin)
  /\ inq \in Seq(Nat) /\ outq \in Seq(Nat)
  /\ rst \in BOOLEAN /\ cleared \subseteq Clocks
  /\ sent \in Nat /\ rcvd \in Nat

Minus(a, b) == (a + 2 * D - b) % (2 * D)

(* How many words the memory holds.                                        *)
Count == Minus(wbin, rbin)

(* No edge of this reset has come yet: until then the contents stand.      *)
Standing == rst => cleared = {}

(* Each side is wrong only in the direction that refuses work: the writer  *)
(* takes the memory for at least as full as it is, and never for more than *)
(* full; the reader takes it for at most as full, though the pointer each  *)
(* one reads is old and may have been caught mid-change (the doc at the    *)
(* head of cdc.rs).                                                        *)
Pointer(gray) == CHOOSE p \in Pointers : Gray(p) = gray

Conservative ==
  Standing =>
    /\ Minus(wbin, Pointer(rgray_w2)) \in Count..D
    /\ Minus(Pointer(wgray_r2), rbin) <= Count

(* What is sent is received, if the reset stays away and both clocks tick: *)
(* the room a read makes reaches the writer, and a word the reader.        *)
Through ==
  <>[]~rst => []<>(rcvd = sent) \/ []<><<rcvd' # rcvd>>_vars

(* A channel across clocks is a queue of D + 4.                            *)
Stored == [i \in 1..Count |-> mem[(rbin + i - 1) % D]]

Q == INSTANCE Queue WITH
       q <- IF Standing THEN outq \o Stored \o inq ELSE <<>>,
       Capacity <- D + 4

CdcIsQueue == Q!Spec
=============================================================================
