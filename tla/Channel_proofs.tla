--------------------------- MODULE Channel_proofs ---------------------------
(***************************************************************************)
(* Proofs about Channel, for every set of processes at its ends, every     *)
(* bound on what is sent, and every kind of channel.                       *)
(*                                                                         *)
(* InOrder, Delivered and NetlistView are about the wires and the commits  *)
(* a step has collected so far as much as about the buffer, so the         *)
(* inductive invariant adds Collected, what push, pop, through and commits *)
(* say of the calls that returned in this step, and Looked.  Then the same *)
(* of the channel written as a unit of registers (module Buffer), and that *)
(* the two agree.                                                          *)
(***************************************************************************)
EXTENDS ChannelUnit, ModelLemmas, TLAPS

Collected ==
  /\ push = IF sends = 0 THEN NoItem ELSE sent + 1
  /\ sends = 1 => offering /\ tail = NoItem /\ commits
  /\ offering => sends = 1 \/ tail # NoItem
  /\ got # <<>> => got = <<rcvd + 1>> /\ commits
  /\ pop => got # <<>> /\ head # NoItem
  /\ through => got # <<>> /\ head = NoItem /\ sends = 1
  /\ got # <<>> => pop \/ through

Looked == sawNothing => head = NoItem /\ (Unreg => looked /\ ~offering)

Inv == TypeOK /\ InOrder /\ Collected /\ Looked

-----------------------------------------------------------------------------
LEMMA EmptyGot == <<>> \in Seq(Nat)
  OBVIOUS

LEMMA InitInv == Init => Inv
<1> SUFFICES ASSUME Init PROVE Inv
  OBVIOUS
<1>1. TypeOK
  <2>1. /\ got \in Seq(Nat)
        /\ last \in [putting : BOOLEAN, waiting : BOOLEAN,
                     data : Value \cup {NoItem}]
    BY EmptyGot DEF Init
  <2>2. sent \in Nat /\ rcvd \in Nat /\ sends \in 0..1
    BY DEF Init
  <2> QED BY <2>1, <2>2, ChannelAssumption DEF Init, TypeOK, Item
<1>2. InOrder
  BY DEF Init, InOrder, Held
<1>3. Collected /\ Looked
  BY DEF Init, Collected, Looked
<1> QED BY <1>1, <1>2, <1>3 DEF Inv

(* The invariant says what it is for.                                      *)
LEMMA InvImplies == Inv => Delivered /\ NetlistView
<1> SUFFICES ASSUME Inv PROVE Delivered /\ NetlistView
  OBVIOUS
<1> USE ChannelAssumption DEF Inv, TypeOK, InOrder, Collected, Unreg, Looked, Held, Item
<1>1. Delivered
  <2>1. CASE got = <<>>
    BY <2>1 DEF Delivered
  <2>2. CASE got # <<>>
    <3>1. got = <<rcvd + 1>>
      BY <2>2
    <3>2. rcvd + 1 <= sent + sends
      BY <2>2
    <3> QED BY <3>1, <3>2 DEF Delivered
  <2> QED BY <2>1, <2>2
<1>2. NetlistView
  BY DEF NetlistView
<1> QED BY <1>1, <1>2

(* A send that returned, by send or by put.                                *)
LEMMA SendOkInv ==
  ASSUME Inv, NEW v \in Value, SendOk(v),
         todo' \subseteq todo, putting' \in BOOLEAN,
         held' \in Value \cup {NoItem}, reading' = reading,
         UNCHANGED <<made, rst, sent, rcvd, last>>
  PROVE  Inv'
<1> USE ChannelAssumption DEF Inv, TypeOK, InOrder, Collected, Unreg, Looked, Held,
        Item, SendOk, Ready, OfferAllowed, Offer, Fresh
<1>1. sends = 0
  OBVIOUS
<1>2. TypeOK'
  BY <1>1
<1>3. InOrder' /\ Collected' /\ Looked'
  BY <1>1
<1> QED BY <1>2, <1>3

(* An assert that failed.                                                  *)
LEMMA RefuseInv ==
  ASSUME Inv, Refuse, todo' \subseteq todo, UNCHANGED <<made, rst, sent, rcvd, last>>
  PROVE  Inv'
  BY ChannelAssumption
     DEF Inv, TypeOK, InOrder, Collected, Unreg, Looked, Held, Item, Refuse, cell

LEMMA RecvInv ==
  ASSUME Inv, NEW p \in Receivers, Recv(p)
  PROVE  Inv'
<1> USE ChannelAssumption DEF Inv, TypeOK, InOrder, Collected, Unreg, Looked, Held, Item
<1>1. todo' \subseteq Procs /\ made' = made
  BY DEF Recv, Poll
<1>2. Looked'
  BY <1>1 DEF Recv, Look, Front
<1>3. CASE ~Takeable
  BY <1>1, <1>2, <1>3 DEF Recv, Look
<1>4. CASE Takeable
  <2>1. /\ got = <<>>
        /\ Front = rcvd + 1
        /\ got' = <<rcvd + 1>>
    BY <1>4 DEF Takeable, Front, Recv
  <2>2. InOrder'
    BY DEF Recv
  <2>3. Collected'
    BY <1>4, <2>1 DEF Recv, Takeable, Front
  <2>4. TypeOK'
    BY <1>1, <1>4, <2>1 DEF Recv, Look
  <2> QED BY <1>2, <2>2, <2>3, <2>4
<1> QED BY <1>3, <1>4

(* The two entries after the end of a step without a reset.                *)
LEMMA ApplyInOrder ==
  ASSUME TypeOK, InOrder, Collected, EndStep, ~rst
  PROVE  InOrder' /\ head' \in Item /\ tail' \in Item
<1> USE ChannelAssumption DEF InOrder, Held, Item
<1>1. /\ head \in Nat \cup {NoItem} /\ tail \in Nat \cup {NoItem}
      /\ sent \in Nat /\ rcvd \in Nat
      /\ sends \in {0, 1}
      /\ push = IF sends = 0 THEN NoItem ELSE sent + 1
      /\ sends = 1 => tail = NoItem
  BY DEF TypeOK, Collected
<1>2. /\ pop => got # <<>> /\ head # NoItem
      /\ through => got # <<>> /\ head = NoItem /\ sends = 1
      /\ got # <<>> => pop \/ through
      /\ ~commits => sends = 0 /\ got = <<>>
  BY <1>1 DEF Collected
<1>3. /\ sent' = sent + sends
      /\ rcvd' = IF got = <<>> THEN rcvd ELSE rcvd + 1
  <2>1. Len(got) = IF got = <<>> THEN 0 ELSE 1
    BY DEF TypeOK, Collected
  <2> QED BY <2>1 DEF EndStep, TypeOK
<1>4. ~commits => head' = head /\ tail' = tail
  BY DEF EndStep
<1>5. commits => Apply
  BY DEF EndStep
<1>6. CASE got = <<>>
  <2>1. CASE sends = 0
    <3>1. head' = head /\ tail' = tail
      BY <1>1, <1>2, <1>4, <1>5, <1>6, <2>1 DEF Apply, Popped, Pushed
    <3>2. sent' = sent /\ rcvd' = rcvd
      BY <1>1, <1>3, <1>6, <2>1
    <3> QED BY <1>1, <3>1, <3>2
  <2>2. CASE sends = 1
    <3>1. IF head = NoItem THEN head' = sent + 1 /\ tail' = NoItem
          ELSE head' = head /\ tail' = sent + 1
      BY <1>1, <1>2, <1>5, <1>6, <2>2 DEF Apply, Popped, Pushed
    <3>2. sent' = sent + 1 /\ rcvd' = rcvd
      BY <1>1, <1>3, <1>6, <2>2
    <3> QED BY <1>1, <2>2, <3>1, <3>2
  <2> QED BY <1>1, <2>1, <2>2
<1>7. CASE pop
  <2>1. head' = (IF tail = NoItem THEN push ELSE tail) /\ tail' = NoItem
    BY <1>1, <1>2, <1>5, <1>7 DEF Apply, Popped, Pushed
  <2>2. sent' = sent + sends /\ rcvd' = rcvd + 1 /\ head # NoItem
    BY <1>2, <1>3, <1>7
  <2>3. CASE sends = 0
    BY <1>1, <2>1, <2>2, <2>3
  <2>4. CASE sends = 1
    BY <1>1, <2>1, <2>2, <2>4
  <2> QED BY <1>1, <2>3, <2>4
<1>8. CASE through
  <2>1. head' = NoItem /\ tail' = NoItem
    BY <1>1, <1>2, <1>5, <1>8 DEF Apply, Popped, Pushed
  <2>2. sent' = sent + 1 /\ rcvd' = rcvd + 1 /\ head = NoItem /\ tail = NoItem
    BY <1>1, <1>2, <1>3, <1>8
  <2> QED BY <1>1, <2>1, <2>2
<1> QED BY <1>2, <1>6, <1>7, <1>8

(* The end of a step.                                                      *)
LEMMA EndStepInv ==
  ASSUME Inv, EndStep
  PROVE  Inv'
<1> USE ChannelAssumption DEF Inv, TypeOK, InOrder, Collected, Unreg, Looked, Held,
        Item, EndStep, Unstamp
<1>1. Looked' /\ Collected'
  BY DEF Empty, Apply
<1>2. /\ got' \in Seq(Nat)
      /\ last' \in [putting : BOOLEAN, waiting : BOOLEAN,
                    data : Value \cup {NoItem}]
  BY EmptyGot
<1>3. sent' \in Nat /\ rcvd' \in Nat /\ sends' \in 0..1
  OBVIOUS
<1>4. push' = NoItem /\ pop' = FALSE /\ through' = FALSE
  BY DEF Empty, Apply
<1>5. InOrder' /\ head' \in Item /\ tail' \in Item
  <2>1. CASE rst
    BY <2>1, <1>3 DEF Empty
  <2>2. CASE ~rst
    BY <2>2, ApplyInOrder
  <2> QED BY <2>1, <2>2
<1>6. TypeOK'
  BY <1>2, <1>3, <1>4, <1>5
<1> QED BY <1>1, <1>5, <1>6

LEMMA NextInv == Inv /\ [Next]_vars => Inv'
<1> SUFFICES ASSUME Inv, [Next]_vars PROVE Inv'
  OBVIOUS
<1>1. CASE StartPut
  BY <1>1, ChannelAssumption
     DEF StartPut, Poll, Inv, TypeOK, InOrder, Collected, Unreg, Looked, Held, Item, cell
<1>2. CASE PutSend
  <2>1. PutValue \in Value
    BY <1>2 DEF PutSend, PutValue, Inv, TypeOK
  <2>2. CASE SendOk(PutValue) /\ putting' \in BOOLEAN /\ held' = NoItem
             /\ UNCHANGED reading
    BY <1>2, <2>1, <2>2, SendOkInv DEF PutSend, Poll
  <2>3. CASE Refuse
    BY <1>2, <2>3, RefuseInv DEF PutSend, Poll
  <2> QED BY <1>2, <2>2, <2>3 DEF PutSend
<1>3. CASE PutOffer
  BY <1>3, ChannelAssumption
     DEF PutOffer, Poll, Offer, OfferAllowed, Ready, PutValue, Inv, TypeOK,
         InOrder, Collected, Unreg, Looked, Held, Item
<1>4. CASE PutWait
  BY <1>4, ChannelAssumption
     DEF PutWait, Poll, Inv, TypeOK, InOrder, Collected, Unreg, Looked, Held, Item, cell
<1>5. ASSUME NEW p \in Senders, Send(p) PROVE Inv'
  <2>1. CASE Refuse
    BY <1>5, <2>1, RefuseInv DEF Send, Poll
  <2>2. ASSUME NEW v \in Value, SendOk(v), UNCHANGED <<putting, held, reading>>
        PROVE  Inv'
    BY <1>5, <2>2, SendOkInv DEF Send, Poll, Inv, TypeOK
  <2> QED BY <1>5, <2>1, <2>2 DEF Send
<1>6. ASSUME NEW p \in Procs, Idle(p) PROVE Inv'
  BY <1>6, ChannelAssumption
     DEF Idle, Poll, Inv, TypeOK, InOrder, Collected, Unreg, Looked, Held, Item, cell,
         client
<1>7. ASSUME NEW p \in Receivers, Peek(p) PROVE Inv'
  BY <1>7, ChannelAssumption
     DEF Peek, Poll, Look, Front, Inv, TypeOK, InOrder, Collected, Unreg, Looked, Held,
         Item
<1>8. ASSUME NEW p \in Receivers, Recv(p) PROVE Inv'
  BY <1>8, RecvInv
<1>9. CASE EndStep
  BY <1>9, EndStepInv
<1>10. CASE UNCHANGED vars
  BY <1>10 DEF vars, cell, client, Inv, TypeOK, InOrder, Collected, Unreg, Looked, Held
<1> QED
  BY <1>1, <1>2, <1>3, <1>4, <1>5, <1>6, <1>7, <1>8, <1>9, <1>10
     DEF Next, Stopped

LEMMA InvAlways == Spec => []Inv
  BY InitInv, NextInv, PTL DEF Spec

-----------------------------------------------------------------------------
(* Every variable of the channel keeps its type; in particular no more     *)
(* than one send returns in a step (Tx::offer's first assert).             *)
THEOREM ChannelType == Spec => []TypeOK
  BY InvAlways, PTL DEF Inv

(* The buffer holds exactly what was sent and not yet taken, in order      *)
(* (ChanCell::apply, empty).                                               *)
THEOREM ChannelInOrder == Spec => []InOrder
  BY InvAlways, PTL DEF Inv

(* What recv hands over is the oldest transaction sent, one a step         *)
(* (Rx::recv, ChanCell::front).                                            *)
THEOREM ChannelDelivered == Spec => []Delivered
  BY InvAlways, InvImplies, PTL

(* A run that is not refused shows the receiver what the netlist would     *)
(* (Tx::offer's second assert, ChanCell::front).                           *)
THEOREM ChannelNetlistView == Spec => []NetlistView
  BY InvAlways, InvImplies, PTL

-----------------------------------------------------------------------------
(* A unit alone at its end, sending by put.  Only its one process offers,  *)
(* and once a step, so before its poll nothing is offered; and if it is    *)
(* first in the join, nothing has looked.                                  *)
Alone ==
  ~Shared /\ (Unreg => SenderFirst) =>
    /\ Putter \in todo => ~offering /\ ~(Unreg /\ looked)
    /\ ~refused

LEMMA AloneStep == Inv /\ Alone /\ [Next]_vars => Alone'
<1> SUFFICES ASSUME Inv, Alone, [Next]_vars PROVE Alone'
  OBVIOUS
<1> USE ChannelAssumption DEF Alone, Unreg, Shared, SenderFirst
<1>1. CASE StartPut \/ PutOffer \/ PutWait
  BY <1>1 DEF StartPut, PutOffer, PutWait, Poll, Offer, cell
<1>2. CASE PutSend
  BY <1>2 DEF PutSend, Poll, SendOk, Offer, Refuse, OfferAllowed
<1>3. ASSUME NEW p \in Senders, Send(p) PROVE Alone'
  BY <1>3 DEF Send, Poll
<1>4. ASSUME NEW p \in Procs, Idle(p) PROVE Alone'
  BY <1>4 DEF Idle, Poll, cell, client
<1>5. ASSUME NEW p \in Receivers, Peek(p) \/ Recv(p) PROVE Alone'
  BY <1>5 DEF Peek, Recv, Poll, Look
<1>6. CASE EndStep
  BY <1>6 DEF EndStep, Unstamp
<1>7. CASE UNCHANGED vars
  BY <1>7 DEF vars, cell, client
<1> QED BY <1>1, <1>2, <1>3, <1>4, <1>5, <1>6, <1>7 DEF Next, Stopped

(* A unit that sends only by put, alone at its end and first in the join   *)
(* where the channel is unregistered, is never stopped by an assert of the *)
(* channel (Tx::put, Tx::offer, ChanCell::push).                           *)
THEOREM ChannelPutNeverRefused == Spec => []PutNeverRefused
<1>1. Init => Alone
  BY DEF Init, Alone
<1>2. Alone => PutNeverRefused
  BY DEF Alone, PutNeverRefused
<1> QED BY <1>1, <1>2, AloneStep, InvAlways, PTL DEF Spec

(* What AxiSource rests on within a step: before the put's poll its state  *)
(* is as the last edge left it, and after it the rules are kept; and what  *)
(* is offered and not sent is what the put holds.                          *)
Holding ==
  Axi /\ ~Shared /\ ~refused =>
    /\ rst => ~offering
    /\ Putter \in todo =>
         /\ ~offering
         /\ last.putting = putting
         /\ last.waiting => putting /\ held = last.data /\ held # NoItem
    /\ Putter \notin todo /\ ~rst =>
         /\ last.putting => offering
         /\ last.waiting => data = last.data
    /\ offering /\ sends = 0 => putting /\ held = data /\ held # NoItem

LEMMA HoldingStep == Inv /\ Holding /\ [Next]_vars => Holding'
<1> SUFFICES ASSUME Inv, Holding, [Next]_vars, Axi', ~Shared', ~refused'
             PROVE  Holding'
  BY DEF Holding
<1>1. made' = made /\ Axi /\ ~Shared /\ ~refused
  BY DEF Next, vars, cell, client, StartPut, PutSend, PutOffer, PutWait, Send, Idle,
         Peek, Recv, EndStep, Stopped, Poll, Axi, Shared
<1> USE <1>1, ChannelAssumption DEF Holding, Axi, Shared
<1>2. CASE StartPut
  BY <1>2 DEF StartPut, Poll, cell
<1>3. CASE PutSend
  <2>1. SendOk(PutValue) /\ ~rst
    BY <1>3 DEF PutSend, Refuse
  <2>2. Inv /\ sends = 0
    BY <2>1 DEF SendOk, Inv, TypeOK, Collected, OfferAllowed
  <2>3. /\ offering' = TRUE /\ data' = PutValue /\ sends' # 0
        /\ Putter \in todo /\ Putter \notin todo'
        /\ rst' = rst /\ last' = last
    BY <1>3, <2>1, <2>2 DEF PutSend, Poll, SendOk, Offer
  <2>4. last.waiting => PutValue = last.data
    BY <2>3 DEF PutValue
  <2> QED BY <2>1, <2>3, <2>4
<1>4. CASE PutOffer
  <2>1. PutValue # NoItem
    BY <1>4 DEF PutOffer, PutValue, Inv, TypeOK
  <2> QED BY <1>4, <2>1 DEF PutOffer, Poll, Offer, PutValue
<1>5. CASE PutWait
  BY <1>5 DEF PutWait, Poll, cell
<1>6. ASSUME NEW p \in Senders, Send(p) PROVE Holding'
  BY <1>6 DEF Send
<1>7. ASSUME NEW p \in Procs, Idle(p) PROVE Holding'
  BY <1>7 DEF Idle, Poll, cell, client
<1>8. ASSUME NEW p \in Receivers, Peek(p) \/ Recv(p) PROVE Holding'
  BY <1>8 DEF Peek, Recv, Poll, Look
<1>9. CASE EndStep
  <2>1. /\ ~offering' /\ Putter \in todo'
        /\ putting' = putting /\ held' = held
    BY <1>9 DEF EndStep, Unstamp, Procs, Sending
  <2>2. /\ last'.putting = putting
        /\ last'.waiting = (offering /\ sends = 0 /\ ~rst)
        /\ last'.data = data
    BY <1>9 DEF EndStep
  <2> QED BY <2>1, <2>2, Zenon
<1>10. CASE UNCHANGED vars
  BY <1>10 DEF vars, cell, client
<1> QED
  BY <1>2, <1>3, <1>4, <1>5, <1>6, <1>7, <1>8, <1>9, <1>10 DEF Next, Stopped

(* The AXI rules of a source, for an #[axi] port alone at its end: a put   *)
(* offers at once, offers the same value until it is taken, and keeps      *)
(* valid low through a reset (Tx::put).                                    *)
THEOREM ChannelAxiSource == Spec => []AxiSource
<1>1. Init => Holding
  <2> SUFFICES ASSUME Init PROVE Holding
    OBVIOUS
  <2>1. ~offering /\ Putter \in todo
    BY DEF Init, Procs, Sending
  <2>2. last.putting = putting /\ ~last.waiting
    BY DEF Init
  <2> QED BY <2>1, <2>2, Zenon DEF Holding
<1>2. Holding => AxiSource
  BY DEF Holding, AxiSource
<1> QED BY <1>1, <1>2, HoldingStep, InvAlways, PTL DEF Spec

-----------------------------------------------------------------------------
(* The refinement.  Only EndStep moves the buffer; it is a Flush under     *)
(* reset and otherwise one Move of the queue.                              *)

(* The calls of a step leave the queue as it is.                           *)
LEMMA CallsStutter ==
  ASSUME [Next]_vars, ~EndStep
  PROVE  UNCHANGED <<Buffered, rst, sent, rcvd>>
<1>1. UNCHANGED <<head, tail, rst, sent, rcvd>>
  BY DEF Next, vars, cell, StartPut, PutSend, PutOffer, PutWait, Send, Idle,
         Peek, Recv, Stopped, SendOk, Refuse
<1> QED BY <1>1 DEF Buffered

LEMMA EndStepIsFlush ==
  ASSUME Inv, EndStep, rst
  PROVE  \E in \in 0..1 : Q!Flush(in)
<1>1. sends \in 0..1
  BY DEF Inv, TypeOK
<1>2. Q!Flush(sends)
  BY <1>1 DEF EndStep, Empty, Q!Flush, Buffered
<1> QED BY <1>1, <1>2

(* The entries, as the queue they are.                                     *)
LEMMA EntriesNumbered == TypeOK /\ InOrder => Numbered(Buffered, rcvd, sent)
<1> SUFFICES ASSUME TypeOK, InOrder PROVE Numbered(Buffered, rcvd, sent)
  OBVIOUS
<1> USE ChannelAssumption DEF TypeOK, InOrder, Held, Buffered, Numbered, Item
<1>1. CASE head = NoItem
  BY <1>1
<1>2. CASE head # NoItem /\ tail = NoItem
  BY <1>2
<1>3. CASE head # NoItem /\ tail # NoItem
  BY <1>3
<1> QED BY <1>1, <1>2, <1>3

LEMMA EndStepIsMove ==
  ASSUME Inv, EndStep, ~rst, Inv'
  PROVE  \E in, out \in 0..1 : Q!Move(in, out)
<1> DEFINE in == sends
           out == IF got = <<>> THEN 0 ELSE 1
<1>1. /\ in \in {0, 1} /\ out \in {0, 1} /\ sent \in Nat /\ rcvd \in Nat
      /\ in = 1 => sent # rcvd + 2
  BY ChannelAssumption DEF Inv, TypeOK, Collected, InOrder, Held, Item
<1>2. sent' = sent + in /\ rcvd' = rcvd + out
  <2>1. Len(got) = out
    BY DEF Inv, TypeOK, Collected
  <2> QED BY <2>1 DEF EndStep
<1>3. Numbered(Buffered, rcvd, sent)
  BY EntriesNumbered DEF Inv
<1>4. Numbered(Buffered, rcvd, sent)'
  <2>1. (TypeOK /\ InOrder)'
    BY DEF Inv
  <2> QED BY <2>1, EntriesNumbered, PTL
<1>5. Numbered(Buffered', rcvd + out, sent + in)
  BY <1>2, <1>4 DEF Numbered
<1> HIDE DEF in, out
<1> DEFINE a == Q!Arrivals(in)
<1>6. a = IF in = 1 THEN <<sent + 1>> ELSE <<>>
  BY DEF Q!Arrivals
<1>7. Moved(Buffered, a, out, Buffered')
  <2> HIDE DEF a
  <2> QED BY <1>1, <1>3, <1>5, <1>6, NumberedMove
<1>8. Q!Move(in, out)
  BY <1>2, <1>7 DEF Moved, Q!Move
<1> QED BY <1>1, <1>8

(* A step of the runtime's channel is at most one edge of a queue of two   *)
(* that loses, repeats and reorders nothing.                               *)
THEOREM ChannelImplementsQueue == Spec => ChannelIsQueue
<1>1. Init => Q!Init
  BY DEF Init, Q!Init, Buffered
<1>2. Inv /\ Inv' /\ [Next]_vars => [Q!Next]_(Q!vars)
  <2> SUFFICES ASSUME Inv, [Next]_vars, Inv' PROVE [Q!Next]_(Q!vars)
    OBVIOUS
  <2>1. rst' \in BOOLEAN
    BY DEF Inv, TypeOK
  <2>2. CASE ~EndStep
    BY <2>2, CallsStutter DEF Q!vars
  <2>3. CASE EndStep /\ rst
    BY <2>1, <2>3, EndStepIsFlush DEF Q!Next
  <2>4. CASE EndStep /\ ~rst
    BY <2>1, <2>4, EndStepIsMove DEF Q!Next
  <2> QED BY <2>2, <2>3, <2>4
<1> QED BY <1>1, <1>2, InvAlways, PTL DEF Spec, ChannelIsQueue, Q!Spec

-----------------------------------------------------------------------------
(* The unit of registers by itself, under any sender and receiver.  What   *)
(* the registers say at an edge is all there is to know, so TypeOK and     *)
(* InOrder are inductive together.                                         *)
UnitInv == B!TypeOK /\ B!InOrder

LEMMA InitUnitInv == B!Init => UnitInv
<1> SUFFICES ASSUME B!Init PROVE UnitInv
  OBVIOUS
<1>1. ~uhead_full /\ ~utail_full /\ uhead = 0 /\ utail = 0 /\ usent = 0 /\ urcvd = 0
  BY DEF B!Init
<1>2. uhead_full \in BOOLEAN /\ utail_full \in BOOLEAN /\ rst \in BOOLEAN
  BY DEF B!Init
<1> QED BY <1>1, <1>2 DEF UnitInv, B!TypeOK, B!InOrder

LEMMA CycleUnitInv ==
  ASSUME UnitInv, NEW tx_valid \in BOOLEAN, NEW rx_ready \in BOOLEAN,
         B!Cycle(tx_valid, rx_ready)
  PROVE  UnitInv'
<1> DEFINE in == tx_valid /\ B!tx_ready
           out == rx_ready /\ uhead_full
<1> USE DEF UnitInv, B!TypeOK, B!InOrder, B!tx_ready
<1>1. usent' = usent + (IF in THEN 1 ELSE 0) /\ rst' \in BOOLEAN
  BY DEF B!Cycle
<1>2. CASE rst
  <2>1. /\ ~uhead_full' /\ ~utail_full' /\ uhead' = 0 /\ utail' = 0
        /\ urcvd' = usent'
    BY <1>2 DEF B!Cycle, B!Clear
  <2>2. uhead_full' \in BOOLEAN /\ utail_full' \in BOOLEAN
    BY <1>2 DEF B!Cycle, B!Clear
  <2> QED BY <1>1, <2>1, <2>2
<1>3. CASE ~rst
  <2>1. B!Write(out, in) /\ urcvd' = urcvd + (IF out THEN 1 ELSE 0)
    BY <1>3 DEF B!Cycle
  <2>2. /\ uhead_full' \in BOOLEAN /\ utail_full' \in BOOLEAN
        /\ utail_full' => uhead_full'
    BY <2>1 DEF B!Write, B!LandsInHead, B!TailLeft
  <2>3. /\ uhead' = IF in /\ B!LandsInHead(out) THEN usent + 1 ELSE B!MovedHead(out)
        /\ utail' = IF in /\ ~B!LandsInHead(out) THEN usent + 1 ELSE utail
        /\ uhead_full' <=> in \/ ~B!LandsInHead(out)
        /\ utail_full' <=> B!TailLeft(out) \/ (in /\ ~B!LandsInHead(out))
    BY <2>1 DEF B!Write
  <2>4. B!InOrder' /\ uhead' \in Nat /\ utail' \in Nat
    <3> USE <1>1, <2>1, <2>3 DEF B!LandsInHead, B!TailLeft, B!MovedHead
    <3>1. CASE ~uhead_full
      BY <3>1
    <3>2. CASE uhead_full /\ ~utail_full
      BY <3>2
    <3>3. CASE uhead_full /\ utail_full
      BY <3>3
    <3> QED BY <3>1, <3>2, <3>3
  <2> QED BY <1>1, <2>1, <2>2, <2>4
<1> QED BY <1>2, <1>3

LEMMA UnitInvAlways == B!Spec => []UnitInv
<1>1. UnitInv /\ [B!Next]_(B!vars) => UnitInv'
  <2> SUFFICES ASSUME UnitInv, [B!Next]_(B!vars) PROVE UnitInv'
    OBVIOUS
  <2>1. CASE B!Next
    BY <2>1, CycleUnitInv DEF B!Next
  <2>2. CASE UNCHANGED B!vars
    BY <2>2 DEF B!vars, UnitInv, B!TypeOK, B!InOrder
  <2> QED BY <2>1, <2>2
<1> QED BY <1>1, InitUnitInv, PTL DEF B!Spec

(* The registers keep their types, and the tail is never full alone.       *)
THEOREM BufferType == B!Spec => []B!TypeOK
  BY UnitInvAlways, PTL DEF UnitInv

(* The registers hold exactly what was sent and not yet taken, in order    *)
(* (the mux chain of Buffer::run).                                         *)
THEOREM BufferInOrder == B!Spec => []B!InOrder
  BY UnitInvAlways, PTL DEF UnitInv

(* A take leaves room for the next cycle's push (Buffer's doc).            *)
THEOREM BufferTakeMakesRoom == B!Spec => B!TakeMakesRoom
<1>1. UnitInv /\ [B!Next]_(B!vars) => [urcvd' # urcvd /\ ~rst => B!tx_ready']_(B!vars)
  BY DEF UnitInv, B!TypeOK, B!Next, B!Cycle, B!Write, B!LandsInHead, B!TailLeft, B!tx_ready
<1> QED BY <1>1, UnitInvAlways, PTL DEF B!Spec, B!TakeMakesRoom

-----------------------------------------------------------------------------
(* The refinement: a cycle is a Flush under reset and otherwise one Move.  *)
LEMMA RegistersNumbered == UnitInv => Numbered(B!Buffered, urcvd, usent)
<1> SUFFICES ASSUME UnitInv PROVE Numbered(B!Buffered, urcvd, usent)
  OBVIOUS
<1> USE DEF UnitInv, B!TypeOK, B!InOrder, B!Buffered, Numbered
<1>1. CASE ~uhead_full
  BY <1>1
<1>2. CASE uhead_full /\ ~utail_full
  BY <1>2
<1>3. CASE uhead_full /\ utail_full
  BY <1>3
<1> QED BY <1>1, <1>2, <1>3

LEMMA CycleIsEdge ==
  ASSUME UnitInv, UnitInv', NEW tx_valid \in BOOLEAN, NEW rx_ready \in BOOLEAN,
         B!Cycle(tx_valid, rx_ready)
  PROVE  B!Q!Next
<1> DEFINE in == IF tx_valid /\ B!tx_ready THEN 1 ELSE 0
           out == IF rx_ready /\ uhead_full THEN 1 ELSE 0
           a == B!Q!Arrivals(in)
<1>1. /\ in \in {0, 1} /\ out \in {0, 1} /\ usent \in Nat /\ urcvd \in Nat
      /\ in = 1 => usent # urcvd + 2
  BY DEF UnitInv, B!TypeOK, B!InOrder, B!tx_ready
<1>2. rst' \in BOOLEAN /\ usent' = usent + in
  BY DEF B!Cycle
<1>3. CASE rst
  <2>1. urcvd' = usent' /\ B!Buffered' = <<>>
    BY <1>3 DEF B!Cycle, B!Clear, B!Buffered
  <2>2. B!Q!Flush(in)
    BY <1>2, <1>3, <2>1 DEF B!Q!Flush
  <2> HIDE DEF in
  <2> QED BY <1>1, <1>2, <2>2 DEF B!Q!Next
<1>4. CASE ~rst
  <2>1. urcvd' = urcvd + out
    BY <1>4 DEF B!Cycle
  <2>2. Numbered(B!Buffered, urcvd, usent)
    BY RegistersNumbered
  <2>3. Numbered(B!Buffered, urcvd, usent)'
    BY RegistersNumbered, PTL
  <2>4. Numbered(B!Buffered', urcvd + out, usent + in)
    BY <1>2, <2>1, <2>3 DEF Numbered
  <2> HIDE DEF in, out
  <2>5. a = IF in = 1 THEN <<usent + 1>> ELSE <<>>
    BY DEF B!Q!Arrivals
  <2>6. Moved(B!Buffered, a, out, B!Buffered')
    <3> HIDE DEF a
    <3> QED BY <1>1, <2>2, <2>4, <2>5, NumberedMove
  <2>7. B!Q!Move(in, out)
    BY <1>2, <1>4, <2>1, <2>6 DEF Moved, B!Q!Move
  <2> QED BY <1>1, <1>2, <2>7 DEF B!Q!Next
<1> QED BY <1>3, <1>4

(* Each cycle of the registers is one edge of a queue of two, the rules    *)
(* the runtime's channel keeps.                                            *)
THEOREM BufferImplementsQueue == B!Spec => B!BufferIsQueue
<1>1. B!Init => B!Q!Init
  BY DEF B!Init, B!Q!Init, B!Buffered
<1>2. UnitInv /\ UnitInv' /\ [B!Next]_(B!vars) => [B!Q!Next]_(B!Q!vars)
  <2> SUFFICES ASSUME UnitInv, UnitInv', [B!Next]_(B!vars) PROVE [B!Q!Next]_(B!Q!vars)
    OBVIOUS
  <2>1. CASE B!Next
    BY <2>1, CycleIsEdge DEF B!Next
  <2>2. CASE UNCHANGED B!vars
    BY <2>2 DEF B!vars, B!Q!vars, B!Buffered
  <2> QED BY <2>1, <2>2
<1> QED BY <1>1, <1>2, UnitInvAlways, PTL DEF B!Spec, B!BufferIsQueue, B!Q!Spec

-----------------------------------------------------------------------------
(* The cell and the unit.  Beside a channel that is not unregistered the   *)
(* unit's registers are the cell's two entries, and no take goes by the    *)
(* bypass.                                                                 *)
Same ==
  ~Unreg =>
    /\ ~through
    /\ uhead_full \in BOOLEAN /\ utail_full \in BOOLEAN
    /\ uhead_full <=> head # NoItem
    /\ utail_full <=> tail # NoItem
    /\ uhead_full => uhead = head
    /\ utail_full => utail = tail
    /\ usent = sent /\ urcvd = rcvd

(* The calls of a step leave both alone.                                   *)
LEMMA CallsSame ==
  ASSUME Inv, Same, Next, ~EndStep, UNCHANGED unit PROVE Same'
<1>1. UNCHANGED <<made, head, tail, sent, rcvd>>
  BY DEF Next, vars, cell, client, StartPut, PutSend, SendOk, PutOffer, PutWait, Send,
         Idle, Peek, Recv, Stopped, Poll, Refuse
<1>2. ~Unreg => ~through'
  <2> SUFFICES ASSUME ~Unreg PROVE ~through'
    OBVIOUS
  <2>1. ASSUME NEW p \in Receivers, Recv(p) PROVE ~through'
    BY <2>1 DEF Recv, Takeable, Front, Same
  <2>2. CASE \A p \in Receivers : ~Recv(p)
    <3>1. through' = through
      BY <2>2 DEF Next, vars, cell, client, StartPut, PutSend, SendOk, PutOffer, PutWait,
             Send, Idle, Peek, Stopped, Refuse
    <3> QED BY <3>1 DEF Same
  <2> QED BY <2>1, <2>2
<1> QED BY <1>1, <1>2 DEF Same, Unreg, unit

(* At an edge the unit does with its registers what advance() does with    *)
(* the entries.                                                            *)
LEMMA EdgeSame ==
  ASSUME Inv, Same, EndStep, UnitEdge PROVE Same'
<1> SUFFICES ASSUME ~Unreg PROVE Same'
  BY DEF EndStep, Same, Unreg
<1> DEFINE in == offering /\ ~utail_full
           out == got # <<>> /\ uhead_full
<1>1. /\ head \in Nat \cup {NoItem} /\ tail \in Nat \cup {NoItem}
      /\ tail # NoItem => head # NoItem
      /\ sent \in Nat /\ rcvd \in Nat /\ sends \in {0, 1} /\ NoItem \notin Nat
      /\ push = IF sends = 0 THEN NoItem ELSE sent + 1
      /\ got # <<>> => pop /\ commits
      /\ pop => got # <<>> /\ head # NoItem
      /\ ~commits => sends = 0 /\ got = <<>>
  BY ChannelAssumption DEF Inv, TypeOK, InOrder, Collected, Item, Same
<1>2. /\ ~through /\ uhead_full \in BOOLEAN /\ utail_full \in BOOLEAN
      /\ uhead_full <=> head # NoItem
      /\ utail_full <=> tail # NoItem
      /\ uhead_full => uhead = head
      /\ utail_full => utail = tail
      /\ usent = sent /\ urcvd = rcvd
  BY DEF Same
<1>3. (in <=> sends = 1) /\ (out <=> pop)
  BY <1>1, <1>2 DEF Inv, Collected
<1>4. B!Cycle(offering, got # <<>>)
  BY DEF UnitEdge
<1>5. /\ made' = made /\ sent' = sent + sends /\ through' = FALSE
      /\ rcvd' = IF rst THEN sent' ELSE rcvd + Len(got)
      /\ rst => head' = NoItem /\ tail' = NoItem
      /\ ~rst /\ commits => Apply
      /\ ~rst /\ ~commits => head' = head /\ tail' = tail
  BY <1>2 DEF EndStep, Empty, Apply
<1>6. Len(got) = IF out THEN 1 ELSE 0
  BY <1>1, <1>3 DEF Inv, TypeOK, Collected
<1>7. /\ usent' = usent + (IF in THEN 1 ELSE 0)
      /\ urcvd' = IF rst THEN usent' ELSE urcvd + (IF out THEN 1 ELSE 0)
      /\ rst => B!Clear
      /\ ~rst => B!Write(out, in)
  BY <1>4 DEF B!Cycle, B!tx_ready
<1>8. usent' = sent' /\ urcvd' = rcvd'
  <2> HIDE DEF in, out
  <2> QED BY <1>1, <1>2, <1>3, <1>5, <1>6, <1>7
<1>9. /\ uhead_full' \in BOOLEAN /\ utail_full' \in BOOLEAN
      /\ uhead_full' <=> head' # NoItem
      /\ utail_full' <=> tail' # NoItem
      /\ uhead_full' => uhead' = head'
      /\ utail_full' => utail' = tail'
  <2>1. CASE rst
    BY <1>5, <1>7, <2>1 DEF B!Clear
  <2>2. CASE ~rst
    <3>1. /\ uhead_full' <=> in \/ ~B!LandsInHead(out)
          /\ utail_full' <=> B!TailLeft(out) \/ (in /\ ~B!LandsInHead(out))
          /\ uhead_full' \in BOOLEAN /\ utail_full' \in BOOLEAN
          /\ uhead' = IF in /\ B!LandsInHead(out) THEN usent + 1
                      ELSE B!MovedHead(out)
          /\ utail' = IF in /\ ~B!LandsInHead(out) THEN usent + 1 ELSE utail
      <4> HIDE DEF in, out
      <4>1. B!Write(out, in)
        BY <1>7, <2>2
      <4>2. (in \in BOOLEAN) /\ (out \in BOOLEAN)
        BY DEF in, out
      <4> QED BY <1>2, <4>1, <4>2 DEF B!Write, B!LandsInHead, B!TailLeft
    <3>2. /\ ~commits => head' = head /\ tail' = tail
          /\ commits => /\ head' = (IF Popped.h = NoItem THEN push ELSE Popped.h)
                        /\ tail' = (IF Popped.h # NoItem /\ push # NoItem
                                    THEN push ELSE Popped.t)
          /\ Popped.h = (IF pop THEN tail ELSE head)
          /\ Popped.t = (IF pop THEN NoItem ELSE tail)
      BY <1>2, <1>5, <2>2 DEF Apply, Popped, Pushed
    <3> USE <1>1, <1>2, <1>3, <3>1, <3>2
            DEF B!LandsInHead, B!TailLeft, B!MovedHead
    <3> HIDE DEF in, out
    <3>3. CASE ~in /\ ~out
      BY <3>3
    <3>4. CASE ~in /\ out
      BY <3>4
    <3>5. CASE in /\ ~out
      BY <3>5
    <3>6. CASE in /\ out
      BY <3>6
    <3> QED BY <3>3, <3>4, <3>5, <3>6
  <2> QED BY <2>1, <2>2
<1> QED BY <1>5, <1>8, <1>9 DEF Same

(* The unit of registers has room when the runtime's cell has, offers what *)
(* it offers and holds what it holds, at every edge (lib/parts/src/        *)
(* buffer.rs beside ChanCell, as its test buffer_is_the_runtime_channel).  *)
THEOREM ChannelUnitAgrees == UnitSpec => []UnitAgrees
<1>1. UnitInit => Inv /\ Same
  BY InitInv DEF UnitInit, Init, B!Init, Same
<1>2. Inv /\ Same /\ [UnitNext]_<<vars, unit>> => (Inv /\ Same)'
  <2> SUFFICES ASSUME Inv, Same, [UnitNext]_<<vars, unit>> PROVE Inv' /\ Same'
    OBVIOUS
  <2>1. CASE EndStep /\ UnitEdge
    BY <2>1, NextInv, EdgeSame DEF Next
  <2>2. CASE ~EndStep /\ Next /\ UNCHANGED unit
    BY <2>2, NextInv, CallsSame
  <2>3. CASE UNCHANGED <<vars, unit>>
    BY <2>3, NextInv DEF vars, cell, unit, Same, Unreg
  <2>4. (todo # {} \/ refused) => ~EndStep
    BY DEF EndStep
  <2> QED BY <2>1, <2>2, <2>3, <2>4 DEF UnitNext
<1>3. Inv /\ Same => UnitAgrees
  BY ChannelAssumption
     DEF Inv, InOrder, Same, UnitAgrees, B!Buffered, Buffered, B!tx_ready, Ready
<1> QED BY <1>1, <1>2, <1>3, PTL DEF UnitSpec
=============================================================================
