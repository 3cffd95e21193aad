------------------------------ MODULE Channel ------------------------------
(***************************************************************************)
(* The channel of the runtime, ChanCell in lib/src/comp.rs, within its     *)
(* step: the elastic buffer of two, the wires of the current step, the     *)
(* calls the processes at its two ends make, in whichever order the join   *)
(* polls them, and advance(), which commits the step.                      *)
(*                                                                         *)
(* A step begins with every process in todo.  Each is polled once and      *)
(* makes at most one kind of call on the channel; EndStep is advance().    *)
(* Every step modelled is a rising edge of the channel's clock: at any     *)
(* other step no process at its ends is polled past its wait.              *)
(*                                                                         *)
(* The order of transactions is followed by numbers (see Queue); the data  *)
(* a put reads from its closure, which may change while it waits, is a     *)
(* member of Value.                                                        *)
(***************************************************************************)
EXTENDS Naturals, Sequences

CONSTANTS
  Putter,       \* the process that calls put(..).await
  Senders,      \* processes sharing the sending end that call send
  Receivers,    \* processes holding a clone of the receiving end
  Makes,        \* the kinds of channel to look at (see made)
  Value,        \* what a put's closure may read
  NoItem,       \* the None of an Option
  MaxSent       \* bound: the transactions a run may send

ASSUME ChannelAssumption ==
  /\ Makes \subseteq
       [unreg : BOOLEAN, axi : BOOLEAN, senderFirst : BOOLEAN, shared : BOOLEAN]
  /\ MaxSent \in Nat
  /\ NoItem \notin Nat /\ NoItem \notin Value
  /\ Putter \notin Senders \cup Receivers
  /\ Senders \cap Receivers = {}

Sending == {Putter} \cup Senders
Procs == Sending \cup Receivers
Item == Nat \cup {NoItem}

VARIABLES
  made,         \* how the channel was made and is used, which never changes
  head, tail,   \* the buffer's two entries
  push,         \* the send to commit at the end of the step
  pop, through, \* the take to commit: from the buffer, or by the bypass
  offering,     \* the valid wire of this step
  data,         \* the data wire: what was last offered
  looked,       \* the receiver of an unregistered channel found nothing yet
  commits,      \* the cell is in COMMITS
  rst,          \* reset() in this step
  todo,         \* the processes not yet polled in this step
  putting,      \* a put is in progress
  held,         \* the value an #[axi] put holds
  reading,      \* what the put's closure would read now
  sends,        \* sends that returned in this step
  got,          \* what recv handed the receivers in this step
  sawNothing,   \* a receiver looked in this step and found nothing
  refused,      \* an assert of the channel failed: the run stopped
  sent, rcvd,   \* counts as of the last edge (see Queue)
  last          \* the wires at the end of the step before

cell == <<head, tail, push, pop, through, offering, data, looked, commits>>
client == <<putting, held, reading, sends, got, sawNothing, refused>>
vars == <<made, cell, client, rst, todo, sent, rcvd, last>>

Unreg == made.unreg              \* made by chan_unregistered: the bypass
Axi == made.axi                  \* the sender's port is marked #[axi]
SenderFirst == made.senderFirst  \* the join polls the sending side first
Shared == made.shared            \* others than the putter use its end

-----------------------------------------------------------------------------
Init ==
  /\ made \in Makes
  /\ head = NoItem /\ tail = NoItem /\ push = NoItem
  /\ pop = FALSE /\ through = FALSE
  /\ offering = FALSE /\ data = NoItem /\ looked = FALSE /\ commits = FALSE
  /\ rst \in BOOLEAN
  /\ todo = Procs
  /\ putting = FALSE /\ held = NoItem /\ reading \in Value
  /\ sends = 0 /\ got = <<>> /\ sawNothing = FALSE /\ refused = FALSE
  /\ sent = 0 /\ rcvd = 0
  /\ last = [putting |-> FALSE, waiting |-> FALSE, data |-> NoItem]

(* Here and below, a definition under "Wrong:" is what a slip in the code  *)
(* would make of the one after it.  Nothing of the model uses it; it is    *)
(* there to show that the properties tell the two apart.                   *)
(* Wrong: ready() forgets the tail.                                        *)
ReadyAlways == TRUE

Ready == tail = NoItem

(* The number of the transaction a send made now carries.                  *)
Fresh == sent + sends + 1

(* Wrong: the bypass overtakes the buffer.                                 *)
FrontOfferFirst ==
  IF Unreg /\ offering THEN sent + sends
  ELSE IF head # NoItem THEN head
  ELSE NoItem

(* What the receiver sees; an offer counts only without a buffered head.   *)
Front ==
  IF head # NoItem THEN head
  ELSE IF Unreg /\ offering THEN sent + sends
  ELSE NoItem

(* Wrong: offer() without its first, or without its second assert.         *)
OfferAllowedTwice == ~(Unreg /\ looked)
OfferAllowedLate == ~offering

(* Whether offer() accepts: one a step, and no look before it.             *)
OfferAllowed == ~offering /\ ~(Unreg /\ looked)

Offer(v) == offering' = TRUE /\ data' = v

-----------------------------------------------------------------------------
(* The sending side.                                                       *)

Poll(p) ==
  /\ ~refused
  /\ p \in todo
  /\ SenderFirst /\ p \in Receivers => todo \subseteq Receivers
  /\ todo' = todo \ {p}
  /\ UNCHANGED made

(* send: the offer, and the push committed at the end of the step.         *)
SendOk(v) ==
  /\ Ready /\ OfferAllowed
  /\ Fresh <= MaxSent
  /\ Offer(v)
  /\ push' = Fresh
  /\ commits' = TRUE
  /\ sends' = sends + 1
  /\ UNCHANGED <<head, tail, pop, through, looked, got, sawNothing, refused>>

(* A failed assert, in send or in offer: the run stops.                    *)
Refuse ==
  /\ refused' = TRUE
  /\ UNCHANGED <<cell, putting, held, reading, sends, got, sawNothing>>

Send(p) ==
  /\ p \in Senders /\ Shared
  /\ Poll(p)
  /\ \/ /\ putting => Fresh < MaxSent
        /\ \E v \in Value : SendOk(v)
        /\ UNCHANGED <<putting, held, reading>>
     \/ ~(Ready /\ OfferAllowed) /\ Refuse
  /\ UNCHANGED <<rst, sent, rcvd, last>>

(* A call of put: its first wait is the next edge.  Here the process has   *)
(* no put before it in this step.                                          *)
StartPut ==
  /\ Poll(Putter)
  /\ ~putting
  /\ Fresh <= MaxSent
  /\ putting' = TRUE
  /\ UNCHANGED <<cell, held, reading, sends, got, sawNothing, refused>>
  /\ UNCHANGED <<rst, sent, rcvd, last>>

(* Wrong: a waiting put reads its closure afresh.                          *)
PutValueUnheld == reading

(* The value a put offers: what it holds, or what its closure reads now.   *)
PutValue == IF Axi /\ held # NoItem THEN held ELSE reading

(* put at an edge with room: it sends and returns, and the process may     *)
(* call the next put in the same step.                                     *)
PutSend ==
  /\ Poll(Putter)
  /\ putting /\ ~(Axi /\ rst) /\ Ready
  /\ \/ /\ SendOk(PutValue)
        /\ putting' \in BOOLEAN /\ (putting' => Fresh < MaxSent)
        /\ held' = NoItem
        /\ UNCHANGED reading
     \/ ~OfferAllowed /\ Refuse
  /\ UNCHANGED <<rst, sent, rcvd, last>>

(* put on an #[axi] port at an edge with no room: it offers and holds.  The *)
(* asserts of offer cannot fail here, which the absence of deadlock shows.  *)
PutOffer ==
  /\ Poll(Putter)
  /\ putting /\ Axi /\ ~rst /\ ~Ready
  /\ OfferAllowed
  /\ Offer(PutValue)
  /\ held' = PutValue
  /\ UNCHANGED <<head, tail, push, pop, through, looked, commits>>
  /\ UNCHANGED <<putting, reading, sends, got, sawNothing, refused>>
  /\ UNCHANGED <<rst, sent, rcvd, last>>

(* put with nothing to do at this edge: a plain port waits for room, an    *)
(* #[axi] port keeps valid low through a reset and forgets what it held.   *)
PutWait ==
  /\ Poll(Putter)
  /\ putting
  /\ IF Axi THEN rst ELSE ~Ready
  /\ held' = NoItem
  /\ UNCHANGED <<cell, putting, reading, sends, got, sawNothing, refused>>
  /\ UNCHANGED <<rst, sent, rcvd, last>>

(* A process that makes no call on the channel in this step.               *)
Idle(p) ==
  /\ Poll(p)
  /\ ~(p = Putter /\ putting)
  /\ UNCHANGED <<cell, client, rst, sent, rcvd, last>>

-----------------------------------------------------------------------------
(* The receiving side.                                                     *)

(* front() that finds nothing remembers the step on an unregistered        *)
(* channel.                                                                *)
Look ==
  /\ looked' = (looked \/ (Unreg /\ Front = NoItem))
  /\ sawNothing' = (sawNothing \/ Front = NoItem)

Peek(p) ==
  /\ p \in Receivers
  /\ Poll(p)
  /\ Look
  /\ UNCHANGED <<head, tail, push, pop, through, offering, data, commits>>
  /\ UNCHANGED <<putting, held, reading, sends, got, refused>>
  /\ UNCHANGED <<rst, sent, rcvd, last>>

(* Wrong: a full buffer is not taken from.                                 *)
TakeableNotFull == Front # NoItem /\ tail = NoItem /\ ~pop /\ ~through

(* recv: takes what is seen, once a step.                                  *)
Takeable == Front # NoItem /\ ~pop /\ ~through

Recv(p) ==
  /\ p \in Receivers
  /\ Poll(p)
  /\ Look
  /\ IF Takeable
     THEN /\ got' = Append(got, Front)
          /\ pop' = (head # NoItem)
          /\ through' = (head = NoItem)
          /\ commits' = TRUE
     ELSE UNCHANGED <<got, pop, through, commits>>
  /\ UNCHANGED <<head, tail, push, offering, data>>
  /\ UNCHANGED <<putting, held, reading, sends, refused>>
  /\ UNCHANGED <<rst, sent, rcvd, last>>

-----------------------------------------------------------------------------
(* The end of the step.                                                    *)

(* Wrong: what the bypass handed over is buffered as well.                 *)
PushedAgain == push

(* Commit::apply without a reset: the pop, then the bypass, then the push  *)
(* into whichever entry is free.                                           *)
Popped == IF pop THEN [h |-> tail, t |-> NoItem] ELSE [h |-> head, t |-> tail]
Pushed == IF through THEN NoItem ELSE push

Apply ==
  /\ head' = IF Popped.h = NoItem THEN Pushed ELSE Popped.h
  /\ tail' = IF Popped.h # NoItem /\ Pushed # NoItem THEN Pushed ELSE Popped.t
  /\ push' = NoItem /\ pop' = FALSE /\ through' = FALSE

(* empty(), by apply and by reset_at, which reaches the channel whether or *)
(* not anything was sent or taken.                                         *)
Empty ==
  /\ head' = NoItem /\ tail' = NoItem
  /\ push' = NoItem /\ pop' = FALSE /\ through' = FALSE

(* Wrong: the look of an earlier step still counts.                        *)
UnstampOffer == offering' = FALSE /\ commits' = FALSE /\ UNCHANGED looked

(* The wires' stamps are of this step; in the next one they are old.       *)
Unstamp == offering' = FALSE /\ looked' = FALSE /\ commits' = FALSE

EndStep ==
  /\ ~refused
  /\ todo = {}
  /\ todo' = Procs
  /\ IF rst THEN Empty
     ELSE IF commits THEN Apply
     ELSE UNCHANGED <<head, tail, push, pop, through>>
  /\ sent' = sent + sends
  /\ rcvd' = IF rst THEN sent' ELSE rcvd + Len(got)
  /\ last' = [putting |-> putting,
              waiting |-> offering /\ sends = 0 /\ ~rst,
              data |-> data]
  /\ Unstamp
  /\ sends' = 0 /\ got' = <<>> /\ sawNothing' = FALSE
  /\ rst' \in BOOLEAN
  /\ reading' \in Value
  /\ UNCHANGED <<made, data, putting, held, refused>>

(* A run whose assert failed has stopped.                                  *)
Stopped == refused /\ UNCHANGED vars

Next ==
  \/ StartPut \/ PutSend \/ PutOffer \/ PutWait
  \/ \E p \in Senders : Send(p)
  \/ \E p \in Procs : Idle(p)
  \/ \E p \in Receivers : Peek(p) \/ Recv(p)
  \/ EndStep
  \/ Stopped

Spec == Init /\ [][Next]_vars

(***************************************************************************)
(* Fairness.  The executor polls every process in every step and then      *)
(* advances, so no process stays in todo and no step lasts.  That a        *)
(* receiver takes, again and again, while it is offered something is its   *)
(* unit's promise (rx.wait().await), and an assumption here.               *)
(***************************************************************************)
Polled(p) ==
  Idle(p) \/ Send(p) \/ Peek(p) \/ Recv(p)
    \/ (p = Putter /\ (StartPut \/ PutSend \/ PutOffer \/ PutWait))

Taken(p) == Recv(p) /\ got' # got

Fairness ==
  /\ WF_vars(EndStep)
  /\ \A p \in Procs : WF_vars(Polled(p))
  /\ \E p \in Receivers : SF_vars(Taken(p))

FairSpec == Spec /\ Fairness

-----------------------------------------------------------------------------
(* Properties.                                                             *)

TypeOK ==
  /\ made \in Makes
  /\ head \in Item /\ tail \in Item /\ push \in Item
  /\ pop \in BOOLEAN /\ through \in BOOLEAN
  /\ offering \in BOOLEAN /\ data \in Value \cup {NoItem}
  /\ looked \in BOOLEAN /\ commits \in BOOLEAN
  /\ rst \in BOOLEAN /\ todo \subseteq Procs
  /\ putting \in BOOLEAN /\ held \in Value \cup {NoItem} /\ reading \in Value
  /\ sends \in 0..1 /\ got \in Seq(Nat) /\ sawNothing \in BOOLEAN
  /\ refused \in BOOLEAN
  /\ sent \in Nat /\ rcvd \in Nat
  /\ last \in [putting : BOOLEAN, waiting : BOOLEAN,
               data : Value \cup {NoItem}]

(* How many entries of the buffer hold a transaction.                      *)
Held == (IF head = NoItem THEN 0 ELSE 1) + (IF tail = NoItem THEN 0 ELSE 1)

(* The two entries hold exactly the transactions sent and not yet taken,   *)
(* the older one in the head: none lost, repeated, reordered or kept       *)
(* across a reset, in whatever order the processes ran (ChanCell::apply).  *)
InOrder ==
  /\ sent = rcvd + Held
  /\ head # NoItem => head = rcvd + 1
  /\ tail # NoItem => head # NoItem /\ tail = rcvd + 2

(* What recv hands over is the oldest transaction sent, at most one a      *)
(* step over all the clones of the receiving end, and only one whose send  *)
(* has returned (Rx::recv).                                                *)
Delivered ==
  /\ Len(got) <= 1
  /\ \A i \in DOMAIN got : got[i] = rcvd + 1 /\ got[i] <= sent + sends

(* The run shows a receiver what the netlist's wires would: it found the   *)
(* channel empty only if, at the end of the step, the buffer was empty and *)
(* an unregistered channel was offered nothing; a run that would differ    *)
(* has been refused (issue 1293; ChanCell::front, Tx::offer).              *)
NetlistView == sawNothing => head = NoItem /\ ~(Unreg /\ offering)

(* A unit that sends only by put, alone at its end and, on an unregistered *)
(* channel, first in the join, is never stopped by an assert of the        *)
(* channel, whatever the receiver does and wherever a reset falls.         *)
PutNeverRefused == ~Shared /\ (Unreg => SenderFirst) => ~refused

(* The AXI rules of a source for an #[axi] port alone at its end (issue    *)
(* 1871): a put offers at the first edge after its call and does not wait  *)
(* for room; what it offered and was not taken it offers again, the same   *)
(* value; and valid is low through a reset.                                *)
AxiSource ==
  Axi /\ ~Shared /\ todo = {} /\ ~refused =>
    /\ rst => ~offering
    /\ last.putting /\ ~rst => offering
    /\ last.waiting /\ ~rst => data = last.data

(* A put of a unit that is alone at its end and whose peer keeps taking    *)
(* sends and returns, if the reset is not asserted for ever and no assert  *)
(* stops the run, also if the unit calls the next one at once.             *)
PutReturns ==
  <>[](~rst /\ ~Shared /\ ~refused) => (putting ~> ~putting \/ sends # 0)

(* The buffer as a sequence, oldest first.                                 *)
Buffered ==
  IF head = NoItem THEN <<>>
  ELSE IF tail = NoItem THEN <<head>>
  ELSE <<head, tail>>

(* A channel implements a queue of two: a step's calls are invisible and   *)
(* its end is one edge of the queue.                                       *)
Q == INSTANCE Queue WITH q <- Buffered, Capacity <- 2

ChannelIsQueue == Q!Spec
=============================================================================
