------------------------------- MODULE EthRx -------------------------------
(***************************************************************************)
(* How a received Ethernet frame reaches its driver, one Tick a cycle of   *)
(* the board's clock: FrameIn (lib/parts/src/ethdma.rs) gathers the bytes  *)
(* FrameLen hands it into words, LineStore (dma.rs) writes them to one of  *)
(* two slots of memory in bursts, its AxiHost (bus/axi.rs) between it and  *)
(* the bus, EthSlots (ethslots.rs) tells of the frame, Plic (plic.rs)      *)
(* interrupts, and the driver (eth_vreteno.c, in zephyr/drivers) claims,   *)
(* copies, acknowledges and completes.                                     *)
(*                                                                         *)
(* A frame is its number, which stands for its bytes and its length, and   *)
(* its words; a beat is the number of its frame.  Anybody may choose how   *)
(* fast the bytes come, how fast the bus takes an address phase and its    *)
(* beats and answers them, and how long each access of the core takes.     *)
(* The channels of the units are those of ChanEnd, but that the two behind *)
(* one another a beat goes through are one channel of four, and the one an *)
(* answer comes through is part of how long it takes.                      *)
(*                                                                         *)
(* A wire read by a unit that the run polls before the unit that drives it *)
(* is a cycle late there; in the netlist no wire is.  late says which.     *)
(***************************************************************************)
EXTENDS Naturals, Sequences, ChanEnd

CONSTANTS
  Beats,      \* BEATS, the longest burst, 16 in the source
  Words,      \* bound: how many words the frames have
  MaxFrames   \* bound: the frames a run may store

ASSUME EthRxAssumption ==
  /\ Beats \in Nat \ {0}
  /\ Words \subseteq Nat \ {0}
  /\ MaxFrames \in Nat

Slots == {0, 1}
Ids == {0, 1}
Frames == 0..MaxFrames       \* 0 is no frame

VARIABLES
  late,      \* the cycles are the run's, not the netlist's
  offer,     \* the words of the frame FrameLen is handing on, or 0
  fin,       \* FrameIn: run, skip, the words to come, its frame, its slot
  words,     \* the channel to the store engine
  store,     \* LineStore: want, left, busy, held, id, the slot of addr
  host,      \* its AxiHost: the identifier that is next, those that are out
  issue, grant, done, release,  \* the channels between the two
  aw, w,     \* the address phases and the beats on their way to memory
  burst,     \* the burst memory is serving, if any
  mem,       \* what each slot holds: whose words, and how many of them
  eth,       \* EthSlots: the frames that wait, rx_was
  plic,      \* Plic, its source for the port: pending, active, asserted
  cpu,       \* the driver: where it is, the frame that waited when it read
             \* pending, the frame and slot it read, its posted stores
  seen,      \* the late wires as they were a cycle ago
  sent, rcvd \* how many frames were taken in, and how many acknowledged

units == <<fin, words, store, host, issue, grant, done, release>>
vars == <<late, offer, units, aw, w, burst, mem, eth, plic, cpu, seen,
          sent, rcvd>>

NoBurst == [id |-> 0, slot |-> 0, left |-> 0, open |-> FALSE]

Init ==
  /\ late \in BOOLEAN
  /\ offer = 0
  /\ fin = [run |-> FALSE, skip |-> FALSE, left |-> 0, n |-> 0, words |-> 0,
            slot |-> 0]
  /\ words = <<>>
  /\ store = [want |-> 0, left |-> 0, busy |-> FALSE, held |-> FALSE,
              id |-> 0, slot |-> 0]
  /\ host = [next |-> 0, busy |-> {}]
  /\ issue = <<>> /\ grant = <<>> /\ done = <<>> /\ release = <<>>
  /\ aw = <<>> /\ w = <<>> /\ burst = NoBurst
  /\ mem = [s \in Slots |-> [n |-> 0, words |-> 0]]
  /\ eth = [q |-> <<>>, rx_was |-> FALSE]
  /\ plic = [pending |-> FALSE, active |-> FALSE, asserted |-> FALSE]
  /\ cpu = [at |-> "idle", saw |-> 0, n |-> 0, slot |-> 0, ack |-> FALSE,
            comp |-> FALSE]
  /\ seen = [running |-> FALSE, full |-> FALSE, irq |-> FALSE]
  /\ sent = 0 /\ rcvd = 0

-----------------------------------------------------------------------------
(* The wires between the units.                                            *)

(* Wrong: the engine is idle once its beats are out.                       *)
RunningBeats == store.want # 0 \/ store.busy

(* LineStore's running.                                                    *)
Running == store.want # 0 \/ store.busy \/ store.held

(* Wrong: one slot in use counts as both.                                  *)
FullOfOne == eth.q # <<>>

(* EthSlots' rx_full: both slots hold a frame, or one does and the frame   *)
(* just stored is about to be counted.                                     *)
Full == Len(eth.q) = 2 \/ (Len(eth.q) = 1 /\ eth.rx_was)

(* Its interrupt line; the driver has enabled it.                          *)
Irq == eth.q # <<>>

(* The wires as the units that come first in the run see them.             *)
SeenRunning == IF late THEN seen.running ELSE Running
SeenFull == IF late THEN seen.full ELSE Full
SeenIrq == IF late THEN seen.irq ELSE Irq

Go == fin.run /\ ~fin.skip            \* FrameIn's store

-----------------------------------------------------------------------------
(* FrameIn.  word: the bytes of a word have come, or of a frame to drop.   *)

(* Wrong: the next frame does not wait for the engine.                     *)
BeginUnheld == ~fin.run /\ offer # 0

Begin == ~fin.run /\ offer # 0 /\ ~SeenRunning
Accept == Begin /\ ~SeenFull
Emit(word) == Go /\ fin.left # 0 /\ word /\ Room(words)
Skip(word) == fin.run /\ fin.skip /\ word

FinStep(word) ==
  /\ fin' =
       IF Begin THEN
         [run |-> TRUE, skip |-> SeenFull, left |-> offer,
          n |-> IF Accept THEN sent + 1 ELSE 0, words |-> offer,
          slot |-> IF Accept THEN 1 - fin.slot ELSE fin.slot]
       ELSE IF Emit(word) THEN [fin EXCEPT !.left = @ - 1]
       ELSE IF Skip(word) THEN [fin EXCEPT !.left = 0]
       ELSE IF fin.left = 0 THEN [fin EXCEPT !.run = FALSE]
       ELSE fin
  /\ sent' = IF Accept THEN sent + 1 ELSE sent

(* FrameLen: the next frame is held whole and its length shown.            *)
OfferStep(new) ==
  /\ new # 0 => offer = 0 /\ sent < MaxFrames
  /\ offer' = IF Begin THEN 0 ELSE IF new # 0 THEN new ELSE offer

-----------------------------------------------------------------------------
(* LineStore.                                                              *)

StartRun == Go /\ ~Running

(* Wrong: a burst is as long as what is left.                              *)
BurstWhole == store.want
Burst == IF store.want < Beats THEN store.want ELSE Beats

Send == ~store.busy /\ ~store.held /\ store.want # 0 /\ Room(issue)

Beat == store.busy /\ Offered(words) /\ Len(w) < 4
LastBeat == Beat /\ store.left = 1
Fin == Offered(done) /\ Room(release)

StoreStep ==
  store' =
    [want |-> IF StartRun THEN fin.words
              ELSE IF Send THEN store.want - Burst
              ELSE store.want,
     left |-> IF Beat THEN store.left - 1
              ELSE IF Send THEN Burst
              ELSE store.left,
     busy |-> IF LastBeat THEN FALSE ELSE Send \/ store.busy,
     held |-> IF Fin THEN FALSE ELSE Offered(grant) \/ store.held,
     id   |-> IF Offered(grant) THEN Head(grant) ELSE store.id,
     slot |-> IF StartRun THEN fin.slot ELSE store.slot]

-----------------------------------------------------------------------------
(* AxiHost, which passes a burst on and grants it an identifier.           *)

Free == host.next \notin host.busy
HostGo == Offered(issue) /\ Free /\ Room(aw) /\ Room(grant)

HostStep ==
  host' =
    [next |-> IF HostGo \/ ~Free THEN 1 - host.next ELSE host.next,
     busy |-> (host.busy \cup (IF HostGo THEN {host.next} ELSE {}))
                \ (IF Offered(release) THEN {Head(release)} ELSE {})]

Granted == [id |-> host.next, slot |-> Head(issue).slot, left |-> Head(issue).left,
            open |-> TRUE]

(* The bus and memory: it takes an address phase and then its beats, and   *)
(* answers a burst whose beats it has all taken.                           *)
Take(takes) == takes /\ ~burst.open /\ Offered(aw)
Land(lands) == lands /\ burst.open /\ burst.left # 0 /\ Offered(w)
Answer(answers) == answers /\ burst.open /\ burst.left = 0 /\ Room(done)

Landed(n, slot) ==
  [mem EXCEPT ![slot] =
     [n |-> n, words |-> IF mem[slot].n = n THEN mem[slot].words + 1 ELSE 1]]

MemStep(takes, lands, answers) ==
  /\ burst' = IF Take(takes) THEN Head(aw)
              ELSE IF Land(lands) THEN [burst EXCEPT !.left = @ - 1]
              ELSE IF Answer(answers) THEN NoBurst
              ELSE burst
  /\ mem' = IF Land(lands) THEN Landed(Head(w), burst.slot) ELSE mem

Channels(word, takes, lands, answers) ==
  /\ words' = Edge(words, Beat, Item(Emit(word), fin.n))
  /\ issue' = Edge(issue, HostGo,
                   Item(Send, [slot |-> store.slot, left |-> Burst]))
  /\ grant' = Edge(grant, Offered(grant), Item(HostGo, host.next))
  /\ aw' = Edge(aw, Take(takes), IF HostGo THEN <<Granted>> ELSE <<>>)
  /\ w' = Edge(w, Land(lands), IF Beat THEN <<Head(words)>> ELSE <<>>)
  /\ done' = Edge(done, Fin, Item(Answer(answers), burst.id))
  /\ release' = Edge(release, Offered(release), Item(Fin, store.id))

-----------------------------------------------------------------------------
(* EthSlots.  acked: the write that acknowledges lands in this cycle.      *)

Arrived == eth.rx_was /\ ~SeenRunning
Pop(acked) == acked /\ eth.q # <<>>
Arrival == [n |-> fin.n, words |-> fin.words, slot |-> fin.slot]

(* Wrong: an arrival goes in front of the frame that waits.                *)
WaitingSwapped(acked) ==
  LET rest == IF Pop(acked) THEN Tail(eth.q) ELSE eth.q IN
    IF Arrived /\ Len(rest) < 2 THEN <<Arrival>> \o rest ELSE rest

(* The frames that wait after this cycle, the oldest first.                *)
Waiting(acked) ==
  LET rest == IF Pop(acked) THEN Tail(eth.q) ELSE eth.q IN
    IF Arrived /\ Len(rest) < 2 THEN Append(rest, Arrival) ELSE rest

EthStep(acked) ==
  /\ eth' = [q |-> Waiting(acked), rx_was |-> SeenRunning]
  /\ rcvd' = IF Pop(acked) THEN rcvd + 1 ELSE rcvd

(* Plic, a level source at a priority above every threshold.               *)
Forward == SeenIrq /\ ~plic.active

(* Wrong: a completion is lost while the line is high.                     *)
PlicStepLoses(claimed, completed) ==
  plic' = [pending  |-> (plic.pending /\ ~claimed) \/ Forward,
           active   |-> (plic.active /\ ~(completed /\ ~SeenIrq)) \/ Forward,
           asserted |-> plic.pending]

PlicStep(claimed, completed) ==
  plic' = [pending  |-> (plic.pending /\ ~claimed) \/ Forward,
           active   |-> (plic.active /\ ~completed) \/ Forward,
           asserted |-> plic.pending]

-----------------------------------------------------------------------------
(* The driver.  reads: the load the core waits for is served in this       *)
(* cycle, or its copy is done or given up, or it takes the interrupt.  A   *)
(* load waits until every posted store has landed.  down: the interface is *)
(* down, and the frame is dropped unread, but acknowledged.                *)
Landable == ~cpu.ack /\ ~cpu.comp

Claims(reads) == cpu.at = "claim" /\ reads /\ Landable

(* What rx_length and rx_slot read, and whose arrival pending tells.       *)
Oldest == IF eth.q = <<>> THEN [n |-> 0, slot |-> 0] ELSE eth.q[1]

Steps(reads, down) ==
  CASE cpu.at = "idle" /\ reads /\ plic.asserted ->
         [cpu EXCEPT !.at = "claim"]
    [] Claims(reads) ->
         [cpu EXCEPT !.at = IF plic.pending THEN "pending" ELSE "idle"]
    [] cpu.at = "pending" /\ reads /\ eth.q = <<>> ->
         [cpu EXCEPT !.at = "idle", !.comp = TRUE]
    [] cpu.at = "pending" /\ reads /\ eth.q # <<>> /\ ~down ->
         [cpu EXCEPT !.at = "length", !.saw = Oldest.n, !.n = 0]
    [] cpu.at = "pending" /\ reads /\ eth.q # <<>> /\ down ->
         [cpu EXCEPT !.at = "idle", !.saw = Oldest.n, !.n = 0,
                     !.ack = TRUE, !.comp = TRUE]
    [] cpu.at = "length" /\ reads ->
         [cpu EXCEPT !.at = "slot", !.n = Oldest.n]
    [] cpu.at = "slot" /\ reads ->
         [cpu EXCEPT !.at = "copy", !.slot = Oldest.slot]
    [] cpu.at = "copy" /\ reads ->
         [cpu EXCEPT !.at = "idle", !.ack = TRUE, !.comp = TRUE]
    [] OTHER -> cpu

(* Its posted stores land in any order, being to different peripherals.    *)
CpuStep(reads, down, acked, completed) ==
  /\ acked => cpu.ack
  /\ completed => cpu.comp
  /\ cpu' = LET next == Steps(reads, down) IN
       [next EXCEPT !.ack = @ /\ ~acked, !.comp = @ /\ ~completed]

-----------------------------------------------------------------------------
Tick(new, word, takes, lands, answers, reads, down, acked, completed) ==
  /\ OfferStep(new)
  /\ FinStep(word)
  /\ StoreStep
  /\ HostStep
  /\ MemStep(takes, lands, answers)
  /\ Channels(word, takes, lands, answers)
  /\ EthStep(acked)
  /\ PlicStep(Claims(reads), completed)
  /\ CpuStep(reads, down, acked, completed)
  /\ seen' = IF late THEN [running |-> Running, full |-> Full, irq |-> Irq]
             ELSE seen
  /\ UNCHANGED late

(* What nobody waits for in a cycle changes nothing in it.                 *)
If(waited) == {FALSE} \cup (IF waited THEN {TRUE} ELSE {})

Next ==
  \E new \in {0} \cup (IF offer = 0 /\ sent < MaxFrames THEN Words ELSE {}),
     word \in If(fin.run /\ fin.left # 0),
     takes \in If(~burst.open /\ Offered(aw)),
     lands \in If(burst.left # 0 /\ Offered(w)),
     answers \in If(burst.open /\ burst.left = 0),
     reads \in If(cpu.at # "idle" \/ plic.asserted),
     down \in If(cpu.at = "pending" /\ eth.q # <<>>),
     acked \in If(cpu.ack), completed \in If(cpu.comp) :
    Tick(new, word, takes, lands, answers, reads, down, acked, completed)

Spec == Init /\ [][Next]_vars

(***************************************************************************)
(* Fairness: the clock runs; the bytes of a frame come; the bus takes what *)
(* it is offered and answers; the core goes on, and its stores land.  Each *)
(* is a weak fairness, with what enables the step spelled out.             *)
(***************************************************************************)
Quiet == Tick(0, FALSE, FALSE, FALSE, FALSE, FALSE, FALSE, FALSE, FALSE)

BytesCome ==
  []<>~(fin.run /\ fin.left # 0 /\ (fin.skip \/ Room(words)))
    \/ []<><<fin' # fin>>_vars
BusMoves ==
  []<>~(IF burst.open THEN burst.left = 0 \/ Offered(w) ELSE Offered(aw))
    \/ []<><<burst' # burst>>_vars
CoreMoves ==
  []<>~(IF cpu.at = "idle" THEN plic.asserted
        ELSE cpu.at = "claim" => Landable)
    \/ []<><<cpu'.at # cpu.at>>_vars
AckLands == []<>~cpu.ack \/ []<><<~cpu'.ack>>_vars
CompLands == []<>~cpu.comp \/ []<><<~cpu'.comp>>_vars

FairSpec ==
  Spec /\ WF_vars(Quiet)
    /\ BytesCome /\ BusMoves /\ CoreMoves /\ AckLands /\ CompLands

-----------------------------------------------------------------------------
TypeOK ==
  /\ late \in BOOLEAN /\ offer \in Words \cup {0}
  /\ fin \in [run : BOOLEAN, skip : BOOLEAN, left : Nat, n : Frames,
              words : Nat, slot : Slots]
  /\ words \in Seq(Frames) /\ Len(words) <= 2
  /\ store \in [want : Nat, left : 0..Beats, busy : BOOLEAN, held : BOOLEAN,
                id : Ids, slot : Slots]
  /\ host \in [next : Ids, busy : SUBSET Ids]
  /\ issue \in Seq([slot : Slots, left : 1..Beats])
  /\ grant \in Seq(Ids) /\ done \in Seq(Ids) /\ release \in Seq(Ids)
  /\ aw \in Seq([id : Ids, slot : Slots, left : 0..Beats, open : BOOLEAN])
  /\ w \in Seq(Frames) /\ Len(w) <= 4
  /\ burst \in [id : Ids, slot : Slots, left : 0..Beats, open : BOOLEAN]
  /\ mem \in [Slots -> [n : Frames, words : Nat]]
  /\ eth \in [q : Seq([n : Frames, words : Nat, slot : Slots]),
              rx_was : BOOLEAN]
  /\ Len(eth.q) <= 2
  /\ plic \in [pending : BOOLEAN, active : BOOLEAN, asserted : BOOLEAN]
  /\ cpu \in [at : {"idle", "claim", "pending", "length", "slot", "copy"},
              saw : Frames, n : Frames, slot : Slots, ack : BOOLEAN,
              comp : BOOLEAN]
  /\ seen \in [running : BOOLEAN, full : BOOLEAN, irq : BOOLEAN]
  /\ sent \in Nat /\ rcvd \in Nat

(* From the moment the driver can read of a frame until it acknowledges    *)
(* it, the whole frame is in memory, in the slot it is told, with the      *)
(* length it is told: the fall of running comes after the last answer (the *)
(* comments of EthSlots::run and of the board's rx_busy), and no later     *)
(* frame lands on it (issue 1313).                                         *)
StoredWhenTold ==
  \A k \in DOMAIN eth.q :
    mem[eth.q[k].slot] = [n |-> eth.q[k].n, words |-> eth.q[k].words]

(* An acknowledgement, which lands when it may, takes off the frame the    *)
(* driver found waiting and no other: the one whose length and slot it     *)
(* read, both, or the one it dropped with the interface down, before it    *)
(* read any (issue 1313).                                                  *)
AcksWhatItRead ==
  [][rcvd' # rcvd =>
       /\ eth.q[1].n = cpu.saw
       /\ cpu.n # 0 => eth.q[1].n = cpu.n /\ eth.q[1].slot = cpu.slot]_vars

(* The frames taken in that the driver has not acknowledged: those it is   *)
(* told of, and the one on its way.                                        *)
OnItsWay ==
  /\ fin.n # 0
  /\ fin.run \/ Running \/ (late /\ seen.running) \/ eth.rx_was
Unreleased ==
  [k \in DOMAIN eth.q |-> eth.q[k].n] \o Item(OnItsWay, fin.n)

(* The port is a queue of two frames: each one taken in is told of once,   *)
(* in order, none is lost, and no third is taken in while two are there.   *)
Q == INSTANCE Queue WITH q <- Unreleased, rst <- FALSE, Capacity <- 2

FramesAreQueue == Q!Spec

(* A frame is dropped only while the driver has yet to release two (the    *)
(* comment of EthSlots::run; in a run the drop may be a cycle late).       *)
DropsOnlyWhenFull ==
  [][~late /\ fin'.run /\ fin'.skip /\ ~fin.run => Len(Unreleased) = 2]_vars

(* Every frame the port is offered is taken in or dropped, and every frame *)
(* taken in is acknowledged in the end: no wake-up is lost, in whichever   *)
(* order the acknowledgement and the completion land.                      *)
AllServed ==
  /\ (offer # 0) ~> (offer = 0)
  /\ \A n \in 1..MaxFrames : (sent >= n) ~> (rcvd >= n)
=============================================================================
