# A TLA+ model of TxHDL's channels, bus and network

TxHDL is a hardware description language embedded in Rust.  A unit is a
struct of registers with an `async run`; units are joined by channels, and one
source runs as a program (`lib/src/comp.rs`) and lowers to a netlist.  This
directory specifies in TLA+ what the channels and the parts built from them
(`lib/parts/src`) promise, model-checks it with TLC on small instances, and
proves its safety for any instance with TLAPS: the channel, as the runtime has it and as
a unit, the FIFO, the channel across clocks, the arbiter, exclusive pairs, the
network's lattice and
its bridges, and the receiving path of the Ethernet port.

Paths below are relative to the repository's root.  To run a model:
`tlc -config MCFifo.cfg MCFifo`; to check proofs: `tlapm Fifo_proofs.tla`, and
so for every module whose name ends with `_proofs`, and `ModelLemmas`.


## The system

| part | state | operations | interacts with | what is hard |
|---|---|---|---|---|
| **Channel**, `lib/src/comp.rs` | a buffer of two, the wires of the step, step stamps | `send`, `put`, `peek`, `recv` (and `wait`, `take`, `recv_if`), commit at the end of a step, reset | the processes at its ends, polled in the order of the join | the order of polling, the bypass of an unregistered channel, a put waiting through a reset |
| **Kernel**, `lib/src/comp.rs` | time, registers, commits, reset, per-process edges | `rising`, `until`, `join`, `advance`, `Reg`/`Mem` | every unit | two waits in a step, reset against drives |
| **Buffer**, `lib/parts/src/buffer.rs` | two entries, two full bits | one cycle | must behave as a channel | push and pop together |
| **Fifo**, `lib/parts/src/fifo.rs` | memory, two pointers, a full bit | one cycle | two channels | the wrap, full against empty |
| **ChanCdc**, `lib/parts/src/cdc.rs` | memory, binary and Gray pointers, two flops a side | an edge of either clock | two channels on two clocks | old and mid-change samples |
| **Arbiter**, `lib/parts/src/bus/arbiter.rs` | two turns, a write lock, the exclusive hold | one cycle | several AXI hosts, one link | fairness, beats without identifiers, the hold's end |
| **ExMon**, `lib/parts/src/bus/exmon.rs` | two reservations, the writes in flight, a burst to drop, an answer to give | one cycle | the arbiter above it, memory below, the harts' pairs | reads and writes without an order, a decision and a write a cycle apart |
| **HostBridge**, `lib/parts/src/bus/noc/bridge.rs` | the burst being split, the merge, a refusal | one cycle | a host, the network | several writes open at a time |
| **PerBridge**, same file | the identifiers given out, and for whom | one cycle | the network, a peripheral | slow answers, a table read while it is rewritten |
| **Switch, Node, Mesh**, `lib/parts/src/bus/noc/` | a turn per switch | one cycle | the neighbours, the bridges | starvation, deadlock, order |
| **AxiHost, AxiPer**, `lib/parts/src/bus/axi.rs` | the turn and the outstanding identifiers | one cycle | a client, a link | release against issue |
| **Ethernet, receiving**: `FrameIn`, `FrameLen` (`lib/parts/src/ethdma.rs`), `LineStore` (`dma.rs`), `EthSlots` (`ethslots.rs`), `Plic` (`plic.rs`), the driver (`zephyr/drivers/ethernet/eth_vreteno.c`) | a frame's progress, two slots, an interrupt's gateway, the driver's posted stores | one cycle of each | one another, by wires and channels; memory; software | "stored" told too early, an acknowledgement racing an arrival, a lost wake-up |
| **Router, AXI-Lite, Wishbone**, `lib/parts/src/bus/` | per unit | one cycle | links | answers from several peripherals |
| **Ethernet transmitting and sharing, watchdog, stations, set-associative table, MMU**, `lib/parts/src/` | per unit | registers, cycles | software and a link | software racing the hardware |
| **Vreteno core, Razboj GPU**, `cpu/`, `gpu/` | pipelines, caches | instructions | the bus | the core pair's cache snooping |
| **Lowering, netlist, tools, boards, docs** | none at run time | a compiler and scripts | | input is source text: not for a model checker |

The parts meet only in channels and wires: a unit reads what the last edge left
(`ready`, `peek`), and its sends, takes and register drives commit together at
the end of the step.  That is why one action per cycle is faithful for a unit
whose channels are registered, and why the channel itself is modelled below
that, call by call.  A plain wire is different: the runtime polls units one
after another, so a unit that reads a wire before its driver has been polled
sees it a cycle late, which the netlist does not.  `EthRx`, where the units
are joined by wires, runs both ways.  All of `PROJECT.json`'s components are in
the table; its `hazards` give the lines where each difficulty sits.

What makes each part correct, in one line: a buffer of any kind is a bounded
FIFO that loses, repeats and reorders nothing and passes everything on; an
arbiter lets everyone have its turn and mixes no two bursts; a
store-conditional that stores ends an atomic pair and every answer is true; a
bridge answers each request once, truthfully and to whoever asked; a network
delivers in order and never jams; a frame the driver is told of is whole in
memory, and none is forgotten.


## Modules

`Queue` is the abstract specification: a bounded FIFO of numbered
transactions, which a reset empties.  `Channel`, `Buffer`, `Fifo`, `ChanCdc`
and, for whole frames, `EthRx` each implement it, and say so with an `INSTANCE`
under a refinement mapping.  The transactions carry numbers, the order in which
their sends returned, so that "lost", "repeated" and "reordered" are
arithmetic; no buffer looks at what it carries.

`ChanEnd` is a channel as a unit at its end sees it, from edge to edge: a
sequence of at most two.  That this is all a unit can see is what `Channel`
checks and `Channel_proofs` proves (`ChannelIsQueue`).  The units below use it
for their channels.

* `Channel` (with `Channel_proofs`, `ModelLemmas`): the cell of `comp.rs` within
  a step.  A step starts with every process in `todo`; the actions `StartPut`,
  `PutSend`, `PutOffer`, `PutWait`, `Send`, `Peek`, `Recv` and `Idle` are the
  calls a process makes when it is polled, in any order, or the sending side
  first as an unregistered channel asks; `EndStep` is `advance()`.  The step
  stamps of the source (`offer_at`, `looked_at`) are Booleans that `EndStep`
  clears.  A failed assert stops the run (`refused`).  `made` says how the
  channel was made and used, and never changes, so that one run looks at four
  kinds of channel.
* `Buffer` (its proofs are in `Channel_proofs`, as instance `B` of
  `ChannelUnit`): the same channel as registers, one action per cycle.
* `ChannelUnit` (with `MCChannel`): `Buffer` beside `Channel`, driven by the
  same wires, step by step: the unit against the runtime's cell, as the test
  `buffer_is_the_runtime_channel` compares them.  A netlist's own channels are
  neither: they are the hand-written `<top>_txhdl_chan` (`buffer.rs`, its head),
  which is not modelled.
* `Fifo` (with `Fifo_proofs`): the unit with both its channels.
* `ChanCdc` (with `ChanCdc_proofs`): one action per instant at which the writing clock, the reading
  clock or both have an edge.  A flop that samples the other clock's pointer
  at the very instant that it changes catches each bit before or after
  (`Samples`).  The runtime's own instants read before they write, which is
  one of these outcomes; the others are the hardware's.
* `Arbiter` (its proofs are the first part of `Exclusive_proofs`): the wires are the source's, with its names.  Hosts offer between
  cycles; the link's room, the arrival of beats and answers are anybody's
  choice.  `rpassed` and `wpassed` count grants for the properties, and nothing
  else reads them.
* `Exclusive` (composes `Arbiter` with `ExMon`; with `Exclusive_proofs`): two
  harts' exclusive pairs
  (`LoadReserved`, `StoreConditional`) and plain writes (`Write`), which keep a
  reservation as the core's plain stores do, so that a hart may write inside its own
  pair, one cycle of
  the arbiter and the monitor together (`MonCycle`), and a memory that lands
  writes in order and serves reads when it likes (`Land`, `Sample`,
  `Respond`).  The arbiter's outgoing channels are the monitor's incoming ones.
  `fresh` is what a host has read and nobody has since overwritten, and
  `hart[h].stored` whether its write landed: nothing but properties reads them.
* `HostBridge`: the write side of the bridge.  `want` is what the host was
  promised for each identifier, counted from the packets' answers, and
  `wrong` records an answer that breaks the promise.
* `PerBridge`: the other end, whole: identifiers given out in turn, the tables
  that lead an answer home, write answers before read beats.
* `NocExit` (composes `HostBridge` and `PerBridge`; with `NocExit_proofs`): a host that writes and a
  node that reads share a peripheral over the network, which keeps the order
  from one node to another and takes any time.  The environment that
  `HostBridge` leaves open, the answers, is now what `PerBridge` and the
  peripheral really send.
* `Mesh` (with `MCMesh`, `MCMeshBusy`, `Mesh_proofs`): a cycle of every switch of a lattice
  at once, for one virtual channel; a node's two share nothing.
* `EthRx` (with `EthRx_proofs`): a received frame from `FrameIn` to the driver's acknowledgement, all
  units at once in `Tick`, each with an operator of its own (`FinStep`,
  `StoreStep`, `HostStep`, `MemStep`, `EthStep`, `PlicStep`, `CpuStep`).  A
  frame is its number and its words, memory is how many words of which frame
  each slot holds.  `late` chooses, once, between the run's wires and the
  netlist's.  Here the driver is the program's own: it claims, finds the frame
  waiting, reads length and slot and copies, or drops the frame unread if the
  interface is down, and posts the acknowledgement and the completion, which land
  in either order.

`ModelLemmas` is what the proofs share about data: least numbers, sequences of
at most two, and ranges of numbers that come round.

An operator under a comment that starts with "Wrong:" is what a slip in the
code would make of the definition after it.  No specification uses one; put in
place of that definition, each makes the property it is meant for fail, which
`PROJECT.json` lists under `mutants`.


## Runs

| run | instance and bounds | shows |
|---|---|---|
| `MCChannel` | a putter, a sender, two receivers, two data values, four kinds of channel, 4 transactions | the channel is a queue of two in every order of polling and resets; the netlist's view; the unit `Buffer` agrees with it at every edge; AXI's rules for `put`; a put returns |
| `MCFifo` | depth 4, 12 transactions | a queue of D + 4; locks up never |
| `MCChanCdc` | depth 4, pointers of 3 bits, 9 transactions | a queue of D + 4 across clocks; each side errs to the safe side; all arrives |
| `MCArbiter` | 3 hosts, writes of one beat, one read per identifier, one write | turns; the answers' way home |
| `MCArbiterPrio` | 3 hosts, host 0 preferred | *violated*: the others do not take turns |
| `MCExclusive` | 2 harts, 2 lines, writes of one or two beats, plain ones by one of the harts, inside its own pair too, a hold of two cycles, one access open per hart | bursts whole; the hold keeps others' writes out; a pair that stores is atomic; answers are true; nobody waits for ever |
| `MCNocExit` | 2 identifiers of the host, 1 to 3 beats, 2 writes open, counts of 3 bits, 2 local identifiers, reads of 2 beats | each write answered once, rightly; every packet led home; everyone answered |
| `MCHostBridgeShort` | 2 identifiers, up to 2 beats, 2 writes open | *violated*: a short write overwrites the merge |
| `MCMesh` | 2 by 2, three flows of 3, 3 and 1 packets | course, order, turns, delivery |
| `MCMeshBusy` | 2 by 2, steady traffic | *violated*: an input waits on more than four others |
| `MCEthRx` | bursts of 2, frames of 2 or 4 words, 3 frames, wires late or not | a frame told of is whole in memory; the acknowledgement takes off the frame the driver found waiting, read or dropped; frames in order, dropped only at two, none forgotten |
| `MCEthRxShort` | bursts of 2, frames of 3 words | *violated*: a frame is counted before memory has it |

**Why the bounds are enough.**  A channel holds two, so four transactions
fill it, empty it and fill it again.  The pointers of `Fifo` come round three
times in twelve transactions, so every pair of positions meets every
occupancy; those of `ChanCdc`, twice as long, once and a wrap.  Three hosts
are the fewest among which one can be passed over by two others; more hosts
add positions of the same turn.

In `MCExclusive` the monitor watches two ports, as the source's does.  Two lines
let a write of two lines cover a reservation it does not start at, and a write
of one miss it.  A hart has one access open because the core waits so for its
A instructions.  Plain writes are one hart's: it writes inside its own pair, and
into the other's, and the ports are alike but for the turn; `ExclusivePairAtomic` is
of any `Writers`.  The hold counts from `HoldMax`, 127 in the source; two cycles
let it end before, at and after each of the events it races.  `x` and
the channels hold what several accesses at once leave behind: a failed write's
answer of one hart and the store of the other are in flight together.

A bridge merges one burst, so a second write is all that can interfere with
it; lengths 0, 1 and 2 are a single packet, one with no middle and one with a
middle beat.  Two local identifiers come round, and both can be out while a
third request waits; the host and the reader use the same identifier, which only
the tables tell apart.  The host has a second write open only if both are to be
split: what happens otherwise is the finding of `MCHostBridgeShort`.

The three flows of `MCMesh` use links in all four directions, and make a
switch choose between inputs for one port and for two; six packets and a reader
that stops fill the whole way from the exit to the sources.

Bursts of sixteen are scaled to two in `EthRx`: a frame is one burst, or two.
Three frames fill both slots and make the third wait or be dropped; more only
come round the two slots again.  The passing run keeps to frames whose last burst has two beats,
the violation run to one beat: see the fourth disagreement.  The two channels
that follow one another on the way of a beat are one of four, which only adds
the orders of its two halves.

**Fairness.**  `run_for` polls every process in every step and then advances
(`comp.rs`, `run_for`, `advance`), so a step's calls happen and time passes:
weak fairness of `EndStep` and of each process's poll in `Channel`, and of
"what the unit can do it does" in the others, which are clocked.  What is
outside a unit is fair only where a property needs it, and the module says so:
a receiver takes what it is offered in the end, the network answers each
packet, the bus takes address phases and beats and answers them, memory lands
and serves what it has taken, the core goes on and its stores land.  Nobody
ever has to begin anything: a hart need not write the second half of its pair,
a host need not send, a frame need not come.  The one strong fairness is
`ReaderLeaves` of `NocExit`: the network has room again and again rather than
for good, and a round robin, which `MCMesh` shows, lets the reader in.
The properties that need the reset to stay away say `<>[]~rst`.
`EveryAccessEnds` has two premises: a write ends if exclusive reads cease,
since the owner's own reads renew its hold without limit (`arbiter.rs`,
`h_start`), and an exclusive read ends if plain writes cease, since `quiet`
can be missed for as long as others write.  In `Arbiter`, `Mesh` and `EthRx`
the fairness conditions are written out (`[]<>~enabled \/
[]<><<happened>>_vars`), which is the same formula with ENABLED spelled by
hand; TLC checks it much faster.


## Disagreements between the code and its documentation

Each is a run that expects the violation.

1. `Arbiter`'s doc says that with `PRIO` the round robin "goes on as before
   among the others".  Every grant moves the turn, the preferred host's too,
   so it sends the turn back to the first of the others (`MCArbiterPrio`).
2. `HostBridge`'s doc says that a write of one beat need not wait for a burst
   being merged, and that the burst is answered once, when the last answer is
   in.  The first beat of *any* write stores its identifier in `sid`, by which
   the merge finds its answers (`MCHostBridgeShort`).  `MCNocExit` checks
   the hosts this does not happen to, such as one with a write open at a time.
3. `Switch`'s doc says that an input waits on at most four others.  That holds
   while the port it wants keeps having room (`TurnComes` of `MCMesh`).  When
   the room comes every other cycle, as behind a switch that itself takes
   turns, a third input's move in between resets the turn and an input can
   wait for ever (`MCMeshBusy`).
4. `EthSlots` and the board say that the fall of the store engine's `running`
   is the first moment at which the frame is certainly in memory.  It is the
   or of three registers; when the last burst is one beat and the beat waits
   already, it goes out in the cycle in which the tracker grants the burst, and
   for a cycle none of the three is set (`MCEthRxShort`).  The pulse of `running`
   that follows is a second frame to the port: a fall counts one, and the true
   end of the write falls again.  The frames are those
   of 65 to 68 bytes, and of 64 more each; `StoredWhenTold` holds of the others
   (`MCEthRx`).

Also seen, and not made a run: a second wrapping burst refused before the
first was answered replaces its identifier (`bridge.rs`, `bad`); the count of
answers wraps for a burst of 256 beats (`pend`, known to
`docs/noc-bursts.md`); a host that streams writes starves its own reads
(`bridge.rs`, `go_r`), which is meant.


## Proofs

Each theorem holds for every value of its module's constants: every depth,
number of hosts, size of lattice, length of burst, bound.  All rest on the
assumptions the modules state for their constants, which TLC evaluates in the
runs; what else a theorem assumes is named below.

**The channel** (`Channel_proofs`): `ChannelType`, `ChannelInOrder`,
`ChannelDelivered`, `ChannelNetlistView`, `ChannelPutNeverRefused`,
`ChannelAxiSource`, and the refinement `ChannelImplementsQueue`.  `InOrder`
speaks of the buffer as the last edge left it and is not inductive: within a
step the send to be committed, the take and the bypass are in flight.  The
invariant `Inv` adds what is known of them.  `Collected`: at most one send in a
step, and then `push` is its number; a take stands exactly if a receiver was
handed something, and says whether it came from the buffer or through the
bypass.  `Looked`: an unregistered channel whose receiver looked in vain is
offered nothing after.  With it, every call of a process leaves the abstract
queue as it is (a stuttering step) and `EndStep` is one `Move` or `Flush`.  That
the queue's arithmetic comes out right is a lemma about sequences of at most two
consecutive numbers, `NumberedMove` of `ModelLemmas`.  The promises of `put`
rest on two more invariants, about a step in which the putter has, or has not
yet, had its turn.  `Alone`: before it, nothing is offered and, if its side is
first in the join, nothing has looked.  `Holding`: before it, the put is as the
last edge left it; after it, the source's rules are kept already.

**The registers in its place**: `BufferType`, `BufferInOrder`,
`BufferTakeMakesRoom` and `BufferImplementsQueue` (`Channel_proofs`, about the
instance `B` of `ChannelUnit`); `TypeOK /\ InOrder` is inductive as it stands, for
at an edge the registers say all there is to know.  `ChannelUnitAgrees` puts the
two side by side: with the same wires, registers and cell hold the same at every
edge.

**The FIFO** (`Fifo_proofs`): `FifoType` and `FifoImplementsQueue`, of any
depth, a power of two or not.  The pointers alone do not tell an empty memory
from a full one, so the invariant is that for some `n` the tail is `n` slots
behind the head round the wrap, and the full bit is set exactly if `n = D`
(`Held`); the words between them are the numbers that follow those in the
outgoing channel (`Words`), and the two channels hold the rest (`Ends`).

**The channel across clocks** (`ChanCdc_proofs`): `CdcType`, `CdcConservative`,
`CdcSettled` and the refinement `CdcImplementsQueue`, of any width of an
address.  A side never sees the other's pointer, only the Gray code of an
earlier one, so the proof has two halves.  *Bits*: a Gray code tells every
pointer from every other (`GrayInjective`); from one pointer to the next, the
wrap included, one bit of it changes (`GrayApart`), so that a flop caught in
the middle of a change holds the old pointer or the new one and never a third
(`SampleOldOrNew`); and codes that differ in just their two top bits, which is
what `full` compares, are a lap apart (`OppositeIsLap`).  These are inductions
over bit positions, written as the least position at which something fails.
*Pointers*: going round from the pointer the writer decides on, one meets the
writer's first flop, the reader's own pointer, the pointer the reader decides
on, the flop behind that and the writer's own, all within one lap (`Placed`);
so each side errs to the safe side.  `Words` and `Ends` then say, as for the
FIFO, which numbers lie where.  A reset comes to the two sides at edges of
their own, and what the memory holds means something only while neither is in it
(`Standing`); `Clearing` says what a reset under way has cleared already, which
is what makes both sides agree when it ends.  `CdcSettled` says that a side errs
only by what has yet to pass its flops: with them settled, full and empty are
exact.  The model's `PowerAssumption` states what the provers need of `2 ^ i`.

**The arbiter** (`Exclusive_proofs`, first part): `ArbiterType`, `ArbiterBurstsWhole`,
`ArbiterAnswersHome`, `ArbiterHoldWhole`, and `ArbiterTakeTurns`, which assumes
that the arbiter is fair and prefers no host (with a preferred one it is false,
`MCArbiterPrio`).  `BurstsWhole` needs that the lock belongs to the oldest write
whose beats are not all out (`LinkHeld`), and that what a host has yet to hand
over is the rest of its burst on the link followed by the burst it shows
(`BeatsShown`).  `TakeTurns` needs where the turn stands: whoever has been
granted once since another began to wait is behind that other in the round
robin (`Turns`).  The provers know nothing of powers; `PowerAssumption` states
the three facts about `2 ^ I` and `2 ^ J` that the tags need.

**Exclusive pairs** (`Exclusive_proofs`): `ExclusiveType`, `ExclusivePairAtomic`,
`ExclusiveAnswersTrue`, and that the arbiter's own promises hold behind the
monitor (`ExclusiveBurstsWhole`, `ExclusiveHoldWhole`, `ExclusiveAnswersHome`, and
with a fair arbiter `ExclusiveTakeTurns`).  `PairAtomic` speaks of
the moment at which a write lands, long after the monitor let it pass.  The
invariant `MonInv` says where every access is, and that it is in one place only
(`ReadsPlaced`, `WritesPlaced`, `Known`); that while a reservation stands no
write on its way to memory covers its line, and memory holds what was read there
or the read is still to be served (`Reserves`); that a decision to store
stands until the write is taken, a cycle or more later (`Decided`); and that a
pair's write goes behind no write that covers its line (`PairsWhole`).
`ExclusiveNeverStuck` is that none of the monitor's waits meets another in a
circle: while a host has an access open, the arbiter, the monitor or memory can
take its next step, or a hold is running down (which alone does not say that it
ends: its owner's reads may renew it, see `EveryAccessEnds`).  It follows from where
every access is, and from `BeatsFollow`: each write the arbiter has granted, and
the monitor's current burst, has its last beat still to come, so a monitor that
waits for a beat gets one.

**The lattice** (`Mesh_proofs`): `MeshType`, `MeshOnCourse`, `MeshInOrder`,
`MeshTurnComes` and `MeshNeverJams`, for any number of columns and rows and any flows.  A packet
that catches up with an earlier one of its flow can only do so in one channel,
because a flow has one way: so `InOrder` rests on `OnCourse`, and they are
proved together (`Ordered`).  `MeshNeverJams` is that routing along X before Y
cannot deadlock: channels have a `Height`, which every packet's way descends
(from its source along X, then along Y, to the exit), so of the channels that
hold a packet the lowest has room ahead, and its switch finds something to move
(`LowestMoves`).

**The Ethernet port, receiving** (`EthRx_proofs`): `EthRxType`,
`EthRxAcksWhatItRead` and `EthRxOneInterrupt`, and, under `NoShortBurst`, `EthRxStoredWhenTold`,
`EthRxDropsOnlyWhenFull` and the refinement `EthRxFramesAreQueue`.
`NoShortBurst` says that no burst has a single beat, the last one of a frame
included; without it the first of the three is false (`MCEthRxShort`), and the
others with it, since such a frame is counted twice.  The invariant has three
layers.  `OneBurst`: the store engine's one burst is in one of six stages from
request to answer, with its remaining beats accounted for.  `OneFrame`: a frame is
not there, begun, being stored or stored, and each of its words is with the
frame unit, on its way, or in memory.  `Told`: the frames the driver may read
are consecutive, in alternating slots, and whole.  `LateWires` says what the
run's wires can still show of the cycle before, which is how the theorems cover
the run and the netlist at once.  `AcksWhatItRead` needs none of these, only
that the frame the driver found waiting stays the oldest until its acknowledgement
lands, and that what it read, if it read, is of that frame (`Reading`).  `EthRxOneInterrupt` is about the wake-up: the gateway of the
interrupt controller is closed exactly while one interrupt is pending, claimed by
the driver, or its completion is on the way, and never two of these; so it never
stays closed with nobody left to open it.

**The bridges** (`NocExit_proofs`): `HostAnswersRight` for `HostBridge` alone,
whatever a network answers to the packets it has, and `NocExitType`,
`NocExitAnswersRight`, `NocExitPacketsKept`, `NocExitNoneLost` and
`NocExitNeverStuck` for the two bridges, the host and the reader together, for any
number of identifiers on either side and any lengths.  All assume `Heeds`: the host has several writes open only if each is to be
split (otherwise the answers go wrong, `MCHostBridgeShort`), and no burst has as
many beats as the count of answers has values (otherwise the count starts at zero,
the hazard listed at `pend`).  A host with one write open and bursts of less than
256 beats meets both.  (`HostBridgeAssumption` tells the provers the one thing they
need of `2 ^ LenBits`.)  `HostInv` says where each open write of the host is: queued,
being split or merged, or refused, and in one place only (`Waits`, `Merges`,
`Fails`, `Others`, `Apart`); that the bursts' beats follow one another as the
address phases do (`Beats`); and that the count of the merge is what the network
has still to answer and what is still to be sent (`Merges`).  `ExitInv` adds
`PacketsKept`, which is nearly inductive: each packet a node waits for is in one
channel, queue or table of the exit.  It needs to know that a local identifier is
given out from the request until its last answer has left, and to one request
(`Held`), and that of the reader's beats only the last says so (`OneRead`), for
else an answer could free an identifier that is still in use.  `OneRead` is about
the reader of the model, which has one read of at most two beats open.  The step
lemmas count: an entry that moves from one channel to the next leaves the sum as
it is (`HitsAppend`, `HitsTail`).  `NoneLost` says that a local identifier that is
given out is held by a request the peripheral has still to serve or by an answer
that frees it.  With it and the invariant, `NocExitNeverStuck` goes round the exit
once: if nothing can move then the way home is empty, so nothing is with the
peripheral, so every identifier is free, so no request waits, so nothing is owed
to anyone (`AllHome`), and a bridge that is owed nothing has nothing open
(`AllTold`).

**Only model-checked** is liveness, since it rests on fairness and ENABLED, which
the prover does not do: `PutReturns`, `Through` (of `Fifo` and of `ChanCdc`),
`EveryAccessEnds`, `EveryoneAnswered`, `Drains` and `AllServed`.  Every other
property of the passing runs is the statement of a theorem.  Of what liveness needs,
the theorems give the part that is safety: the buffers are queues whose flags
become exact (`CdcSettled`), turns come (`ArbiterTakeTurns`, `MeshTurnComes`),
nothing deadlocks in the lattice, at its exit, or between arbiter, monitor and
memory (`MeshNeverJams`, `NocExitNeverStuck`, `ExclusiveNeverStuck`), and no interrupt is lost (`EthRxOneInterrupt`).


## Not modelled

Data that passes through (addresses, payloads, strobes, hints) and what is
computed from it, such as which node an address is for.  Counters and switches
that only a test reads: `htimeouts`, and in `ExMon` `fails`, `xdup`,
`alternate` and `flip`.  A read through `Arbiter` and `ExMon` of more than one
beat.  Below `ExMon`, a memory that pushes back on reads or beats, and above it a
link that pushes back on answers (`ar_out.ready()`, `w_out.ready()`,
`b_out.ready()`): only the channel of the write addresses is ever full.  Memory's
own error responses, which the monitor passes on and never makes `ExOkay`.  A host that reads and writes at once at one `HostBridge`: its reads keep
no state, and the reader of `NocExit` is a node of its own.  A reset shorter
than a period of the slower clock of a `ChanCdc`, which nothing in the tree
gives.  `AxiHost` with more than one burst open, and `AxiPer`.  Of the Ethernet
port the MAC, whose work is bits, and the transmitting side (`LineFetch`,
`FrameOut`, `EthShare`); of `Plic` the choice among sources by priority, edge
sources and several targets, since the receiving path has one source and one
target.  Of the driver the acknowledgement and the enabling of the interrupt by
`eth_vreteno_start` and `_stop`, which drop a frame unread: the model starts with the
port empty and the interrupt enabled.  The lowering: that the netlist does what the run does is the
lowering's promise, and only what one can see of it at a channel
(`NetlistView`) is stated; the netlist's hand-written
module for a channel is not modelled.

The rest of the repository is larger than what is modelled by far: the netlist
and its lowering, the macros, the cores' and the GPU's pipelines and the GLES
library are a compiler, instruction semantics and arithmetic on data.  Their
correctness is a function of their input rather than of an interleaving, and
the repository tests them against reference implementations; a state machine
of them would copy them.  The components `PROJECT.json` lists as
`not_modelled` give their reasons one by one.


## Plan

1. Done: the buffers (`Queue`, `Channel`, `Buffer`, `Fifo`, `ChanCdc`), the
   arbiter, the bridges and what they make together (`NocExit`), the lattice,
   exclusive pairs through arbiter and monitor (`Exclusive`), the receiving
   path of the Ethernet port down to its driver (`EthRx`); proofs of all the
   safety properties that the runs check, and of freedom from deadlock in the
   network and on the exclusive pairs' way to memory.
2. Modules that would add most next: `AxiHost` with several bursts open
   against an abstract pool of identifiers; `Kernel` (processes, ticks, a second
   wait in a step); `Router`; `EthShare`; `Wdog`, `Station`, `Settable`, each
   software against hardware.
