----------------------------- MODULE Exclusive -----------------------------
(***************************************************************************)
(* Exclusive pairs on the board: harts and an engine at the ports of the   *)
(* arbiter (module Arbiter), whose hold keeps a pair whole, and between it *)
(* and memory the exclusive monitor, ExMon in lib/parts/src/bus/exmon.rs,  *)
(* with the registers of the source, which gives a pair its answer.        *)
(*                                                                         *)
(* MonCycle is one cycle of both units.  Between cycles a host that waits  *)
(* for nothing starts its next access: a hart a load-reserved, its         *)
(* store-conditional, or a plain write (cpu/vreteno/src/core.rs, where     *)
(* every A instruction waits for the hart's stores and a store for it);    *)
(* the engine a write.  Memory lands the writes in the order they come and *)
(* serves the reads, at any time, and answers in any order.  Of the        *)
(* monitor's outgoing channels only that of the write addresses is ever    *)
(* full (out): memory takes a read or a beat when it comes, a host the     *)
(* answer it waits for, and memory answers every write Okay.               *)
(*                                                                         *)
(* A host has one access open, so what a channel carries is the host's     *)
(* number, which is its identifier on the link, and the fields of an       *)
(* address phase are looked up in hart.  Every address is in the range of  *)
(* the monitor.  Counters and flags only a test reads are left out: fails, *)
(* xdup, and alternate with flip.                                          *)
(***************************************************************************)
EXTENDS Arbiter, ChanEnd

CONSTANTS
  Lines,      \* the lines of memory, 0 and up
  Watched,    \* PORT0 and PORT1: the hosts that may hold a reservation
  Writers,    \* bound: the hosts that write plainly
  NoLine      \* no line

ASSUME ExclusiveAssumption ==
  /\ Lines \subseteq Nat /\ NoLine \notin Lines
  /\ Watched \subseteq Hosts /\ Writers \subseteq Hosts
  /\ I = 0 /\ Ids = {0}

VARIABLES
  ar_in, aw_in, w_in, b_in,   \* the channels the monitor reads
  v, line,     \* the watched ports with a reservation, and its line
  wids,        \* the writes passed on and not yet answered
  fw,          \* the lines of the write passed on in the last cycle
  xk,          \* what was decided of the exclusive write at the head
  wpend, wdrop,  \* a burst's beats are coming; and are dropped
  binj, binjid,  \* a failed write's answer waits, and whose
  x,           \* the ports whose exclusive write was passed on
  out,         \* the writes on their way to memory, in order
  landed,      \* the writes memory has yet to answer
  reading, sampled,   \* the reads before memory, and served by it
  hart,        \* what each host is at
  fresh        \* the line a host has read and nobody has written since

monitor == <<v, line, wids, fw, xk, wpend, wdrop, binj, binjid, x>>
inputs == <<ar_in, aw_in, w_in, b_in>>
memory == <<out, landed, reading, sampled, fresh>>
all == <<vars, monitor, inputs, memory, hart>>

(* rsv: the line the core has reserved; stored: its write reached memory;  *)
(* ex: it was answered ExOkay.                                             *)
AtRest == [op |-> "none", line |-> NoLine, len |-> 1, rsv |-> NoLine,
           stored |-> FALSE, ex |-> FALSE]

MonInit ==
  /\ Init
  /\ ar_in = <<>> /\ aw_in = <<>> /\ w_in = <<>> /\ b_in = <<>>
  /\ v = {} /\ line = [p \in Watched |-> NoLine]
  /\ wids = {} /\ fw = {} /\ xk = "none"
  /\ wpend = FALSE /\ wdrop = FALSE /\ binj = FALSE /\ binjid = 0 /\ x = {}
  /\ out = <<>> /\ landed = {} /\ reading = {} /\ sampled = {}
  /\ hart = [h \in Hosts |-> AtRest]
  /\ fresh = [h \in Hosts |-> NoLine]

(* Wrong: a line too many.                                                 *)
CoveredMore(h) == hart[h].line..(hart[h].line + hart[h].len)

(* The lines a host's write covers: a beat a line.                         *)
Covered(h) == hart[h].line..(hart[h].line + hart[h].len - 1)

-----------------------------------------------------------------------------
(* The hosts.                                                              *)

LoadReserved(h, l) ==
  /\ h \in Watched /\ hart[h].op = "none"
  /\ OfferRead(h)
  /\ hart' = [hart EXCEPT ![h] = [AtRest EXCEPT !.op = "lr", !.line = l]]
  /\ UNCHANGED <<monitor, inputs, memory>>

StoreConditional(h) ==
  /\ hart[h].op = "none" /\ hart[h].rsv # NoLine
  /\ OfferWrite(h) /\ aws'[h].lock /\ aws'[h].len = 1
  /\ hart' = [hart EXCEPT ![h] =
       [AtRest EXCEPT !.op = "sc", !.line = hart[h].rsv]]
  /\ UNCHANGED <<monitor, inputs, memory>>

(* A core's plain store keeps its reservation: a hart may write between    *)
(* the halves of its pair, into the line it has reserved too.              *)
Write(h, l) ==
  /\ h \in Writers /\ hart[h].op = "none"
  /\ OfferWrite(h) /\ ~aws'[h].lock
  /\ hart' = [hart EXCEPT ![h] =
       [AtRest EXCEPT !.op = "write", !.line = l, !.len = aws'[h].len,
                      !.rsv = hart[h].rsv]]
  /\ Covered(h)' \subseteq Lines
  /\ UNCHANGED <<monitor, inputs, memory>>

-----------------------------------------------------------------------------
(* The monitor's wires.                                                    *)

quiet == wids = {}

(* Wrong: an exclusive read does not wait for the writes passed on.        *)
PassReadAtOnce == Offered(ar_in)

(* ar_go: every read here is exclusive.                                    *)
PassRead == Offered(ar_in) /\ quiet

(* The last write passed on clears a port's reservation.                   *)
Hit(p) == line[p] \in fw

(* Wrong: the clear that is on its way is not looked at.                   *)
StandsUnhit(p) == p \in v /\ line[p] = hart[p].line
Stands(p) == p \in v /\ ~Hit(p) /\ line[p] = hart[p].line

Shown == Head(aw_in)
Locked == hart[Shown].op = "sc"
Fails == Locked /\ xk # "stores"

Take == Offered(aw_in) /\ ~wpend /\ ~binj /\ (Locked => xk # "none")

Pass == Take /\ ~Fails /\ Len(out) < 2
Absorb == Take /\ Fails

(* A beat, passed on or dropped.                                           *)
BeatGo == wpend /\ Offered(w_in)
BeatEnd == BeatGo /\ Head(w_in)

(* The answers: a failed write's once every write passed on is answered,   *)
(* or memory's; the host has room for the one it waits for.                *)
Inject == binj /\ quiet
AnswerGo == Offered(b_in) /\ ~Inject
Passing == IF AnswerGo THEN {Head(b_in)} ELSE {}
Given == IF Inject THEN {binjid} ELSE Passing

(* Wrong: the flag outlives the answer.                                    *)
FlaggedKept == x \cup (IF Pass /\ Locked THEN {Shown} ELSE {})

(* The exclusive writes whose answers are to be ExOkay.                    *)
Flagged == (x \cup (IF Pass /\ Locked THEN {Shown} ELSE {})) \ Passing

MonitorStep ==
  /\ v' = {p \in v \cup (IF PassRead THEN {Head(ar_in)} ELSE {}) :
             ~Hit(p) /\ ~(Absorb /\ p = Shown)}
  /\ line' = IF PassRead THEN [line EXCEPT ![Head(ar_in)] = hart[Head(ar_in)].line]
             ELSE line
  /\ wids' = (wids \cup (IF Pass THEN {Shown} ELSE {})) \ Passing
  /\ fw' = IF Pass THEN Covered(Shown) ELSE {}
  /\ xk' = IF ~Offered(aw_in) \/ Pass \/ Absorb \/ ~Locked THEN "none"
           ELSE IF Stands(Shown) /\ hart[Shown].len = 1 THEN "stores"
           ELSE "fails"
  /\ wpend' = IF BeatEnd THEN FALSE ELSE wpend \/ Pass \/ Absorb
  /\ wdrop' = IF Pass \/ Absorb THEN Absorb ELSE wdrop
  /\ binj' = IF Inject THEN FALSE ELSE binj \/ (BeatEnd /\ wdrop)
  /\ binjid' = IF Absorb THEN Shown ELSE binjid
  /\ x' = Flagged

(* What goes through: from the arbiter, and on to memory.                  *)
Through(beat) ==
  /\ ar_in' = Edge(ar_in, PassRead, Item(ArGo(Room(ar_in)), ar_who))
  /\ aw_in' = Edge(aw_in, Pass \/ Absorb, Item(AwGo(Room(aw_in)), aw_who))
  /\ w_in' = Edge(w_in, BeatGo, Item(WGo(beat), Head(beats[Sender])))
  /\ b_in' = Edge(b_in, AnswerGo, <<>>)
  /\ out' = IF Pass THEN Append(out, Shown) ELSE out
  /\ reading' = IF PassRead THEN reading \cup {Head(ar_in)} ELSE reading

(* The hosts take what comes back: r the reads, Given the writes.          *)
Answered(r) ==
  /\ sampled' = sampled \ r
  /\ hart' = [h \in Hosts |->
       IF h \in r THEN [hart[h] EXCEPT !.op = "none", !.rsv = hart[h].line]
       ELSE IF h \in Given THEN
         [hart[h] EXCEPT !.op = "none", !.ex = ~Inject /\ h \in x]
       ELSE hart[h]]

MonCycle(beat, r) ==
  /\ Cycle(Room(ar_in), Room(aw_in), beat, r, Given)
  /\ MonitorStep
  /\ Through(beat)
  /\ Answered(r)
  /\ UNCHANGED <<landed, fresh>>

-----------------------------------------------------------------------------
(* Memory.                                                                 *)

(* A write whose beats it has all been given.                              *)
Land ==
  /\ out # <<>>
  /\ Len(out) > 1 \/ ~wpend \/ wdrop
  /\ out' = Tail(out)
  /\ landed' = landed \cup {Head(out)}
  /\ hart' = [hart EXCEPT ![Head(out)].stored = TRUE]
  /\ fresh' = [h \in Hosts |->
       IF fresh[h] \in Covered(Head(out)) THEN NoLine ELSE fresh[h]]
  /\ UNCHANGED <<vars, monitor, inputs, reading, sampled>>

Sample(h) ==
  /\ h \in reading
  /\ reading' = reading \ {h}
  /\ sampled' = sampled \cup {h}
  /\ fresh' = [fresh EXCEPT ![h] = hart[h].line]
  /\ UNCHANGED <<vars, monitor, inputs, out, landed, hart>>

Respond(h) ==
  /\ h \in landed /\ Room(b_in)
  /\ landed' = landed \ {h}
  /\ b_in' = Append(b_in, h)
  /\ UNCHANGED <<vars, monitor, ar_in, aw_in, w_in, out, reading, sampled>>
  /\ UNCHANGED <<hart, fresh>>

MonNext ==
  \/ \E beat \in BOOLEAN, r \in AtMostOne(sampled) :
       (beat => wbusy /\ Room(w_in)) /\ MonCycle(beat, r)
  \/ Land
  \/ \E h \in Hosts :
       \/ Sample(h) \/ Respond(h) \/ StoreConditional(h)
       \/ \E l \in Lines : LoadReserved(h, l) \/ Write(h, l)

(***************************************************************************)
(* Fairness: the clock ticks, a host hands over the beats of a write it    *)
(* has begun, and memory lands, serves and answers what it has taken.      *)
(* Nobody has to begin anything, a pair's second half included.            *)
(***************************************************************************)
MonFairness ==
  /\ WF_all(\E r \in AtMostOne(sampled) : MonCycle(FALSE, r))
  /\ []<>(~wbusy \/ ~Room(w_in))
  /\ WF_all(Land)
  /\ \A h \in Hosts :
       /\ []<>(h \notin reading) /\ []<>(h \notin sampled)
       /\ []<>(h \notin landed \/ ~Room(b_in))

MonSpec == MonInit /\ [][MonNext]_all /\ MonFairness

-----------------------------------------------------------------------------
MonTypeOK ==
  /\ TypeOK
  /\ {ar_in, aw_in, b_in, out} \subseteq
       {<<>>} \cup {<<g>> : g \in Hosts} \cup {<<g, h>> : g, h \in Hosts}
  /\ w_in \in Seq(BOOLEAN) /\ Len(w_in) <= 2
  /\ v \subseteq Watched /\ line \in [Watched -> Lines \cup {NoLine}]
  /\ wids \subseteq Hosts /\ fw \subseteq Lines
  /\ xk \in {"none", "stores", "fails"}
  /\ {wpend, wdrop, binj} \subseteq BOOLEAN /\ binjid \in Hosts
  /\ x \subseteq Watched
  /\ landed \subseteq Hosts /\ reading \subseteq Hosts /\ sampled \subseteq Hosts
  /\ hart \in [Hosts -> [op : {"none", "lr", "sc", "write"},
                         line : Lines \cup {NoLine}, len : Lens \cup {1},
                         rsv : Lines \cup {NoLine}, stored : BOOLEAN,
                         ex : BOOLEAN]]
  /\ fresh \in [Hosts -> Lines \cup {NoLine}]

(* A pair is atomic: when the write of a store-conditional lands, memory   *)
(* still holds, in the whole line, what the host's load-reserved read      *)
(* there; no write landed in between, another host's or its own, although  *)
(* the read and the write channel reach memory in no known order (issue    *)
(* 1408).                                                                  *)
PairAtomic ==
  [][\A h \in Hosts :
       Len(out') < Len(out) /\ h = Head(out) /\ hart[h].op = "sc"
         => fresh[h] = hart[h].line]_all

(* A host is told what came of its write: a store-conditional is answered  *)
(* ExOkay exactly when it is in memory, and any other write Okay, once it  *)
(* is (x0, x1, binj).                                                      *)
AnswersTrue ==
  [][\A h \in Hosts : hart[h].op # hart'[h].op =>
       /\ hart[h].op = "sc" => hart[h].stored = hart'[h].ex
       /\ hart[h].op = "write" => hart[h].stored /\ ~hart'[h].ex]_all

(* Nobody waits for ever: a write ends if exclusive reads cease, though    *)
(* the host that holds never writes the second half of its pair, and a     *)
(* read ends if plain writes cease.  The hold, the wait for quiet and the  *)
(* wait for a failed write's answer never wait on one another.             *)
Ceases(op) == <>[](\A h \in Hosts : hart[h].op # op)
EveryAccessEnds ==
  /\ Ceases("lr") => \A h \in Hosts : []<>(hart[h].op = "none")
  /\ Ceases("write") => \A h \in Hosts : []<>(hart[h].op # "lr")
=============================================================================
