------------------------------ MODULE NocExit ------------------------------
(***************************************************************************)
(* A peripheral over the network: a host that writes through its           *)
(* HostBridge, a node that reads, the network between, and the peripheral  *)
(* behind its PerBridge, which both share (lib/parts/src/bus/noc/bridge.rs *)
(* and node.rs).                                                           *)
(*                                                                         *)
(* The network keeps the order of what goes from one node to another       *)
(* (module Mesh) and takes any time, so the two bridges are steps of their *)
(* own; what is on the way to the peripheral, or back, is one channel,     *)
(* entered in any order.  The reader, node 1, has one read open; it uses   *)
(* an identifier the host uses as well.  The peripheral answers in any     *)
(* order, and with an error as it likes.                                   *)
(***************************************************************************)
EXTENDS HostBridge, ChanEnd

CONSTANTS
  IDS,       \* PerBridge: the local identifiers
  Reads      \* bound: the beats of a read, at most two

ASSUME NocExitAssumption == IDS \in Nat \ {0} /\ Reads \subseteq 1..2

VARIABLES
  req, from, oid, turn, busy, b, r, rsp,   \* PerBridge, and the network
  mem,       \* what the peripheral has to answer, by local identifier
  asks,      \* the reader shows a read that has not left
  reading    \* the beats the reader waits for

Nodes == 0..1
P == INSTANCE PerBridge

exit == <<req, from, oid, turn, busy, b, r, rsp>>
all == <<vars, exit, mem, asks, reading>>

Access == [read : BOOLEAN, beats : 0..2]
Served == [read |-> FALSE, beats |-> 0]

ExitInit ==
  /\ Init /\ P!Init
  /\ mem = [l \in P!Local |-> Served]
  /\ asks = FALSE /\ reading = 0

-----------------------------------------------------------------------------
Request(node, id, read, beats) ==
  [node |-> node, id |-> id, read |-> read, beats |-> beats]

HostOffers(p) == Offer(p) /\ UNCHANGED <<exit, mem, asks, reading>>

(* The answer the host's node is shown.                                    *)
Arrived ==
  IF Offered(rsp) /\ Head(rsp).node = 0
  THEN {[id |-> Head(rsp).id, fail |-> Head(rsp).fail]} ELSE {}

HostCycle(here, ans, broom) ==
  LET room == Room(req) IN
  /\ ans \subseteq Arrived
  /\ Cycle(here, room, ans, broom)
  /\ req' = req \o Item(GoW(here, room), Request(0, PacketId, FALSE, 1))
  /\ rsp' = IF Taken(ans, broom) THEN Tail(rsp) ELSE rsp
  /\ UNCHANGED <<from, oid, turn, busy, b, r, mem, asks, reading>>

ReaderAsks(n) ==
  /\ reading = 0
  /\ asks' = TRUE /\ reading' = n
  /\ UNCHANGED <<vars, exit, mem>>

ReaderLeaves ==
  /\ asks /\ Room(req)
  /\ req' = Append(req, Request(1, 0, TRUE, reading))
  /\ asks' = FALSE
  /\ UNCHANGED <<vars, from, oid, turn, busy, b, r, rsp, mem, reading>>

ReaderTakes ==
  /\ Offered(rsp) /\ Head(rsp).node = 1
  /\ rsp' = Tail(rsp)
  /\ reading' = IF Head(rsp).last THEN 0 ELSE reading - 1
  /\ UNCHANGED <<vars, req, from, oid, turn, busy, b, r, mem, asks>>

PerCycle(room) ==
  /\ P!Cycle(room)
  /\ mem' = IF P!Taken(room)
            THEN [mem EXCEPT ![turn] = [read |-> Head(req).read,
                                        beats |-> Head(req).beats]]
            ELSE mem
  /\ UNCHANGED <<vars, asks, reading>>

Serve(l, fail) ==
  LET beat == [id |-> l, last |-> mem[l].beats = 1, fail |-> fail] IN
  /\ mem[l].beats > 0
  /\ IF mem[l].read
     THEN Room(r) /\ ~fail /\ r' = Append(r, beat) /\ b' = b
     ELSE Room(b) /\ b' = Append(b, beat) /\ r' = r
  /\ mem' = [mem EXCEPT ![l].beats = @ - 1]
  /\ UNCHANGED <<vars, req, from, oid, turn, busy, rsp, asks, reading>>

ExitReset ==
  /\ Reset /\ P!Reset
  /\ mem' = [l \in P!Local |-> Served]
  /\ asks' = FALSE /\ reading' = 0

ExitNext ==
  \/ \E p \in Phases : HostOffers(p)
  \/ \E here, broom \in BOOLEAN, ans \in {{}, Arrived} :
       HostCycle(here, ans, broom)
  \/ \E n \in Reads : ReaderAsks(n)
  \/ ReaderLeaves \/ ReaderTakes
  \/ \E room \in BOOLEAN : PerCycle(room)
  \/ \E l \in P!Local, fail \in BOOLEAN : Serve(l, fail)
  \/ ExitReset

(***************************************************************************)
(* Fairness: the clock ticks; the host hands over the beats it owes, and   *)
(* it and the reader take their answers; the peripheral has room again and *)
(* again and answers each request; and the network lets the reader in if   *)
(* it has room again and again.                                            *)
(***************************************************************************)
HostSends ==
  (GoW(TRUE, Room(req)) \/ DropW(TRUE)) /\ \E ans \in {{}, Arrived} : HostCycle(TRUE, ans, TRUE)
HostTakes == Arrived # {} /\ \E here \in BOOLEAN : HostCycle(here, Arrived, TRUE)
HostTold == owe /\ \E here \in BOOLEAN : HostCycle(here, {}, TRUE)
HostRefuses == refuse /\ \E here \in BOOLEAN : HostCycle(here, {}, TRUE)

ExitSpec ==
  /\ ExitInit /\ [][ExitNext]_all
  /\ WF_all(HostSends) /\ WF_all(HostTakes) /\ WF_all(HostTold)
  /\ WF_all(HostRefuses)
  /\ SF_all(ReaderLeaves) /\ WF_all(ReaderTakes)
  /\ WF_all(PerCycle(TRUE))
  /\ \A l \in P!Local : WF_all(\E fail \in BOOLEAN : Serve(l, fail))

-----------------------------------------------------------------------------
ExitTypeOK ==
  /\ TypeOK
  /\ req \in Seq([node : Nodes, id : Ids, read : BOOLEAN, beats : 1..2])
  /\ from \in [P!Local -> Nodes] /\ oid \in [P!Local -> Ids]
  /\ turn \in P!Local /\ busy \subseteq P!Local
  /\ {b, r} \subseteq Seq([id : P!Local, last : BOOLEAN, fail : BOOLEAN])
  /\ rsp \in Seq([node : Nodes, id : Ids, read : BOOLEAN, last : BOOLEAN,
                  fail : BOOLEAN])
  /\ \A c \in {req, b, r, rsp} : Len(c) <= 2
  /\ mem \in [P!Local -> Access]
  /\ asks \in BOOLEAN /\ reading \in 0..2

(* What a node waits for under an identifier is somewhere on the way: as   *)
(* requests, with the peripheral under the local identifiers that lead     *)
(* back to the node and to its own, or as answers that name both.  Nothing *)
(* is lost, answered twice, or led to another node that uses the same      *)
(* identifier, and a read stays a read.                                    *)
OnTheWay(node, id, read) ==
  LET mine(p) == p.node = node /\ p.id = id /\ p.read = read
      led(l) == from[l] = node /\ oid[l] = id
      count(c, Test(_)) == Cardinality({k \in DOMAIN c : Test(c[k])})
      its(a) == led(a.id)
      held == {l \in P!Local : led(l) /\ mem[l].read = read}
      beats == count(IF read THEN r ELSE b, its)
                 + Cardinality({l \in held : mem[l].beats >= 1})
                 + Cardinality({l \in held : mem[l].beats = 2})
      asked == {k \in DOMAIN req : mine(req[k])}
  IN Cardinality(asked) + Cardinality({k \in asked : req[k].beats = 2})
       + beats + count(rsp, mine)

PacketsKept ==
  /\ \A d \in Ids :
       OnTheWay(0, d, FALSE) = net[d] /\ OnTheWay(0, d, TRUE) = 0
  /\ \A d \in Ids :
       /\ OnTheWay(1, d, FALSE) = 0
       /\ OnTheWay(1, d, TRUE) = IF d = 0 /\ ~asks THEN reading ELSE 0

(* Everyone is answered, the host for each write and the reader for each   *)
(* read, or dropped by a reset: although the peripheral's bridge lets      *)
(* write answers go before read beats and gives its identifiers out        *)
(* strictly in turn, behind an answer that is slow.                        *)
EveryoneAnswered == AllAnswered /\ []<>(reading = 0)
=============================================================================
