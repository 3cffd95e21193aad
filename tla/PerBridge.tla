----------------------------- MODULE PerBridge -----------------------------
(***************************************************************************)
(* The peripheral side of the network's exit, PerBridge in                 *)
(* lib/parts/src/bus/noc/bridge.rs: a request goes to the peripheral under *)
(* a local identifier, given out in turn, and its answer goes home under   *)
(* the one it came with.                                                   *)
(*                                                                         *)
(* A packet is its node, its identifier, whether it is a read, and the     *)
(* beats to answer it with; an answer has the last flag and the error in   *)
(* their place.  The rest of a packet passes through.                      *)
(***************************************************************************)
EXTENDS Naturals, Sequences, ChanEnd

CONSTANTS
  IDS,       \* the local identifiers, a power of two
  Nodes,     \* the nodes that ask
  Ids        \* the identifiers they use

VARIABLES
  req,       \* requests on their way, and at the node
  from, oid, \* per local identifier: sx with sy, and oid
  turn, busy,
  b, r,      \* what the peripheral answers: the writes, the reads' beats
  rsp        \* answers on their way home

Local == 0..(IDS - 1)

Init ==
  /\ req = <<>> /\ b = <<>> /\ r = <<>> /\ rsp = <<>>
  /\ from = [l \in Local |-> 0] /\ oid = [l \in Local |-> 0]
  /\ turn = 0 /\ busy = {}

(* Wrong: an identifier is given out that is not answered.                 *)
FreeAlways == TRUE
free == turn \notin busy

(* room: aw and w have room for a write, or ar for a read.                 *)
Taken(room) == Offered(req) /\ free /\ room

GoB == Offered(b) /\ Room(rsp)
GoR == Offered(r) /\ Room(rsp) /\ ~GoB
Answer == IF GoB THEN Head(b) ELSE Head(r)

(* Wrong: the first beat of a read frees its identifier.                   *)
EndsAtOnce == GoB \/ GoR
(* Wrong: only a write frees its identifier.                               *)
EndsWrites == GoB
Ends == GoB \/ (GoR /\ Head(r).last)

Home ==
  [node |-> from[Answer.id], id |-> oid[Answer.id], read |-> ~GoB,
   last |-> Answer.last, fail |-> Answer.fail]

Cycle(room) ==
  /\ req' = IF Taken(room) THEN Tail(req) ELSE req
  /\ from' = IF Taken(room) THEN [from EXCEPT ![turn] = Head(req).node] ELSE from
  /\ oid' = IF Taken(room) THEN [oid EXCEPT ![turn] = Head(req).id] ELSE oid
  /\ turn' = IF Taken(room) THEN (turn + 1) % IDS ELSE turn
  /\ busy' = (busy \cup (IF Taken(room) THEN {turn} ELSE {}))
               \ (IF Ends THEN {Answer.id} ELSE {})
  /\ b' = Edge(b, GoB, <<>>)
  /\ r' = Edge(r, GoR, <<>>)
  /\ rsp' = rsp \o Item(GoB \/ GoR, Home)

(* The tables are memories, which a reset leaves alone.                    *)
Reset ==
  /\ req' = <<>> /\ b' = <<>> /\ r' = <<>> /\ rsp' = <<>>
  /\ turn' = 0 /\ busy' = {}
  /\ UNCHANGED <<from, oid>>
=============================================================================
