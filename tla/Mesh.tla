-------------------------------- MODULE Mesh --------------------------------
(***************************************************************************)
(* One virtual channel of the network on chip: the lattice of switches of  *)
(* lib/parts/src/bus/noc/{switch,node,mesh}.rs, the channels between them  *)
(* and the channels to and from what is attached at their exits.  A node   *)
(* is two such switches, which share nothing, so one lattice stands for    *)
(* the requests and for the responses.                                     *)
(*                                                                         *)
(* One action is one cycle of every switch at once.  The traffic is a set  *)
(* of flows; a packet is its flow, which says where it goes, and its       *)
(* number in the flow, which nothing looks at.  A link at the edge wraps   *)
(* round, as in the unit Mesh; that no packet takes one is OnCourse.       *)
(***************************************************************************)
EXTENDS Naturals, Sequences, ChanEnd

CONSTANTS
  Cols, Rows,  \* the lattice
  Flows,       \* bound: from where to where packets are sent
  MaxSent      \* bound: the packets of each flow

Nodes == (0..(Cols - 1)) \X (0..(Rows - 1))

ASSUME MeshAssumption ==
  /\ Cols \in Nat \ {0} /\ Rows \in Nat \ {0}
  /\ Flows \subseteq [from : Nodes, to : Nodes]
  /\ MaxSent \in [Flows -> Nat]

Packets == [flow : Flows, num : Nat]

(* The inputs of a switch, in the order the choice goes round.             *)
In == <<"n", "s", "w", "e", "x">>
None == 5

(* A channel is named by the node whose input it is; "o" is the exit's     *)
(* output.                                                                 *)
Chans == Nodes \X {"n", "s", "w", "e", "x", "o"}

VARIABLES
  chan,        \* what each channel holds
  turn,        \* the input each switch's choice starts from
  sent, rcvd   \* counts of each flow as of the last edge (see Queue)

vars == <<chan, turn, sent, rcvd>>

Init ==
  /\ chan = [c \in Chans |-> <<>>]
  /\ turn = [n \in Nodes |-> 0]
  /\ sent = [f \in Flows |-> 0] /\ rcvd = [f \in Flows |-> 0]

-----------------------------------------------------------------------------
(* Wrong: Y before X.                                                      *)
RouteYFirst(p, n) ==
  LET to == p.flow.to IN
    IF to[2] > n[2] THEN "s" ELSE IF to[2] < n[2] THEN "n"
    ELSE IF to[1] > n[1] THEN "e" ELSE IF to[1] < n[1] THEN "w"
    ELSE "o"

(* The way out of node n: X until the column is right, then Y.             *)
Route(p, n) ==
  LET to == p.flow.to IN
    IF to[1] > n[1] THEN "e" ELSE IF to[1] < n[1] THEN "w"
    ELSE IF to[2] > n[2] THEN "s" ELSE IF to[2] < n[2] THEN "n"
    ELSE "o"

(* The channel a way out leads to: the neighbour's input from the opposite *)
(* side, or the exit.                                                      *)
Towards(n, way) ==
  CASE way = "e" -> <<<<(n[1] + 1) % Cols, n[2]>>, "w">>
    [] way = "w" -> <<<<(n[1] + Cols - 1) % Cols, n[2]>>, "e">>
    [] way = "s" -> <<<<n[1], (n[2] + 1) % Rows>>, "n">>
    [] way = "n" -> <<<<n[1], (n[2] + Rows - 1) % Rows>>, "s">>
    [] way = "o" -> <<n, "o">>

Input(n, i) == chan[<<n, In[i + 1]>>]
Wanted(n, i) == Towards(n, Route(Head(Input(n, i)), n))

(* Wrong: room at the output is not asked for.                             *)
AbleBlind(n, i) == Offered(Input(n, i))

(* Whether an input has a packet and room at the port it wants.            *)
Able(n, i) == Offered(Input(n, i)) /\ Room(chan[Wanted(n, i)])

(* Wrong: the choice does not go round.                                    *)
PickNoWrap(n) ==
  LET able == {i \in 0..4 : Able(n, i) /\ i >= turn[n]} IN
    IF able = {} THEN None ELSE CHOOSE i \in able : \A j \in able : i <= j

(* How far round from the turn an input is.                                *)
Wait(n, i) == (i + 5 - turn[n]) % 5

(* The input that moves: the first able one at or after the turn.          *)
Pick(n) ==
  LET able == {i \in 0..4 : Able(n, i)} IN
    IF able = {} THEN None
    ELSE CHOOSE i \in able : \A j \in able : Wait(n, i) <= Wait(n, j)

Moves(n) == Pick(n) # None

(* Wrong: the turn stays at whichever moved.                               *)
AfterStays(moved) == moved

(* The next turn: the one after whichever moved.                           *)
After(moved) == (moved + 1) % 5

(* Wrong: the packet and its way are the first able input's.               *)
MoveFirst(n) ==
  LET i == CHOOSE k \in 0..4 : Able(n, k) /\ \A j \in 0..(k - 1) : ~Able(n, j)
  IN
    [node |-> n, input |-> Pick(n), out |-> <<n, In[Pick(n) + 1]>>,
     in |-> Wanted(n, i), packet |-> Head(Input(n, i))]

(* The move of a switch: out of one channel, into another.                 *)
Move(n) ==
  LET i == Pick(n) IN
    [node |-> n, input |-> i, out |-> <<n, In[i + 1]>>, in |-> Wanted(n, i),
     packet |-> Head(Input(n, i))]

(* What the source of a flow sends.                                        *)
Arrival(f) ==
  [in |-> <<f.from, "x">>, packet |-> [flow |-> f, num |-> sent[f] + 1]]

(* One cycle.  send: the flows whose source sends; take: the nodes whose   *)
(* exit's output is taken from.  A channel has one reader and one driver,  *)
(* a switch or what is attached.                                           *)
Cycle(send, take) ==
  \* bound by \E, which TLC evaluates once, not by LET
  \E moves \in {{Move(n) : n \in {m \in Nodes : Moves(m)}}} :
  LET taken == {m.out : m \in moves} \cup {<<n, "o">> : n \in take}
      pushes == moves \cup {Arrival(f) : f \in send}
      entering(c) ==
        IF \E m \in pushes : m.in = c
        THEN <<(CHOOSE m \in pushes : m.in = c).packet>>
        ELSE <<>>
  IN
    /\ \A f \in send : Room(chan[<<f.from, "x">>]) /\ sent[f] < MaxSent[f]
    /\ \A f, g \in send : f.from = g.from => f = g
    /\ \A n \in take : Offered(chan[<<n, "o">>])
    /\ chan' = [c \in Chans |-> Edge(chan[c], c \in taken, entering(c))]
    /\ turn' = [n \in Nodes |->
         IF \E m \in moves : m.node = n
         THEN After((CHOOSE m \in moves : m.node = n).input)
         ELSE turn[n]]
    /\ sent' = [f \in Flows |-> IF f \in send THEN sent[f] + 1 ELSE sent[f]]
    /\ rcvd' = [f \in Flows |->
         IF \E n \in take : Head(chan[<<n, "o">>]).flow = f
         THEN rcvd[f] + 1 ELSE rcvd[f]]

(* The reset empties every channel and puts the turns back.                *)
Reset ==
  /\ chan' = [c \in Chans |-> <<>>]
  /\ turn' = [n \in Nodes |-> 0]
  /\ rcvd' = sent
  /\ UNCHANGED sent

Delivering == {n \in Nodes : Offered(chan[<<n, "o">>])}

Next ==
  \/ Reset
  \/ \E send \in SUBSET Flows, take \in SUBSET Delivering : Cycle(send, take)

Spec == Init /\ [][Next]_vars

(* The clock ticks, and what is attached at an exit takes what it is       *)
(* offered in the end: two weak fairness conditions, with what enables the *)
(* step and what shows that it was taken spelled out.  Nobody has to send. *)
Ticks == []<>(\A n \in Nodes : ~Moves(n)) \/ []<><<turn' # turn>>_vars
Takes ==
  \A n \in Nodes :
    []<>(n \notin Delivering) \/ []<><<\E f \in Flows : f.to = n /\ rcvd'[f] # rcvd[f]>>_vars

FairSpec == Spec /\ Ticks /\ Takes

-----------------------------------------------------------------------------
TypeOK ==
  /\ chan \in [Chans -> Seq(Packets)]
  /\ \A c \in Chans : Len(chan[c]) <= 2
  /\ turn \in [Nodes -> 0..4]
  /\ sent \in [Flows -> Nat] /\ rcvd \in [Flows -> Nat]
  /\ \A f \in Flows : rcvd[f] <= sent[f] /\ sent[f] <= MaxSent[f]

(* A packet in a channel is on the way X, then Y, from its source to its   *)
(* destination, and nowhere else: it never turns from Y back into X, never *)
(* passes its destination and never takes a link that wraps (route).       *)
Between(a, b, c) == a < b /\ b <= c
OnCourse ==
  \A c \in Chans : \A k \in DOMAIN chan[c] :
    LET n == c[1]
        f == chan[c][k].flow
    IN CASE c[2] = "x" -> n = f.from
         [] c[2] = "o" -> n = f.to
         [] c[2] = "w" -> n[2] = f.from[2] /\ Between(f.from[1], n[1], f.to[1])
         [] c[2] = "e" -> n[2] = f.from[2] /\ Between(f.to[1], n[1] + 1, f.from[1])
         [] c[2] = "n" -> n[1] = f.to[1] /\ Between(f.from[2], n[2], f.to[2])
         [] c[2] = "s" -> n[1] = f.to[1] /\ Between(f.to[2], n[2] + 1, f.from[2])

(* How many channels a packet of a flow has yet to cross from channel c.   *)
Apart(a, b) == IF a > b THEN a - b ELSE b - a
Hops(c, f) ==
  IF c[2] = "o" THEN 0
  ELSE 1 + Apart(c[1][1], f.to[1]) + Apart(c[1][2], f.to[2])

(* The packets of a flow that are in the lattice are those sent and not    *)
(* delivered, each once, the older the nearer: the choices of the switches *)
(* on the way and the room they find lose, repeat and reorder none.        *)
Places(f) ==
  {p \in Chans \X (1..2) :
     p[2] <= Len(chan[p[1]]) /\ chan[p[1]][p[2]].flow = f}
Ahead(f, p, q) ==
  \/ Hops(p[1], f) < Hops(q[1], f)
  \/ p[1] = q[1] /\ p[2] < q[2]
InOrder ==
  \A f \in Flows :
    LET num(p) == chan[p[1]][p[2]].num IN
      /\ {num(p) : p \in Places(f)} = (rcvd[f] + 1)..sent[f]
      /\ \A p, q \in Places(f) : Ahead(f, p, q) <=> num(p) < num(q)

(* An input that could have moved and was passed over is nearer its turn:  *)
(* while its port keeps having room, four others move before it at most    *)
(* (pick, turn).                                                           *)
TurnComes ==
  [][\A n \in Nodes, i \in 0..4 :
       Able(n, i) /\ Pick(n) # i => Wait(n, i)' < Wait(n, i) \/ Reset]_vars

(* Once nobody sends any more, everything sent is delivered.               *)
Drains ==
  <>[][UNCHANGED sent]_vars => <>[](\A f \in Flows : rcvd[f] = sent[f])
=============================================================================
