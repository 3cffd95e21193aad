---------------------------- MODULE Mesh_proofs ----------------------------
(***************************************************************************)
(* Proofs about Mesh, for every lattice, every set of flows and every      *)
(* bound on what they send.                                                *)
(***************************************************************************)
EXTENDS Mesh, ModelLemmas

(* The types without what they say of the counts, which rests on InOrder.  *)
Shape ==
  /\ chan \in [Chans -> Seq(Packets)]
  /\ \A c \in Chans : Len(chan[c]) <= 2
  /\ turn \in [Nodes -> 0..4]
  /\ sent \in [Flows -> Nat] /\ rcvd \in [Flows -> Nat]
  /\ \A f \in Flows : sent[f] <= MaxSent[f]

(* What OnCourse says of one packet.                                       *)
Fits(c, f) ==
  LET n == c[1]
  IN CASE c[2] = "x" -> n = f.from
       [] c[2] = "o" -> n = f.to
       [] c[2] = "w" -> n[2] = f.from[2] /\ Between(f.from[1], n[1], f.to[1])
       [] c[2] = "e" -> n[2] = f.from[2] /\ Between(f.to[1], n[1] + 1, f.from[1])
       [] c[2] = "n" -> n[1] = f.to[1] /\ Between(f.from[2], n[2], f.to[2])
       [] c[2] = "s" -> n[1] = f.to[1] /\ Between(f.to[2], n[2] + 1, f.from[2])

LEMMA FitsWays ==
  ASSUME NEW c, NEW f
  PROVE  /\ c[2] = "x" => (Fits(c, f) <=> c[1] = f.from)
         /\ c[2] = "o" => (Fits(c, f) <=> c[1] = f.to)
         /\ c[2] = "w" => (Fits(c, f) <=> /\ c[1][2] = f.from[2]
                                          /\ f.from[1] < c[1][1]
                                          /\ c[1][1] <= f.to[1])
         /\ c[2] = "e" => (Fits(c, f) <=> /\ c[1][2] = f.from[2]
                                          /\ f.to[1] < c[1][1] + 1
                                          /\ c[1][1] + 1 <= f.from[1])
         /\ c[2] = "n" => (Fits(c, f) <=> /\ c[1][1] = f.to[1]
                                          /\ f.from[2] < c[1][2]
                                          /\ c[1][2] <= f.to[2])
         /\ c[2] = "s" => (Fits(c, f) <=> /\ c[1][1] = f.to[1]
                                          /\ f.to[2] < c[1][2] + 1
                                          /\ c[1][2] + 1 <= f.from[2])
  BY DEF Fits, Between

LEMMA CourseFits ==
  OnCourse <=> \A c \in Chans : \A k \in DOMAIN chan[c] : Fits(c, chan[c][k].flow)
  BY DEF OnCourse, Fits

-----------------------------------------------------------------------------
(* The ways.                                                               *)
LEMMA NodeParts ==
  ASSUME NEW n \in Nodes
  PROVE  /\ n = <<n[1], n[2]>> /\ n[1] \in Nat /\ n[2] \in Nat
         /\ n[1] < Cols /\ n[2] < Rows /\ Cols \in Nat \ {0} /\ Rows \in Nat \ {0}
  BY MeshAssumption DEF Nodes

LEMMA ChanParts ==
  ASSUME NEW c \in Chans
  PROVE  c = <<c[1], c[2]>> /\ c[1] \in Nodes /\ c[2] \in {"n", "s", "w", "e", "x", "o"}
  BY DEF Chans

LEMMA FlowParts ==
  ASSUME NEW f \in Flows
  PROVE  f.from \in Nodes /\ f.to \in Nodes
  BY MeshAssumption

(* Where a packet goes from channel c: to a neighbour it comes nearer by,  *)
(* or out.                                                                 *)
Onward(c, p) == Towards(c[1], Route(p, c[1]))

(* The node that fills a channel between nodes, or an exit's output.       *)
Source(c) ==
  LET n == c[1]
  IN CASE c[2] = "w" -> <<n[1] - 1, n[2]>>
       [] c[2] = "e" -> <<n[1] + 1, n[2]>>
       [] c[2] = "n" -> <<n[1], n[2] - 1>>
       [] c[2] = "s" -> <<n[1], n[2] + 1>>
       [] OTHER -> n

LEMMA OnwardFits ==
  ASSUME NEW c \in Chans, c[2] # "o", NEW p \in Packets, Fits(c, p.flow)
  PROVE  /\ Onward(c, p) \in Chans /\ Onward(c, p)[2] # "x"
         /\ Fits(Onward(c, p), p.flow)
         /\ Hops(Onward(c, p), p.flow) + 1 = Hops(c, p.flow)
         /\ Source(Onward(c, p)) = c[1]
<1> DEFINE n == c[1]
           f == p.flow
           to == f.to
           from == f.from
           d == Onward(c, p)
<1>1. /\ n \in Nodes /\ to \in Nodes /\ from \in Nodes
      /\ c[2] \in {"n", "s", "w", "e", "x"}
  BY ChanParts, FlowParts DEF Packets
<1>2. /\ n = <<n[1], n[2]>> /\ n[1] \in Nat /\ n[2] \in Nat
      /\ to = <<to[1], to[2]>> /\ to[1] \in Nat /\ to[2] \in Nat
      /\ from = <<from[1], from[2]>> /\ from[1] \in Nat /\ from[2] \in Nat
      /\ to[1] < Cols /\ to[2] < Rows /\ n[1] < Cols /\ n[2] < Rows
      /\ Cols \in Nat /\ Rows \in Nat
  BY <1>1, NodeParts
<1>3. CASE to[1] > n[1]
  <2> DEFINE m == <<n[1] + 1, n[2]>>
  <2>1. d = <<m, "w">>
    <3>1. (n[1] + 1) % Cols = n[1] + 1
      BY <1>2, <1>3, NoWrap
    <3> QED BY <1>3, <3>1 DEF Onward, Towards, Route
  <2>2. m \in Nodes /\ m[1] = n[1] + 1 /\ m[2] = n[2]
    BY <1>2, <1>3 DEF Nodes
  <2>3. c[2] \in {"x", "w"} /\ n[2] = from[2] /\ from[1] <= n[1]
    <3>1. CASE c[2] = "x"
      BY <1>2, <3>1, FitsWays
    <3>2. CASE c[2] \in {"w", "e", "n", "s"}
      BY <1>2, <1>3, <3>2, FitsWays
    <3> QED BY <1>1, <3>1, <3>2
  <2> HIDE DEF m, d
  <2>4. d[1] = m /\ d[2] = "w" /\ d \in Chans
    BY <2>1, <2>2 DEF Chans
  <2>5. Fits(d, f)
    BY <1>2, <1>3, <2>2, <2>3, <2>4, FitsWays
  <2>6. Hops(d, f) + 1 = Hops(c, f)
    BY <1>2, <1>3, <2>2, <2>3, <2>4 DEF Hops, Apart
  <2>7. Source(d) = n
    BY <1>2, <2>2, <2>4 DEF Source
  <2> QED BY <2>4, <2>5, <2>6, <2>7 DEF d
<1>4. CASE to[1] < n[1]
  <2> DEFINE m == <<n[1] - 1, n[2]>>
  <2>1. d = <<m, "e">>
    <3>1. n[1] - 1 \in Nat /\ n[1] - 1 < Cols /\ n[1] + Cols - 1 = (n[1] - 1) + Cols
      BY <1>2, <1>4
    <3>2. (n[1] + Cols - 1) % Cols = n[1] - 1
      BY <1>2, <3>1, NoWrap
    <3> QED BY <1>2, <1>4, <3>2 DEF Onward, Towards, Route
  <2>2. m \in Nodes /\ m[1] = n[1] - 1 /\ m[2] = n[2]
    BY <1>2, <1>4 DEF Nodes
  <2>3. c[2] \in {"x", "e"} /\ n[2] = from[2] /\ n[1] <= from[1]
    <3>1. CASE c[2] = "x"
      BY <1>2, <3>1, FitsWays
    <3>2. CASE c[2] \in {"w", "e", "n", "s"}
      BY <1>2, <1>4, <3>2, FitsWays
    <3> QED BY <1>1, <3>1, <3>2
  <2> HIDE DEF m, d
  <2>4. d[1] = m /\ d[2] = "e" /\ d \in Chans
    BY <2>1, <2>2 DEF Chans
  <2>5. Fits(d, f)
    BY <1>2, <1>4, <2>2, <2>3, <2>4, FitsWays
  <2>6. Hops(d, f) + 1 = Hops(c, f)
    BY <1>2, <1>4, <2>2, <2>3, <2>4 DEF Hops, Apart
  <2>7. Source(d) = n
    BY <1>2, <2>2, <2>4 DEF Source
  <2> QED BY <2>4, <2>5, <2>6, <2>7 DEF d
<1>5. CASE to[1] = n[1] /\ to[2] > n[2]
  <2> DEFINE m == <<n[1], n[2] + 1>>
  <2>1. d = <<m, "n">>
    <3>1. (n[2] + 1) % Rows = n[2] + 1
      BY <1>2, <1>5, NoWrap
    <3> QED BY <1>2, <1>5, <3>1 DEF Onward, Towards, Route
  <2>2. m \in Nodes /\ m[1] = n[1] /\ m[2] = n[2] + 1
    BY <1>2, <1>5 DEF Nodes
  <2>3. c[2] \in {"x", "w", "e", "n"} /\ from[2] <= n[2]
    <3>1. CASE c[2] = "x"
      BY <1>2, <3>1, FitsWays
    <3>2. CASE c[2] \in {"w", "e", "n", "s"}
      BY <1>2, <1>5, <3>2, FitsWays
    <3> QED BY <1>1, <3>1, <3>2
  <2> HIDE DEF m, d
  <2>4. d[1] = m /\ d[2] = "n" /\ d \in Chans
    BY <2>1, <2>2 DEF Chans
  <2>5. Fits(d, f)
    BY <1>2, <1>5, <2>2, <2>3, <2>4, FitsWays
  <2>6. Hops(d, f) + 1 = Hops(c, f)
    BY <1>2, <1>5, <2>2, <2>3, <2>4 DEF Hops, Apart
  <2>7. Source(d) = n
    BY <1>2, <2>2, <2>4 DEF Source
  <2> QED BY <2>4, <2>5, <2>6, <2>7 DEF d
<1>6. CASE to[1] = n[1] /\ to[2] < n[2]
  <2> DEFINE m == <<n[1], n[2] - 1>>
  <2>1. d = <<m, "s">>
    <3>1. n[2] - 1 \in Nat /\ n[2] - 1 < Rows /\ n[2] + Rows - 1 = (n[2] - 1) + Rows
      BY <1>2, <1>6
    <3>2. (n[2] + Rows - 1) % Rows = n[2] - 1
      BY <1>2, <3>1, NoWrap
    <3> QED BY <1>2, <1>6, <3>2 DEF Onward, Towards, Route
  <2>2. m \in Nodes /\ m[1] = n[1] /\ m[2] = n[2] - 1
    BY <1>2, <1>6 DEF Nodes
  <2>3. c[2] \in {"x", "w", "e", "s"} /\ n[2] <= from[2]
    <3>1. CASE c[2] = "x"
      BY <1>2, <3>1, FitsWays
    <3>2. CASE c[2] \in {"w", "e", "n", "s"}
      BY <1>2, <1>6, <3>2, FitsWays
    <3> QED BY <1>1, <3>1, <3>2
  <2> HIDE DEF m, d
  <2>4. d[1] = m /\ d[2] = "s" /\ d \in Chans
    BY <2>1, <2>2 DEF Chans
  <2>5. Fits(d, f)
    BY <1>2, <1>6, <2>2, <2>3, <2>4, FitsWays
  <2>6. Hops(d, f) + 1 = Hops(c, f)
    BY <1>2, <1>6, <2>2, <2>3, <2>4 DEF Hops, Apart
  <2>7. Source(d) = n
    BY <1>2, <2>2, <2>4 DEF Source
  <2> QED BY <2>4, <2>5, <2>6, <2>7 DEF d
<1>7. CASE to[1] = n[1] /\ to[2] = n[2]
  <2>1. d = <<n, "o">> /\ n = to
    BY <1>2, <1>7 DEF Onward, Towards, Route
  <2> HIDE DEF d
  <2>2. d[1] = n /\ d[2] = "o" /\ d \in Chans
    BY <1>1, <2>1 DEF Chans
  <2>3. Fits(d, f)
    BY <2>1, <2>2, FitsWays
  <2>4. Hops(d, f) + 1 = Hops(c, f)
    BY <1>2, <1>7, <2>2 DEF Hops, Apart
  <2>5. Source(d) = n
    BY <2>2 DEF Source
  <2> QED BY <2>2, <2>3, <2>4, <2>5 DEF d
<1> QED BY <1>2, <1>3, <1>4, <1>5, <1>6, <1>7

(* A flow has one way through the lattice: two channels on it as far from  *)
(* its end are the same, and none is farther than its source's.            *)
LEMMA OneWay ==
  ASSUME NEW c \in Chans, NEW d \in Chans, NEW f \in Flows,
         Fits(c, f), Fits(d, f)
  PROVE  /\ Hops(c, f) \in Nat
         /\ Hops(c, f) = Hops(d, f) => c = d
         /\ d[2] = "x" => Hops(c, f) <= Hops(d, f)
         /\ c[2] = "o" <=> Hops(c, f) = 0
<1> DEFINE fx == f.from[1]  fy == f.from[2]  tx == f.to[1]  ty == f.to[2]
           x(e) == e[1][1]  y(e) == e[1][2]
           Course(e, w, h) ==
             \/ w = "x" /\ x(e) = fx /\ y(e) = fy
                /\ h = 1 + Apart(fx, tx) + Apart(fy, ty)
             \/ w = "w" /\ y(e) = fy /\ fx < x(e) /\ x(e) <= tx
                /\ h = 1 + (tx - x(e)) + Apart(fy, ty)
             \/ w = "e" /\ y(e) = fy /\ tx <= x(e) /\ x(e) < fx
                /\ h = 1 + (x(e) - tx) + Apart(fy, ty)
             \/ w = "n" /\ x(e) = tx /\ fy < y(e) /\ y(e) <= ty
                /\ h = 1 + (ty - y(e))
             \/ w = "s" /\ x(e) = tx /\ ty <= y(e) /\ y(e) < fy
                /\ h = 1 + (y(e) - ty)
             \/ w = "o" /\ x(e) = tx /\ y(e) = ty /\ h = 0
<1>1. /\ f.from = <<fx, fy>> /\ f.to = <<tx, ty>>
      /\ fx \in Nat /\ fy \in Nat /\ tx \in Nat /\ ty \in Nat
  BY FlowParts, NodeParts
<1>2. ASSUME NEW e \in Chans, Fits(e, f)
      PROVE  /\ e = <<e[1], e[2]>> /\ e[1] = <<x(e), y(e)>>
             /\ x(e) \in Nat /\ y(e) \in Nat
             /\ Course(e, e[2], Hops(e, f))
  <2>1. /\ e = <<e[1], e[2]>> /\ e[1] = <<x(e), y(e)>>
        /\ x(e) \in Nat /\ y(e) \in Nat
        /\ e[2] \in {"n", "s", "w", "e", "x", "o"}
    BY ChanParts, NodeParts
  <2>2. CASE e[2] = "x"
    BY <1>1, <1>2, <2>1, <2>2, FitsWays DEF Hops, Apart
  <2>3. CASE e[2] = "w"
    BY <1>1, <1>2, <2>1, <2>3, FitsWays DEF Hops, Apart
  <2>4. CASE e[2] = "e"
    BY <1>1, <1>2, <2>1, <2>4, FitsWays DEF Hops, Apart
  <2>5. CASE e[2] = "n"
    BY <1>1, <1>2, <2>1, <2>5, FitsWays DEF Hops, Apart
  <2>6. CASE e[2] = "s"
    BY <1>1, <1>2, <2>1, <2>6, FitsWays DEF Hops, Apart
  <2>7. CASE e[2] = "o"
    BY <1>1, <1>2, <2>1, <2>7, FitsWays DEF Hops, Apart
  <2> QED BY <2>1, <2>2, <2>3, <2>4, <2>5, <2>6, <2>7
<1>3. /\ Course(c, c[2], Hops(c, f)) /\ Course(d, d[2], Hops(d, f))
      /\ x(c) \in Nat /\ y(c) \in Nat /\ x(d) \in Nat /\ y(d) \in Nat
  BY <1>2
<1>4. \A a, b \in Nat : Apart(a, b) \in Nat /\ (a # b => Apart(a, b) > 0)
  BY DEF Apart
<1> DEFINE h == Hops(c, f)  g == Hops(d, f)
<1>5. h \in Nat /\ (c[2] = "o" <=> h = 0)
  <2> DEFINE ax == Apart(fx, tx)  ay == Apart(fy, ty)
  <2>1. ax \in Nat /\ ay \in Nat
    BY <1>1, <1>4
  <2> HIDE DEF ax, ay, h
  <2>2. Course(c, c[2], h) /\ c[2] # "o" => h \in Nat /\ h # 0
    <3>1. c[2] = "x" /\ Course(c, c[2], h) => h \in Nat /\ h # 0
      BY <2>1 DEF ax, ay
    <3>2. c[2] \in {"w", "e"} /\ Course(c, c[2], h) => h \in Nat /\ h # 0
      BY <1>1, <1>3, <2>1 DEF ay
    <3>3. c[2] \in {"n", "s"} /\ Course(c, c[2], h) => h \in Nat /\ h # 0
      BY <1>1, <1>3
    <3> QED BY <3>1, <3>2, <3>3
  <2>3. Course(c, c[2], h) /\ c[2] = "o" => h = 0
    OBVIOUS
  <2> QED BY <1>3, <2>2, <2>3 DEF h
<1>6. ASSUME d[2] = "x" PROVE h <= g
  <2> DEFINE ax == Apart(fx, tx)  ay == Apart(fy, ty)
  <2>1. g = 1 + ax + ay /\ ax \in Nat /\ ay \in Nat
    BY <1>1, <1>3, <1>4, <1>6
  <2>2. \A v \in Nat : /\ fx < v /\ v <= tx => tx - v <= ax
                       /\ tx <= v /\ v < fx => v - tx <= ax
                       /\ fy < v /\ v <= ty => ty - v <= ay
                       /\ ty <= v /\ v < fy => v - ty <= ay
    BY <1>1 DEF Apart
  <2> HIDE DEF ax, ay, h, g
  <2>3. Course(c, c[2], h) => h <= 1 + ax + ay
    <3>1. (c[2] = "x" \/ c[2] = "o") /\ Course(c, c[2], h) => h <= 1 + ax + ay
      BY <2>1 DEF ax, ay
    <3>2. c[2] = "w" /\ Course(c, c[2], h) => h <= 1 + ax + ay
      BY <1>1, <1>3, <2>1, <2>2 DEF ay
    <3>3. c[2] = "e" /\ Course(c, c[2], h) => h <= 1 + ax + ay
      BY <1>1, <1>3, <2>1, <2>2 DEF ay
    <3>4. c[2] = "n" /\ Course(c, c[2], h) => h <= 1 + ax + ay
      BY <1>1, <1>3, <2>1, <2>2
    <3>5. c[2] = "s" /\ Course(c, c[2], h) => h <= 1 + ax + ay
      BY <1>1, <1>3, <2>1, <2>2
    <3> QED BY <3>1, <3>2, <3>3, <3>4, <3>5
  <2> QED BY <1>3, <2>1, <2>3 DEF h
<1>7. h = g => x(c) = x(d) /\ y(c) = y(d) /\ c[2] = d[2]
  BY <1>1, <1>3, <1>4 DEF Apart
<1> QED BY <1>2, <1>5, <1>6, <1>7


-----------------------------------------------------------------------------
(* The choice of a switch.                                                 *)
LEMMA InputNames ==
  ASSUME NEW i \in 0..4
  PROVE  In[i + 1] \in {"n", "s", "w", "e", "x"}
<1>1. i = 0 \/ i = 1 \/ i = 2 \/ i = 3 \/ i = 4
  OBVIOUS
<1> QED BY <1>1 DEF In

LEMMA WaitType ==
  ASSUME Shape, NEW n \in Nodes, NEW i \in 0..4
  PROVE  Wait(n, i) \in 0..4 /\ turn[n] \in 0..4
<1>1. turn[n] \in 0..4
  BY DEF Shape
<1>2. i + 5 - turn[n] \in Nat
  BY <1>1
<1> QED BY <1>1, <1>2 DEF Wait

(* It moves an able input, of which none is nearer its turn, or none is    *)
(* able.                                                                   *)
LEMMA PickAble ==
  ASSUME Shape, NEW n \in Nodes
  PROVE  /\ Moves(n) => /\ Pick(n) \in 0..4 /\ Able(n, Pick(n))
                        /\ \A j \in 0..4 : Able(n, j) => Wait(n, Pick(n)) <= Wait(n, j)
         /\ ~Moves(n) => \A j \in 0..4 : ~Able(n, j)
<1> DEFINE able == {i \in 0..4 : Able(n, i)}
           waits == {Wait(n, i) : i \in able}
<1>1. CASE able = {}
  BY <1>1 DEF Pick, Moves
<1>2. CASE able # {}
  <2>1. waits \in SUBSET Nat /\ waits # {}
    BY <1>2, WaitType
  <2>2. PICK w \in waits : \A k \in waits : w <= k
    BY <2>1, LeastNatural
  <2>3. \E i \in able : \A j \in able : Wait(n, i) <= Wait(n, j)
    BY <2>2
  <2>4. Pick(n) = CHOOSE i \in able : \A j \in able : Wait(n, i) <= Wait(n, j)
    BY <1>2 DEF Pick
  <2>5. Pick(n) \in able /\ \A j \in able : Wait(n, Pick(n)) <= Wait(n, j)
    BY <2>3, <2>4
  <2>6. Moves(n)
    BY <2>5 DEF Moves, None
  <2> QED BY <2>5, <2>6
<1> QED BY <1>1, <1>2

-----------------------------------------------------------------------------
(* One cycle, as it is for a channel.                                      *)
TakenFrom(c, take) ==
  \/ c[2] = "o" /\ c[1] \in take
  \/ Moves(c[1]) /\ c = <<c[1], In[Pick(c[1]) + 1]>>

Kept(c, take) == IF TakenFrom(c, take) THEN Tail(chan[c]) ELSE chan[c]

(* A packet moves into the channel, or its source sends it.                *)
Crosses(e, c, p, take) ==
  /\ TakenFrom(e, take) /\ e[2] # "o"
  /\ p = Head(chan[e]) /\ c = Onward(e, p)

Sends(c, p, send) ==
  \E f \in send : c = <<f.from, "x">> /\ p = [flow |-> f, num |-> sent[f] + 1]

Enters(c, p, send, take) ==
  (\E e \in Chans : Crosses(e, c, p, take)) \/ Sends(c, p, send)

(* The first of a channel that is not empty.                               *)
LEMMA HeadFits ==
  ASSUME Shape, OnCourse, NEW c \in Chans, chan[c] # <<>>
  PROVE  /\ Head(chan[c]) = chan[c][1] /\ Head(chan[c]) \in Packets
         /\ Len(chan[c]) \in 1..2
         /\ Fits(c, Head(chan[c]).flow) /\ Head(chan[c]).flow \in Flows
<1>1. chan[c] \in Seq(Packets) /\ Len(chan[c]) <= 2
  BY DEF Shape
<1>2. Head(chan[c]) = chan[c][1] /\ Head(chan[c]) \in Packets /\ Len(chan[c]) \in 1..2
      /\ 1 \in DOMAIN chan[c]
  <2> DEFINE s == chan[c]
  <2>1. s \in Seq(Packets) /\ Len(s) <= 2 /\ s # <<>>
    BY <1>1
  <2> HIDE DEF s
  <2>2. Len(s) \in 1..2 /\ DOMAIN s = 1..Len(s)
    <3>1. Len(s) \in Nat \ {0} /\ DOMAIN s = 1..Len(s)
      BY <2>1, EmptySeq, LenProperties
    <3> QED BY <2>1, <3>1
  <2>3. Head(s) = s[1] /\ s[1] \in Packets
    BY <2>1, <2>2
  <2> QED BY <2>2, <2>3 DEF s
<1> QED BY <1>2, CourseFits DEF Packets

LEMMA TakenHolds ==
  ASSUME Shape, OnCourse, NEW take \in SUBSET Delivering,
         NEW e \in Chans, TakenFrom(e, take)
  PROVE  /\ chan[e] # <<>>
         /\ e[2] # "o" => /\ Moves(e[1]) /\ e = <<e[1], In[Pick(e[1]) + 1]>>
                          /\ Room(chan[Onward(e, Head(chan[e]))])
                          /\ Wanted(e[1], Pick(e[1])) = Onward(e, Head(chan[e]))
<1>1. e = <<e[1], e[2]>> /\ e[1] \in Nodes
  BY ChanParts
<1>2. CASE e[2] = "o" /\ e[1] \in take
  BY <1>1, <1>2 DEF Delivering, Offered
<1>3. CASE Moves(e[1]) /\ e = <<e[1], In[Pick(e[1]) + 1]>>
  <2>1. Pick(e[1]) \in 0..4 /\ Able(e[1], Pick(e[1]))
    BY <1>1, <1>3, PickAble
  <2>2. Input(e[1], Pick(e[1])) = chan[e]
    BY <1>3 DEF Input
  <2>3. Wanted(e[1], Pick(e[1])) = Onward(e, Head(chan[e]))
    BY <2>2 DEF Wanted, Onward
  <2> QED BY <1>3, <2>1, <2>2, <2>3 DEF Able, Offered
<1>4. e[2] # "o" => Moves(e[1]) /\ e = <<e[1], In[Pick(e[1]) + 1]>>
  BY DEF TakenFrom
<1> QED BY <1>2, <1>3, <1>4 DEF TakenFrom

(* At most one packet enters a channel in a cycle: each has one driver.    *)
LEMMA OneDriver ==
  ASSUME Shape, OnCourse,
         NEW send \in SUBSET Flows, NEW take \in SUBSET Delivering,
         \A f, g \in send : f.from = g.from => f = g,
         NEW c \in Chans, NEW p, NEW q,
         Enters(c, p, send, take), Enters(c, q, send, take)
  PROVE  p = q
<1>1. ASSUME NEW e \in Chans, NEW r, Crosses(e, c, r, take)
      PROVE  c[2] # "x" /\ e = <<Source(c), In[Pick(Source(c)) + 1]>> /\ r = Head(chan[e])
  <2>1. TakenFrom(e, take) /\ e[2] # "o" /\ r = Head(chan[e]) /\ c = Onward(e, r)
    BY <1>1 DEF Crosses
  <2>2. chan[e] # <<>> /\ e = <<e[1], In[Pick(e[1]) + 1]>>
    BY <2>1, TakenHolds
  <2>3. r \in Packets /\ Fits(e, r.flow)
    BY <2>1, <2>2, HeadFits
  <2>4. c[2] # "x" /\ Source(c) = e[1]
    BY <2>1, <2>3, OnwardFits
  <2> QED BY <2>1, <2>2, <2>4
<1>2. ASSUME NEW r, Sends(c, r, send)
      PROVE  c[2] = "x" /\ \E f \in send : f.from = c[1] /\ r = [flow |-> f, num |-> sent[f] + 1]
  BY <1>2 DEF Sends
<1>3. CASE c[2] = "x"
  <2>1. Sends(c, p, send) /\ Sends(c, q, send)
    BY <1>1, <1>3 DEF Enters
  <2>2. PICK f \in send : f.from = c[1] /\ p = [flow |-> f, num |-> sent[f] + 1]
    BY <1>2, <2>1
  <2>3. PICK g \in send : g.from = c[1] /\ q = [flow |-> g, num |-> sent[g] + 1]
    BY <1>2, <2>1
  <2> QED BY <2>2, <2>3
<1>4. CASE c[2] # "x"
  <2>1. PICK d \in Chans : Crosses(d, c, p, take)
    BY <1>2, <1>4 DEF Enters
  <2>2. PICK e \in Chans : Crosses(e, c, q, take)
    BY <1>2, <1>4 DEF Enters
  <2>3. d = e
    BY <1>1, <2>1, <2>2
  <2> QED BY <1>1, <2>1, <2>2, <2>3
<1> QED BY <1>3, <1>4

LEMMA CycleEdges ==
  ASSUME Shape, OnCourse,
         NEW send \in SUBSET Flows, NEW take \in SUBSET Delivering,
         Cycle(send, take), NEW c \in Chans
  PROVE  /\ (\A p : ~Enters(c, p, send, take)) => chan'[c] = Kept(c, take)
         /\ \A p : Enters(c, p, send, take) =>
              Room(chan[c]) /\ chan'[c] = Kept(c, take) \o <<p>>
<1> DEFINE moves == {Move(n) : n \in {m \in Nodes : Moves(m)}}
           taken == {m.out : m \in moves} \cup {<<n, "o">> : n \in take}
           pushes == moves \cup {Arrival(f) : f \in send}
           into(d) == IF \E m \in pushes : m.in = d
                      THEN <<(CHOOSE m \in pushes : m.in = d).packet>>
                      ELSE <<>>
           entering == into(c)
<1>1. /\ chan'[c] = Edge(chan[c], c \in taken, entering)
      /\ \A f \in send : Room(chan[<<f.from, "x">>])
      /\ \A f, g \in send : f.from = g.from => f = g
  <2>1. chan' = [d \in Chans |-> Edge(chan[d], d \in taken, into(d))]
    <3> DEFINE outs(ms) == {m.out : m \in ms} \cup {<<n, "o">> : n \in take}
               ins(ms) == ms \cup {Arrival(f) : f \in send}
               step(ms) ==
                 chan' = [d \in Chans |->
                   Edge(chan[d], d \in outs(ms),
                        IF \E m \in ins(ms) : m.in = d
                        THEN <<(CHOOSE m \in ins(ms) : m.in = d).packet>>
                        ELSE <<>>)]
    <3>1. \E ms \in {moves} : step(ms)
      BY Zenon DEF Cycle
    <3>2. step(moves)
      <4> HIDE DEF moves, step
      <4> QED BY <3>1
    <3> QED BY <3>2, Zenon
  <2>2. /\ \A f \in send : Room(chan[<<f.from, "x">>])
        /\ \A f, g \in send : f.from = g.from => f = g
    BY Zenon DEF Cycle
  <2> HIDE DEF taken, into
  <2> QED BY <2>1, <2>2
<1>2. c = <<c[1], c[2]>> /\ c[1] \in Nodes
  BY ChanParts
<1>3. take \subseteq Nodes
  BY DEF Delivering
<1>4. c \in taken <=> TakenFrom(c, take)
  <2>1. c \in {<<n, "o">> : n \in take} <=> c[2] = "o" /\ c[1] \in take
    BY <1>2
  <2>2. c \in {m.out : m \in moves} <=> \E n \in Nodes : Moves(n) /\ c = Move(n).out
    OBVIOUS
  <2>3. \A n \in Nodes : Move(n).out = <<n, In[Pick(n) + 1]>>
    BY DEF Move
  <2>4. c \in {m.out : m \in moves} <=> Moves(c[1]) /\ c = <<c[1], In[Pick(c[1]) + 1]>>
    BY <1>2, <2>2, <2>3
  <2> QED BY <2>1, <2>4 DEF TakenFrom
<1>5. ASSUME NEW n \in Nodes, Moves(n)
      PROVE  /\ Move(n).out \in Chans
             /\ Crosses(Move(n).out, Move(n).in, Move(n).packet, take)
  <2> DEFINE e == Move(n).out
  <2>1. e = <<n, In[Pick(n) + 1]>> /\ Pick(n) \in 0..4
    BY <1>5, PickAble DEF Move
  <2>2. In[Pick(n) + 1] \in {"n", "s", "w", "e", "x"}
    BY <2>1, InputNames
  <2>3. Move(n).packet = Head(chan[e]) /\ Move(n).in = Onward(e, Head(chan[e]))
    BY <2>1 DEF Move, Input, Wanted, Onward
  <2> HIDE DEF e
  <2>4. e \in Chans /\ e[1] = n /\ e[2] # "o" /\ TakenFrom(e, take)
    BY <1>5, <2>1, <2>2 DEF Chans, TakenFrom
  <2> QED BY <2>3, <2>4 DEF Crosses, e
<1>6. \A f \in send : Arrival(f).in = <<f.from, "x">>
                      /\ Arrival(f).packet = [flow |-> f, num |-> sent[f] + 1]
  BY DEF Arrival
<1>7. ASSUME NEW m \in pushes, m.in = c
      PROVE  Enters(c, m.packet, send, take)
  <2>1. CASE m \in moves
    BY <1>5, <1>7, <2>1 DEF Enters
  <2>2. CASE m \in {Arrival(f) : f \in send}
    BY <1>6, <1>7, <2>2 DEF Enters, Sends
  <2> QED BY <2>1, <2>2
<1>8. ASSUME NEW p, Enters(c, p, send, take)
      PROVE  Room(chan[c]) /\ \E m \in pushes : m.in = c
  <2>1. CASE \E e \in Chans : Crosses(e, c, p, take)
    <3>1. PICK e \in Chans : Crosses(e, c, p, take)
      BY <2>1
    <3>2. TakenFrom(e, take) /\ e[2] # "o" /\ c = Onward(e, Head(chan[e])) /\ e[1] \in Nodes
      BY <3>1, ChanParts DEF Crosses
    <3>3. Moves(e[1]) /\ Room(chan[c]) /\ Wanted(e[1], Pick(e[1])) = c
      BY <3>2, TakenHolds
    <3>4. Move(e[1]) \in moves /\ Move(e[1]).in = c
      BY <3>2, <3>3 DEF Move
    <3> QED BY <3>3, <3>4
  <2>2. CASE Sends(c, p, send)
    <3>1. PICK f \in send : c = <<f.from, "x">>
      BY <2>2 DEF Sends
    <3> QED BY <1>1, <1>6, <3>1
  <2> QED BY <1>8, <2>1, <2>2 DEF Enters
<1> HIDE DEF moves, taken, pushes
<1>9. ASSUME \A p : ~Enters(c, p, send, take)
      PROVE  chan'[c] = Kept(c, take)
  <2>1. entering = <<>>
    BY <1>7, <1>9
  <2>2. Kept(c, take) \in Seq(Packets)
    <3>1. chan[c] \in Seq(Packets) /\ (TakenFrom(c, take) => chan[c] # <<>>)
      BY TakenHolds DEF Shape
    <3> QED BY <3>1 DEF Kept
  <2>3. Kept(c, take) \o <<>> = Kept(c, take)
    BY <2>2
  <2> QED BY <1>1, <1>4, <2>1, <2>3 DEF Edge, Kept
<1>10. ASSUME NEW p, Enters(c, p, send, take)
       PROVE  Room(chan[c]) /\ chan'[c] = Kept(c, take) \o <<p>>
  <2> DEFINE m == CHOOSE m \in pushes : m.in = c
  <2>1. m \in pushes /\ m.in = c /\ entering = <<m.packet>>
    BY <1>8, <1>10
  <2>2. m.packet = p
    BY <1>1, <1>7, <1>10, <2>1, OneDriver
  <2>3. entering = <<p>>
    BY <2>1, <2>2
  <2> QED BY <1>1, <1>4, <1>8, <1>10, <2>3 DEF Edge, Kept
<1> QED BY <1>9, <1>10

(* What stays in a channel moves up by the packet that was taken.          *)
Shift(c, take) == IF TakenFrom(c, take) THEN 1 ELSE 0

LEMMA KeptParts ==
  ASSUME Shape, OnCourse, NEW take \in SUBSET Delivering, NEW c \in Chans
  PROVE  /\ Kept(c, take) \in Seq(Packets)
         /\ Len(Kept(c, take)) \in Nat /\ Len(chan[c]) \in Nat
         /\ Len(Kept(c, take)) + Shift(c, take) = Len(chan[c])
         /\ Len(chan[c]) <= 2 /\ Shift(c, take) \in 0..1
         /\ \A k \in 1..Len(Kept(c, take)) : Kept(c, take)[k] = chan[c][k + Shift(c, take)]
<1> DEFINE s == chan[c]
<1>1. s \in Seq(Packets) /\ Len(s) \in Nat /\ Len(s) <= 2
  BY LenProperties DEF Shape
<1>2. CASE TakenFrom(c, take)
  <2>1. s # <<>>
    BY <1>2, TakenHolds
  <2>2. Kept(c, take) = Tail(s) /\ Shift(c, take) = 1
    BY <1>2 DEF Kept, Shift
  <2> HIDE DEF s
  <2>3. /\ Tail(s) \in Seq(Packets) /\ Len(Tail(s)) = Len(s) - 1
        /\ \A k \in 1..Len(Tail(s)) : Tail(s)[k] = s[k + 1]
    BY <1>1, <2>1, HeadTailProperties
  <2>4. Len(Tail(s)) \in Nat
    BY <2>3, LenProperties
  <2> QED BY <1>1, <2>2, <2>3, <2>4 DEF s
<1>3. CASE ~TakenFrom(c, take)
  BY <1>1, <1>3 DEF Kept, Shift
<1> QED BY <1>2, <1>3

LEMMA EntersFits ==
  ASSUME Shape, OnCourse,
         NEW send \in SUBSET Flows, NEW take \in SUBSET Delivering,
         NEW c \in Chans, NEW p, Enters(c, p, send, take)
  PROVE  p \in Packets /\ p.flow \in Flows /\ Fits(c, p.flow)
<1>1. ASSUME NEW e \in Chans, Crosses(e, c, p, take)
      PROVE  p \in Packets /\ p.flow \in Flows /\ Fits(c, p.flow)
  <2>1. TakenFrom(e, take) /\ e[2] # "o" /\ p = Head(chan[e]) /\ c = Onward(e, p)
    BY <1>1 DEF Crosses
  <2>2. p \in Packets /\ p.flow \in Flows /\ Fits(e, p.flow)
    BY <2>1, HeadFits, TakenHolds
  <2> QED BY <2>1, <2>2, OnwardFits
<1>2. ASSUME Sends(c, p, send)
      PROVE  p \in Packets /\ p.flow \in Flows /\ Fits(c, p.flow)
  <2>1. PICK f \in send : c = <<f.from, "x">> /\ p = [flow |-> f, num |-> sent[f] + 1]
    BY <1>2 DEF Sends
  <2>2. f \in Flows /\ sent[f] \in Nat /\ p.flow = f
    BY <2>1 DEF Shape
  <2>3. p \in Packets
    BY <2>1, <2>2 DEF Packets
  <2>4. c[1] = f.from /\ c[2] = "x"
    BY <2>1
  <2> QED BY <2>2, <2>3, <2>4, FitsWays
<1> QED BY <1>1, <1>2 DEF Enters

(* What a channel holds after a cycle.                                     *)
LEMMA CyclePlaces ==
  ASSUME Shape, OnCourse,
         NEW send \in SUBSET Flows, NEW take \in SUBSET Delivering,
         Cycle(send, take), NEW c \in Chans
  PROVE  /\ chan'[c] \in Seq(Packets) /\ Len(chan'[c]) \in Nat /\ Len(chan'[c]) <= 2
         /\ Len(Kept(c, take)) <= Len(chan'[c])
         /\ \A k \in 1..Len(Kept(c, take)) : chan'[c][k] = chan[c][k + Shift(c, take)]
         /\ \A p : Enters(c, p, send, take) =>
              Len(chan'[c]) = Len(Kept(c, take)) + 1 /\ chan'[c][Len(chan'[c])] = p
         /\ \A k \in 1..Len(chan'[c]) : k > Len(Kept(c, take)) =>
              k = Len(Kept(c, take)) + 1 /\ Enters(c, chan'[c][k], send, take)
<1> DEFINE s == Kept(c, take)
<1>1. /\ s \in Seq(Packets) /\ Len(s) \in Nat /\ Len(s) <= Len(chan[c]) /\ Len(chan[c]) \in Nat
      /\ Len(chan[c]) <= 2 /\ \A k \in 1..Len(s) : s[k] = chan[c][k + Shift(c, take)]
  BY KeptParts
<1>2. CASE \A p : ~Enters(c, p, send, take)
  <2>1. chan'[c] = s
    BY <1>2, CycleEdges
  <2> HIDE DEF s
  <2> QED BY <1>1, <1>2, <2>1 DEF s
<1>3. CASE \E p : Enters(c, p, send, take)
  <2>1. PICK p : Enters(c, p, send, take)
    BY <1>3
  <2>2. Room(chan[c]) /\ chan'[c] = s \o <<p>> /\ p \in Packets
    BY <2>1, CycleEdges, EntersFits
  <2> HIDE DEF s
  <2>3. /\ s \o <<p>> \in Seq(Packets) /\ Len(s \o <<p>>) = Len(s) + 1
        /\ (s \o <<p>>)[Len(s) + 1] = p
        /\ \A k \in 1..Len(s) : (s \o <<p>>)[k] = s[k]
    BY <1>1, <2>2
  <2>4. \A q : Enters(c, q, send, take) => q = p
    <3>1. \A f, g \in send : f.from = g.from => f = g
      BY Zenon DEF Cycle
    <3> QED BY <2>1, <3>1, OneDriver
  <2>5. Len(s) + 1 <= 2
    BY <1>1, <2>2 DEF Room
  <2>6. \A k \in 1..(Len(s) + 1) : k > Len(s) => k = Len(s) + 1
    BY <1>1
  <2> HIDE DEF Enters
  <2> QED BY <1>1, <2>1, <2>2, <2>3, <2>4, <2>5, <2>6 DEF s
<1> QED BY <1>2, <1>3

LEMMA EntersLast ==
  ASSUME Shape, OnCourse,
         NEW send \in SUBSET Flows, NEW take \in SUBSET Delivering,
         Cycle(send, take), NEW c \in Chans, NEW p, Enters(c, p, send, take)
  PROVE  /\ Len(chan'[c]) = Len(Kept(c, take)) + 1
         /\ chan'[c][Len(Kept(c, take)) + 1] = p
<1>1. \A q : Enters(c, q, send, take) =>
              Len(chan'[c]) = Len(Kept(c, take)) + 1 /\ chan'[c][Len(chan'[c])] = q
  BY CyclePlaces
<1> QED BY <1>1, Zenon

LEMMA KeptStays ==
  ASSUME Shape, OnCourse,
         NEW send \in SUBSET Flows, NEW take \in SUBSET Delivering,
         Cycle(send, take), NEW c \in Chans, NEW k \in 1..Len(Kept(c, take))
  PROVE  chan'[c][k] = chan[c][k + Shift(c, take)]
  BY CyclePlaces, Zenon

-----------------------------------------------------------------------------
LEMMA CourseFitsNext ==
  OnCourse' <=> \A c \in Chans : \A k \in DOMAIN chan'[c] : Fits(c, chan'[c][k].flow)
  BY DEF OnCourse, Fits

LEMMA InitCourse == Init => Shape /\ OnCourse
<1> SUFFICES ASSUME Init PROVE Shape /\ OnCourse
  OBVIOUS
<1>1. Shape
  BY MeshAssumption DEF Init, Shape
<1>2. OnCourse
  BY CourseFits DEF Init
<1> QED BY <1>1, <1>2

LEMMA ResetCourse ==
  ASSUME Shape, Reset
  PROVE  Shape' /\ OnCourse'
<1>1. Shape'
  BY DEF Shape, Reset
<1>2. OnCourse'
  BY CourseFitsNext DEF Reset
<1> QED BY <1>1, <1>2

LEMMA CycleCounts ==
  ASSUME NEW send \in SUBSET Flows, NEW take \in SUBSET Delivering, Cycle(send, take)
  PROVE  /\ \A f \in send : sent[f] < MaxSent[f]
         /\ sent' = [f \in Flows |-> IF f \in send THEN sent[f] + 1 ELSE sent[f]]
         /\ rcvd' = [f \in Flows |->
              IF \E n \in take : Head(chan[<<n, "o">>]).flow = f
              THEN rcvd[f] + 1 ELSE rcvd[f]]
  BY Zenon DEF Cycle

LEMMA CycleTurns ==
  ASSUME Shape, NEW send \in SUBSET Flows, NEW take \in SUBSET Delivering,
         Cycle(send, take)
  PROVE  turn' = [n \in Nodes |-> IF Moves(n) THEN After(Pick(n)) ELSE turn[n]]
<1> DEFINE moves == {Move(n) : n \in {m \in Nodes : Moves(m)}}
           step(ms) ==
             turn' = [n \in Nodes |->
               IF \E m \in ms : m.node = n
               THEN After((CHOOSE m \in ms : m.node = n).input)
               ELSE turn[n]]
<1>1. \E ms \in {moves} : step(ms)
  BY Zenon DEF Cycle
<1>2. step(moves)
  <2> HIDE DEF moves, step
  <2> QED BY <1>1
<1>3. \A n \in Nodes : Move(n).node = n /\ Move(n).input = Pick(n)
  BY DEF Move
<1>4. ASSUME NEW n \in Nodes
      PROVE  (IF \E m \in moves : m.node = n
              THEN After((CHOOSE m \in moves : m.node = n).input)
              ELSE turn[n])
             = IF Moves(n) THEN After(Pick(n)) ELSE turn[n]
  <2>1. \A m \in moves : m.node = n => m.input = Pick(n) /\ Moves(n)
    BY <1>3
  <2>2. Moves(n) => \E m \in moves : m.node = n
    BY <1>3
  <2> HIDE DEF moves
  <2> QED BY <2>1, <2>2
<1> HIDE DEF moves
<1> QED BY <1>2, <1>4

LEMMA CycleCourse ==
  ASSUME Shape, OnCourse,
         NEW send \in SUBSET Flows, NEW take \in SUBSET Delivering,
         Cycle(send, take)
  PROVE  Shape' /\ OnCourse'
<1>1. \A c \in Chans : chan'[c] \in Seq(Packets) /\ Len(chan'[c]) <= 2
  BY CyclePlaces
<1>2. chan' = [c \in Chans |-> chan'[c]]
  BY DEF Cycle
<1>3. turn' \in [Nodes -> 0..4]
  <2>1. \A n \in Nodes : Moves(n) => After(Pick(n)) \in 0..4
    BY PickAble DEF After
  <2> QED BY <2>1, CycleTurns DEF Shape
<1>4. /\ sent' \in [Flows -> Nat] /\ rcvd' \in [Flows -> Nat]
      /\ \A f \in Flows : sent'[f] <= MaxSent[f]
  <2>1. /\ sent \in [Flows -> Nat] /\ rcvd \in [Flows -> Nat]
        /\ \A f \in Flows : sent[f] <= MaxSent[f] /\ MaxSent[f] \in Nat
    BY MeshAssumption DEF Shape
  <2>2. /\ \A f \in send : sent[f] < MaxSent[f]
        /\ sent' = [f \in Flows |-> IF f \in send THEN sent[f] + 1 ELSE sent[f]]
    BY CycleCounts
  <2>3. rcvd' \in [Flows -> Nat]
    <3> DEFINE out(f) == \E n \in take : Head(chan[<<n, "o">>]).flow = f
    <3>1. rcvd' = [f \in Flows |-> IF out(f) THEN rcvd[f] + 1 ELSE rcvd[f]]
      BY CycleCounts
    <3> HIDE DEF out
    <3> QED BY <2>1, <3>1
  <2> QED BY <2>1, <2>2, <2>3
<1>5. chan' \in [Chans -> Seq(Packets)]
  BY <1>1, <1>2
<1>6. Shape'
  BY <1>1, <1>3, <1>4, <1>5 DEF Shape
<1>7. ASSUME NEW c \in Chans, NEW k \in DOMAIN chan'[c]
      PROVE  Fits(c, chan'[c][k].flow)
  <2>1. k \in 1..Len(chan'[c]) /\ Len(chan'[c]) \in Nat
    BY <1>1, <1>7, CyclePlaces, LenProperties
  <2>2. CASE k <= Len(Kept(c, take))
    <3>1. /\ k \in 1..Len(Kept(c, take))
          /\ k + Shift(c, take) \in 1..Len(chan[c])
      BY <2>1, <2>2, KeptParts
    <3>2. chan'[c][k] = chan[c][k + Shift(c, take)] /\ k + Shift(c, take) \in DOMAIN chan[c]
      BY <3>1, CyclePlaces, LenProperties DEF Shape
    <3> QED BY <3>2, CourseFits
  <2>3. CASE ~(k <= Len(Kept(c, take)))
    <3>1. Enters(c, chan'[c][k], send, take)
      <4>1. Len(Kept(c, take)) \in Nat
        BY KeptParts
      <4>2. k > Len(Kept(c, take))
        BY <2>1, <2>3, <4>1
      <4> QED BY <2>1, <4>2, CyclePlaces
    <3> QED BY <3>1, EntersFits
  <2> QED BY <2>2, <2>3
<1> QED BY <1>6, <1>7, CourseFitsNext

LEMMA NextCourse ==
  ASSUME Shape, OnCourse, [Next]_vars
  PROVE  Shape' /\ OnCourse'
<1>1. CASE Reset
  BY <1>1, ResetCourse
<1>2. CASE \E send \in SUBSET Flows, take \in SUBSET Delivering : Cycle(send, take)
  BY <1>2, CycleCourse
<1>3. CASE UNCHANGED vars
  <2>1. chan' = chan /\ turn' = turn /\ sent' = sent /\ rcvd' = rcvd
    BY <1>3 DEF vars
  <2>2. Shape'
    BY <2>1 DEF Shape
  <2>3. OnCourse'
    BY <2>1, CourseFits, CourseFitsNext
  <2> QED BY <2>2, <2>3
<1> QED BY <1>1, <1>2, <1>3 DEF Next

(* A packet in a channel is on the way X, then Y, from its source to its   *)
(* destination, and nowhere else: the switches' routing (route) alone sees *)
(* to it, whatever they choose and wherever there is room.                 *)
THEOREM MeshOnCourse == Spec => []OnCourse
<1>1. Init => Shape /\ OnCourse
  BY InitCourse
<1>2. Shape /\ OnCourse /\ [Next]_vars => Shape' /\ OnCourse'
  BY NextCourse
<1> QED BY <1>1, <1>2, PTL DEF Spec

-----------------------------------------------------------------------------
(* The turn after a move, seen from an input that did not move.            *)
LEMMA TurnNearer ==
  ASSUME NEW i \in 0..4, NEW j \in 0..4, NEW t \in 0..4, i # j,
         (j + 5 - t) % 5 <= (i + 5 - t) % 5
  PROVE  (i + 5 - ((j + 1) % 5)) % 5 < (i + 5 - t) % 5
<1>1. ASSUME NEW a \in 0..4, NEW b \in 0..4
      PROVE  (a + 5 - b) % 5 = IF a >= b THEN a - b ELSE a + 5 - b
  <2>1. CASE a >= b
    <3>1. a + 5 - b = (a - b) + 5 /\ a - b \in 0..4
      BY <2>1
    <3>2. ((a - b) + 5) % 5 = a - b
      BY <3>1
    <3> QED BY <2>1, <3>1, <3>2
  <2>2. CASE a < b
    BY <2>2
  <2> QED BY <2>1, <2>2
<1>2. (j + 1) % 5 = IF j = 4 THEN 0 ELSE j + 1
  OBVIOUS
<1>3. (j + 1) % 5 \in 0..4
  BY <1>2
<1>4. /\ (i + 5 - ((j + 1) % 5)) % 5
           = IF i >= ((j + 1) % 5) THEN i - ((j + 1) % 5) ELSE i + 5 - ((j + 1) % 5)
      /\ (i + 5 - t) % 5 = IF i >= t THEN i - t ELSE i + 5 - t
      /\ (j + 5 - t) % 5 = IF j >= t THEN j - t ELSE j + 5 - t
  BY <1>1, <1>3
<1> QED BY <1>2, <1>4

(* An input that could have moved and was passed over is nearer its turn   *)
(* after the cycle, so that at most four others move before it (pick,      *)
(* turn).                                                                  *)
THEOREM MeshTurnComes == Spec => TurnComes
<1> DEFINE Nearer ==
      \A n \in Nodes, i \in 0..4 :
        Able(n, i) /\ Pick(n) # i => Wait(n, i)' < Wait(n, i) \/ Reset
<1>1. Init => Shape /\ OnCourse
  BY InitCourse
<1>2. ASSUME Shape, OnCourse, [Next]_vars
      PROVE  Shape' /\ OnCourse'
  BY <1>2, NextCourse
<1>3. ASSUME Shape, OnCourse, [Next]_vars
      PROVE  [Nearer]_vars
  <2>1. CASE Reset
    BY <2>1
  <2>2. ASSUME NEW send \in SUBSET Flows, NEW take \in SUBSET Delivering,
               Cycle(send, take), NEW n \in Nodes, NEW i \in 0..4,
               Able(n, i), Pick(n) # i
        PROVE  Wait(n, i)' < Wait(n, i)
    <3>1. Moves(n) /\ Pick(n) \in 0..4 /\ Wait(n, Pick(n)) <= Wait(n, i)
      BY <1>3, <2>2, PickAble
    <3>2. turn'[n] = (Pick(n) + 1) % 5 /\ turn[n] \in 0..4
      BY <1>3, <2>2, <3>1, CycleTurns, WaitType DEF After
    <3>3. (i + 5 - ((Pick(n) + 1) % 5)) % 5 < (i + 5 - turn[n]) % 5
      BY <2>2, <3>1, <3>2, TurnNearer DEF Wait
    <3>4. Wait(n, i)' = (i + 5 - turn'[n]) % 5 /\ Wait(n, i) = (i + 5 - turn[n]) % 5
      BY Zenon DEF Wait
    <3> QED BY <3>2, <3>3, <3>4
  <2> QED BY <1>3, <2>1, <2>2 DEF Next
<1> QED BY <1>1, <1>2, <1>3, PTL DEF Spec, TurnComes

-----------------------------------------------------------------------------
(* The order of a flow's packets.  A place in the lattice is a channel and *)
(* a position in it.                                                       *)
Num(p) == chan[p[1]][p[2]].num

OnWay(p, f) == p \in Chans \X (1..2) /\ Fits(p[1], f)

LEMMA PlaceParts ==
  ASSUME Shape, OnCourse, NEW f \in Flows, NEW p \in Places(f)
  PROVE  /\ OnWay(p, f) /\ p = <<p[1], p[2]>> /\ p[1] \in Chans /\ p[2] \in 1..2
         /\ p[2] <= Len(chan[p[1]]) /\ Len(chan[p[1]]) \in 1..2
         /\ chan[p[1]] # <<>>
         /\ chan[p[1]][p[2]] \in Packets /\ chan[p[1]][p[2]].flow = f
         /\ Num(p) \in Nat
<1>1. /\ p \in Chans \X (1..2) /\ p[2] <= Len(chan[p[1]])
      /\ chan[p[1]][p[2]].flow = f
  BY DEF Places
<1>2. p = <<p[1], p[2]>> /\ p[1] \in Chans /\ p[2] \in 1..2
  BY <1>1
<1> DEFINE s == chan[p[1]]  k == p[2]
<1>3. s \in Seq(Packets) /\ Len(s) <= 2 /\ Len(s) \in Nat /\ DOMAIN s = 1..Len(s)
  BY <1>2, LenProperties DEF Shape
<1>4. k \in DOMAIN s /\ Len(s) \in 1..2 /\ s[k] \in Packets /\ s # <<>>
  <2>1. k \in 1..2 /\ k <= Len(s) /\ s \in Seq(Packets) /\ Len(s) <= 2 /\ Len(s) \in Nat
    BY <1>1, <1>2, <1>3
  <2> HIDE DEF s, k
  <2>2. k \in 1..Len(s) /\ Len(s) \in 1..2
    <3> DEFINE n == Len(s)
    <3>1. k \in 1..2 /\ k <= n /\ n <= 2 /\ n \in Nat
      BY <2>1
    <3> HIDE DEF n
    <3>2. k \in 1..n /\ n \in 1..2
      BY <3>1
    <3> QED BY <3>2 DEF n
  <2>3. s # <<>> /\ s[k] \in Packets
    <3>1. s # <<>>
      BY <2>2
    <3>2. s[k] \in Packets
      BY <2>1, <2>2, ElementOfSeq
    <3> QED BY <3>1, <3>2
  <2> QED BY <1>3, <2>2, <2>3 DEF s, k
<1>5. Fits(p[1], f)
  BY <1>1, <1>2, <1>4, CourseFits
<1>6. Num(p) \in Nat
  BY <1>4 DEF Num, Packets
<1> QED BY <1>1, <1>2, <1>4, <1>5, <1>6 DEF OnWay

LEMMA PlaceHere ==
  ASSUME Shape, NEW f \in Flows, NEW c \in Chans, NEW k \in 1..Len(chan[c]),
         chan[c][k].flow = f
  PROVE  <<c, k>> \in Places(f)
<1>1. Len(chan[c]) \in Nat /\ Len(chan[c]) <= 2
  BY LenProperties DEF Shape
<1>2. k \in 1..2 /\ k <= Len(chan[c])
  BY <1>1
<1> QED BY <1>2 DEF Places

(* Of two places on the way of a flow exactly one is ahead.                *)
LEMMA AheadOrder ==
  ASSUME NEW f \in Flows, NEW p, NEW q, OnWay(p, f), OnWay(q, f)
  PROVE  /\ p = q \/ Ahead(f, p, q) \/ Ahead(f, q, p)
         /\ ~(Ahead(f, p, q) /\ Ahead(f, q, p))
         /\ ~Ahead(f, p, p)
<1>1. /\ p = <<p[1], p[2]>> /\ p[1] \in Chans /\ p[2] \in 1..2 /\ Fits(p[1], f)
      /\ q = <<q[1], q[2]>> /\ q[1] \in Chans /\ q[2] \in 1..2 /\ Fits(q[1], f)
  BY DEF OnWay
<1>2. /\ Hops(p[1], f) \in Nat /\ Hops(q[1], f) \in Nat
      /\ Hops(p[1], f) = Hops(q[1], f) => p[1] = q[1]
  BY <1>1, OneWay
<1> QED BY <1>1, <1>2 DEF Ahead

(* A packet at the front of a channel that is taken from goes; at an exit  *)
(* it is gone.  Every other comes nearer the front, or stays.              *)
Goes(p, take) == TakenFrom(p[1], take) /\ p[2] = 1
Gone(p, take) == Goes(p, take) /\ p[1][2] = "o"

Lands(p, take) ==
  IF Goes(p, take)
  THEN LET d == Onward(p[1], Head(chan[p[1]])) IN <<d, Len(Kept(d, take)) + 1>>
  ELSE <<p[1], p[2] - Shift(p[1], take)>>

LEMMA LandsParts ==
  ASSUME Shape, OnCourse, NEW take \in SUBSET Delivering,
         NEW f \in Flows, NEW p \in Places(f), ~Gone(p, take),
         NEW l, l = Lands(p, take)
  PROVE  /\ l = <<l[1], l[2]>> /\ l[1] \in Chans /\ l[2] \in Nat
         /\ Fits(l[1], f)
         /\ Goes(p, take) => /\ p[1][2] # "o" /\ l[1][2] # "x"
                             /\ Crosses(p[1], l[1], chan[p[1]][p[2]], take)
                             /\ Hops(l[1], f) + 1 = Hops(p[1], f)
                             /\ l[2] = Len(Kept(l[1], take)) + 1
         /\ ~Goes(p, take) => /\ l[1] = p[1] /\ l[2] + Shift(p[1], take) = p[2]
                              /\ l[2] \in 1..Len(Kept(p[1], take))
<1> DEFINE c == p[1]  k == p[2]  d == Onward(c, Head(chan[c]))
<1>1. /\ OnWay(p, f) /\ p = <<c, k>> /\ c \in Chans /\ k \in 1..2
      /\ k <= Len(chan[c]) /\ Len(chan[c]) \in 1..2 /\ chan[c] # <<>>
      /\ chan[c][k] \in Packets /\ chan[c][k].flow = f
  BY PlaceParts
<1>2. Fits(c, f)
  BY <1>1 DEF OnWay
<1>3. CASE Goes(p, take)
  <2>1. TakenFrom(c, take) /\ k = 1 /\ c[2] # "o" /\ Head(chan[c]) = chan[c][k]
    BY <1>1, <1>3, HeadFits DEF Goes, Gone
  <2>2. /\ d \in Chans /\ d[2] # "x" /\ Fits(d, f) /\ Hops(d, f) + 1 = Hops(c, f)
        /\ Crosses(c, d, chan[c][k], take)
    BY <1>1, <1>2, <2>1, OnwardFits DEF Crosses
  <2>3. l = <<d, Len(Kept(d, take)) + 1>>
    BY <1>3 DEF Lands
  <2> HIDE DEF d
  <2>4. l[1] = d /\ l[2] = Len(Kept(d, take)) + 1 /\ Len(Kept(d, take)) \in Nat
    BY <2>2, <2>3, KeptParts
  <2> QED BY <1>3, <2>1, <2>2, <2>3, <2>4
<1>4. CASE ~Goes(p, take)
  <2>1. l = <<c, k - Shift(c, take)>>
    BY <1>4 DEF Lands
  <2>2. /\ Len(Kept(c, take)) \in Nat /\ Len(Kept(c, take)) + Shift(c, take) = Len(chan[c])
        /\ Shift(c, take) \in 0..1
    BY <1>1, KeptParts
  <2>3. Shift(c, take) = 1 => k # 1
    BY <1>4 DEF Goes, Shift
  <2>4. k - Shift(c, take) \in 1..Len(Kept(c, take))
    BY <1>1, <2>2, <2>3
  <2>5. l[1] = c /\ l[2] = k - Shift(c, take)
    BY <2>1
  <2> QED BY <1>1, <1>2, <1>4, <2>1, <2>2, <2>4, <2>5
<1> QED BY <1>3, <1>4

LEMMA PlacesNext ==
  ASSUME Shape', NEW f \in Flows
  PROVE  /\ \A c \in Chans : \A k \in 1..Len(chan'[c]) :
              chan'[c][k].flow = f => <<c, k>> \in Places(f)'
         /\ \A q \in Places(f)' :
              /\ q = <<q[1], q[2]>> /\ q[1] \in Chans /\ q[2] \in 1..2
              /\ q[2] \in 1..Len(chan'[q[1]]) /\ chan'[q[1]][q[2]].flow = f
<1>1. ASSUME NEW c \in Chans, NEW k \in 1..Len(chan'[c]), chan'[c][k].flow = f
      PROVE  <<c, k>> \in Places(f)'
  <2>1. Len(chan'[c]) \in Nat /\ Len(chan'[c]) <= 2
    BY LenProperties DEF Shape
  <2>2. k \in 1..2 /\ k <= Len(chan'[c])
    BY <2>1
  <2> QED BY <1>1, <2>2 DEF Places
<1>2. ASSUME NEW q \in Places(f)'
      PROVE  /\ q = <<q[1], q[2]>> /\ q[1] \in Chans /\ q[2] \in 1..2
             /\ q[2] \in 1..Len(chan'[q[1]]) /\ chan'[q[1]][q[2]].flow = f
  <2>1. /\ q \in Chans \X (1..2) /\ q[2] <= Len(chan'[q[1]])
        /\ chan'[q[1]][q[2]].flow = f
    BY DEF Places
  <2>2. q = <<q[1], q[2]>> /\ q[1] \in Chans /\ q[2] \in 1..2
    BY <2>1
  <2>3. Len(chan'[q[1]]) \in Nat
    BY <2>2, LenProperties DEF Shape
  <2>4. q[2] \in 1..Len(chan'[q[1]])
    BY <2>1, <2>2, <2>3
  <2> QED BY <2>1, <2>2, <2>4
<1> QED BY <1>1, <1>2

(* A packet that is not gone is where it lands, with its number.           *)
LEMMA LandsHere ==
  ASSUME Shape, OnCourse,
         NEW send \in SUBSET Flows, NEW take \in SUBSET Delivering,
         Cycle(send, take), Shape',
         NEW f \in Flows, NEW p \in Places(f), ~Gone(p, take),
         NEW l, l = Lands(p, take)
  PROVE  l \in Places(f)' /\ Num(l)' = Num(p) /\ OnWay(l, f)
<1>1. /\ p[1] \in Chans /\ p[2] \in 1..2 /\ chan[p[1]][p[2]] \in Packets
      /\ chan[p[1]][p[2]].flow = f
  BY PlaceParts
<1>2. l = <<l[1], l[2]>> /\ l[1] \in Chans /\ l[2] \in Nat /\ Fits(l[1], f)
  BY LandsParts
<1>3. l[2] \in 1..Len(chan'[l[1]]) /\ chan'[l[1]][l[2]] = chan[p[1]][p[2]]
  <2>1. CASE Goes(p, take)
    <3>1. /\ Crosses(p[1], l[1], chan[p[1]][p[2]], take)
          /\ l[2] = Len(Kept(l[1], take)) + 1
      BY <2>1, LandsParts
    <3>2. Enters(l[1], chan[p[1]][p[2]], send, take)
      BY <1>1, <3>1 DEF Enters
    <3>3. Len(Kept(l[1], take)) \in Nat
      BY <1>2, KeptParts
    <3>4. /\ Len(chan'[l[1]]) = Len(Kept(l[1], take)) + 1
          /\ chan'[l[1]][Len(Kept(l[1], take)) + 1] = chan[p[1]][p[2]]
      BY <1>2, <3>2, EntersLast
    <3> QED BY <3>1, <3>3, <3>4
  <2>2. CASE ~Goes(p, take)
    <3>1. /\ l[1] = p[1] /\ l[2] + Shift(p[1], take) = p[2]
          /\ l[2] \in 1..Len(Kept(p[1], take))
      BY <2>2, LandsParts
    <3>2. chan'[l[1]][l[2]] = chan[p[1]][p[2]]
      <4>1. chan'[p[1]][l[2]] = chan[p[1]][l[2] + Shift(p[1], take)]
        BY <1>1, <3>1, KeptStays
      <4> QED BY <3>1, <4>1
    <3>3. /\ Len(Kept(p[1], take)) \in Nat /\ Len(chan'[p[1]]) \in Nat
          /\ Len(Kept(p[1], take)) <= Len(chan'[p[1]])
      BY <1>1, KeptParts, CyclePlaces
    <3> QED BY <3>1, <3>2, <3>3
  <2> QED BY <2>1, <2>2
<1>4. l \in Places(f)'
  BY <1>1, <1>2, <1>3, PlacesNext
<1>5. Num(l)' = Num(p)
  BY <1>3 DEF Num
<1>6. l[2] \in 1..2
  BY <1>4, PlacesNext
<1> QED BY <1>2, <1>4, <1>5, <1>6 DEF OnWay

(* A packet that is sent is behind what its source's channel keeps.        *)
Arrives(f, take) == <<<<f.from, "x">>, Len(Kept(<<f.from, "x">>, take)) + 1>>

LEMMA ArrivesHere ==
  ASSUME Shape, OnCourse,
         NEW send \in SUBSET Flows, NEW take \in SUBSET Delivering,
         Cycle(send, take), Shape',
         NEW f \in send, NEW a, a = Arrives(f, take)
  PROVE  /\ a \in Places(f)' /\ Num(a)' = sent[f] + 1 /\ OnWay(a, f)
         /\ a[1][2] = "x" /\ a[1] \in Chans
         /\ a[2] = Len(Kept(a[1], take)) + 1
<1> DEFINE c == <<f.from, "x">>  p == [flow |-> f, num |-> sent[f] + 1]
<1>1. c \in Chans /\ c[2] = "x" /\ c[1] = f.from
  BY FlowParts DEF Chans
<1>2. Enters(c, p, send, take)
  BY DEF Enters, Sends
<1>3. Fits(c, f)
  BY <1>1, FitsWays
<1>4. p.flow = f /\ p.num = sent[f] + 1
  OBVIOUS
<1> HIDE DEF c, p
<1>5. a = <<c, Len(Kept(c, take)) + 1>> /\ Len(Kept(c, take)) \in Nat
  BY <1>1, KeptParts DEF Arrives, c
<1>6. a[1] = c /\ a[2] = Len(Kept(c, take)) + 1
  BY <1>5
<1>7. Len(chan'[c]) = a[2] /\ chan'[c][a[2]] = p
  BY <1>1, <1>2, <1>6, EntersLast
<1>8. a[2] \in 1..Len(chan'[c]) /\ chan'[c][a[2]] = p
  BY <1>5, <1>6, <1>7
<1>9. a \in Places(f)'
  BY <1>1, <1>4, <1>5, <1>6, <1>8, PlacesNext
<1>10. Num(a)' = sent[f] + 1
  BY <1>4, <1>6, <1>8 DEF Num
<1>11. a[2] \in 1..2
  BY <1>9, PlacesNext
<1> QED BY <1>1, <1>3, <1>5, <1>6, <1>9, <1>10, <1>11 DEF OnWay

(* Nothing else is in the lattice after a cycle.                           *)
LEMMA Origin ==
  ASSUME Shape, OnCourse,
         NEW send \in SUBSET Flows, NEW take \in SUBSET Delivering,
         Cycle(send, take), Shape',
         NEW f \in Flows, NEW q \in Places(f)'
  PROVE  \/ \E p \in Places(f) : ~Gone(p, take) /\ q = Lands(p, take)
         \/ f \in send /\ q = Arrives(f, take)
<1> DEFINE c == q[1]  k == q[2]  s == Kept(c, take)  r == chan'[c][k]
<1>1. /\ q = <<c, k>> /\ c \in Chans /\ k \in 1..2 /\ k \in 1..Len(chan'[c])
      /\ r.flow = f
  BY PlacesNext
<1>2. Len(s) \in Nat /\ Shift(c, take) \in 0..1 /\ Len(s) + Shift(c, take) = Len(chan[c])
  BY <1>1, KeptParts
<1>3. CASE k <= Len(s)
  <2> DEFINE j == k + Shift(c, take)
  <2>1. k \in 1..Len(s) /\ j \in 1..Len(chan[c]) /\ j \in Nat /\ k \in Nat
    BY <1>1, <1>2, <1>3
  <2>2. r = chan[c][j]
    BY <1>1, <2>1, CyclePlaces
  <2>3. <<c, j>> \in Places(f)
    BY <1>1, <2>1, <2>2, PlaceHere
  <2>4. ~Goes(<<c, j>>, take)
    BY <1>2, <2>1 DEF Goes, Shift
  <2>5. j - Shift(c, take) = k
    BY <1>2, <2>1
  <2>6. Lands(<<c, j>>, take) = <<c, j - Shift(c, take)>>
    BY <2>4 DEF Lands
  <2> HIDE DEF j
  <2> QED BY <1>1, <2>3, <2>4, <2>5, <2>6 DEF Gone
<1>4. CASE ~(k <= Len(s))
  <2>1. k > Len(s)
    BY <1>1, <1>2, <1>4
  <2>2. k = Len(s) + 1 /\ Enters(c, r, send, take)
    BY <1>1, <2>1, CyclePlaces
  <2>3. CASE Sends(c, r, send)
    <3>1. PICK g \in send : c = <<g.from, "x">> /\ r = [flow |-> g, num |-> sent[g] + 1]
      BY <2>3 DEF Sends
    <3>2. g = f
      BY <1>1, <3>1
    <3> QED BY <1>1, <2>2, <3>1, <3>2 DEF Arrives
  <2>4. CASE \E e \in Chans : Crosses(e, c, r, take)
    <3>1. PICK e \in Chans : Crosses(e, c, r, take)
      BY <2>4
    <3>2. TakenFrom(e, take) /\ e[2] # "o" /\ r = Head(chan[e]) /\ c = Onward(e, r)
      BY <3>1 DEF Crosses
    <3>3. chan[e] # <<>>
      BY <3>2, TakenHolds
    <3>4. chan[e][1] = r /\ 1 \in 1..Len(chan[e])
      BY <3>2, <3>3, HeadFits
    <3>5. <<e, 1>> \in Places(f)
      BY <1>1, <3>4, PlaceHere
    <3> DEFINE p == <<e, 1>>
    <3>6. p[1] = e /\ p[2] = 1
      OBVIOUS
    <3>7. Goes(p, take) /\ ~Gone(p, take)
      BY <3>2, <3>6 DEF Goes, Gone
    <3>8. Lands(p, take) = <<c, Len(s) + 1>>
      BY <3>2, <3>6, <3>7 DEF Lands
    <3> HIDE DEF p
    <3>9. p \in Places(f)
      BY <3>5 DEF p
    <3> QED BY <1>1, <2>2, <3>7, <3>8, <3>9
  <2> QED BY <2>2, <2>3, <2>4 DEF Enters
<1> QED BY <1>3, <1>4

(* A cycle keeps the order: a packet that catches up with another of its   *)
(* flow is in the channel that one stays in, behind it.                    *)
LEMMA LandsOrder ==
  ASSUME Shape, OnCourse, NEW take \in SUBSET Delivering,
         NEW f \in Flows, NEW p \in Places(f), NEW q \in Places(f),
         ~Gone(p, take), ~Gone(q, take), Ahead(f, p, q)
  PROVE  Ahead(f, Lands(p, take), Lands(q, take))
<1> DEFINE l == Lands(p, take)  m == Lands(q, take)
<1>1. /\ p = <<p[1], p[2]>> /\ p[1] \in Chans /\ p[2] \in 1..2 /\ Fits(p[1], f)
      /\ q = <<q[1], q[2]>> /\ q[1] \in Chans /\ q[2] \in 1..2 /\ Fits(q[1], f)
  BY PlaceParts DEF OnWay
<1>2. /\ l = <<l[1], l[2]>> /\ l[1] \in Chans /\ l[2] \in Nat /\ Fits(l[1], f)
      /\ Goes(p, take) => Hops(l[1], f) + 1 = Hops(p[1], f)
      /\ ~Goes(p, take) => /\ l[1] = p[1] /\ l[2] + Shift(p[1], take) = p[2]
                           /\ l[2] \in 1..Len(Kept(p[1], take))
  BY LandsParts
<1>3. /\ m = <<m[1], m[2]>> /\ m[1] \in Chans /\ m[2] \in Nat /\ Fits(m[1], f)
      /\ Goes(q, take) => /\ Hops(m[1], f) + 1 = Hops(q[1], f)
                          /\ m[2] = Len(Kept(m[1], take)) + 1
      /\ ~Goes(q, take) => m[1] = q[1] /\ m[2] + Shift(q[1], take) = q[2]
  BY LandsParts
<1>4. /\ Hops(p[1], f) \in Nat /\ Hops(q[1], f) \in Nat
      /\ Hops(l[1], f) \in Nat /\ Hops(m[1], f) \in Nat
      /\ Hops(l[1], f) = Hops(m[1], f) => l[1] = m[1]
  BY <1>1, <1>2, <1>3, OneWay
<1>5. \A c \in Chans : Shift(c, take) \in 0..1 /\ Len(Kept(c, take)) \in Nat
  BY KeptParts
<1> HIDE DEF l, m
<1>6. CASE p[1] = q[1] /\ p[2] < q[2]
  <2>1. p[2] = 1 /\ q[2] = 2 /\ ~Goes(q, take)
    BY <1>1, <1>6 DEF Goes
  <2>2. CASE Goes(p, take)
    <3>1. Hops(l[1], f) + 1 = Hops(m[1], f)
      BY <1>2, <1>3, <1>6, <2>1, <2>2
    <3> QED BY <1>4, <3>1 DEF Ahead, l, m
  <2>3. CASE ~Goes(p, take)
    <3>1. l[1] = m[1] /\ l[2] < m[2]
      <4>1. Shift(p[1], take) \in 0..1 /\ Shift(q[1], take) = Shift(p[1], take)
        BY <1>1, <1>5, <1>6
      <4>2. /\ l[1] = p[1] /\ m[1] = q[1]
            /\ l[2] + Shift(p[1], take) = 1 /\ m[2] + Shift(p[1], take) = 2
        BY <1>2, <1>3, <2>1, <2>3, <4>1
      <4> QED BY <1>2, <1>3, <1>6, <4>1, <4>2
    <3> QED BY <3>1 DEF Ahead, l, m
  <2> QED BY <2>2, <2>3
<1>7. CASE Hops(p[1], f) < Hops(q[1], f)
  <2>1. CASE Hops(l[1], f) < Hops(m[1], f)
    BY <2>1 DEF Ahead, l, m
  <2>2. CASE ~(Hops(l[1], f) < Hops(m[1], f))
    <3>1. Hops(l[1], f) <= Hops(p[1], f)
      <4>1. Goes(p, take) => Hops(l[1], f) <= Hops(p[1], f)
        BY <1>2, <1>4
      <4>2. ~Goes(p, take) => Hops(l[1], f) <= Hops(p[1], f)
        BY <1>2, <1>4
      <4> QED BY <4>1, <4>2
    <3>2. Goes(q, take)
      BY <1>3, <1>4, <1>7, <2>2, <3>1
    <3>3. ~Goes(p, take)
      BY <1>2, <1>3, <1>4, <1>7, <2>2, <3>2
    <3>4. Hops(l[1], f) = Hops(m[1], f)
      BY <1>2, <1>3, <1>4, <1>7, <2>2, <3>2, <3>3
    <3>5. l[1] = m[1] /\ l[1] = p[1]
      BY <1>2, <1>4, <3>3, <3>4
    <3>6. l[2] \in 1..Len(Kept(m[1], take)) /\ m[2] = Len(Kept(m[1], take)) + 1
      BY <1>2, <1>3, <3>2, <3>3, <3>5
    <3>7. l[2] < m[2]
      BY <1>3, <1>5, <3>6
    <3> QED BY <3>5, <3>7 DEF Ahead, l, m
  <2> QED BY <2>1, <2>2
<1> QED BY <1>6, <1>7 DEF Ahead

LEMMA ArrivesBehind ==
  ASSUME Shape, OnCourse, NEW take \in SUBSET Delivering,
         NEW f \in Flows, NEW p \in Places(f), ~Gone(p, take),
         NEW a, OnWay(a, f), a[1][2] = "x", a[2] = Len(Kept(a[1], take)) + 1
  PROVE  Ahead(f, Lands(p, take), a)
<1> DEFINE l == Lands(p, take)
<1>1. /\ l = <<l[1], l[2]>> /\ l[1] \in Chans /\ l[2] \in Nat /\ Fits(l[1], f)
      /\ Goes(p, take) => l[1][2] # "x"
      /\ ~Goes(p, take) => l[1] = p[1] /\ l[2] \in 1..Len(Kept(p[1], take))
  BY LandsParts
<1>2. a = <<a[1], a[2]>> /\ a[1] \in Chans /\ Fits(a[1], f)
  BY DEF OnWay
<1>3. /\ Hops(l[1], f) \in Nat /\ Hops(a[1], f) \in Nat
      /\ Hops(l[1], f) = Hops(a[1], f) => l[1] = a[1]
      /\ Hops(l[1], f) <= Hops(a[1], f)
  BY <1>1, <1>2, OneWay
<1> HIDE DEF l
<1>4. CASE Hops(l[1], f) < Hops(a[1], f)
  BY <1>4 DEF Ahead, l
<1>5. CASE Hops(l[1], f) = Hops(a[1], f)
  <2>1. l[1] = a[1] /\ ~Goes(p, take)
    BY <1>1, <1>3, <1>5
  <2>2. l[2] \in 1..Len(Kept(a[1], take)) /\ Len(Kept(a[1], take)) \in Nat
    BY <1>1, <1>2, <2>1, KeptParts
  <2>3. l[2] < a[2]
    BY <2>2
  <2> QED BY <2>1, <2>3 DEF Ahead, l
<1> QED BY <1>3, <1>4, <1>5

(* What is delivered was ahead of everything else of its flow.             *)
LEMMA GoneFirst ==
  ASSUME Shape, OnCourse, NEW take \in SUBSET Delivering,
         NEW f \in Flows, NEW p \in Places(f), Gone(p, take),
         NEW q \in Places(f), q # p
  PROVE  Ahead(f, p, q)
<1>1. /\ p = <<p[1], p[2]>> /\ p[1] \in Chans /\ p[2] = 1 /\ Fits(p[1], f)
      /\ q = <<q[1], q[2]>> /\ q[1] \in Chans /\ q[2] \in 1..2 /\ Fits(q[1], f)
      /\ p[1][2] = "o"
  BY PlaceParts DEF OnWay, Gone, Goes
<1>2. /\ Hops(p[1], f) = 0 /\ Hops(q[1], f) \in Nat
      /\ Hops(p[1], f) = Hops(q[1], f) => p[1] = q[1]
  BY <1>1, OneWay
<1> QED BY <1>1, <1>2 DEF Ahead

(* A delivery is counted, and only that.                                   *)
LEMMA GoneCounted ==
  ASSUME Shape, OnCourse,
         NEW send \in SUBSET Flows, NEW take \in SUBSET Delivering,
         Cycle(send, take), NEW f \in Flows
  PROVE  /\ (\E p \in Places(f) : Gone(p, take)) => rcvd'[f] = rcvd[f] + 1
         /\ (\A p \in Places(f) : ~Gone(p, take)) => rcvd'[f] = rcvd[f]
<1> DEFINE from(g) == \E n \in take : Head(chan[<<n, "o">>]).flow = g
           out == from(f)
<1>1. rcvd'[f] = IF out THEN rcvd[f] + 1 ELSE rcvd[f]
  <2>1. rcvd' = [g \in Flows |-> IF from(g) THEN rcvd[g] + 1 ELSE rcvd[g]]
    BY CycleCounts
  <2> HIDE DEF from
  <2> QED BY <2>1
<1>2. ASSUME NEW p \in Places(f), Gone(p, take) PROVE out
  <2>1. /\ p[1] \in Chans /\ p[2] = 1 /\ chan[p[1]] # <<>> /\ chan[p[1]][p[2]].flow = f
        /\ TakenFrom(p[1], take) /\ p[1][2] = "o"
    BY <1>2, PlaceParts DEF Gone, Goes
  <2>2. p[1] = <<p[1][1], "o">> /\ p[1][1] \in Nodes
    BY <2>1, ChanParts
  <2>3. p[1][1] \in take
    <3>1. Moves(p[1][1]) => In[Pick(p[1][1]) + 1] \in {"n", "s", "w", "e", "x"}
      BY <2>2, PickAble, InputNames
    <3>2. ASSUME Moves(p[1][1]), p[1] = <<p[1][1], In[Pick(p[1][1]) + 1]>>
          PROVE  FALSE
      <4> DEFINE w == In[Pick(p[1][1]) + 1]
      <4>1. p[1][2] = w
        BY <3>2
      <4> QED BY <2>1, <3>1, <3>2, <4>1
    <3> QED BY <2>1, <3>2 DEF TakenFrom
  <2>4. Head(chan[p[1]]).flow = f
    BY <2>1, HeadFits
  <2> QED BY <2>2, <2>3, <2>4
<1>3. ASSUME out PROVE \E p \in Places(f) : Gone(p, take)
  <2>1. PICK n \in take : Head(chan[<<n, "o">>]).flow = f
    BY <1>3
  <2> DEFINE c == <<n, "o">>
  <2>2. n \in Nodes /\ chan[c] # <<>>
    BY DEF Delivering, Offered
  <2>3. c \in Chans /\ c[2] = "o" /\ c[1] = n
    BY <2>2 DEF Chans
  <2>4. Head(chan[c]).flow = f
    BY <2>1
  <2> HIDE DEF c
  <2>5. chan[c][1].flow = f /\ 1 \in 1..Len(chan[c])
    BY <2>2, <2>3, <2>4, HeadFits
  <2>6. <<c, 1>> \in Places(f)
    BY <2>3, <2>5, PlaceHere
  <2>7. Gone(<<c, 1>>, take)
    BY <2>3 DEF Gone, Goes, TakenFrom
  <2> QED BY <2>6, <2>7
<1> HIDE DEF out
<1> QED BY <1>1, <1>2, <1>3

-----------------------------------------------------------------------------
(* The invariant.  InOrder is not inductive alone: that a packet which     *)
(* catches up with another of its flow does so in one channel rests on     *)
(* OnCourse, by which a flow has one way only.                             *)
Ordered(f) ==
  /\ {Num(p) : p \in Places(f)} = (rcvd[f] + 1)..sent[f]
  /\ \A p, q \in Places(f) : Ahead(f, p, q) <=> Num(p) < Num(q)

Inv ==
  /\ Shape /\ OnCourse
  /\ \A f \in Flows : Ordered(f) /\ rcvd[f] <= sent[f]

LEMMA OrderedAll == InOrder <=> \A f \in Flows : Ordered(f)
  BY DEF InOrder, Ordered, Num

LEMMA CycleOrder ==
  ASSUME Inv, NEW send \in SUBSET Flows, NEW take \in SUBSET Delivering,
         Cycle(send, take), Shape', NEW f \in Flows
  PROVE  Ordered(f)' /\ rcvd'[f] <= sent'[f]
<1> DEFINE r == rcvd[f]  s == sent[f]  r2 == rcvd'[f]  s2 == sent'[f]
           P == Places(f)  Q == Places(f)'
           num(p) == Num(p)
           num2(p) == chan'[p[1]][p[2]].num
           gone(p) == Gone(p, take)
           land(p) == Lands(p, take)
           ahead(p, q) == Ahead(f, p, q)
           sends == f \in send
           last == Arrives(f, take)
<1>1. /\ Shape /\ OnCourse /\ r \in Nat /\ s \in Nat /\ r <= s
      /\ {Num(p) : p \in P} = (r + 1)..s
      /\ \A p, q \in P : ahead(p, q) <=> num(p) < num(q)
  BY DEF Inv, Shape, Ordered
<1>2. \A p \in P : num(p) \in (r + 1)..s
  BY <1>1
<1>3. \A n \in (r + 1)..s : \E p \in P : num(p) = n
  BY <1>1
<1>4. \A p, q \in P : p # q => num(p) # num(q)
  <2>1. \A p \in P : OnWay(p, f) /\ num(p) \in Nat
    BY <1>1, PlaceParts
  <2>2. \A p, q \in P : p = q \/ ahead(p, q) \/ ahead(q, p)
    BY <2>1, AheadOrder
  <2> HIDE DEF P, num, ahead
  <2> QED BY <1>1, <2>1, <2>2
<1>5. (sends => s2 = s + 1) /\ (~sends => s2 = s)
  <2>1. sent' = [g \in Flows |-> IF g \in send THEN sent[g] + 1 ELSE sent[g]]
    BY CycleCounts
  <2> QED BY <2>1
<1>6. /\ (\E p \in P : gone(p)) => r2 = r + 1
      /\ (\A p \in P : ~gone(p)) => r2 = r
  BY <1>1, GoneCounted
<1>7. \A p, q \in P : gone(p) /\ p # q => ahead(p, q)
  BY <1>1, GoneFirst
<1>8. ASSUME NEW p \in P, ~gone(p)
      PROVE  land(p) \in Q /\ num2(land(p)) = num(p) /\ OnWay(land(p), f)
  <2> SUFFICES ASSUME NEW l, l = land(p)
               PROVE  l \in Q /\ num2(l) = num(p) /\ OnWay(l, f)
    OBVIOUS
  <2>1. l \in Q /\ Num(l)' = num(p) /\ OnWay(l, f)
    BY <1>1, <1>8, LandsHere
  <2>2. Num(l)' = num2(l)
    BY DEF Num
  <2> QED BY <2>1, <2>2
<1>9. ASSUME sends
      PROVE  /\ last \in Q /\ num2(last) = s + 1 /\ OnWay(last, f)
             /\ \A p \in P : ~gone(p) => ahead(land(p), last)
  <2> SUFFICES ASSUME NEW a, a = last
               PROVE  /\ a \in Q /\ num2(a) = s + 1 /\ OnWay(a, f)
                      /\ \A p \in P : ~gone(p) => ahead(land(p), a)
    OBVIOUS
  <2>1. /\ a \in Q /\ Num(a)' = s + 1 /\ OnWay(a, f)
        /\ a[1][2] = "x" /\ a[1] \in Chans /\ a[2] = Len(Kept(a[1], take)) + 1
    BY <1>1, <1>9, ArrivesHere
  <2>2. Num(a)' = num2(a)
    BY DEF Num
  <2>3. \A p \in P : ~gone(p) => ahead(land(p), a)
    BY <1>1, <2>1, ArrivesBehind
  <2> QED BY <2>1, <2>2, <2>3
<1>10. \A q \in Q : (\E p \in P : ~gone(p) /\ q = land(p)) \/ (sends /\ q = last)
  <2> SUFFICES ASSUME NEW q \in Q
               PROVE  (\E p \in P : ~gone(p) /\ q = land(p)) \/ (sends /\ q = last)
    OBVIOUS
  <2> QED BY <1>1, Origin
<1>11. \A p, q \in P : ~gone(p) /\ ~gone(q) /\ ahead(p, q) => ahead(land(p), land(q))
  BY <1>1, LandsOrder
<1>12. \A a, b : OnWay(a, f) /\ OnWay(b, f) => ~(ahead(a, b) /\ ahead(b, a)) /\ ~ahead(a, a)
  BY AheadOrder
<1>13. Ordered(f)' <=> /\ {num2(q) : q \in Q} = (r2 + 1)..s2
                       /\ \A p, q \in Q : ahead(p, q) <=> num2(p) < num2(q)
  BY DEF Ordered, Num
<1> HIDE DEF r, s, r2, s2, P, Q, num, num2, gone, land, ahead, sends, last
<1>14. ASSUME NEW p \in P, gone(p)
       PROVE  num(p) = r + 1 /\ r < s /\ \A q \in P : q # p => num(q) > r + 1
  <2>1. \A q \in P : q # p => num(p) < num(q)
    BY <1>1, <1>7, <1>14
  <2>2. num(p) \in (r + 1)..s
    BY <1>2
  <2>3. r + 1 \in (r + 1)..s /\ r < s
    BY <1>1, <2>2
  <2>4. PICK q \in P : num(q) = r + 1
    BY <1>3, <2>3
  <2>5. q = p
    BY <1>1, <2>1, <2>2, <2>4
  <2> QED BY <1>1, <2>1, <2>3, <2>4, <2>5
<1>15. /\ r2 \in Nat /\ s2 \in Nat /\ r2 <= s /\ r <= r2 /\ s <= s2 /\ r2 <= s2
       /\ \A p \in P : ~gone(p) => num(p) \in (r2 + 1)..s
  <2>1. CASE \E p \in P : gone(p)
    <3>1. PICK p \in P : gone(p)
      BY <2>1
    <3>2. r2 = r + 1 /\ r < s /\ \A q \in P : q # p => num(q) > r + 1
      BY <1>6, <1>14, <3>1
    <3>3. \A q \in P : ~gone(q) => q # p
      BY <3>1
    <3> QED BY <1>1, <1>2, <1>5, <3>2, <3>3
  <2>2. CASE \A p \in P : ~gone(p)
    BY <1>1, <1>2, <1>5, <1>6, <2>2
  <2> QED BY <2>1, <2>2
<1>16. \A p \in P : num(p) # s + 1
  BY <1>1, <1>2
<1>17. {num2(q) : q \in Q} = (r2 + 1)..s2
  <2>1. ASSUME NEW q \in Q
        PROVE  num2(q) \in (r2 + 1)..s2
    <3>1. ASSUME NEW p \in P, ~gone(p), q = land(p) PROVE num2(q) \in (r2 + 1)..s2
      <4>1. num2(q) = num(p) /\ num(p) \in (r2 + 1)..s
        BY <1>8, <1>15, <3>1
      <4> QED BY <1>1, <1>15, <4>1
    <3>2. CASE sends /\ q = last
      <4>1. num2(q) = s + 1 /\ s2 = s + 1
        BY <1>5, <1>9, <3>2
      <4> QED BY <1>1, <1>15, <4>1
    <3> QED BY <1>10, <3>1, <3>2
  <2>2. ASSUME NEW n \in (r2 + 1)..s2
        PROVE  \E q \in Q : num2(q) = n
    <3>1. CASE n <= s
      <4>1. n \in (r + 1)..s
        BY <1>1, <1>15, <3>1
      <4>2. PICK p \in P : num(p) = n
        BY <1>3, <4>1
      <4>3. ~gone(p)
        <5>1. gone(p) => n = r + 1 /\ r2 = r + 1
          BY <1>6, <1>14, <4>2
        <5> QED BY <1>1, <1>15, <5>1
      <4> QED BY <1>8, <4>2, <4>3
    <3>2. CASE n > s
      <4>1. sends /\ n = s + 1
        BY <1>1, <1>5, <1>15, <3>2
      <4> QED BY <1>9, <4>1
    <3> QED BY <1>1, <1>15, <3>1, <3>2
  <2> QED BY <2>1, <2>2
<1>18. \A a \in Q : OnWay(a, f) /\ num2(a) \in Nat
  <2>1. \A a \in Q : num2(a) \in (r2 + 1)..s2
    BY <1>17
  <2>2. \A a \in Q : OnWay(a, f)
    BY <1>8, <1>9, <1>10
  <2> QED BY <1>15, <2>1, <2>2
<1>19. ASSUME NEW a \in Q, NEW b \in Q, num2(a) < num2(b)
       PROVE  ahead(a, b)
  <2>1. ~(sends /\ a = last)
    <3>1. num2(b) \in (r2 + 1)..s2
      BY <1>17
    <3> QED BY <1>1, <1>5, <1>9, <1>15, <1>19, <3>1
  <2>2. PICK p \in P : ~gone(p) /\ a = land(p)
    BY <1>10, <2>1
  <2>3. CASE sends /\ b = last
    BY <1>9, <2>2, <2>3
  <2>4. ASSUME NEW q \in P, ~gone(q), b = land(q) PROVE ahead(a, b)
    <3>1. num(p) < num(q)
      BY <1>8, <1>19, <2>2, <2>4
    <3>2. ahead(p, q)
      BY <1>1, <3>1
    <3> QED BY <1>11, <2>2, <2>4, <3>2
  <2> QED BY <1>10, <2>3, <2>4
<1>20. ASSUME NEW a \in Q, NEW b \in Q, num2(a) = num2(b)
       PROVE  a = b
  <2>1. ASSUME NEW p \in P, ~gone(p) PROVE num2(land(p)) # s + 1
    BY <1>8, <1>16, <2>1
  <2>2. CASE sends /\ a = last
    BY <1>9, <1>10, <1>20, <2>1, <2>2
  <2>3. CASE sends /\ b = last
    BY <1>9, <1>10, <1>20, <2>1, <2>3
  <2>4. ASSUME NEW p \in P, NEW q \in P, ~gone(p), ~gone(q), a = land(p), b = land(q)
        PROVE  a = b
    <3>1. num(p) = num(q)
      BY <1>8, <1>20, <2>4
    <3> QED BY <1>4, <2>4, <3>1
  <2> QED BY <1>10, <2>2, <2>3, <2>4
<1>21. ASSUME NEW a \in Q, NEW b \in Q, ahead(a, b)
       PROVE  num2(a) < num2(b)
  <2>1. ~ahead(b, a) /\ a # b
    BY <1>12, <1>18, <1>21
  <2>2. ~(num2(b) < num2(a)) /\ num2(a) # num2(b)
    BY <1>19, <1>20, <2>1
  <2>3. num2(a) \in Nat /\ num2(b) \in Nat
    BY <1>18
  <2> QED BY <2>2, <2>3
<1>22. Ordered(f)'
  BY <1>13, <1>17, <1>19, <1>21
<1> QED BY <1>15, <1>22 DEF r2, s2

LEMMA NextOrder ==
  ASSUME Inv, [Next]_vars
  PROVE  Inv'
<1>1. Shape' /\ OnCourse'
  BY NextCourse DEF Inv
<1>2. ASSUME NEW f \in Flows
      PROVE  Ordered(f)' /\ rcvd'[f] <= sent'[f]
  <2>1. CASE Reset
    <3>1. /\ chan' = [c \in Chans |-> <<>>] /\ rcvd' = sent /\ sent' = sent
          /\ sent[f] \in Nat
      BY <2>1 DEF Reset, Inv, Shape
    <3>2. Places(f)' = {}
      <4> SUFFICES ASSUME NEW q \in Places(f)' PROVE FALSE
        OBVIOUS
      <4>1. q[1] \in Chans /\ q[2] \in 1..Len(chan'[q[1]])
        BY <1>1, PlacesNext
      <4> QED BY <3>1, <4>1
    <3>3. (rcvd'[f] + 1)..sent'[f] = {}
      BY <3>1
    <3>4. Ordered(f)'
      BY <3>2, <3>3 DEF Ordered
    <3> QED BY <3>1, <3>4
  <2>2. ASSUME NEW send \in SUBSET Flows, NEW take \in SUBSET Delivering,
               Cycle(send, take)
        PROVE  Ordered(f)' /\ rcvd'[f] <= sent'[f]
    BY <1>1, <2>2, CycleOrder
  <2>3. CASE UNCHANGED vars
    <3>1. chan' = chan /\ rcvd' = rcvd /\ sent' = sent
      BY <2>3 DEF vars
    <3>2. Ordered(f) /\ rcvd[f] <= sent[f]
      BY DEF Inv
    <3> QED BY <3>1, <3>2 DEF Ordered, Places, Num
  <2> QED BY <2>1, <2>2, <2>3 DEF Next
<1> QED BY <1>1, <1>2 DEF Inv

LEMMA InitOrder == Init => Inv
<1> SUFFICES ASSUME Init PROVE Inv
  OBVIOUS
<1>1. Shape /\ OnCourse
  BY InitCourse
<1>2. ASSUME NEW f \in Flows
      PROVE  Ordered(f) /\ rcvd[f] <= sent[f]
  <2>1. Places(f) = {}
    BY DEF Init, Places
  <2>2. rcvd[f] = 0 /\ sent[f] = 0
    BY DEF Init
  <2> QED BY <2>1, <2>2 DEF Ordered
<1> QED BY <1>1, <1>2 DEF Inv

LEMMA InvAlways == Spec => []Inv
<1>1. Inv /\ [Next]_vars => Inv'
  BY NextOrder
<1> QED BY <1>1, InitOrder, PTL DEF Spec

(* The packets of every flow that are in the lattice are those sent and    *)
(* not delivered, each once and the older the nearer, whatever the         *)
(* switches choose (pick, turn) and wherever there is room.                *)
THEOREM MeshInOrder == Spec => []InOrder
<1>1. Inv => InOrder
  BY OrderedAll DEF Inv
<1> QED BY <1>1, InvAlways, PTL

(* The types of the lattice, and that nothing is delivered that was not    *)
(* sent: a channel never holds a third packet, and rcvd <= sent rests on   *)
(* the order of the flows.                                                 *)
THEOREM MeshType == Spec => []TypeOK
<1>1. Inv => TypeOK
  BY DEF Inv, Shape, TypeOK
<1> QED BY <1>1, InvAlways, PTL
-----------------------------------------------------------------------------
(* The lattice never jams.  The channels have an order that every packet   *)
(* follows downwards: the sources, the links along X, each after those     *)
(* that lead to it, the links along Y likewise, the exits.                 *)
Height(c) ==
  CASE c[2] = "x" -> Rows + Cols + 1
    [] c[2] = "w" -> Rows + Cols - c[1][1]
    [] c[2] = "e" -> Rows + c[1][1] + 1
    [] c[2] = "n" -> Rows - c[1][2]
    [] c[2] = "s" -> c[1][2] + 1
    [] c[2] = "o" -> 0

LEMMA Heights ==
  ASSUME NEW c \in Chans
  PROVE  /\ Height(c) \in Nat
         /\ c[2] = "x" => Height(c) = Rows + Cols + 1
         /\ c[2] = "w" => Height(c) = Rows + Cols - c[1][1]
         /\ c[2] = "e" => Height(c) = Rows + c[1][1] + 1
         /\ c[2] = "n" => Height(c) = Rows - c[1][2]
         /\ c[2] = "s" => Height(c) = c[1][2] + 1
         /\ c[2] = "o" => Height(c) = 0
<1>1. /\ c[2] = "x" => Height(c) = Rows + Cols + 1
      /\ c[2] = "w" => Height(c) = Rows + Cols - c[1][1]
      /\ c[2] = "e" => Height(c) = Rows + c[1][1] + 1
      /\ c[2] = "n" => Height(c) = Rows - c[1][2]
      /\ c[2] = "s" => Height(c) = c[1][2] + 1
      /\ c[2] = "o" => Height(c) = 0
  BY DEF Height
<1>2. /\ c[1][1] \in Nat /\ c[1][2] \in Nat /\ c[1][1] < Cols /\ c[1][2] < Rows
      /\ Cols \in Nat /\ Rows \in Nat
      /\ c[2] \in {"n", "s", "w", "e", "x", "o"}
  BY ChanParts, NodeParts
<1>3. Height(c) \in Nat
  BY <1>1, <1>2
<1> QED BY <1>1, <1>3

(* A packet never climbs: from X it turns into Y but never back, and along *)
(* either it keeps its direction (route).                                  *)
LEMMA OnwardDown ==
  ASSUME NEW c \in Chans, c[2] # "o", NEW p \in Packets, Fits(c, p.flow)
  PROVE  Height(Onward(c, p)) < Height(c)
<1> DEFINE d == Onward(c, p)
           f == p.flow
<1>1. /\ d \in Chans /\ d[2] # "x" /\ Fits(d, f) /\ Source(d) = c[1]
  BY OnwardFits
<1> HIDE DEF d
<1>2. /\ c[2] \in {"n", "s", "w", "e", "x"}
      /\ d[2] \in {"n", "s", "w", "e", "o"}
      /\ c[1][1] \in Nat /\ c[1][2] \in Nat /\ c[1][1] < Cols /\ c[1][2] < Rows
      /\ d[1][1] \in Nat /\ d[1][2] \in Nat /\ d[1][1] < Cols /\ d[1][2] < Rows
      /\ Cols \in Nat /\ Rows \in Nat
      /\ f.from[1] \in Nat /\ f.from[2] \in Nat /\ f.to[1] \in Nat /\ f.to[2] \in Nat
  BY <1>1, ChanParts, NodeParts, FlowParts DEF Packets
<1>3. /\ d[2] = "w" => c[1] = <<d[1][1] - 1, d[1][2]>>
      /\ d[2] = "e" => c[1] = <<d[1][1] + 1, d[1][2]>>
      /\ d[2] = "n" => c[1] = <<d[1][1], d[1][2] - 1>>
      /\ d[2] = "s" => c[1] = <<d[1][1], d[1][2] + 1>>
      /\ d[2] = "o" => c[1] = d[1]
  BY <1>1 DEF Source
<1>4. /\ d[2] = "w" => c[1][1] = d[1][1] - 1 /\ c[1][2] = d[1][2]
      /\ d[2] = "e" => c[1][1] = d[1][1] + 1 /\ c[1][2] = d[1][2]
      /\ d[2] = "n" => c[1][1] = d[1][1] /\ c[1][2] = d[1][2] - 1
      /\ d[2] = "s" => c[1][1] = d[1][1] /\ c[1][2] = d[1][2] + 1
  BY <1>3
<1>5. CASE d[2] = "o"
  <2>1. Height(d) = 0
    BY <1>1, <1>5, Heights
  <2>2. Height(c) > 0
    BY <1>2, Heights
  <2> QED BY <2>1, <2>2 DEF d
<1>6. CASE d[2] = "w"
  <2>1. c[2] \in {"x", "w"}
    BY <1>1, <1>2, <1>4, <1>6, FitsWays
  <2>2. Height(d) = Rows + Cols - d[1][1]
    BY <1>1, <1>6, Heights
  <2> QED BY <1>2, <1>4, <1>6, <2>1, <2>2, Heights DEF d
<1>7. CASE d[2] = "e"
  <2>1. c[2] \in {"x", "e"}
    BY <1>1, <1>2, <1>4, <1>7, FitsWays
  <2>2. Height(d) = Rows + d[1][1] + 1
    BY <1>1, <1>7, Heights
  <2> QED BY <1>2, <1>4, <1>7, <2>1, <2>2, Heights DEF d
<1>8. CASE d[2] = "n"
  <2>1. c[2] \in {"x", "w", "e", "n"}
    BY <1>1, <1>2, <1>4, <1>8, FitsWays
  <2>2. Height(d) = Rows - d[1][2]
    BY <1>1, <1>8, Heights
  <2> QED BY <1>2, <1>4, <1>8, <2>1, <2>2, Heights DEF d
<1>9. CASE d[2] = "s"
  <2>1. c[2] \in {"x", "w", "e", "s"}
    BY <1>1, <1>2, <1>4, <1>9, FitsWays
  <2>2. Height(d) = d[1][2] + 1
    BY <1>1, <1>9, Heights
  <2> QED BY <1>2, <1>4, <1>9, <2>1, <2>2, Heights DEF d
<1> QED BY <1>2, <1>5, <1>6, <1>7, <1>8, <1>9

(* The lattice is never stuck: if no switch can move and no exit offers    *)
(* anything, it is empty.  It is what Drains needs beside fairness.        *)
NeverJams ==
  Delivering = {} /\ (\A n \in Nodes : ~Moves(n))
  => \A c \in Chans : chan[c] = <<>>

LEMMA LowestMoves == Shape /\ OnCourse => NeverJams
<1> SUFFICES ASSUME Shape, OnCourse, Delivering = {}, \A n \in Nodes : ~Moves(n),
                    NEW held \in Chans, chan[held] # <<>>
             PROVE  FALSE
  BY DEF NeverJams
<1> DEFINE busy == {c \in Chans : chan[c] # <<>>}
           heights == {Height(c) : c \in busy}
<1>1. heights \in SUBSET Nat /\ heights # {}
  BY Heights
<1>2. PICK h \in heights : \A k \in heights : h <= k
  BY <1>1, LeastNatural
<1>3. PICK c \in busy : h = Height(c)
  BY <1>2
<1>4. \A d \in Chans : chan[d] # <<>> => Height(c) <= Height(d)
  BY <1>2, <1>3
<1>5. c \in Chans /\ chan[c] # <<>>
  BY <1>3
<1> HIDE DEF busy, heights
<1>6. /\ c = <<c[1], c[2]>> /\ c[1] \in Nodes
      /\ c[2] \in {"n", "s", "w", "e", "x", "o"}
  BY <1>5, ChanParts
<1>7. c[2] # "o"
  BY <1>5, <1>6 DEF Delivering, Offered
<1> DEFINE p == Head(chan[c])
           d == Onward(c, p)
<1>8. p \in Packets /\ Fits(c, p.flow)
  BY <1>5, HeadFits
<1>9. d \in Chans /\ Height(d) < Height(c)
  BY <1>5, <1>7, <1>8, OnwardFits, OnwardDown
<1>10. chan[d] = <<>>
  <2>1. Height(d) \in Nat /\ Height(c) \in Nat
    BY <1>5, <1>9, Heights
  <2> QED BY <1>4, <1>9, <2>1
<1>11. PICK i \in 0..4 : c[2] = In[i + 1]
  <2>1. /\ In[0 + 1] = "n" /\ In[1 + 1] = "s" /\ In[2 + 1] = "w"
        /\ In[3 + 1] = "e" /\ In[4 + 1] = "x"
    BY DEF In
  <2> QED BY <1>6, <1>7, <2>1
<1>12. Able(c[1], i)
  <2>1. Input(c[1], i) = chan[c]
    BY <1>6, <1>11 DEF Input
  <2>2. Wanted(c[1], i) = d
    BY <2>1 DEF Wanted, Onward
  <2>3. Len(chan[d]) = 0
    BY <1>10
  <2> QED BY <1>5, <2>1, <2>2, <2>3 DEF Able, Offered, Room
<1> QED BY <1>6, <1>12, PickAble

(* Routing X before Y cannot deadlock, whatever the flows and the size of  *)
(* the lattice: as long as a packet is anywhere, some switch moves one or  *)
(* some exit offers one (route, pick).                                     *)
THEOREM MeshNeverJams == Spec => []NeverJams
<1>1. Inv => NeverJams
  BY LowestMoves DEF Inv
<1> QED BY <1>1, InvAlways, PTL
=============================================================================
