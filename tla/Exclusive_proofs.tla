-------------------------- MODULE Exclusive_proofs --------------------------
(***************************************************************************)
(* Proofs about Arbiter, alone and under Exclusive, for every number of    *)
(* hosts it can be made for, every width of identifiers, every set of      *)
(* lines, every length of the hold and every bound.                        *)
(*                                                                         *)
(* The first part is about the arbiter alone (Spec).  The second is about  *)
(* the arbiter with the monitor below it and the harts above (MonSpec).    *)
(***************************************************************************)
EXTENDS Exclusive, ModelLemmas, FiniteSetTheorems

(* A host has yet to hand over the rest of its burst on the link, then the *)
(* beats of the write it shows.                                            *)
OnLink(i) == IF open # <<>> /\ open[1].who = i THEN open[1].len ELSE 0
Showing(i) == IF aws[i] # NoReq THEN aws[i].len ELSE 0
BurstAt(s, from, len) == \A k \in 1..len : s[from + k] = (k = len)
BeatsShown ==
  \A i \in Hosts :
    /\ Len(beats[i]) = OnLink(i) + Showing(i)
    /\ BurstAt(beats[i], 0, OnLink(i))
    /\ BurstAt(beats[i], OnLink(i), Showing(i))

(* The link belongs to the oldest write whose beats are not all out.       *)
LinkHeld ==
  /\ Len(open) <= 1
  /\ wbusy <=> open # <<>>
  /\ wbusy => wsel = {open[1].who} /\ Who(open[1].tag) = open[1].who

(* The round robin, starting from turn, comes to i before it comes to j.   *)
Before(turn, i, j) ==
  IF turn <= i THEN i < j \/ j < turn ELSE i < j /\ j < turn

(* Another's grant puts it behind whoever waited.                          *)
PassedBehind(passed, turn) ==
  \A i, j \in Hosts : passed[i][j] <= 1 /\ (passed[i][j] = 1 => Before(turn, i, j))

Turns == PassedBehind(rpassed, rturn) /\ PassedBehind(wpassed, wturn)

Inv == TypeOK /\ LinkHeld /\ BeatsShown /\ AnswersHome

-----------------------------------------------------------------------------
(* The lowest of a set of hosts.                                           *)
LEMMA HostNumbers ==
  /\ Hosts \subseteq Nat /\ 0 \in Hosts
  /\ \A i \in Hosts : i <= N - 1 /\ After(i) \in Hosts
  /\ N \in Nat \ {0}
  BY ArbiterAssumption DEF Hosts, After

LEMMA LowestIsLeast ==
  ASSUME NEW S \in SUBSET Hosts, S # {}
  PROVE  Lowest(S) \in S /\ \A j \in S : Lowest(S) <= j
<1>1. S \in SUBSET Nat
  BY HostNumbers
<1>2. \E m \in S : \A k \in S : m <= k
  BY <1>1, LeastNatural
<1> QED BY <1>2 DEF Lowest

(* The round robin picks one that offers, and every other that offers      *)
(* comes after it in the turn.                                             *)
LEMMA FirstOffers ==
  ASSUME NEW offers \in SUBSET Hosts, offers # {}, NEW turn \in Hosts
  PROVE  /\ First(offers, turn) \in offers
         /\ ~FIXED => \A j \in offers : j # First(offers, turn) =>
                        Before(turn, First(offers, turn), j)
<1> DEFINE hi == IF FIXED THEN offers ELSE {i \in offers : turn <= i}
           S == IF hi # {} THEN hi ELSE offers
           w == First(offers, turn)
<1>1. w = Lowest(S) /\ S \in SUBSET Hosts /\ S # {} /\ S \subseteq offers
  BY DEF First
<1>2. w \in S /\ \A j \in S : w <= j
  <2> HIDE DEF S, w
  <2> QED BY <1>1, LowestIsLeast
<1>3. ASSUME ~FIXED, NEW j \in offers, j # w PROVE Before(turn, w, j)
  <2>1. turn \in Nat /\ w \in Nat /\ j \in Nat
    <3> HIDE DEF w, S
    <3> QED BY <1>1, <1>2, <1>3, HostNumbers
  <2>2. hi = {i \in offers : turn <= i}
    BY <1>3
  <2>3. CASE hi # {}
    <3>1. turn <= w /\ (turn <= j => w <= j)
      BY <1>2, <2>2, <2>3
    <3> HIDE DEF w
    <3> QED BY <1>3, <2>1, <3>1 DEF Before
  <2>4. CASE hi = {}
    <3>1. ~(turn <= w) /\ ~(turn <= j) /\ w <= j
      BY <1>1, <1>2, <2>2, <2>4
    <3> HIDE DEF w
    <3> QED BY <1>3, <2>1, <3>1 DEF Before
  <2> QED BY <2>3, <2>4
<1> QED BY <1>1, <1>2, <1>3

LEMMA Granted ==
  ASSUME TypeOK
  PROVE  /\ ArOffers # {} => ar_who \in ArOffers
         /\ AwOffers # {} => aw_who \in AwOffers
<1>1. ArOffers \in SUBSET Hosts /\ AwOffers \in SUBSET Hosts
  BY DEF ArOffers, AwOffers
<1>2. rturn \in Hosts /\ wturn \in Hosts
  BY DEF TypeOK
<1> QED BY <1>1, <1>2, FirstOffers DEF ar_who, aw_who

-----------------------------------------------------------------------------
(* The tags: each stands for one host and one identifier of its own.       *)
LEMMA TagParts ==
  ASSUME NEW i \in Hosts, NEW d \in Ids
  PROVE  Tag(i, d) \in Tags /\ Who(Tag(i, d)) = i /\ Own(Tag(i, d)) = d
<1> DEFINE m == 2 ^ I
           M == 2 ^ J
<1>1. m \in Nat /\ M \in Nat /\ m > 0 /\ N * m <= M
  BY PowerAssumption
<1>2. d \in Nat /\ d < m /\ i \in Nat /\ i <= N - 1 /\ N \in Nat
  BY ArbiterAssumption, PowerAssumption, HostNumbers
<1>3. Tag(i, d) = (d + i * m) % M /\ Tags = 0..(M - 1)
  BY DEF Tag, Tags
<1>4. Who(Tag(i, d)) = Tag(i, d) \div m /\ Own(Tag(i, d)) = Tag(i, d) % m
  BY DEF Who, Own
<1> HIDE DEF m, M
<1>5. i * m <= (N - 1) * m /\ (N - 1) * m = N * m - m /\ i * m \in Nat
  BY <1>1, <1>2
<1>6. d + i * m \in Nat /\ d + i * m < M
  BY <1>1, <1>2, <1>5
<1>7. Tag(i, d) = d + i * m
  BY <1>1, <1>3, <1>6
<1>8. (d + i * m) \div m = i /\ (d + i * m) % m = d
  BY <1>1, <1>2
<1> QED BY <1>1, <1>3, <1>4, <1>6, <1>7, <1>8

LEMMA TagBack ==
  ASSUME NEW t \in Tags, Own(t) \in Ids
  PROVE  Tag(Who(t), Own(t)) = t
<1> DEFINE m == 2 ^ I
           M == 2 ^ J
<1>1. m \in Nat /\ M \in Nat /\ m > 0
  BY PowerAssumption
<1>2. t \in Nat /\ t < M
  BY <1>1 DEF Tags
<1>3. Tag(Who(t), Own(t)) = ((t % m) + (t \div m) * m) % M
  BY DEF Tag, Who, Own
<1> HIDE DEF m, M
<1>4. (t % m) + (t \div m) * m = t
  BY <1>1, <1>2
<1> QED BY <1>1, <1>2, <1>3, <1>4

-----------------------------------------------------------------------------
(* What goes on the link in a cycle.  No address phase is granted while a  *)
(* burst is out, so a cycle opens a burst or advances one, never both.     *)
LEMMA GrantedWrite ==
  ASSUME TypeOK, LinkHeld, NEW room \in BOOLEAN, AwGo(room)
  PROVE  /\ aw_who \in Hosts /\ aw_who \in AwOffers /\ aws[aw_who] \in Writes
         /\ ~wbusy /\ open = <<>>
<1>1. aw_who \in AwOffers /\ ~wbusy
  BY Granted DEF AwGo
<1>2. aw_who \in Hosts /\ aws[aw_who] # NoReq
  BY <1>1 DEF AwOffers
<1>3. aws[aw_who] \in Writes
  BY <1>2 DEF TypeOK
<1> QED BY <1>1, <1>2, <1>3 DEF LinkHeld

LEMMA GrantedRead ==
  ASSUME TypeOK, NEW room \in BOOLEAN, ArGo(room)
  PROVE  ar_who \in Hosts /\ ar_who \in ArOffers /\ ars[ar_who] \in Reads
<1>1. ar_who \in ArOffers
  BY Granted DEF ArGo
<1>2. ar_who \in Hosts /\ ars[ar_who] # NoReq
  BY <1>1 DEF ArOffers
<1> QED BY <1>1, <1>2 DEF TypeOK

LEMMA OpenOne ==
  ASSUME TypeOK, LinkHeld, wbusy
  PROVE  /\ open = <<open[1]>> /\ Len(open) = 1 /\ Head(open) = open[1]
         /\ open[1].who \in Hosts /\ open[1].len \in Nat \ {0}
         /\ open[1].tag \in Tags
         /\ open[1] = [who |-> open[1].who, len |-> open[1].len,
                       tag |-> open[1].tag]
<1> DEFINE Bursts == [who : Hosts, len : Nat \ {0}, tag : Tags]
<1>1. open # <<>> /\ Len(open) <= 1
  BY DEF LinkHeld
<1>2. open \in Seq(Bursts)
  BY DEF TypeOK
<1>3. open[1] \in Bursts /\ Len(open) = 1
  <2> HIDE DEF Bursts
  <2>1. Len(open) = 1
    BY <1>1, <1>2, EmptySeq
  <2> QED BY <1>2, <2>1, ElementOfSeq
<1> QED BY <1>2, <1>3

LEMMA BeatOut ==
  ASSUME TypeOK, LinkHeld, BeatsShown, NEW beat \in BOOLEAN, WGo(beat)
  PROVE  /\ wbusy /\ Sender = open[1].who
         /\ beats[Sender] # <<>> /\ beats[Sender] \in Seq(BOOLEAN)
         /\ Head(beats[Sender]) = (open[1].len = 1)
<1>1. wbusy /\ wsel = {open[1].who} /\ \E i \in wsel : beats[i] # <<>>
  BY DEF WGo, LinkHeld
<1>2. Sender = open[1].who /\ beats[Sender] # <<>>
  BY <1>1 DEF Sender
<1>3. Sender \in Hosts /\ open # <<>> /\ open[1].len \in Nat \ {0}
  BY <1>1, <1>2, OpenOne DEF LinkHeld
<1>4. OnLink(Sender) = open[1].len
  BY <1>2, <1>3 DEF OnLink
<1>5. beats[Sender][1] = (1 = open[1].len)
  BY <1>3, <1>4 DEF BeatsShown, BurstAt
<1>6. beats[Sender] \in Seq(BOOLEAN)
  BY <1>3 DEF TypeOK
<1> QED BY <1>1, <1>2, <1>5, <1>6

LEMMA LinkMoves ==
  ASSUME TypeOK, LinkHeld, NEW room \in BOOLEAN, NEW beat \in BOOLEAN,
         open' = Advanced(beat) \o Opened(AwGo(room))
  PROVE  /\ AwGo(room) =>
              open' = <<[who |-> aw_who, len |-> aws[aw_who].len,
                         tag |-> Tag(aw_who, aws[aw_who].id)]>>
         /\ WGo(beat) =>
              /\ open[1].len = 1 => open' = <<>>
              /\ open[1].len # 1 =>
                   open' = <<[who |-> open[1].who, len |-> open[1].len - 1,
                              tag |-> open[1].tag]>>
         /\ ~AwGo(room) /\ ~WGo(beat) => open' = open
<1>1. open \in Seq([who : Hosts, len : Nat \ {0}, tag : Tags])
  BY DEF TypeOK
<1>2. CASE AwGo(room)
  <2>1. ~WGo(beat) /\ open = <<>>
    BY <1>2, GrantedWrite DEF WGo
  <2>2. Advanced(beat) = <<>>
    BY <2>1 DEF Advanced
  <2> QED BY <1>2, <2>1, <2>2 DEF Opened
<1>3. CASE ~AwGo(room) /\ ~WGo(beat)
  <2>1. Advanced(beat) = open /\ Opened(AwGo(room)) = <<>>
    BY <1>3 DEF Advanced, Opened
  <2> QED BY <1>1, <1>3, <2>1
<1>4. CASE ~AwGo(room) /\ WGo(beat)
  <2>1. wbusy /\ open # <<>> /\ Opened(AwGo(room)) = <<>>
    BY <1>4 DEF WGo, LinkHeld, Opened
  <2>2. open = <<open[1]>> /\ open[1].len \in Nat \ {0}
    BY <2>1, OpenOne
  <2>3. Advanced(beat) = IF open[1].len = 1 THEN Tail(open)
                         ELSE [open EXCEPT ![1].len = @ - 1]
    BY <1>4, <2>1 DEF Advanced
  <2>4. CASE open[1].len = 1
    BY <1>4, <2>1, <2>2, <2>3, <2>4
  <2>5. CASE open[1].len # 1
    <3> DEFINE next == [open[1] EXCEPT !.len = @ - 1]
    <3>1. [open EXCEPT ![1].len = @ - 1] = <<next>>
      BY <1>1, <2>2
    <3>2. next = [who |-> open[1].who, len |-> open[1].len - 1,
                  tag |-> open[1].tag]
      BY <2>1, OpenOne
    <3> QED BY <1>4, <2>1, <2>3, <2>5, <3>1, <3>2
  <2> QED BY <2>4, <2>5
<1> QED BY <1>2, <1>3, <1>4

(* The bursts a host has yet to hand over, when its first beat is gone.    *)
LEMMA BurstTail ==
  ASSUME NEW q \in Seq(BOOLEAN), q # <<>>, NEW from \in Nat, NEW len \in Nat
  PROVE  /\ Len(Tail(q)) = Len(q) - 1 /\ Tail(q) \in Seq(BOOLEAN)
         /\ BurstAt(q, from + 1, len) /\ from + 1 + len <= Len(q)
              => BurstAt(Tail(q), from, len)
         /\ BurstAt(q, 0, len) /\ len <= Len(q) /\ len # 0
              => BurstAt(Tail(q), 0, len - 1)
<1>1. /\ Len(Tail(q)) = Len(q) - 1 /\ Tail(q) \in Seq(BOOLEAN)
      /\ Len(q) \in Nat
      /\ \A k \in 1..(Len(q) - 1) : Tail(q)[k] = q[k + 1]
  OBVIOUS
<1>2. ASSUME BurstAt(q, from + 1, len), from + 1 + len <= Len(q), NEW k \in 1..len
      PROVE  Tail(q)[from + k] = (k = len)
  <2>1. Tail(q)[from + k] = q[from + 1 + k]
    BY <1>1, <1>2
  <2>2. q[from + 1 + k] = (k = len)
    BY <1>2 DEF BurstAt
  <2> QED BY <2>1, <2>2
<1>3. ASSUME BurstAt(q, 0, len), len <= Len(q), len # 0, NEW k \in 1..(len - 1)
      PROVE  Tail(q)[0 + k] = (k = len - 1)
  <2>1. Tail(q)[0 + k] = q[0 + (k + 1)] /\ k + 1 \in 1..len
    BY <1>1, <1>3
  <2>2. q[0 + (k + 1)] = (k + 1 = len)
    BY <1>3, <2>1 DEF BurstAt
  <2>3. (k + 1 = len) <=> (k = len - 1)
    OBVIOUS
  <2> QED BY <2>1, <2>2, <2>3
<1> QED BY <1>1, <1>2, <1>3 DEF BurstAt

LEMMA CycleLink ==
  ASSUME TypeOK, LinkHeld, BeatsShown,
         NEW ar \in BOOLEAN, NEW room \in BOOLEAN, NEW beat \in BOOLEAN,
         Grants(ar, AwGo(room), beat),
         open' = Advanced(beat) \o Opened(AwGo(room))
  PROVE  LinkHeld' /\ BeatsShown'
<1>1. CASE AwGo(room)
  <2>1. /\ aw_who \in Hosts /\ aws[aw_who] \in Writes /\ aws[aw_who] # NoReq
        /\ ~wbusy /\ open = <<>> /\ ~WGo(beat)
    BY <1>1, GrantedWrite DEF AwOffers, WGo
  <2>2. aws[aw_who].id \in Ids /\ aws[aw_who].len \in Nat \ {0}
    BY <2>1, ArbiterAssumption DEF Writes
  <2>3. /\ wbusy' /\ wsel' = {aw_who} /\ beats' = beats
        /\ aws' = [aws EXCEPT ![aw_who] = NoReq]
    BY <1>1, <2>1 DEF Grants, WDone
  <2>4. open' = <<[who |-> aw_who, len |-> aws[aw_who].len,
                   tag |-> Tag(aw_who, aws[aw_who].id)]>>
    BY <1>1, LinkMoves
  <2>5. /\ Len(open') = 1 /\ open' # <<>> /\ open'[1].who = aw_who
        /\ open'[1].len = aws[aw_who].len
        /\ open'[1].tag = Tag(aw_who, aws[aw_who].id)
    BY <2>4
  <2>6. LinkHeld'
    BY <2>1, <2>2, <2>3, <2>5, TagParts DEF LinkHeld, Who
  <2>7. ASSUME NEW i \in Hosts
        PROVE  /\ OnLink(i) = 0
               /\ OnLink(i)' = IF i = aw_who THEN Showing(i) ELSE 0
               /\ Showing(i)' = IF i = aw_who THEN 0 ELSE Showing(i)
               /\ Showing(i) \in Nat
    <3>1. aws[i] \in Writes \cup {NoReq} /\ aws'[i] = IF i = aw_who THEN NoReq ELSE aws[i]
      BY <2>3 DEF TypeOK
    <3>2. Showing(i) \in Nat
      BY <3>1, ArbiterAssumption DEF Showing, Writes
    <3>3. OnLink(i) = 0 /\ OnLink(i)' = IF i = aw_who THEN aws[aw_who].len ELSE 0
      BY <2>1, <2>5 DEF OnLink
    <3> QED BY <2>1, <3>1, <3>2, <3>3 DEF Showing
  <2>8. BeatsShown'
    <3>1. ASSUME NEW i \in Hosts
          PROVE  /\ Len(beats[i]) = OnLink(i)' + Showing(i)'
                 /\ BurstAt(beats[i], 0, OnLink(i)')
                 /\ BurstAt(beats[i], OnLink(i)', Showing(i)')
      <4>1. /\ Len(beats[i]) = OnLink(i) + Showing(i)
            /\ BurstAt(beats[i], 0, OnLink(i))
            /\ BurstAt(beats[i], OnLink(i), Showing(i))
        BY DEF BeatsShown
      <4>2. BurstAt(beats[i], OnLink(i)', 0)
        BY DEF BurstAt
      <4>3. CASE i = aw_who
        <5>1. OnLink(i) = 0 /\ OnLink(i)' = Showing(i) /\ Showing(i)' = 0 /\ Showing(i) \in Nat
          BY <2>7, <4>3
        <5> QED BY <4>1, <4>2, <5>1
      <4>4. CASE i # aw_who
        <5>1. OnLink(i) = 0 /\ OnLink(i)' = 0 /\ Showing(i)' = Showing(i)
          BY <2>7, <4>4
        <5> QED BY <4>1, <5>1
      <4> QED BY <4>3, <4>4
    <3> QED BY <2>3, <3>1 DEF BeatsShown, BurstAt
  <2> QED BY <2>6, <2>8
<1>2. CASE ~AwGo(room) /\ ~WGo(beat)
  <2>1. /\ open' = open /\ wbusy' = wbusy /\ wsel' = wsel /\ aws' = aws
        /\ beats' = beats
    BY <1>2, LinkMoves DEF Grants, WDone, TypeOK
  <2> QED BY <2>1 DEF LinkHeld, BeatsShown, OnLink, Showing, Who
<1>3. CASE ~AwGo(room) /\ WGo(beat)
  <2> DEFINE s == open[1].who
             left == open[1].len
  <2>1. /\ wbusy /\ Sender = s /\ beats[s] # <<>> /\ beats[s] \in Seq(BOOLEAN)
        /\ Head(beats[s]) = (left = 1)
    BY <1>3, BeatOut
  <2>2. /\ open # <<>> /\ s \in Hosts /\ left \in Nat \ {0} /\ wsel = {s}
        /\ Who(open[1].tag) = s
    BY <2>1, OpenOne DEF LinkHeld
  <2>3. /\ aws' = aws /\ wsel' = wsel
        /\ wbusy' <=> left # 1
        /\ beats' = [beats EXCEPT ![s] = Tail(@)]
    BY <1>3, <2>1 DEF Grants, WDone
  <2>4. /\ left = 1 => open' = <<>>
        /\ left # 1 => open' = <<[who |-> s, len |-> left - 1,
                                  tag |-> open[1].tag]>>
    BY <1>3, <2>2, LinkMoves
  <2>5. /\ left = 1 => open' = <<>>
        /\ left # 1 => /\ open' # <<>> /\ Len(open') = 1
                       /\ open'[1].who = s /\ open'[1].len = left - 1
                       /\ open'[1].tag = open[1].tag
    <3> DEFINE tag == open[1].tag
    <3> HIDE DEF s, left, tag
    <3>1. /\ left = 1 => open' = <<>>
          /\ left # 1 => open' = <<[who |-> s, len |-> left - 1, tag |-> tag]>>
      BY <2>4 DEF tag
    <3>2. ASSUME left # 1
          PROVE  /\ open' # <<>> /\ Len(open') = 1
                 /\ open'[1].who = s /\ open'[1].len = left - 1
                 /\ open'[1].tag = tag
      <4>1. open' = <<[who |-> s, len |-> left - 1, tag |-> tag]>>
        BY <3>1, <3>2
      <4> QED BY <4>1
    <3> QED BY <3>1, <3>2 DEF tag
  <2>6. LinkHeld'
    <3> HIDE DEF s, left
    <3>1. Len(<<>>) <= 1
      OBVIOUS
    <3> QED BY <2>2, <2>3, <2>5, <3>1 DEF LinkHeld, Who
  <2>7. ASSUME NEW i \in Hosts
        PROVE  /\ Showing(i)' = Showing(i) /\ Showing(i) \in Nat
               /\ OnLink(i) = IF i = s THEN left ELSE 0
               /\ OnLink(i)' = IF i = s THEN left - 1 ELSE 0
               /\ beats'[i] = IF i = s THEN Tail(beats[s]) ELSE beats[i]
    <3>1. aws[i] \in Writes \cup {NoReq}
      BY DEF TypeOK
    <3>2. Showing(i) \in Nat
      BY <3>1, ArbiterAssumption DEF Showing, Writes
    <3>3. Showing(i)' = Showing(i)
      BY <2>3 DEF Showing
    <3>4. OnLink(i) = (IF i = s THEN left ELSE 0)
          /\ OnLink(i)' = IF i = s THEN left - 1 ELSE 0
      BY <2>2, <2>5 DEF OnLink
    <3>5. beats'[i] = IF i = s THEN Tail(beats[s]) ELSE beats[i]
      BY <2>3 DEF TypeOK
    <3> QED BY <3>2, <3>3, <3>4, <3>5
  <2> HIDE DEF s, left
  <2>8. ASSUME NEW i \in Hosts
        PROVE  /\ Len(beats'[i]) = OnLink(i)' + Showing(i)'
               /\ BurstAt(beats'[i], 0, OnLink(i)')
               /\ BurstAt(beats'[i], OnLink(i)', Showing(i)')
    <3>1. /\ Len(beats[i]) = OnLink(i) + Showing(i)
          /\ BurstAt(beats[i], 0, OnLink(i))
          /\ BurstAt(beats[i], OnLink(i), Showing(i))
      BY DEF BeatsShown
    <3>2. CASE i # s
      BY <2>7, <3>1, <3>2
    <3>3. CASE i = s
      <4> DEFINE q == beats[i]
                 m == Showing(i)
      <4>1. OnLink(i) = left /\ OnLink(i)' = left - 1
        BY <2>7, <3>3
      <4>2. Showing(i)' = m /\ m \in Nat /\ beats'[i] = Tail(q)
        BY <2>7, <3>3
      <4>3. /\ Len(q) = left + m /\ BurstAt(q, 0, left) /\ BurstAt(q, left, m)
        BY <3>1, <4>1
      <4>4. q \in Seq(BOOLEAN) /\ q # <<>>
        BY <2>1, <3>3
      <4>5. left - 1 \in Nat /\ left \in Nat /\ (left - 1) + 1 = left
        BY <2>2
      <4> HIDE DEF q, m
      <4>6. /\ Len(Tail(q)) = left - 1 + m /\ BurstAt(Tail(q), 0, left - 1)
            /\ BurstAt(Tail(q), left - 1, m)
        BY <4>2, <4>3, <4>4, <4>5, BurstTail
      <4> QED BY <4>1, <4>2, <4>6
    <3> QED BY <3>2, <3>3
  <2> QED BY <2>6, <2>8 DEF BeatsShown, BurstAt
<1> QED BY <1>1, <1>2, <1>3

-----------------------------------------------------------------------------
(* The answers.  An identifier on the link is one identifier of one host,  *)
(* so what is asked and answered there is asked and answered at the host.  *)
LEMMA TagsDiffer ==
  ASSUME NEW i \in Hosts, NEW d \in Ids, NEW j \in Hosts, NEW e \in Ids
  PROVE  Tag(i, d) = Tag(j, e) <=> i = j /\ d = e
  BY TagParts

LEMMA TagAnswers ==
  ASSUME NEW S \in SUBSET Tags, NEW i \in Hosts, NEW d \in Ids
  PROVE  (\E t \in S : Who(t) = i /\ Own(t) = d) <=> Tag(i, d) \in S
<1>1. ASSUME NEW t \in S, Who(t) = i, Own(t) = d PROVE Tag(i, d) \in S
  BY <1>1, TagBack
<1> QED BY <1>1, TagParts

(* A burst not all out is counted under its tag.                           *)
OpenAs(t) == IF open # <<>> /\ open[1].tag = t THEN 1 ELSE 0

LEMMA OpenCounted ==
  ASSUME NEW Bursts, NEW s \in Seq(Bursts), Len(s) <= 1, NEW t
  PROVE  Cardinality({k \in DOMAIN s : s[k].tag = t})
           = IF s # <<>> /\ s[1].tag = t THEN 1 ELSE 0
<1> DEFINE K == {k \in DOMAIN s : s[k].tag = t}
<1>1. CASE s # <<>> /\ s[1].tag = t
  <2>1. DOMAIN s = 1..1
    BY <1>1, AloneInSeq
  <2>2. K = {1}
    <3>1. \A k : k \in 1..1 <=> k = 1
      OBVIOUS
    <3> QED BY <1>1, <2>1, <3>1
  <2> QED BY <1>1, <2>2, FS_Singleton
<1>2. CASE ~(s # <<>> /\ s[1].tag = t)
  <2>1. K = {}
    <3>1. CASE s = <<>>
      <4>1. DOMAIN s = {}
        BY <3>1
      <4> QED BY <4>1
    <3>2. CASE s # <<>>
      <4>1. DOMAIN s = 1..1
        BY <3>2, AloneInSeq
      <4>2. \A k : k \in 1..1 <=> k = 1
        OBVIOUS
      <4> QED BY <1>2, <3>2, <4>1, <4>2
    <3> QED BY <3>1, <3>2
  <2> QED BY <1>2, <2>1, FS_EmptySet
<1> QED BY <1>1, <1>2

LEMMA CycleReads ==
  ASSUME TypeOK, AnswersHome, NEW room \in BOOLEAN, NEW aw \in BOOLEAN,
         NEW r \in SUBSET Tags, NEW b, NEW done,
         Answers(ArGo(room), aw, r, b, done)
  PROVE  /\ rdue' \in [Tags -> Nat] /\ rask' \in [Hosts -> [Ids -> Nat]]
         /\ \A i \in Hosts, d \in Ids : rask'[i][d] = rdue'[Tag(i, d)]
         /\ \A t \in Tags : rdue'[t] > 0 => Who(t) \in Hosts
<1> DEFINE ar == ArGo(room)
           asked == Tag(ar_who, ars[ar_who].id)
<1>1. rdue \in [Tags -> Nat] /\ bdue \in [Tags -> Nat]
      /\ rask \in [Hosts -> [Ids -> Nat]]
  BY DEF TypeOK
<1>2. ar => /\ ar_who \in Hosts /\ ars[ar_who].id \in Ids
            /\ asked \in Tags /\ Who(asked) = ar_who
  BY GrantedRead, TagParts DEF Reads
<1>3. \A t \in r : rdue[t] > 0 /\ Who(t) \in Hosts
  BY DEF Answers
<1>4. rdue' = [t \in Tags |-> rdue[t] + (IF ar /\ t = asked THEN 1 ELSE 0)
                                       - (IF t \in r THEN 1 ELSE 0)]
  BY DEF Answers
<1>5. ASSUME NEW t \in Tags
      PROVE  rdue'[t] \in Nat /\ (rdue'[t] > 0 => Who(t) \in Hosts)
  <2>1. rdue[t] \in Nat /\ (t \in r => rdue[t] > 0)
    BY <1>1, <1>3
  <2>2. rdue[t] > 0 => Who(t) \in Hosts
    <3>1. bdue[t] \in Nat
      BY <1>1
    <3> QED BY <2>1, <3>1 DEF AnswersHome
  <2>3. rdue'[t] = rdue[t] + (IF ar /\ t = asked THEN 1 ELSE 0)
                           - (IF t \in r THEN 1 ELSE 0)
    BY <1>4
  <2> HIDE DEF ar, asked
  <2> QED BY <1>2, <2>1, <2>2, <2>3
<1>6. rask' = [i \in Hosts |-> [d \in Ids |->
        rask[i][d] + (IF ar /\ i = ar_who /\ d = ars[i].id THEN 1 ELSE 0)
                   - (IF \E t \in r : Who(t) = i /\ Own(t) = d THEN 1 ELSE 0)]]
  BY DEF Answers
<1>7. ASSUME NEW i \in Hosts, NEW d \in Ids
      PROVE  rask'[i][d] = rdue'[Tag(i, d)] /\ rdue'[Tag(i, d)] \in Nat
  <2>1. rask[i][d] = rdue[Tag(i, d)] /\ Tag(i, d) \in Tags
    BY TagParts DEF AnswersHome
  <2>2. (ar /\ i = ar_who /\ d = ars[i].id) <=> (ar /\ Tag(i, d) = asked)
    BY <1>2, TagsDiffer
  <2>3. (\E t \in r : Who(t) = i /\ Own(t) = d) <=> Tag(i, d) \in r
    BY TagAnswers
  <2>4. rask'[i][d] =
          rask[i][d] + (IF ar /\ i = ar_who /\ d = ars[i].id THEN 1 ELSE 0)
            - (IF \E t \in r : Who(t) = i /\ Own(t) = d THEN 1 ELSE 0)
    BY <1>6
  <2>5. rask'[i][d] = rask[i][d] + (IF ar /\ Tag(i, d) = asked THEN 1 ELSE 0)
                        - (IF Tag(i, d) \in r THEN 1 ELSE 0)
    BY <2>2, <2>3, <2>4
  <2>6. rdue'[Tag(i, d)] =
          rdue[Tag(i, d)] + (IF ar /\ Tag(i, d) = asked THEN 1 ELSE 0)
            - (IF Tag(i, d) \in r THEN 1 ELSE 0)
    BY <1>4, <2>1
  <2> QED BY <1>5, <2>1, <2>5, <2>6
<1>8. rask' \in [Hosts -> [Ids -> Nat]]
  BY <1>6, <1>7
<1>9. rdue' \in [Tags -> Nat]
  BY <1>4, <1>5
<1> QED BY <1>5, <1>7, <1>8, <1>9

(* A write is counted open while its burst is, and owed from the cycle its *)
(* last beat goes out.                                                     *)
LEMMA OpenMoves ==
  ASSUME TypeOK, LinkHeld, NEW room \in BOOLEAN, NEW beat \in BOOLEAN,
         open' = Advanced(beat) \o Opened(AwGo(room)), NEW t \in Tags
  PROVE  LET done == WGo(beat) /\ open # <<>> /\ open[1].len = 1 IN
         /\ done => Who(Head(open).tag) \in Hosts
         /\ OpenAs(t)' + (IF done /\ t = Head(open).tag THEN 1 ELSE 0)
              = OpenAs(t) + (IF AwGo(room) /\ t = Tag(aw_who, aws[aw_who].id)
                             THEN 1 ELSE 0)
<1> DEFINE done == WGo(beat) /\ open # <<>> /\ open[1].len = 1
           asked == Tag(aw_who, aws[aw_who].id)
           wgo == WGo(beat)
           aw == AwGo(room)
<1>1. wgo => /\ wbusy /\ open # <<>> /\ Head(open) = open[1]
             /\ Who(open[1].tag) \in Hosts
  BY OpenOne DEF WGo, LinkHeld
<1>2. aw => open = <<>> /\ ~wgo
  BY GrantedWrite DEF WGo
<1> DEFINE told == IF done /\ t = Head(open).tag THEN 1 ELSE 0
           in == IF aw /\ t = asked THEN 1 ELSE 0
<1>3. done => Who(Head(open).tag) \in Hosts
  BY <1>1
<1>4. CASE aw
  <2>1. open' # <<>> /\ open'[1].tag = asked
    <3> DEFINE first == [who |-> aw_who, len |-> aws[aw_who].len, tag |-> asked]
    <3>1. open' = <<first>> /\ first.tag = asked
      BY <1>4, LinkMoves
    <3> HIDE DEF first
    <3> QED BY <3>1
  <2>2. OpenAs(t)' = IF t = asked THEN 1 ELSE 0
    BY <2>1 DEF OpenAs
  <2>3. OpenAs(t) = 0 /\ told = 0
    BY <1>2, <1>4 DEF OpenAs
  <2> QED BY <1>3, <1>4, <2>2, <2>3
<1>5. CASE ~aw /\ ~wgo
  <2>1. open' = open
    BY <1>5, LinkMoves
  <2> QED BY <1>3, <1>5, <2>1 DEF OpenAs
<1>6. CASE ~aw /\ wgo
  <2>1. CASE open[1].len = 1
    <3>1. open' = <<>>
      BY <1>6, <2>1, LinkMoves
    <3>2. OpenAs(t)' = 0
      BY <3>1 DEF OpenAs
    <3>3. told = OpenAs(t)
      BY <1>1, <1>6, <2>1 DEF OpenAs
    <3> QED BY <1>3, <1>6, <3>2, <3>3
  <2>2. CASE open[1].len # 1
    <3> DEFINE tag == open[1].tag
               next == [who |-> open[1].who, len |-> open[1].len - 1, tag |-> tag]
    <3>1. open' = <<next>>
      BY <1>6, <2>2, LinkMoves
    <3>2. next.tag = tag
      OBVIOUS
    <3>3. open' # <<>> /\ open'[1] = next
      <4> HIDE DEF next
      <4> QED BY <3>1, OneTuple
    <3>4. open' # <<>> /\ open'[1].tag = open[1].tag
      <4> HIDE DEF next
      <4> QED BY <3>2, <3>3
    <3>5. OpenAs(t)' = OpenAs(t)
      <4> HIDE DEF next
      <4> QED BY <1>1, <1>6, <3>4 DEF OpenAs
    <3>6. told = 0
      BY <2>2
    <3> QED BY <1>3, <1>6, <3>5, <3>6
  <2> QED BY <2>1, <2>2
<1> QED BY <1>4, <1>5, <1>6

LEMMA CycleWrites ==
  ASSUME TypeOK, LinkHeld, AnswersHome,
         NEW room \in BOOLEAN, NEW beat \in BOOLEAN,
         NEW ar \in BOOLEAN, NEW r, NEW b \in SUBSET Tags,
         open' = Advanced(beat) \o Opened(AwGo(room)),
         Answers(ar, AwGo(room), r, b,
                 WGo(beat) /\ open # <<>> /\ open[1].len = 1)
  PROVE  /\ bdue' \in [Tags -> Nat] /\ bask' \in [Hosts -> [Ids -> Nat]]
         /\ \A i \in Hosts, d \in Ids :
              bask'[i][d] = bdue'[Tag(i, d)] + OpenAs(Tag(i, d))'
         /\ \A t \in Tags : bdue'[t] > 0 => Who(t) \in Hosts
<1> DEFINE aw == AwGo(room)
           done == WGo(beat) /\ open # <<>> /\ open[1].len = 1
           asked == Tag(aw_who, aws[aw_who].id)
<1>1. rdue \in [Tags -> Nat] /\ bdue \in [Tags -> Nat]
      /\ bask \in [Hosts -> [Ids -> Nat]]
  BY DEF TypeOK
<1>2. aw => aw_who \in Hosts /\ aws[aw_who].id \in Ids
  BY GrantedWrite DEF Writes
<1>3. \A t \in b : bdue[t] > 0 /\ Who(t) \in Hosts
  BY DEF Answers
<1>4. bdue' = [t \in Tags |->
        bdue[t] + (IF done /\ t = Head(open).tag THEN 1 ELSE 0)
                - (IF t \in b THEN 1 ELSE 0)]
  BY DEF Answers
<1>5. ASSUME NEW t \in Tags
      PROVE  bdue'[t] \in Nat /\ (bdue'[t] > 0 => Who(t) \in Hosts)
  <2>1. bdue[t] \in Nat /\ (t \in b => bdue[t] > 0)
    BY <1>1, <1>3
  <2>2. bdue[t] > 0 => Who(t) \in Hosts
    <3>1. rdue[t] \in Nat
      BY <1>1
    <3> QED BY <2>1, <3>1 DEF AnswersHome
  <2>3. done => Who(Head(open).tag) \in Hosts
    BY OpenMoves
  <2>4. bdue'[t] = bdue[t] + (IF done /\ t = Head(open).tag THEN 1 ELSE 0)
                           - (IF t \in b THEN 1 ELSE 0)
    BY <1>4
  <2> HIDE DEF done
  <2> QED BY <2>1, <2>2, <2>3, <2>4
<1>6. bask' = [i \in Hosts |-> [d \in Ids |->
        bask[i][d] + (IF aw /\ i = aw_who /\ d = aws[i].id THEN 1 ELSE 0)
                   - (IF \E t \in b : Who(t) = i /\ Own(t) = d THEN 1 ELSE 0)]]
  BY DEF Answers
<1>7. ASSUME NEW i \in Hosts, NEW d \in Ids
      PROVE  /\ bask'[i][d] = bdue'[Tag(i, d)] + OpenAs(Tag(i, d))'
             /\ bask'[i][d] \in Nat
  <2> DEFINE t == Tag(i, d)
             in == IF aw /\ t = asked THEN 1 ELSE 0
             told == IF done /\ t = Head(open).tag THEN 1 ELSE 0
             gone == IF t \in b THEN 1 ELSE 0
  <2>1. t \in Tags
    BY TagParts
  <2>2. bask[i][d] = bdue[t] + OpenAs(t)
    <3>1. Len(open) <= 1
      BY DEF LinkHeld
    <3>2. open \in Seq([who : Hosts, len : Nat \ {0}, tag : Tags])
      BY DEF TypeOK
    <3>3. Cardinality({k \in DOMAIN open : open[k].tag = t}) = OpenAs(t)
      <4> HIDE DEF t
      <4> QED BY <3>1, <3>2, OpenCounted DEF OpenAs
    <3> QED BY <3>3 DEF AnswersHome
  <2>3. (aw /\ i = aw_who /\ d = aws[i].id) <=> (aw /\ t = asked)
    BY <1>2, TagsDiffer
  <2>4. (\E u \in b : Who(u) = i /\ Own(u) = d) <=> t \in b
    BY TagAnswers
  <2>5. bask'[i][d] =
          bask[i][d] + (IF aw /\ i = aw_who /\ d = aws[i].id THEN 1 ELSE 0)
            - (IF \E u \in b : Who(u) = i /\ Own(u) = d THEN 1 ELSE 0)
    BY <1>6
  <2>6. bask'[i][d] = bask[i][d] + in - gone
    BY <2>3, <2>4, <2>5
  <2>7. bdue'[t] = bdue[t] + told - gone
    BY <1>4, <2>1
  <2>8. OpenAs(t)' + told = OpenAs(t) + in
    BY <2>1, OpenMoves
  <2>9. /\ bask[i][d] \in Nat /\ bdue[t] \in Nat /\ bdue'[t] \in Nat /\ OpenAs(t) \in Nat
        /\ OpenAs(t)' \in Nat /\ in \in Nat /\ gone \in Nat /\ told \in Nat
    BY <1>1, <1>5, <2>1 DEF OpenAs
  <2>10. bask'[i][d] = bdue'[t] + OpenAs(t)' /\ bask'[i][d] \in Nat
    <3> DEFINE ask == bask[i][d]  ask2 == bask'[i][d]
               due == bdue[t]     due2 == bdue'[t]
               way == OpenAs(t)   way2 == OpenAs(t)'
    <3>1. /\ ask = due + way /\ ask2 = ask + in - gone
          /\ due2 = due + told - gone /\ way2 + told = way + in
          /\ ask \in Nat /\ due \in Nat /\ due2 \in Nat /\ way \in Nat
          /\ way2 \in Nat /\ in \in Nat /\ gone \in Nat /\ told \in Nat
      BY <2>2, <2>6, <2>7, <2>8, <2>9
    <3> HIDE DEF ask, ask2, due, due2, way, way2, in, gone, told
    <3>2. ask2 = due + way + in - gone /\ due + told = due2 + gone
      BY <3>1
    <3>3. ask2 + told = due2 + way + in
      BY <3>1, <3>2
    <3>4. ask2 = due2 + way2 /\ ask2 \in Nat
      BY <3>1, <3>3
    <3> QED BY <3>4 DEF ask2, due2, way2
  <2> QED BY <2>10 DEF t
<1>8. bask' \in [Hosts -> [Ids -> Nat]]
  BY <1>6, <1>7
<1>9. bdue' \in [Tags -> Nat]
  BY <1>4, <1>5
<1> QED BY <1>5, <1>7, <1>8, <1>9

-----------------------------------------------------------------------------
(* The types.                                                              *)
LEMMA GrantsTypes ==
  ASSUME TypeOK, LinkHeld, BeatsShown, NEW arRoom \in BOOLEAN,
         NEW room \in BOOLEAN, NEW beat \in BOOLEAN,
         Grants(ArGo(arRoom), AwGo(room), beat),
         open' = Advanced(beat) \o Opened(AwGo(room))
  PROVE  /\ ars' \in [Hosts -> Reads \cup {NoReq}]
         /\ aws' \in [Hosts -> Writes \cup {NoReq}]
         /\ beats' \in [Hosts -> Seq(BOOLEAN)]
         /\ wbusy' \in BOOLEAN /\ wsel' \subseteq Hosts /\ Cardinality(wsel') <= 1
         /\ rturn' \in Hosts /\ wturn' \in Hosts
         /\ open' \in Seq([who : Hosts, len : Nat \ {0}, tag : Tags])
<1> DEFINE ar == ArGo(arRoom)
           aw == AwGo(room)
           Bursts == [who : Hosts, len : Nat \ {0}, tag : Tags]
<1>1. ar => ar_who \in Hosts
  BY GrantedRead
<1>2. aw => aw_who \in Hosts /\ aws[aw_who] \in Writes
  BY GrantedWrite
<1>3. /\ ars' = (IF ar THEN [ars EXCEPT ![ar_who] = NoReq] ELSE ars)
      /\ aws' = (IF aw THEN [aws EXCEPT ![aw_who] = NoReq] ELSE aws)
      /\ rturn' = (IF ar /\ ~FIXED THEN After(ar_who) ELSE rturn)
      /\ wturn' = (IF aw /\ ~FIXED THEN After(aw_who) ELSE wturn)
      /\ wsel' = (IF aw THEN {aw_who} ELSE wsel)
  BY DEF Grants
<1>4. ars' \in [Hosts -> Reads \cup {NoReq}]
  BY <1>3 DEF TypeOK
<1>5. aws' \in [Hosts -> Writes \cup {NoReq}]
  BY <1>3 DEF TypeOK
<1>6. rturn' \in Hosts /\ wturn' \in Hosts
  <2> HIDE DEF ar, aw
  <2> QED BY <1>1, <1>2, <1>3, HostNumbers DEF TypeOK
<1>7. wsel' \subseteq Hosts /\ Cardinality(wsel') <= 1
  <2>1. CASE aw
    <3>1. Cardinality({aw_who}) = 1
      BY FS_Singleton
    <3> QED BY <1>2, <1>3, <2>1, <3>1
  <2>2. CASE ~aw
    BY <1>3, <2>2 DEF TypeOK
  <2> QED BY <2>1, <2>2
<1>8. wbusy' \in BOOLEAN
  BY DEF Grants, TypeOK, AwGo, WDone
<1>9. beats' \in [Hosts -> Seq(BOOLEAN)]
  <2>1. CASE WGo(beat)
    <3>1. beats' = [beats EXCEPT ![Sender] = Tail(@)]
      BY <2>1 DEF Grants
    <3>2. beats[Sender] # <<>> /\ beats[Sender] \in Seq(BOOLEAN)
      BY <2>1, BeatOut
    <3>3. Tail(beats[Sender]) \in Seq(BOOLEAN)
      BY <3>2, HeadTailProperties
    <3> QED BY <3>1, <3>3 DEF TypeOK
  <2>2. CASE ~WGo(beat)
    BY <2>2 DEF Grants, TypeOK
  <2> QED BY <2>1, <2>2
<1>10. open' \in Seq(Bursts)
  <2>1. CASE aw
    <3> DEFINE first == [who |-> aw_who, len |-> aws[aw_who].len,
                         tag |-> Tag(aw_who, aws[aw_who].id)]
    <3>1. aws[aw_who].id \in Ids /\ aws[aw_who].len \in Nat \ {0}
      BY <1>2, <2>1, ArbiterAssumption DEF Writes
    <3>2. Tag(aw_who, aws[aw_who].id) \in Tags
      BY <1>2, <2>1, <3>1, TagParts
    <3>3. first \in Bursts
      <4>1. aw_who \in Hosts
        BY <1>2, <2>1
      <4> HIDE DEF aw
      <4> QED BY <3>1, <3>2, <4>1
    <3>4. open' = <<first>>
      BY <2>1, LinkMoves
    <3> HIDE DEF first, Bursts
    <3> QED BY <3>3, <3>4
  <2>2. CASE ~aw /\ ~WGo(beat)
    BY <2>2, LinkMoves DEF TypeOK
  <2>3. CASE ~aw /\ WGo(beat)
    <3> DEFINE next == [who |-> open[1].who, len |-> open[1].len - 1,
                        tag |-> open[1].tag]
    <3>1. wbusy
      BY <2>3 DEF WGo
    <3>2. CASE open[1].len = 1
      <4>1. open' = <<>>
        BY <2>3, <3>2, LinkMoves
      <4> HIDE DEF Bursts
      <4> QED BY <4>1
    <3>3. CASE open[1].len # 1
      <4>1. open' = <<next>>
        BY <2>3, <3>3, LinkMoves
      <4>2. open[1].len - 1 \in Nat \ {0}
        BY <3>1, <3>3, OpenOne
      <4>3. next \in Bursts
        BY <3>1, <4>2, OpenOne
      <4> HIDE DEF next, Bursts
      <4> QED BY <4>1, <4>3
    <3> QED BY <3>2, <3>3
  <2> QED BY <2>1, <2>2, <2>3
<1> QED BY <1>4, <1>5, <1>6, <1>7, <1>8, <1>9, <1>10

LEMMA HoldsTypes ==
  ASSUME TypeOK, NEW room \in BOOLEAN, NEW aw \in BOOLEAN, Holds(ArGo(room), aw)
  PROVE  hold' \in BOOLEAN /\ howner' \in Hosts /\ hleft' \in 0..HoldMax
<1>1. HStart(ArGo(room), aw) => ar_who \in Hosts
  BY GrantedRead DEF HStart
<1>2. howner' \in Hosts /\ hold' \in BOOLEAN
  BY <1>1 DEF Holds, TypeOK, HStart
<1>3. HoldMax \in Nat /\ hleft \in 0..HoldMax
  BY ArbiterAssumption DEF TypeOK
<1>4. (hleft + HoldMax) % (HoldMax + 1) \in 0..HoldMax
  BY <1>3
<1>5. hleft' \in {HoldMax, (hleft + HoldMax) % (HoldMax + 1), hleft}
  BY DEF Holds
<1> QED BY <1>2, <1>3, <1>4, <1>5

LEMMA PassedTypes ==
  ASSUME NEW passed \in [Hosts -> [Hosts -> 0..2]],
         NEW offers, NEW go, NEW who
  PROVE  Passed(passed, offers, go, who) \in [Hosts -> [Hosts -> 0..2]]
  BY DEF Passed

LEMMA RecordedTypes ==
  ASSUME TypeOK, NEW ar \in BOOLEAN, NEW aw \in BOOLEAN, Recorded(ar, aw)
  PROVE  /\ rpassed' \in [Hosts -> [Hosts -> 0..2]]
         /\ wpassed' \in [Hosts -> [Hosts -> 0..2]]
         /\ since' \in [Hosts -> BOOLEAN]
<1>1. /\ rpassed \in [Hosts -> [Hosts -> 0..2]]
      /\ wpassed \in [Hosts -> [Hosts -> 0..2]]
      /\ since \in [Hosts -> BOOLEAN]
  BY DEF TypeOK
<1>2. /\ rpassed' \in [Hosts -> [Hosts -> 0..2]]
      /\ wpassed' \in [Hosts -> [Hosts -> 0..2]]
  BY <1>1, PassedTypes DEF Recorded
<1>3. since' \in [Hosts -> BOOLEAN]
  BY <1>1, ArbiterAssumption DEF Recorded
<1> QED BY <1>2, <1>3

(* A cycle keeps the invariant.                                            *)
LEMMA CycleInv ==
  ASSUME Inv, NEW arRoom \in BOOLEAN, NEW room \in BOOLEAN, NEW beat \in BOOLEAN,
         NEW r \in SUBSET Tags, NEW b \in SUBSET Tags,
         Cycle(arRoom, room, beat, r, b)
  PROVE  Inv'
<1> DEFINE ar == ArGo(arRoom)
           aw == AwGo(room)
           done == WGo(beat) /\ open # <<>> /\ open[1].len = 1
<1>1. TypeOK /\ LinkHeld /\ BeatsShown /\ AnswersHome
  BY DEF Inv
<1>2. /\ Grants(ar, aw, beat) /\ Holds(ar, aw)
      /\ open' = Advanced(beat) \o Opened(aw)
      /\ Answers(ar, aw, r, b, done) /\ Recorded(ar, aw)
  BY DEF Cycle
<1>3. ar \in BOOLEAN /\ aw \in BOOLEAN
  BY DEF ArGo, AwGo
<1>4. LinkHeld' /\ BeatsShown'
  BY <1>1, <1>2, <1>3, CycleLink
<1>5. /\ rdue' \in [Tags -> Nat] /\ rask' \in [Hosts -> [Ids -> Nat]]
      /\ \A i \in Hosts, d \in Ids : rask'[i][d] = rdue'[Tag(i, d)]
      /\ \A t \in Tags : rdue'[t] > 0 => Who(t) \in Hosts
  BY <1>1, <1>2, <1>3, CycleReads
<1>6. /\ bdue' \in [Tags -> Nat] /\ bask' \in [Hosts -> [Ids -> Nat]]
      /\ \A i \in Hosts, d \in Ids :
           bask'[i][d] = bdue'[Tag(i, d)] + OpenAs(Tag(i, d))'
      /\ \A t \in Tags : bdue'[t] > 0 => Who(t) \in Hosts
  BY <1>1, <1>2, <1>3, CycleWrites
<1>7. TypeOK'
  <2>1. /\ ars' \in [Hosts -> Reads \cup {NoReq}]
        /\ aws' \in [Hosts -> Writes \cup {NoReq}]
        /\ beats' \in [Hosts -> Seq(BOOLEAN)]
        /\ wbusy' \in BOOLEAN /\ wsel' \subseteq Hosts /\ Cardinality(wsel') <= 1
        /\ rturn' \in Hosts /\ wturn' \in Hosts
        /\ open' \in Seq([who : Hosts, len : Nat \ {0}, tag : Tags])
    BY <1>1, <1>2, GrantsTypes
  <2>2. hold' \in BOOLEAN /\ howner' \in Hosts /\ hleft' \in 0..HoldMax
    BY <1>1, <1>2, <1>3, HoldsTypes
  <2>3. /\ rpassed' \in [Hosts -> [Hosts -> 0..2]]
        /\ wpassed' \in [Hosts -> [Hosts -> 0..2]]
        /\ since' \in [Hosts -> BOOLEAN]
    BY <1>1, <1>2, <1>3, RecordedTypes
  <2> QED BY <1>5, <1>6, <2>1, <2>2, <2>3 DEF TypeOK
<1>8. AnswersHome'
  <2>1. ASSUME NEW i \in Hosts, NEW d \in Ids
        PROVE  /\ rask'[i][d] = rdue'[Tag(i, d)]
               /\ bask'[i][d] = bdue'[Tag(i, d)]
                    + Cardinality({k \in DOMAIN open' : open'[k].tag = Tag(i, d)})
    <3> DEFINE t == Tag(i, d)
               Bursts == [who : Hosts, len : Nat \ {0}, tag : Tags]
    <3>1. open' \in Seq(Bursts) /\ Len(open') <= 1
      BY <1>4, <1>7 DEF TypeOK, LinkHeld
    <3>2. Cardinality({k \in DOMAIN open' : open'[k].tag = t}) = OpenAs(t)'
      <4> HIDE DEF t, Bursts
      <4> QED BY <3>1, OpenCounted DEF OpenAs
    <3> QED BY <1>5, <1>6, <3>2
  <2>2. ASSUME NEW t \in Tags, rdue'[t] + bdue'[t] > 0 PROVE Who(t) \in Hosts
    <3>1. rdue'[t] \in Nat /\ bdue'[t] \in Nat
      BY <1>5, <1>6
    <3>2. rdue'[t] > 0 \/ bdue'[t] > 0
      BY <2>2, <3>1
    <3> QED BY <1>5, <1>6, <3>2
  <2> QED BY <2>1, <2>2 DEF AnswersHome, Tag, Who
<1> QED BY <1>4, <1>7, <1>8 DEF Inv

LEMMA InitInv == Init => Inv
<1> SUFFICES ASSUME Init PROVE Inv
  OBVIOUS
<1>1. HoldMax \in Nat
  BY ArbiterAssumption
<1>2. TypeOK
  BY <1>1, HostNumbers, FS_EmptySet DEF Init, TypeOK
<1>3. LinkHeld /\ \A t \in Tags : OpenAs(t) = 0
  BY DEF Init, LinkHeld, OpenAs
<1>4. BeatsShown
  BY DEF Init, BeatsShown, BurstAt, OnLink, Showing
<1>5. AnswersHome
  <2>1. \A t : {k \in DOMAIN open : open[k].tag = t} = {}
    BY DEF Init
  <2>2. \A t : Cardinality({k \in DOMAIN open : open[k].tag = t}) = 0
    BY <2>1, FS_EmptySet
  <2>3. \A i \in Hosts, d \in Ids :
          rask[i][d] = rdue[Tag(i, d)] /\ bask[i][d] = bdue[Tag(i, d)] + 0
    BY TagParts DEF Init
  <2>4. \A t \in Tags : ~(rdue[t] + bdue[t] > 0)
    BY DEF Init
  <2> QED BY <2>2, <2>3, <2>4 DEF AnswersHome
<1> QED BY <1>2, <1>3, <1>4, <1>5 DEF Inv

LEMMA ResetInv == Reset => Inv'
<1> SUFFICES ASSUME Reset PROVE Inv'
  OBVIOUS
<1>1. HoldMax \in Nat
  BY ArbiterAssumption
<1>2. TypeOK'
  BY <1>1, HostNumbers, FS_EmptySet DEF Reset, TypeOK
<1>3. LinkHeld'
  BY DEF Reset, LinkHeld
<1>4. BeatsShown'
  BY DEF Reset, BeatsShown, BurstAt, OnLink, Showing
<1>5. AnswersHome'
  <2>1. \A t : {k \in DOMAIN open' : open'[k].tag = t} = {}
    BY DEF Reset
  <2>2. \A t : Cardinality({k \in DOMAIN open' : open'[k].tag = t}) = 0
    BY <2>1, FS_EmptySet
  <2>3. \A i \in Hosts, d \in Ids :
          rask'[i][d] = rdue'[Tag(i, d)] /\ bask'[i][d] = bdue'[Tag(i, d)] + 0
    BY TagParts DEF Reset
  <2>4. \A t \in Tags : ~(rdue'[t] + bdue'[t] > 0)
    BY DEF Reset
  <2> QED BY <2>2, <2>3, <2>4 DEF AnswersHome, Tag
<1> QED BY <1>2, <1>3, <1>4, <1>5 DEF Inv

LEMMA OfferReadInv ==
  ASSUME Inv, NEW i \in Hosts, OfferRead(i) PROVE Inv'
<1>1. /\ UNCHANGED <<unit, history, aws, beats, open, rdue, bdue, rask, bask>>
      /\ ars' \in [Hosts -> Reads \cup {NoReq}]
  BY DEF OfferRead, Inv, TypeOK
<1> USE <1>1 DEF unit, history
<1>2. TypeOK'
  BY DEF Inv, TypeOK
<1>3. LinkHeld' /\ BeatsShown' /\ AnswersHome'
  BY DEF Inv, LinkHeld, BeatsShown, OnLink, Showing, AnswersHome, Who
<1> QED BY <1>2, <1>3 DEF Inv

LEMMA OfferWriteInv ==
  ASSUME Inv, NEW i \in Hosts, OfferWrite(i) PROVE Inv'
<1> DEFINE burst(len) == [k \in 1..len |-> k = len]
<1>1. PICK req \in Writes :
        /\ aws' = [aws EXCEPT ![i] = req]
        /\ beats' = [beats EXCEPT ![i] = @ \o burst(req.len)]
  BY DEF OfferWrite
<1> DEFINE new == burst(req.len)
<1>2. /\ UNCHANGED <<unit, history, ars, open, rdue, bdue, rask, bask>>
      /\ aws[i] = NoReq
  BY DEF OfferWrite
<1>3. req.len \in Nat \ {0} /\ req # NoReq
  BY ArbiterAssumption, NoReqAssumption DEF Writes
<1>4. /\ new \in Seq(BOOLEAN) /\ Len(new) = req.len
      /\ \A k \in 1..req.len : new[k] = (k = req.len)
  <2> DEFINE len == req.len
  <2> HIDE DEF len
  <2>1. new = [k \in 1..len |-> k = len] /\ len \in Nat
    BY <1>3 DEF len
  <2>2. new \in [1..len -> BOOLEAN]
    BY <2>1
  <2>3. \A k \in 1..len : new[k] = (k = len)
    BY <2>1, Zenon
  <2>4. new \in Seq(BOOLEAN) /\ Len(new) = len
    <3> HIDE DEF new
    <3> QED BY <2>1, <2>2
  <2> QED BY <2>3, <2>4 DEF len
<1>5. /\ beats \in [Hosts -> Seq(BOOLEAN)]
      /\ aws \in [Hosts -> Writes \cup {NoReq}]
  BY DEF Inv, TypeOK
<1> HIDE DEF new
<1>6. /\ beats' \in [Hosts -> Seq(BOOLEAN)]
      /\ aws' \in [Hosts -> Writes \cup {NoReq}]
  BY <1>1, <1>4, <1>5 DEF new
<1>7. TypeOK'
  BY <1>2, <1>6 DEF Inv, TypeOK, unit, history
<1>8. LinkHeld' /\ AnswersHome'
  BY <1>2 DEF Inv, LinkHeld, AnswersHome, Who, unit
<1>9. ASSUME NEW j \in Hosts
      PROVE  /\ Len(beats'[j]) = OnLink(j)' + Showing(j)'
             /\ BurstAt(beats'[j], 0, OnLink(j)')
             /\ BurstAt(beats'[j], OnLink(j)', Showing(j)')
  <2>1. OnLink(j)' = OnLink(j)
    BY <1>2 DEF OnLink
  <2>2. /\ Len(beats[j]) = OnLink(j) + Showing(j)
        /\ BurstAt(beats[j], 0, OnLink(j))
        /\ BurstAt(beats[j], OnLink(j), Showing(j))
    BY DEF Inv, BeatsShown
  <2>3. CASE j # i
    <3>1. Showing(j)' = Showing(j) /\ beats'[j] = beats[j]
      BY <1>1, <1>5, <2>3 DEF Showing
    <3> QED BY <2>1, <2>2, <3>1
  <2>4. CASE j = i
    <3> DEFINE q == beats[j]
               link == OnLink(j)
    <3>1. /\ Showing(j) = 0 /\ Showing(j)' = req.len
          /\ beats'[j] = q \o new
      BY <1>1, <1>2, <1>3, <1>5, <2>4 DEF Showing, new
    <3>2. link \in Nat /\ q \in Seq(BOOLEAN)
      <4>1. open # <<>> => open[1].len \in Nat
        BY OpenOne DEF Inv, LinkHeld
      <4> QED BY <1>5, <4>1 DEF OnLink
    <3>3. /\ Len(q) = link /\ BurstAt(q, 0, link)
      BY <2>2, <3>1, <3>2
    <3> HIDE DEF q, link
    <3>4. /\ Len(q \o new) = link + req.len
          /\ \A k \in 1..link : (q \o new)[k] = q[k]
          /\ \A k \in 1..req.len : (q \o new)[link + k] = new[k]
      <4>1. /\ Len(q \o new) = Len(q) + Len(new)
            /\ \A k \in 1..(Len(q) + Len(new)) :
                 (q \o new)[k] = IF k <= Len(q) THEN q[k] ELSE new[k - Len(q)]
        BY <1>4, <3>2, ConcatProperties
      <4>2. /\ Len(q) = link /\ Len(new) = req.len /\ req.len \in Nat /\ link \in Nat
        BY <1>3, <1>4, <3>2, <3>3
      <4> HIDE DEF new
      <4>3. \A k \in 1..link : (q \o new)[k] = q[k]
        BY <4>1, <4>2
      <4>4. \A k \in 1..req.len : (q \o new)[link + k] = new[k]
        <5> SUFFICES ASSUME NEW k \in 1..req.len PROVE (q \o new)[link + k] = new[k]
          OBVIOUS
        <5>1. /\ link + k \in 1..(Len(q) + Len(new)) /\ ~(link + k <= Len(q))
              /\ (link + k) - Len(q) = k
          BY <4>2
        <5> QED BY <4>1, <5>1
      <4> QED BY <4>1, <4>2, <4>3, <4>4
    <3>5. BurstAt(q \o new, 0, link)
      BY <3>2, <3>3, <3>4 DEF BurstAt
    <3>6. BurstAt(q \o new, link, req.len)
      BY <1>4, <3>4 DEF BurstAt
    <3> QED BY <2>1, <3>1, <3>4, <3>5, <3>6 DEF link
  <2> QED BY <2>3, <2>4
<1>10. BeatsShown'
  BY <1>9 DEF BeatsShown, BurstAt
<1> QED BY <1>7, <1>8, <1>10 DEF Inv

LEMMA InvAlways == Spec => []Inv
<1>1. Inv /\ [Next]_vars => Inv'
  <2> SUFFICES ASSUME Inv, [Next]_vars PROVE Inv'
    OBVIOUS
  <2>1. CASE AnyCycle
    <3>1. PICK arRoom, awRoom, beat \in BOOLEAN,
               r \in AtMostOne(Owing(rdue)), b \in AtMostOne(Owing(bdue)) :
                 Cycle(arRoom, awRoom, beat, r, b)
      BY <2>1 DEF AnyCycle, Bounded
    <3>2. r \in SUBSET Tags /\ b \in SUBSET Tags
      BY DEF AtMostOne, Owing
    <3> QED BY <3>1, <3>2, CycleInv
  <2>2. CASE \E i \in Hosts : OfferRead(i) \/ OfferWrite(i)
    BY <2>2, OfferReadInv, OfferWriteInv
  <2>3. CASE Reset
    BY <2>3, ResetInv
  <2>4. CASE UNCHANGED vars
    <3> USE <2>4 DEF vars, unit, world, history
    <3>1. TypeOK'
      BY DEF Inv, TypeOK
    <3>2. LinkHeld' /\ BeatsShown' /\ AnswersHome'
      BY DEF Inv, LinkHeld, BeatsShown, OnLink, Showing, AnswersHome, Who
    <3> QED BY <3>1, <3>2 DEF Inv
  <2> QED BY <2>1, <2>2, <2>3, <2>4 DEF Next, Working
<1> QED BY <1>1, InitInv, PTL DEF Spec

(* The registers keep their types, the lock names at most one host, and no *)
(* count of answers goes below zero.                                       *)
THEOREM ArbiterType == Spec => []TypeOK
  BY InvAlways, PTL DEF Inv

LEMMA InvBursts == Inv => BurstsWhole
<1> SUFFICES ASSUME Inv PROVE BurstsWhole
  OBVIOUS
<1>1. TypeOK /\ LinkHeld /\ BeatsShown
  BY DEF Inv
<1>2. ASSUME wbusy
      PROVE  /\ wsel = {open[1].who}
             /\ Len(beats[open[1].who]) >= open[1].len
             /\ \A k \in 1..open[1].len :
                  beats[open[1].who][k] = (k = open[1].len)
  <2> DEFINE s == open[1].who
             left == open[1].len
  <2>1. s \in Hosts /\ left \in Nat \ {0} /\ open # <<>> /\ wsel = {s}
    BY <1>1, <1>2, OpenOne DEF LinkHeld
  <2>2. OnLink(s) = left
    BY <2>1 DEF OnLink
  <2>3. Showing(s) \in Nat
    <3>1. aws[s] \in Writes \cup {NoReq}
      BY <1>1, <2>1 DEF TypeOK
    <3> QED BY <3>1, ArbiterAssumption DEF Showing, Writes
  <2> HIDE DEF s, left
  <2>4. Len(beats[s]) = left + Showing(s) /\ BurstAt(beats[s], 0, left)
    BY <1>1, <2>1, <2>2 DEF BeatsShown
  <2>5. \A k \in 1..left : beats[s][k] = (k = left)
    BY <2>1, <2>4 DEF BurstAt
  <2> QED BY <2>1, <2>3, <2>4, <2>5 DEF s, left
<1> QED BY <1>1, <1>2 DEF BurstsWhole, LinkHeld

(* The bursts of two hosts never interleave on the write data channel and  *)
(* none is cut short (wbusy, wsel).                                        *)
THEOREM ArbiterBurstsWhole == Spec => []BurstsWhole
  BY InvBursts, InvAlways, PTL

(* Every answer the link owes is owed to the host that waits for it, under *)
(* the identifier that host used (Tag, Who, Own).                          *)
THEOREM ArbiterAnswersHome == Spec => []AnswersHome
  BY InvAlways, PTL DEF Inv

-----------------------------------------------------------------------------
(* The hold.  A cycle either starts it anew, and then forgets what was     *)
(* written before the read it grants, or keeps it, and then grants no      *)
(* other host's write.                                                     *)
LEMMA CycleHold ==
  ASSUME Inv, HoldWhole, NEW arRoom \in BOOLEAN, NEW room \in BOOLEAN,
         Holds(ArGo(arRoom), AwGo(room)), Recorded(ArGo(arRoom), AwGo(room))
  PROVE  HoldWhole'
<1> DEFINE ar == ArGo(arRoom)
           aw == AwGo(room)
<1>1. /\ hold' = (HStart(ar, aw) \/ (hold /\ ~HEnd(aw) /\ ~HOut(aw)))
      /\ howner' = IF HStart(ar, aw) THEN ar_who ELSE howner
  BY DEF Holds
<1>2. since' = [i \in Hosts |->
        IF ar /\ i = ar_who /\ ars[i].lock THEN FALSE
        ELSE since[i] \/ (HOLD /\ aw /\ aw_who # i)]
  BY DEF Recorded
<1>3. howner \in Hosts
  BY DEF Inv, TypeOK
<1>4. CASE HStart(ar, aw)
  <2>1. ar /\ ars[ar_who].lock /\ ar_who \in Hosts
    BY <1>4, GrantedRead DEF Inv, HStart
  <2>2. howner' = ar_who /\ ~since'[ar_who]
    BY <1>1, <1>2, <1>4, <2>1
  <2> QED BY <2>2 DEF HoldWhole
<1>5. CASE ~HStart(ar, aw)
  <2> SUFFICES ASSUME held' PROVE ~since'[howner']
    BY DEF HoldWhole
  <2>1. howner' = howner /\ held
    BY <1>1, <1>5 DEF held
  <2>2. ~since[howner]
    BY <2>1 DEF HoldWhole
  <2>3. aw => aw_who = howner
    BY <2>1, GrantedWrite DEF Inv, AwOffers
  <2>4. since'[howner] = (IF ar /\ howner = ar_who /\ ars[howner].lock THEN FALSE
                          ELSE since[howner] \/ (HOLD /\ aw /\ aw_who # howner))
    BY <1>2, <1>3
  <2>5. ~since'[howner]
    BY <2>2, <2>3, <2>4
  <2> QED BY <2>1, <2>5
<1> QED BY <1>4, <1>5

(* The owner's exclusive write completes a pair nobody wrote into, for     *)
(* every number of hosts and every length of the hold (issue 1408).        *)
THEOREM ArbiterHoldWhole == Spec => []HoldWhole
<1>1. Init => HoldWhole
  BY DEF Init, HoldWhole, held
<1>2. Inv /\ HoldWhole /\ [Next]_vars => HoldWhole'
  <2> SUFFICES ASSUME Inv, HoldWhole, [Next]_vars PROVE HoldWhole'
    OBVIOUS
  <2>1. CASE AnyCycle
    <3>1. PICK arRoom, room \in BOOLEAN :
            /\ Holds(ArGo(arRoom), AwGo(room))
            /\ Recorded(ArGo(arRoom), AwGo(room))
      BY <2>1 DEF AnyCycle, Bounded, Cycle
    <3> QED BY <3>1, CycleHold
  <2>2. CASE \E i \in Hosts : OfferRead(i) \/ OfferWrite(i)
    BY <2>2 DEF OfferRead, OfferWrite, unit, history, HoldWhole, held
  <2>3. CASE Reset
    BY <2>3 DEF Reset, HoldWhole, held
  <2>4. CASE UNCHANGED vars
    BY <2>4 DEF vars, unit, history, HoldWhole, held
  <2> QED BY <2>1, <2>2, <2>3, <2>4 DEF Next, Working
<1> QED BY <1>1, <1>2, InvAlways, PTL DEF Spec

-----------------------------------------------------------------------------
(* The round robin.  PRIO's reads go before the turn, so the theorem is    *)
(* about an arbiter without it.                                            *)
(* A grant keeps the order: whoever waited now comes before the one that   *)
(* was granted, and nobody is passed twice.                                *)
LEMMA GrantKeepsTurns ==
  ASSUME NEW passed, NEW turn \in Hosts, PassedBehind(passed, turn),
         passed \in [Hosts -> [Hosts -> 0..2]],
         NEW offers \in SUBSET Hosts, NEW go \in BOOLEAN, NEW who,
         go => /\ who \in offers
               /\ \A j \in offers : j # who => Before(turn, who, j)
  PROVE  PassedBehind(Passed(passed, offers, go, who),
                      IF go THEN After(who) ELSE turn)
<1> DEFINE p == Passed(passed, offers, go, who)
           t == IF go THEN After(who) ELSE turn
<1> SUFFICES ASSUME NEW i \in Hosts, NEW j \in Hosts
             PROVE  p[i][j] <= 1 /\ (p[i][j] = 1 => Before(t, i, j))
  BY DEF PassedBehind
<1>1. p[i][j] = IF ~Track \/ i \notin offers \/ (go /\ i = who) THEN 0
                ELSE IF go /\ j = who /\ passed[i][j] < 2 THEN passed[i][j] + 1
                ELSE passed[i][j]
  BY DEF Passed
<1>2. /\ passed[i][j] \in {0, 1}
      /\ passed[i][j] = 1 => Before(turn, i, j)
  BY DEF PassedBehind
<1>3. i \in Nat /\ j \in Nat /\ turn \in Nat /\ i <= N - 1 /\ j <= N - 1
  BY HostNumbers
<1>4. CASE ~Track \/ i \notin offers \/ (go /\ i = who)
  BY <1>1, <1>4
<1>5. CASE Track /\ i \in offers /\ ~go
  BY <1>1, <1>2, <1>5
<1>6. CASE Track /\ i \in offers /\ go /\ i # who
  <2>1. who \in Nat /\ who <= N - 1 /\ Before(turn, who, i)
    BY <1>6, HostNumbers
  <2>2. t = IF who = N - 1 THEN 0 ELSE who + 1
    BY <1>6 DEF After
  <2>3. CASE j = who
    <3>1. passed[i][j] = 0
      BY <1>2, <1>3, <2>1, <2>3 DEF Before
    <3>2. Before(t, i, j)
      <4> HIDE DEF t
      <4> QED BY <1>3, <1>6, <2>1, <2>2, <2>3, HostNumbers DEF Before
    <3>3. p[i][j] = 1
      BY <1>1, <1>6, <2>3, <3>1
    <3> QED BY <3>2, <3>3
  <2>4. CASE j # who
    <3>1. p[i][j] = passed[i][j]
      BY <1>1, <1>6, <2>4
    <3>2. Before(turn, i, j) => Before(t, i, j)
      <4> HIDE DEF t
      <4> QED BY <1>3, <1>6, <2>1, <2>2, <2>4, HostNumbers DEF Before
    <3> HIDE DEF t, p
    <3> QED BY <1>2, <3>1, <3>2
  <2> QED BY <2>3, <2>4
<1> QED BY <1>4, <1>5, <1>6

LEMMA CycleTurns ==
  ASSUME ~FIXED, PRIO \notin Hosts, Inv, Turns,
         NEW arRoom \in BOOLEAN, NEW room \in BOOLEAN, NEW beat \in BOOLEAN,
         Grants(ArGo(arRoom), AwGo(room), beat),
         Recorded(ArGo(arRoom), AwGo(room))
  PROVE  Turns'
<1> DEFINE ar == ArGo(arRoom)
           aw == AwGo(room)
<1>1. /\ rturn' = (IF ar THEN After(ar_who) ELSE rturn)
      /\ wturn' = (IF aw THEN After(aw_who) ELSE wturn)
  BY DEF Grants
<1>2. /\ rpassed' = Passed(rpassed, ArOffers, ar, ar_who)
      /\ wpassed' = Passed(wpassed, AwOffers, aw, aw_who)
  BY DEF Recorded
<1>3. /\ rturn \in Hosts /\ wturn \in Hosts
      /\ rpassed \in [Hosts -> [Hosts -> 0..2]]
      /\ wpassed \in [Hosts -> [Hosts -> 0..2]]
  BY DEF Inv, TypeOK
<1>4. ArOffers \in SUBSET Hosts /\ AwOffers \in SUBSET Hosts
  BY DEF ArOffers, AwOffers
<1>5. ar => /\ ar_who \in ArOffers
            /\ \A j \in ArOffers : j # ar_who => Before(rturn, ar_who, j)
  <2>1. ar_who = First(ArOffers, rturn)
    BY <1>4 DEF ar_who
  <2>2. ar => ArOffers # {}
    BY DEF ArGo
  <2> QED BY <1>3, <1>4, <2>1, <2>2, FirstOffers
<1>6. aw => /\ aw_who \in AwOffers
            /\ \A j \in AwOffers : j # aw_who => Before(wturn, aw_who, j)
  <2>1. aw => AwOffers # {}
    BY DEF AwGo
  <2> QED BY <1>3, <1>4, <2>1, FirstOffers DEF aw_who
<1>7. ar \in BOOLEAN /\ aw \in BOOLEAN
  BY DEF ArGo, AwGo
<1>8. PassedBehind(rpassed, rturn) /\ PassedBehind(wpassed, wturn)
  BY DEF Turns
<1> HIDE DEF ar, aw
<1>9. PassedBehind(rpassed', rturn')
  BY <1>1, <1>2, <1>3, <1>4, <1>5, <1>7, <1>8, GrantKeepsTurns
<1>10. PassedBehind(wpassed', wturn')
  BY <1>1, <1>2, <1>3, <1>4, <1>6, <1>7, <1>8, GrantKeepsTurns
<1> QED BY <1>9, <1>10 DEF Turns, PassedBehind, Before

(* A host waits for at most one grant of each of the others, for every     *)
(* number of hosts, when the arbiter is fair and names none by PRIO.       *)
THEOREM ArbiterTakeTurns ==
  ASSUME ~FIXED, PRIO \notin Hosts
  PROVE  Spec => []TakeTurns
<1>1. Init => Turns
  BY DEF Init, Turns, PassedBehind
<1>2. Inv /\ Turns /\ [Next]_vars => Turns'
  <2> SUFFICES ASSUME Inv, Turns, [Next]_vars PROVE Turns'
    OBVIOUS
  <2>1. CASE AnyCycle
    <3>1. PICK arRoom, room, beat \in BOOLEAN :
            /\ Grants(ArGo(arRoom), AwGo(room), beat)
            /\ Recorded(ArGo(arRoom), AwGo(room))
      BY <2>1 DEF AnyCycle, Bounded, Cycle
    <3> QED BY <3>1, CycleTurns
  <2>2. CASE \E i \in Hosts : OfferRead(i) \/ OfferWrite(i)
    BY <2>2 DEF OfferRead, OfferWrite, unit, history, Turns, PassedBehind, Before
  <2>3. CASE Reset
    BY <2>3 DEF Reset, Turns, PassedBehind
  <2>4. CASE UNCHANGED vars
    BY <2>4 DEF vars, unit, history, Turns, PassedBehind, Before
  <2> QED BY <2>1, <2>2, <2>3, <2>4 DEF Next, Working
<1>3. Turns => TakeTurns
  BY DEF Turns, PassedBehind, TakeTurns
<1> QED BY <1>1, <1>2, <1>3, InvAlways, PTL DEF Spec

-----------------------------------------------------------------------------
(* The arbiter with the monitor and the harts.                             *)
(* The hosts in a channel, which holds at most two and none twice.         *)
Queued(s) ==
  \/ s = <<>>
  \/ \E g \in Hosts : s = <<g>>
  \/ \E g, h \in Hosts : g # h /\ s = <<g, h>>
Of(s) == {s[k] : k \in 1..Len(s)}

(* A failed write's beats are being dropped, or its answer waits.          *)
Dropped(h) == h = binjid /\ (binj \/ (wpend /\ wdrop))

(* A host's access is in one place, and a host at rest has none.           *)
ReadsPlaced ==
  \A h \in Hosts :
    /\ hart[h].op = "lr" <=>
         ars[h] # NoReq \/ h \in Of(ar_in) \/ h \in reading \/ h \in sampled
    /\ ars[h] # NoReq => h \notin Of(ar_in) /\ h \notin reading /\ h \notin sampled
    /\ h \in Of(ar_in) => h \notin reading /\ h \notin sampled
    /\ h \in reading => h \notin sampled

WritesPlaced ==
  \A h \in Hosts :
    /\ hart[h].op \in {"sc", "write"} <=>
         \/ aws[h] # NoReq \/ h \in Of(aw_in) \/ Dropped(h)
         \/ h \in Of(out) \/ h \in landed \/ h \in Of(b_in)
    /\ aws[h] # NoReq => /\ h \notin Of(aw_in) /\ ~Dropped(h) /\ h \notin Of(out)
                         /\ h \notin landed /\ h \notin Of(b_in)
    /\ h \in Of(aw_in) => /\ ~Dropped(h) /\ h \notin Of(out)
                          /\ h \notin landed /\ h \notin Of(b_in)
    /\ Dropped(h) => h \notin Of(out) /\ h \notin landed /\ h \notin Of(b_in)
    /\ h \in Of(out) => h \notin landed /\ h \notin Of(b_in)
    /\ h \in landed => h \notin Of(b_in)

OnItsWay(h) == h \in Of(out) \/ h \in landed \/ h \in Of(b_in)

(* What a host's access is, where it is.                                   *)
Known ==
  /\ ~(wpend /\ binj)
  /\ \A h \in Hosts :
       /\ h \in wids <=> OnItsWay(h)
       /\ h \in x <=> OnItsWay(h) /\ hart[h].op = "sc"
       /\ Dropped(h) => hart[h].op = "sc"
       /\ hart[h].op # "none" => Covered(h) \subseteq Lines
       /\ hart[h].op \in {"lr", "sc"} =>
            h \in Watched /\ hart[h].len = 1 /\ hart[h].line \in Lines
       /\ hart[h].rsv # NoLine => h \in Watched
       /\ hart[h].op \in {"sc", "write"} =>
            (hart[h].stored <=> h \in landed \/ h \in Of(b_in))

(* While a reservation stands, no write on its way to memory covers its    *)
(* line, and memory holds what was read there, or is about to be read.     *)
Reserves ==
  \A p \in v : ~Hit(p) =>
    /\ \A g \in Of(out) : line[p] \notin Covered(g)
    /\ p \in reading => hart[p].line = line[p]
    /\ p \notin reading => fresh[p] = line[p]

(* A write that was decided to store stands until it is taken.             *)
Decided ==
  xk = "stores" =>
    /\ aw_in # <<>> /\ hart[Shown].op = "sc"
    /\ Shown \in v /\ fw = {} /\ line[Shown] = hart[Shown].line

(* The second half of a pair on its way to memory finds what the first     *)
(* read.                                                                   *)
PairsWhole ==
  \A h \in Of(out) : hart[h].op = "sc" =>
    /\ fresh[h] = hart[h].line
    /\ h # Head(out) => hart[h].line \notin Covered(Head(out))

Lined == Queued(ar_in) /\ Queued(aw_in) /\ Queued(b_in) /\ Queued(out)

MonInv ==
  /\ Inv /\ MonTypeOK /\ Lined /\ ReadsPlaced /\ WritesPlaced /\ Known
  /\ Reserves /\ Decided /\ PairsWhole


-----------------------------------------------------------------------------
(* What is in such a channel when one goes out of it and one comes in.     *)
LEMMA OfShort ==
  /\ Of(<<>>) = {}
  /\ \A g : Of(<<g>>) = {g}
  /\ \A g, h : Of(<<g, h>>) = {g, h}
<1>1. ASSUME NEW g, NEW h PROVE Of(<<g, h>>) = {g, h}
  <2>1. Len(<<g, h>>) = 2 /\ <<g, h>>[1] = g /\ <<g, h>>[2] = h
    OBVIOUS
  <2>2. 1..2 = {1, 2}
    OBVIOUS
  <2> QED BY <2>1, <2>2 DEF Of
<1>2. ASSUME NEW g PROVE Of(<<g>>) = {g}
  <2>1. Len(<<g>>) = 1 /\ <<g>>[1] = g /\ 1..1 = {1}
    OBVIOUS
  <2> QED BY <2>1 DEF Of
<1>3. Of(<<>>) = {}
  BY DEF Of
<1> QED BY <1>1, <1>2, <1>3

LEMMA QueuedHead ==
  ASSUME NEW s, Queued(s), s # <<>>
  PROVE  /\ Head(s) \in Hosts /\ Head(s) \in Of(s)
         /\ Len(s) \in {1, 2}
         /\ Queued(Tail(s)) /\ Of(Tail(s)) = Of(s) \ {Head(s)}
         /\ Len(Tail(s)) = Len(s) - 1
         /\ \A h \in Of(Tail(s)) : h = Head(Tail(s))
<1>1. CASE \E g \in Hosts : s = <<g>>
  <2>1. PICK g \in Hosts : s = <<g>>
    BY <1>1
  <2>2. Head(<<g>>) = g /\ Len(<<g>>) = 1 /\ Tail(<<g>>) = <<>> /\ Len(<<>>) = 0
    OBVIOUS
  <2> QED BY <2>1, <2>2, OfShort DEF Queued
<1>2. CASE \E g, h \in Hosts : g # h /\ s = <<g, h>>
  <2>1. PICK g, h \in Hosts : g # h /\ s = <<g, h>>
    BY <1>2
  <2>2. /\ Head(<<g, h>>) = g /\ Len(<<g, h>>) = 2 /\ Tail(<<g, h>>) = <<h>>
        /\ Head(<<h>>) = h /\ Len(<<h>>) = 1
    OBVIOUS
  <2>3. Of(s) = {g, h} /\ Of(<<h>>) = {h}
    BY <2>1, OfShort
  <2> QED BY <2>1, <2>2, <2>3 DEF Queued
<1> QED BY <1>1, <1>2 DEF Queued

LEMMA QueuedAppend ==
  ASSUME NEW s, Queued(s), Room(s), NEW g \in Hosts, g \notin Of(s)
  PROVE  /\ Queued(s \o <<g>>) /\ Of(s \o <<g>>) = Of(s) \cup {g}
         /\ Head(s \o <<g>>) = IF s = <<>> THEN g ELSE Head(s)
         /\ s \o <<g>> # <<>> /\ Append(s, g) = s \o <<g>>
         /\ Len(s \o <<g>>) = Len(s) + 1
<1>1. CASE s = <<>>
  <2>1. <<>> \o <<g>> = <<g>> /\ Head(<<g>>) = g /\ <<g>> # <<>>
        /\ Append(<<>>, g) = <<g>> /\ Len(<<g>>) = 1 /\ Len(<<>>) = 0
    OBVIOUS
  <2> QED BY <1>1, <2>1, OfShort DEF Queued
<1>2. CASE \E a \in Hosts : s = <<a>>
  <2>1. PICK a \in Hosts : s = <<a>>
    BY <1>2
  <2>2. <<a>> \o <<g>> = <<a, g>>
    BY ConcatShort
  <2>3. Head(<<a, g>>) = a /\ <<a, g>> # <<>> /\ Len(<<a, g>>) = 2
    OBVIOUS
  <2>4. Head(<<a>>) = a /\ <<a>> # <<>> /\ Len(<<a>>) = 1
    OBVIOUS
  <2>5. Append(<<a>>, g) = <<a>> \o <<g>>
    OBVIOUS
  <2>6. Of(<<a>>) = {a} /\ Of(<<a, g>>) = {a, g}
    BY OfShort
  <2>7. a # g
    BY <2>1, <2>6
  <2>8. Queued(<<a, g>>)
    BY <2>7 DEF Queued
  <2>9. /\ Queued(<<a>> \o <<g>>) /\ Of(<<a>> \o <<g>>) = Of(<<a>>) \cup {g}
        /\ Head(<<a>> \o <<g>>) = Head(<<a>>) /\ <<a>> \o <<g>> # <<>>
        /\ Len(<<a>> \o <<g>>) = Len(<<a>>) + 1
    <3>1. {a, g} = {a} \cup {g} /\ 1 + 1 = 2
      OBVIOUS
    <3>2. Len(<<a, g>>) = Len(<<a>>) + 1
      BY <2>3, <2>4, <3>1
    <3> QED BY <2>2, <2>3, <2>4, <2>6, <2>8, <3>1, <3>2, Zenon
  <2> QED BY <2>1, <2>4, <2>5, <2>9, Zenon
<1>3. CASE \E a, h \in Hosts : a # h /\ s = <<a, h>>
  <2>1. PICK a, h \in Hosts : s = <<a, h>>
    BY <1>3
  <2>2. Len(<<a, h>>) = 2
    OBVIOUS
  <2> QED BY <2>1, <2>2 DEF Room
<1> QED BY <1>1, <1>2, <1>3 DEF Queued

LEMMA QueuedConcatNone ==
  ASSUME NEW s, Queued(s) PROVE s \o <<>> = s
<1>1. CASE s = <<>>
  BY <1>1, ConcatShort
<1>2. CASE \E g \in Hosts : s = <<g>>
  BY <1>2, ConcatShort
<1>3. CASE \E g, h \in Hosts : g # h /\ s = <<g, h>>
  BY <1>3, ConcatShort
<1> QED BY <1>1, <1>2, <1>3 DEF Queued

LEMMA QueuedEdge ==
  ASSUME NEW s, Queued(s), NEW took \in BOOLEAN, took => s # <<>>,
         NEW go \in BOOLEAN, NEW g, go => g \in Hosts /\ g \notin Of(s) /\ Room(s),
         NEW t, t = Edge(s, took, Item(go, g))
  PROVE  /\ Queued(t)
         /\ \A h : h \in Of(t) <=>
              (h \in Of(s) /\ ~(took /\ h = Head(s))) \/ (go /\ h = g)
         /\ ~took /\ s # <<>> => t # <<>> /\ Head(t) = Head(s)
<1> DEFINE u == IF took THEN Tail(s) ELSE s
<1>1. /\ Queued(u)
      /\ \A h : h \in Of(u) <=> (h \in Of(s) /\ ~(took /\ h = Head(s)))
      /\ ~took => u = s
      /\ Room(s) => Room(u)
  BY QueuedHead DEF Room
<1>2. t = u \o Item(go, g)
  BY DEF Edge
<1> HIDE DEF u
<1>3. CASE go
  <2>1. Item(go, g) = <<g>> /\ g \notin Of(u) /\ Room(u) /\ g \in Hosts
    BY <1>1, <1>3 DEF Item
  <2>2. /\ Queued(t) /\ Of(t) = Of(u) \cup {g}
        /\ Head(t) = (IF u = <<>> THEN g ELSE Head(u)) /\ t # <<>>
    BY <1>1, <1>2, <2>1, QueuedAppend
  <2> QED BY <1>1, <1>3, <2>2
<1>4. CASE ~go
  <2>1. Item(go, g) = <<>> /\ u \o <<>> = u
    BY <1>1, <1>4, QueuedConcatNone DEF Item
  <2>2. t = u
    BY <1>2, <2>1
  <2> QED BY <1>1, <1>4, <2>2
<1> QED BY <1>3, <1>4


-----------------------------------------------------------------------------
(* The wires of a cycle, and whose access each is about.                   *)
LEMMA HostsTagged == Hosts \subseteq Tags
<1> DEFINE m == 2 ^ I
           M == 2 ^ J
<1>1. m \in Nat \ {0} /\ M \in Nat /\ N * m <= M /\ N \in Nat
  BY PowerAssumption, HostNumbers
<1>2. Hosts = 0..(N - 1) /\ Tags = 0..(M - 1)
  BY DEF Hosts, Tags
<1> HIDE DEF m, M
<1>3. N <= N * m
  BY <1>1
<1>4. N <= M
  BY <1>1, <1>3
<1> QED BY <1>1, <1>2, <1>4

LEMMA WhoPassesRead ==
  ASSUME MonInv, PassRead
  PROVE  /\ Head(ar_in) \in Hosts /\ Head(ar_in) \in Of(ar_in)
         /\ hart[Head(ar_in)].op = "lr" /\ Head(ar_in) \in Watched
         /\ hart[Head(ar_in)].line \in Lines
         /\ wids = {} /\ out = <<>>
<1> DEFINE h == Head(ar_in)
<1>1. h \in Hosts /\ h \in Of(ar_in)
  BY QueuedHead DEF MonInv, Lined, PassRead, Offered
<1>2. hart[h].op = "lr"
  BY <1>1 DEF MonInv, ReadsPlaced
<1>3. h \in Watched /\ hart[h].line \in Lines
  BY <1>1, <1>2 DEF MonInv, Known
<1>4. wids = {}
  BY DEF PassRead, quiet
<1>5. out = <<>>
  <2> SUFFICES ASSUME out # <<>> PROVE FALSE
    OBVIOUS
  <2>1. Head(out) \in Hosts /\ Head(out) \in Of(out)
    BY QueuedHead DEF MonInv, Lined
  <2> QED BY <1>4, <2>1 DEF MonInv, Known, OnItsWay
<1> QED BY <1>1, <1>2, <1>3, <1>4, <1>5

LEMMA WhoIsShown ==
  ASSUME MonInv, Offered(aw_in)
  PROVE  /\ Shown \in Hosts /\ Shown \in Of(aw_in)
         /\ hart[Shown].op \in {"sc", "write"}
<1>1. Shown \in Hosts /\ Shown \in Of(aw_in)
  BY QueuedHead DEF MonInv, Lined, Offered, Shown
<1> QED BY <1>1 DEF MonInv, WritesPlaced

LEMMA WhoIsTold ==
  ASSUME MonInv
  PROVE  /\ Passing \subseteq Hosts /\ Given \subseteq Hosts
         /\ \A h \in Passing : AnswerGo /\ h = Head(b_in) /\ h \in Of(b_in)
         /\ AnswerGo => Passing = {Head(b_in)}
         /\ ~AnswerGo => Passing = {}
         /\ \A h \in Given : IF Inject THEN Dropped(h) ELSE h \in Passing
         /\ Inject => Passing = {} /\ Given = {binjid}
         /\ ~Inject => Given = Passing
<1>1. AnswerGo => Head(b_in) \in Hosts /\ Head(b_in) \in Of(b_in)
  BY QueuedHead DEF MonInv, Lined, AnswerGo, Offered
<1>2. binjid \in Hosts
  BY DEF MonInv, MonTypeOK
<1>3. Inject => Dropped(binjid) /\ ~AnswerGo
  BY DEF Inject, Dropped, AnswerGo
<1> QED BY <1>1, <1>2, <1>3 DEF Passing, Given

(* What a cycle does to a host's read, by where it is.                     *)
LEMMA CycleOfReads ==
  ASSUME MonInv, NEW beat \in BOOLEAN, NEW r \in SUBSET sampled, MonCycle(beat, r)
  PROVE  /\ Queued(ar_in')
         /\ \A h \in Hosts :
              /\ ars'[h] # NoReq <=> ars[h] # NoReq /\ ~(ArGo(Room(ar_in)) /\ h = ar_who)
              /\ h \in Of(ar_in') <=> \/ h \in Of(ar_in) /\ ~(PassRead /\ h = Head(ar_in))
                                      \/ ArGo(Room(ar_in)) /\ h = ar_who
              /\ h \in reading' <=> h \in reading \/ (PassRead /\ h = Head(ar_in))
              /\ h \in sampled' <=> h \in sampled /\ h \notin r
         /\ ArGo(Room(ar_in)) => ar_who \in Hosts /\ ars[ar_who] # NoReq
<1> DEFINE go == ArGo(Room(ar_in))
<1>1. Room(ar_in) \in BOOLEAN /\ go \in BOOLEAN /\ PassRead \in BOOLEAN
  BY DEF Room, ArGo, PassRead
<1>2. go => ar_who \in Hosts /\ ars[ar_who] # NoReq /\ Room(ar_in)
  <2>1. go => ar_who \in ArOffers /\ Room(ar_in)
    BY Granted DEF MonInv, Inv, ArGo
  <2> QED BY <2>1 DEF ArOffers
<1>3. go => ar_who \notin Of(ar_in)
  BY <1>2 DEF MonInv, ReadsPlaced
<1>4. /\ ar_in' = Edge(ar_in, PassRead, Item(go, ar_who))
      /\ reading' = IF PassRead THEN reading \cup {Head(ar_in)} ELSE reading
      /\ sampled' = sampled \ r
      /\ ars' = IF go THEN [ars EXCEPT ![ar_who] = NoReq] ELSE ars
  BY DEF MonCycle, Through, Answered, Cycle, Grants
<1>5. /\ Queued(ar_in')
      /\ \A h : h \in Of(ar_in') <=>
           (h \in Of(ar_in) /\ ~(PassRead /\ h = Head(ar_in))) \/ (go /\ h = ar_who)
  <2>1. PassRead => ar_in # <<>>
    BY DEF PassRead, Offered
  <2>2. Queued(ar_in)
    BY DEF MonInv, Lined
  <2> HIDE DEF go
  <2> QED BY <1>1, <1>2, <1>3, <1>4, <2>1, <2>2, QueuedEdge
<1>6. ars \in [Hosts -> Reads \cup {NoReq}]
  BY DEF MonInv, Inv, TypeOK
<1> HIDE DEF go
<1>7. ASSUME NEW h \in Hosts
      PROVE  ars'[h] # NoReq <=> ars[h] # NoReq /\ ~(go /\ h = ar_who)
  BY <1>2, <1>4, <1>6
<1> QED BY <1>2, <1>4, <1>5, <1>7 DEF go

(* And to its write.                                                       *)
LEMMA CycleOfWrites ==
  ASSUME MonInv, NEW beat \in BOOLEAN, NEW r \in SUBSET sampled, MonCycle(beat, r)
  PROVE  /\ Queued(aw_in') /\ Queued(out') /\ Queued(b_in')
         /\ ~(Pass \/ Absorb) /\ aw_in # <<>> => aw_in' # <<>> /\ Head(aw_in') = Head(aw_in)
         /\ \A h \in Hosts :
              /\ aws'[h] # NoReq <=> aws[h] # NoReq /\ ~(AwGo(Room(aw_in)) /\ h = aw_who)
              /\ h \in Of(aw_in') <=> \/ h \in Of(aw_in) /\ ~((Pass \/ Absorb) /\ h = Shown)
                                      \/ AwGo(Room(aw_in)) /\ h = aw_who
              /\ h \in Of(out') <=> h \in Of(out) \/ (Pass /\ h = Shown)
              /\ h \in landed' <=> h \in landed
              /\ h \in Of(b_in') <=> h \in Of(b_in) /\ h \notin Passing
         /\ AwGo(Room(aw_in)) => aw_who \in Hosts /\ aws[aw_who] # NoReq
         /\ out # <<>> => Head(out') = Head(out)
         /\ Pass /\ out = <<>> => Head(out') = Shown
<1> DEFINE go == AwGo(Room(aw_in))
           taken == Pass \/ Absorb
<1>1. Room(aw_in) \in BOOLEAN /\ go \in BOOLEAN /\ taken \in BOOLEAN
      /\ AnswerGo \in BOOLEAN
  BY DEF Room, AwGo, Pass, Absorb, AnswerGo
<1>2. go => aw_who \in Hosts /\ aws[aw_who] # NoReq /\ Room(aw_in)
  <2>1. go => aw_who \in AwOffers /\ Room(aw_in)
    BY Granted DEF MonInv, Inv, AwGo
  <2> QED BY <2>1 DEF AwOffers
<1>3. go => aw_who \notin Of(aw_in)
  BY <1>2 DEF MonInv, WritesPlaced
<1>4. /\ aw_in' = Edge(aw_in, taken, Item(go, aw_who))
      /\ out' = IF Pass THEN Append(out, Shown) ELSE out
      /\ b_in' = Edge(b_in, AnswerGo, <<>>)
      /\ landed' = landed
      /\ aws' = IF go THEN [aws EXCEPT ![aw_who] = NoReq] ELSE aws
  BY DEF MonCycle, Through, Cycle, Grants
<1>5. taken => aw_in # <<>> /\ Shown = Head(aw_in) /\ Shown \in Hosts /\ Shown \in Of(aw_in)
  BY WhoIsShown DEF Pass, Absorb, Take, Offered, Shown
<1>6. Queued(aw_in) /\ Queued(out) /\ Queued(b_in)
  BY DEF MonInv, Lined
<1>7. /\ Queued(aw_in')
      /\ \A h : h \in Of(aw_in') <=>
           (h \in Of(aw_in) /\ ~(taken /\ h = Head(aw_in))) \/ (go /\ h = aw_who)
      /\ ~taken /\ aw_in # <<>> => aw_in' # <<>> /\ Head(aw_in') = Head(aw_in)
  <2> DEFINE next == aw_in'
  <2>1. next = Edge(aw_in, taken, Item(go, aw_who))
    BY <1>4
  <2> HIDE DEF go, taken, next
  <2>2. /\ taken => aw_in # <<>>
        /\ go => aw_who \in Hosts /\ aw_who \notin Of(aw_in) /\ Room(aw_in)
    BY <1>2, <1>3, <1>5
  <2>3. /\ Queued(next)
        /\ \A h : h \in Of(next) <=>
             (h \in Of(aw_in) /\ ~(taken /\ h = Head(aw_in))) \/ (go /\ h = aw_who)
    BY <1>1, <1>6, <2>1, <2>2, QueuedEdge
  <2>4. ~taken /\ aw_in # <<>> => next # <<>> /\ Head(next) = Head(aw_in)
    BY <1>1, <1>6, <2>1, <2>2, QueuedEdge
  <2> QED BY <2>3, <2>4 DEF next
<1>8. /\ Queued(out')
      /\ \A h : h \in Of(out') <=> h \in Of(out) \/ (Pass /\ h = Shown)
      /\ out # <<>> => Head(out') = Head(out)
      /\ Pass /\ out = <<>> => Head(out') = Shown
  <2>1. CASE Pass
    <3>1. Room(out) /\ Shown \in Hosts /\ Shown \notin Of(out)
      BY <1>5, <2>1 DEF Pass, Room, MonInv, WritesPlaced
    <3>2. out' = out \o <<Shown>>
      BY <1>4, <1>6, <2>1, <3>1, QueuedAppend
    <3> QED BY <1>6, <2>1, <3>1, <3>2, QueuedAppend
  <2>2. CASE ~Pass
    BY <1>4, <1>6, <2>2
  <2> QED BY <2>1, <2>2
<1>9. /\ Queued(b_in')
      /\ \A h : h \in Of(b_in') <=> h \in Of(b_in) /\ h \notin Passing
  <2>1. CASE AnswerGo
    <3>1. b_in # <<>> /\ Passing = {Head(b_in)}
      BY <2>1, WhoIsTold DEF AnswerGo, Offered
    <3>2. Queued(Tail(b_in)) /\ Of(Tail(b_in)) = Of(b_in) \ {Head(b_in)}
      BY <1>6, <3>1, QueuedHead
    <3>3. b_in' = Tail(b_in)
      BY <1>4, <2>1, <3>2, QueuedConcatNone DEF Edge
    <3> QED BY <3>1, <3>2, <3>3
  <2>2. CASE ~AnswerGo
    <3>1. Passing = {} /\ b_in' = b_in
      BY <1>4, <1>6, <2>2, WhoIsTold, QueuedConcatNone DEF Edge
    <3> QED BY <1>6, <3>1
  <2> QED BY <2>1, <2>2
<1>10. aws \in [Hosts -> Writes \cup {NoReq}]
  BY DEF MonInv, Inv, TypeOK
<1> HIDE DEF go
<1>11. ASSUME NEW h \in Hosts
       PROVE  aws'[h] # NoReq <=> aws[h] # NoReq /\ ~(go /\ h = aw_who)
  BY <1>2, <1>4, <1>10
<1>12. Head(aw_in) = Shown
  BY DEF Shown
<1> HIDE DEF taken
<1>13. ASSUME NEW h \in Hosts
       PROVE  /\ h \in Of(aw_in') <=> \/ h \in Of(aw_in) /\ ~(taken /\ h = Shown)
                                      \/ go /\ h = aw_who
              /\ h \in Of(out') <=> h \in Of(out) \/ (Pass /\ h = Shown)
              /\ h \in landed' <=> h \in landed
              /\ h \in Of(b_in') <=> h \in Of(b_in) /\ h \notin Passing
  BY <1>4, <1>7, <1>8, <1>9, <1>12
<1> QED BY <1>2, <1>7, <1>8, <1>9, <1>11, <1>13, Zenon DEF go, taken


(* Who is answered, and what else a cycle keeps of a host.                 *)
Harts == [op : {"none", "lr", "sc", "write"},
          line : Lines \cup {NoLine}, len : Lens \cup {1},
          rsv : Lines \cup {NoLine}, stored : BOOLEAN, ex : BOOLEAN]

(* What r and the answers to writes do to a host.                          *)
Told(r, h) ==
  /\ hart'[h].line = hart[h].line /\ hart'[h].len = hart[h].len
  /\ hart'[h].stored = hart[h].stored
  /\ h \in r => hart[h].op = "lr" /\ h \notin Given
  /\ h \in Given => hart[h].op \in {"sc", "write"}
  /\ hart'[h].op = (IF h \in r \/ h \in Given THEN "none" ELSE hart[h].op)
  /\ hart'[h].rsv = (IF h \in r THEN hart[h].line ELSE hart[h].rsv)
  /\ hart'[h].ex = (IF h \in Given THEN ~Inject /\ h \in x ELSE hart[h].ex)

LEMMA CycleOfHarts ==
  ASSUME MonInv, NEW beat \in BOOLEAN, NEW r \in SUBSET sampled, MonCycle(beat, r)
  PROVE  /\ \A h \in Hosts : Told(r, h)
         /\ hart' \in [Hosts -> Harts]
<1>1. hart \in [Hosts -> Harts]
  BY DEF MonInv, MonTypeOK, Harts
<1>2. hart' = [h \in Hosts |->
        IF h \in r THEN [hart[h] EXCEPT !.op = "none", !.rsv = hart[h].line]
        ELSE IF h \in Given THEN
          [hart[h] EXCEPT !.op = "none", !.ex = ~Inject /\ h \in x]
        ELSE hart[h]]
  BY DEF MonCycle, Answered
<1>3. ASSUME NEW h \in Hosts
      PROVE  /\ h \in r => hart[h].op = "lr"
             /\ h \in Given => hart[h].op \in {"sc", "write"}
  BY WhoIsTold DEF MonInv, ReadsPlaced, WritesPlaced
<1>4. ASSUME NEW h \in Hosts
      PROVE  /\ hart'[h] \in Harts
             /\ hart'[h].line = hart[h].line /\ hart'[h].len = hart[h].len
             /\ hart'[h].stored = hart[h].stored
             /\ h \in r => h \notin Given
             /\ hart'[h].op = (IF h \in r \/ h \in Given THEN "none" ELSE hart[h].op)
             /\ hart'[h].rsv = (IF h \in r THEN hart[h].line ELSE hart[h].rsv)
             /\ hart'[h].ex = (IF h \in Given THEN ~Inject /\ h \in x ELSE hart[h].ex)
  <2> DEFINE a == hart[h]
             new == [a EXCEPT !.op = "none", !.rsv = a.line]
             told == ~Inject /\ h \in x
             given == [a EXCEPT !.op = "none", !.ex = told]
  <2>1. a \in Harts /\ told \in BOOLEAN
    BY <1>1 DEF Inject, Harts
  <2>2. hart'[h] = IF h \in r THEN new ELSE IF h \in Given THEN given ELSE a
    BY <1>2
  <2>3. h \in r => h \notin Given
    BY <1>3
  <2> HIDE DEF a, told
  <2>4. /\ new \in Harts /\ new.line = a.line /\ new.len = a.len
        /\ new.stored = a.stored /\ new.op = "none" /\ new.rsv = a.line /\ new.ex = a.ex
    BY <2>1 DEF Harts
  <2>5. /\ given \in Harts /\ given.line = a.line /\ given.len = a.len
        /\ given.stored = a.stored /\ given.op = "none" /\ given.rsv = a.rsv
        /\ given.ex = told
    BY <2>1 DEF Harts
  <2> HIDE DEF new, given
  <2>6. CASE h \in r
    BY <2>2, <2>3, <2>4, <2>6, Zenon DEF a
  <2>7. CASE h \in Given
    <3>1. h \notin r /\ hart'[h] = given
      BY <2>2, <2>3, <2>7
    <3> QED BY <2>5, <2>7, <3>1, Zenon DEF a, told
  <2>8. CASE h \notin r /\ h \notin Given
    BY <2>1, <2>2, <2>8, Zenon DEF a
  <2> QED BY <2>6, <2>7, <2>8
<1>5. hart' \in [Hosts -> Harts]
  <2> DEFINE f(h) == hart'[h]
  <2>1. hart' = [h \in Hosts |-> f(h)]
    BY <1>2
  <2> QED BY <1>4, <2>1
<1> QED BY <1>3, <1>4, <1>5, Zenon DEF Told

(* A write whose beats are dropped, and then its answer.                   *)
LEMMA CycleOfDropped ==
  ASSUME MonInv, NEW beat \in BOOLEAN, NEW r \in SUBSET sampled, MonCycle(beat, r)
  PROVE  /\ ~(wpend' /\ binj')
         /\ {wpend', wdrop', binj'} \subseteq BOOLEAN /\ binjid' \in Hosts
         /\ \A h \in Hosts :
              Dropped(h)' <=> (Dropped(h) /\ ~Inject) \/ (Absorb /\ h = Shown)
         /\ ~(Pass /\ Absorb)
         /\ Pass \/ Absorb => Offered(aw_in) /\ ~binj
<1>1. /\ wpend' = (IF BeatEnd THEN FALSE ELSE wpend \/ Pass \/ Absorb)
      /\ wdrop' = (IF Pass \/ Absorb THEN Absorb ELSE wdrop)
      /\ binj' = (IF Inject THEN FALSE ELSE binj \/ (BeatEnd /\ wdrop))
      /\ binjid' = (IF Absorb THEN Shown ELSE binjid)
  BY DEF MonCycle, MonitorStep
<1>2. /\ wpend \in BOOLEAN /\ wdrop \in BOOLEAN /\ binj \in BOOLEAN
      /\ binjid \in Hosts /\ ~(wpend /\ binj)
      /\ Pass \in BOOLEAN /\ Absorb \in BOOLEAN /\ Inject \in BOOLEAN
      /\ BeatEnd \in BOOLEAN
  <2>1. w_in # <<>> => Head(w_in) \in BOOLEAN
    BY DEF MonInv, MonTypeOK
  <2>2. BeatEnd \in BOOLEAN
    BY <2>1 DEF BeatEnd, BeatGo, Offered
  <2> QED BY <2>2 DEF MonInv, MonTypeOK, Known, Pass, Absorb, Inject
<1>3. /\ ~(Pass /\ Absorb)
      /\ Pass \/ Absorb => ~wpend /\ ~binj /\ Offered(aw_in)
      /\ BeatEnd => wpend
      /\ Inject => binj
  BY DEF Pass, Absorb, Take, BeatEnd, BeatGo, Inject
<1>4. Absorb => Shown \in Hosts
  BY <1>3, WhoIsShown
<1>5. ~(wpend' /\ binj') /\ {wpend', wdrop', binj'} \subseteq BOOLEAN /\ binjid' \in Hosts
  BY <1>1, <1>2, <1>3, <1>4
<1>6. ASSUME NEW h \in Hosts
      PROVE  Dropped(h)' <=> (Dropped(h) /\ ~Inject) \/ (Absorb /\ h = Shown)
  BY <1>1, <1>2, <1>3 DEF Dropped
<1> QED BY <1>3, <1>5, <1>6


LEMMA CyclePlaces ==
  ASSUME MonInv, NEW beat \in BOOLEAN, NEW r \in SUBSET sampled, MonCycle(beat, r)
  PROVE  Lined' /\ ReadsPlaced' /\ WritesPlaced'
<1>1. Lined'
  BY CycleOfReads, CycleOfWrites DEF Lined, Queued
<1>2. ASSUME NEW h \in Hosts
      PROVE  /\ hart'[h].op = "lr" <=> hart[h].op = "lr" /\ h \notin r
             /\ hart'[h].op \in {"sc", "write"} <=>
                  hart[h].op \in {"sc", "write"} /\ h \notin Given
             /\ h \in r => h \in sampled
             /\ h \in Given <=> (Inject /\ h = binjid) \/ h \in Passing
             /\ Inject => (h = binjid <=> Dropped(h)) /\ h \notin Passing
             /\ h \in Passing => h \in Of(b_in)
  <2>1. /\ h \in r => hart[h].op = "lr" /\ h \notin Given
        /\ h \in Given => hart[h].op \in {"sc", "write"}
        /\ hart'[h].op = (IF h \in r \/ h \in Given THEN "none" ELSE hart[h].op)
    <3>1. Told(r, h)
      BY CycleOfHarts
    <3> QED BY <3>1, Zenon DEF Told
  <2>2. hart[h].op \in {"none", "lr", "sc", "write"}
    BY DEF MonInv, MonTypeOK
  <2>3. /\ h \in Given <=> (Inject /\ h = binjid) \/ h \in Passing
        /\ Inject => h \notin Passing
        /\ h \in Passing => h \in Of(b_in)
    BY WhoIsTold
  <2>4. Inject => (h = binjid <=> Dropped(h))
    BY DEF Inject, Dropped
  <2> QED BY <2>1, <2>2, <2>3, <2>4
<1>3. ReadsPlaced'
  <2> SUFFICES ASSUME NEW h \in Hosts
               PROVE
    /\ hart'[h].op = "lr" <=>
         ars'[h] # NoReq \/ h \in Of(ar_in') \/ h \in reading' \/ h \in sampled'
    /\ ars'[h] # NoReq => h \notin Of(ar_in') /\ h \notin reading' /\ h \notin sampled'
    /\ h \in Of(ar_in') => h \notin reading' /\ h \notin sampled'
    /\ h \in reading' => h \notin sampled'
    BY DEF ReadsPlaced, Of
  <2> DEFINE go == ArGo(Room(ar_in))
             in == h \in Of(ar_in)
  <2>1. /\ ars'[h] # NoReq <=> ars[h] # NoReq /\ ~(go /\ h = ar_who)
        /\ h \in Of(ar_in') <=> (in /\ ~(PassRead /\ h = Head(ar_in))) \/ (go /\ h = ar_who)
        /\ h \in reading' <=> h \in reading \/ (PassRead /\ h = Head(ar_in))
        /\ h \in sampled' <=> h \in sampled /\ h \notin r
    BY CycleOfReads
  <2>2. /\ go /\ h = ar_who => ars[h] # NoReq
        /\ PassRead /\ h = Head(ar_in) => in
    BY CycleOfReads, WhoPassesRead
  <2>3. /\ hart[h].op = "lr" <=>
             ars[h] # NoReq \/ in \/ h \in reading \/ h \in sampled
        /\ ars[h] # NoReq => ~in /\ h \notin reading /\ h \notin sampled
        /\ in => h \notin reading /\ h \notin sampled
        /\ h \in reading => h \notin sampled
    BY DEF MonInv, ReadsPlaced
  <2>4. /\ hart'[h].op = "lr" <=> hart[h].op = "lr" /\ h \notin r
        /\ h \in r => h \in sampled
    BY <1>2
  <2> HIDE DEF go, in
  <2> QED BY <2>1, <2>2, <2>3, <2>4
<1>4. WritesPlaced'
  <2> SUFFICES ASSUME NEW h \in Hosts
               PROVE
    /\ hart'[h].op \in {"sc", "write"} <=>
         \/ aws'[h] # NoReq \/ h \in Of(aw_in') \/ Dropped(h)'
         \/ h \in Of(out') \/ h \in landed' \/ h \in Of(b_in')
    /\ aws'[h] # NoReq => /\ h \notin Of(aw_in') /\ ~Dropped(h)' /\ h \notin Of(out')
                          /\ h \notin landed' /\ h \notin Of(b_in')
    /\ h \in Of(aw_in') => /\ ~Dropped(h)' /\ h \notin Of(out')
                           /\ h \notin landed' /\ h \notin Of(b_in')
    /\ Dropped(h)' => h \notin Of(out') /\ h \notin landed' /\ h \notin Of(b_in')
    /\ h \in Of(out') => h \notin landed' /\ h \notin Of(b_in')
    /\ h \in landed' => h \notin Of(b_in')
    BY DEF WritesPlaced, Of, Dropped
  <2> DEFINE go == AwGo(Room(aw_in)) /\ h = aw_who
             a == aws[h] # NoReq
             i == h \in Of(aw_in)
             d == Dropped(h)
             o == h \in Of(out)
             l == h \in landed
             b == h \in Of(b_in)
             passed == Pass /\ h = Shown
             absorbed == Absorb /\ h = Shown
             shows == hart[h].op \in {"sc", "write"}
  <2>1. /\ aws'[h] # NoReq <=> a /\ ~go
        /\ h \in Of(aw_in') <=> (i /\ ~(passed \/ absorbed)) \/ go
        /\ h \in Of(out') <=> o \/ passed
        /\ h \in landed' <=> l
        /\ h \in Of(b_in') <=> b /\ h \notin Passing
        /\ go => a
    BY CycleOfWrites
  <2>2. Dropped(h)' <=> (d /\ ~Inject) \/ absorbed
    BY CycleOfDropped
  <2>3. /\ passed \/ absorbed => i
        /\ ~(passed /\ absorbed)
    BY CycleOfDropped, WhoIsShown
  <2>4. /\ shows <=> a \/ i \/ d \/ o \/ l \/ b
        /\ a => ~i /\ ~d /\ ~o /\ ~l /\ ~b
        /\ i => ~d /\ ~o /\ ~l /\ ~b
        /\ d => ~o /\ ~l /\ ~b
        /\ o => ~l /\ ~b
        /\ l => ~b
    BY DEF MonInv, WritesPlaced
  <2>5. /\ hart'[h].op \in {"sc", "write"} <=> shows /\ h \notin Given
        /\ h \in Given <=> (Inject /\ h = binjid) \/ h \in Passing
        /\ Inject => (h = binjid <=> d) /\ h \notin Passing
        /\ h \in Passing => b
    BY <1>2
  <2> HIDE DEF go, a, i, d, o, l, b, passed, absorbed, shows
  <2> QED BY <2>1, <2>2, <2>3, <2>4, <2>5
<1> QED BY <1>1, <1>3, <1>4

LEMMA CycleKnown ==
  ASSUME MonInv, NEW beat \in BOOLEAN, NEW r \in SUBSET sampled, MonCycle(beat, r)
  PROVE  Known'
<1>1. ~(wpend' /\ binj')
  BY CycleOfDropped
<1>2. /\ wids' = (wids \cup (IF Pass THEN {Shown} ELSE {})) \ Passing
      /\ x' = (x \cup (IF Pass /\ Locked THEN {Shown} ELSE {})) \ Passing
  BY DEF MonCycle, MonitorStep, Flagged
<1>3. ASSUME NEW h \in Hosts
      PROVE  /\ h \in wids' <=> OnItsWay(h)'
             /\ h \in x' <=> OnItsWay(h)' /\ hart'[h].op = "sc"
             /\ Dropped(h)' => hart'[h].op = "sc"
             /\ hart'[h].op # "none" => Covered(h)' \subseteq Lines
             /\ hart'[h].op \in {"lr", "sc"} =>
                  h \in Watched /\ hart'[h].len = 1 /\ hart'[h].line \in Lines
             /\ hart'[h].rsv # NoLine => h \in Watched
             /\ hart'[h].op \in {"sc", "write"} =>
                  (hart'[h].stored <=> h \in landed' \/ h \in Of(b_in'))
  <2> DEFINE on == OnItsWay(h)
             passed == Pass /\ h = Shown
             told == h \in Passing
  <2>1. /\ h \in Of(out') <=> h \in Of(out) \/ passed
        /\ h \in landed' <=> h \in landed
        /\ h \in Of(b_in') <=> h \in Of(b_in) /\ ~told
        /\ told => h \in Of(b_in)
    BY CycleOfWrites, WhoIsTold
  <2>2. /\ h \in Of(out) => h \notin landed /\ h \notin Of(b_in)
        /\ h \in landed => h \notin Of(b_in)
        /\ passed => h \in Of(aw_in) /\ ~on /\ ~Dropped(h)
        /\ Absorb /\ h = Shown => h \in Of(aw_in) /\ ~on
        /\ Dropped(h) => ~on
    BY CycleOfDropped, WhoIsShown DEF MonInv, WritesPlaced, OnItsWay
  <2>3. OnItsWay(h)' <=> (on \/ passed) /\ ~told
    <3>1. OnItsWay(h)' <=> h \in Of(out') \/ h \in landed' \/ h \in Of(b_in')
      BY DEF OnItsWay, Of
    <3>2. on <=> h \in Of(out) \/ h \in landed \/ h \in Of(b_in)
      BY DEF OnItsWay
    <3> HIDE DEF on, passed, told
    <3>3. passed => ~on
      BY <2>2
    <3> QED BY <2>1, <2>2, <3>1, <3>2, <3>3
  <2>4. /\ hart'[h].line = hart[h].line /\ hart'[h].len = hart[h].len
        /\ hart'[h].stored = hart[h].stored
        /\ h \in r => hart[h].op = "lr" /\ h \notin Given
        /\ h \in Given => hart[h].op \in {"sc", "write"}
        /\ hart'[h].op = (IF h \in r \/ h \in Given THEN "none" ELSE hart[h].op)
        /\ hart'[h].rsv = (IF h \in r THEN hart[h].line ELSE hart[h].rsv)
    <3>1. Told(r, h)
      BY CycleOfHarts
    <3> QED BY <3>1, Zenon DEF Told
  <2>5. /\ h \in Given <=> (Inject /\ h = binjid) \/ told
        /\ Inject => ~told /\ (h = binjid <=> Dropped(h))
    <3>1. Inject => (h = binjid <=> Dropped(h))
      BY DEF Inject, Dropped
    <3> QED BY <3>1, WhoIsTold
  <2>6. Covered(h)' = Covered(h)
    BY <2>4 DEF Covered
  <2>7. /\ h \in wids <=> on
        /\ h \in x <=> on /\ hart[h].op = "sc"
        /\ Dropped(h) => hart[h].op = "sc"
        /\ hart[h].op # "none" => Covered(h) \subseteq Lines
        /\ hart[h].op \in {"lr", "sc"} =>
             h \in Watched /\ hart[h].len = 1 /\ hart[h].line \in Lines
        /\ hart[h].rsv # NoLine => h \in Watched
        /\ hart[h].op \in {"sc", "write"} =>
             (hart[h].stored <=> h \in landed \/ h \in Of(b_in))
    BY DEF MonInv, Known
  <2>8. passed /\ Locked => hart[h].op = "sc"
    BY DEF Locked
  <2>9. /\ passed => (Locked <=> hart[h].op = "sc") /\ hart[h].op \in {"sc", "write"}
        /\ Absorb /\ h = Shown => hart[h].op = "sc"
        /\ on => hart[h].op \in {"sc", "write"}
    BY CycleOfDropped, WhoIsShown
       DEF Locked, Absorb, Fails, MonInv, WritesPlaced, OnItsWay
  <2>10. Dropped(h)' <=> (Dropped(h) /\ ~Inject) \/ (Absorb /\ h = Shown)
    BY CycleOfDropped
  <2>11. h \in wids' <=> (h \in wids \/ passed) /\ ~told
    BY <1>2
  <2>12. h \in x' <=> (h \in x \/ (passed /\ Locked)) /\ ~told
    BY <1>2
  <2>13. told => h \in Given
    BY <2>5
  <2>14. /\ told => on /\ ~Dropped(h)
         /\ h \in Given /\ ~told => ~on /\ ~passed
         /\ h \in Given => h \notin r /\ ~(Absorb /\ h = Shown)
    BY <2>2, <2>4, <2>5, <2>7, CycleOfDropped, WhoIsTold DEF OnItsWay, Inject
  <2> HIDE DEF on, passed, told
  <2>15. h \in wids' <=> OnItsWay(h)'
    BY <2>3, <2>7, <2>11
  <2>16. h \in x' <=> OnItsWay(h)' /\ hart'[h].op = "sc"
    BY <2>3, <2>4, <2>7, <2>9, <2>12, <2>13, <2>14
  <2>17. Dropped(h)' => hart'[h].op = "sc"
    <3>1. CASE Dropped(h) /\ ~Inject
      <4>1. h \notin Given /\ h \notin r /\ hart[h].op = "sc"
        BY <2>4, <2>5, <2>7, <2>14, <3>1
      <4> QED BY <2>4, <4>1
    <3>2. CASE Absorb /\ h = Shown
      <4>1. h \notin Given /\ h \notin r /\ hart[h].op = "sc"
        BY <2>4, <2>9, <2>14, <3>2
      <4> QED BY <2>4, <4>1
    <3> QED BY <2>10, <3>1, <3>2
  <2>18. hart'[h].op # "none" => Covered(h)' \subseteq Lines
    BY <2>4, <2>6, <2>7
  <2>19. hart'[h].op \in {"lr", "sc"} =>
           h \in Watched /\ hart'[h].len = 1 /\ hart'[h].line \in Lines
    BY <2>4, <2>7
  <2>20. hart'[h].rsv # NoLine => h \in Watched
    BY <2>4, <2>7
  <2>21. hart'[h].op \in {"sc", "write"} =>
           (hart'[h].stored <=> h \in landed' \/ h \in Of(b_in'))
    BY <2>1, <2>4, <2>7, <2>13
  <2> QED BY <2>15, <2>16, <2>17, <2>18, <2>19, <2>20, <2>21
<1> QED BY <1>1, <1>3 DEF Known, OnItsWay, Of, Covered, Dropped


(* A reservation that stands after a cycle stood before it, or its read    *)
(* has just been passed on, when no write was on its way.                  *)
LEMMA CycleReserves ==
  ASSUME MonInv, NEW beat \in BOOLEAN, NEW r \in SUBSET sampled, MonCycle(beat, r)
  PROVE  Reserves'
<1> SUFFICES ASSUME NEW p \in v', ~Hit(p)'
             PROVE  /\ \A g \in Of(out') : line'[p] \notin Covered(g)'
                    /\ p \in reading' => hart'[p].line = line'[p]
                    /\ p \notin reading' => fresh'[p] = line'[p]
  BY DEF Reserves, Of, Hit, Covered
<1>1. /\ v' = {q \in v \cup (IF PassRead THEN {Head(ar_in)} ELSE {}) :
                 ~Hit(q) /\ ~(Absorb /\ q = Shown)}
      /\ line' = IF PassRead THEN [line EXCEPT ![Head(ar_in)] = hart[Head(ar_in)].line]
                 ELSE line
      /\ fw' = IF Pass THEN Covered(Shown) ELSE {}
      /\ fresh' = fresh
  BY DEF MonCycle, MonitorStep
<1>2. line \in [Watched -> Lines \cup {NoLine}] /\ v \subseteq Watched
      /\ Watched \subseteq Hosts
  BY ExclusiveAssumption DEF MonInv, MonTypeOK
<1>3. p \in Hosts /\ line'[p] \notin fw'
  <2>1. PassRead => Head(ar_in) \in Hosts
    BY WhoPassesRead
  <2>2. p \in v \/ (PassRead /\ p = Head(ar_in))
    BY <1>1
  <2>3. p \in Hosts
    BY <1>2, <2>1, <2>2
  <2> QED BY <2>3 DEF Hit
<1>4. Queued(out)
  BY DEF MonInv, Lined
<1>5. ASSUME NEW g \in Of(out')
      PROVE  /\ g \in Hosts /\ Covered(g)' = Covered(g)
             /\ g \in Of(out) \/ (Pass /\ g = Shown)
  <2>1. \A h : h \in Of(out) => h \in Hosts
    BY <1>4, OfShort DEF Queued
  <2>2. \A h : h \in Of(out') => h \in Hosts
    BY CycleOfWrites, OfShort DEF Queued
  <2>3. g \in Hosts
    BY <1>5, <2>2
  <2>4. g \in Of(out) \/ (Pass /\ g = Shown)
    BY <1>5, <2>3, CycleOfWrites
  <2>5. hart'[g].line = hart[g].line /\ hart'[g].len = hart[g].len
    <3>1. Told(r, g)
      BY <2>3, CycleOfHarts
    <3> QED BY <3>1, Zenon DEF Told
  <2> QED BY <2>3, <2>4, <2>5 DEF Covered
<1>6. /\ p \in reading' <=> p \in reading \/ (PassRead /\ p = Head(ar_in))
      /\ hart'[p].line = hart[p].line
  <2>1. p \in reading' <=> p \in reading \/ (PassRead /\ p = Head(ar_in))
    BY <1>3, CycleOfReads
  <2>2. Told(r, p)
    BY <1>3, CycleOfHarts
  <2> QED BY <2>1, <2>2, Zenon DEF Told
<1>7. CASE PassRead /\ p = Head(ar_in)
  <2>1. p \in Watched /\ out = <<>>
    BY <1>7, WhoPassesRead
  <2>2. line'[p] = hart[p].line
    BY <1>1, <1>2, <1>7, <2>1
  <2>3. Of(out) = {}
    BY <2>1, OfShort
  <2>4. ASSUME NEW g \in Of(out') PROVE line'[p] \notin Covered(g)'
    <3>1. Pass /\ g = Shown /\ Covered(g)' = Covered(g)
      BY <1>5, <2>3
    <3> QED BY <1>1, <1>3, <3>1
  <2> QED BY <1>6, <1>7, <2>2, <2>4
<1>8. CASE ~(PassRead /\ p = Head(ar_in))
  <2>1. p \in v /\ ~Hit(p)
    BY <1>1, <1>8
  <2>2. line'[p] = line[p]
    BY <1>1, <1>2, <1>8, <2>1
  <2>3. /\ \A g \in Of(out) : line[p] \notin Covered(g)
        /\ p \in reading => hart[p].line = line[p]
        /\ p \notin reading => fresh[p] = line[p]
    BY <2>1 DEF MonInv, Reserves
  <2>4. ASSUME NEW g \in Of(out') PROVE line'[p] \notin Covered(g)'
    <3>1. Covered(g)' = Covered(g) /\ (g \in Of(out) \/ (Pass /\ g = Shown))
      BY <1>5
    <3>2. CASE g \in Of(out)
      BY <2>2, <2>3, <3>1, <3>2
    <3>3. CASE Pass /\ g = Shown
      BY <1>1, <1>3, <3>1, <3>3
    <3> QED BY <3>1, <3>2, <3>3
  <2> QED BY <1>1, <1>6, <1>8, <2>2, <2>3, <2>4
<1> QED BY <1>7, <1>8

(* A write decided to store was decided while nobody's write was passed    *)
(* on, and stays at the head until it is taken.                            *)
LEMMA CycleDecided ==
  ASSUME MonInv, NEW beat \in BOOLEAN, NEW r \in SUBSET sampled, MonCycle(beat, r)
  PROVE  Decided'
<1> SUFFICES ASSUME xk' = "stores"
             PROVE  /\ aw_in' # <<>> /\ hart'[Head(aw_in')].op = "sc"
                    /\ Head(aw_in') \in v' /\ fw' = {}
                    /\ line'[Head(aw_in')] = hart'[Head(aw_in')].line
  BY DEF Decided, Shown
<1>1. /\ v' = {q \in v \cup (IF PassRead THEN {Head(ar_in)} ELSE {}) :
                 ~Hit(q) /\ ~(Absorb /\ q = Shown)}
      /\ line' = IF PassRead THEN [line EXCEPT ![Head(ar_in)] = hart[Head(ar_in)].line]
                 ELSE line
      /\ fw' = IF Pass THEN Covered(Shown) ELSE {}
      /\ xk' = IF ~Offered(aw_in) \/ Pass \/ Absorb \/ ~Locked THEN "none"
               ELSE IF Stands(Shown) /\ hart[Shown].len = 1 THEN "stores"
               ELSE "fails"
  BY DEF MonCycle, MonitorStep
<1>2. Offered(aw_in) /\ ~Pass /\ ~Absorb /\ Locked /\ Stands(Shown)
  BY <1>1
<1>3. /\ Shown \in Hosts /\ Shown \in Of(aw_in) /\ hart[Shown].op = "sc"
      /\ Shown \in v /\ ~Hit(Shown) /\ line[Shown] = hart[Shown].line
  BY <1>2, WhoIsShown DEF Locked, Stands
<1>4. aw_in' # <<>> /\ Head(aw_in') = Shown
  BY <1>2, CycleOfWrites DEF Offered, Shown
<1>5. PassRead => Head(ar_in) # Shown
  BY <1>3, WhoPassesRead
<1>6. Shown \in v' /\ fw' = {} /\ line'[Shown] = line[Shown]
  <2>1. line \in [Watched -> Lines \cup {NoLine}] /\ v \subseteq Watched
    BY DEF MonInv, MonTypeOK
  <2> QED BY <1>1, <1>2, <1>3, <1>5, <2>1
<1>7. Shown \notin Given /\ Shown \notin r
  <2>1. Told(r, Shown)
    BY <1>3, CycleOfHarts
  <2>2. Shown \in r => hart[Shown].op = "lr"
    BY <2>1, Zenon DEF Told
  <2>3. ~Dropped(Shown) /\ Shown \notin Of(b_in)
    BY <1>3 DEF MonInv, WritesPlaced
  <2>4. \A h \in Given : IF Inject THEN Dropped(h) ELSE h \in Passing
    BY WhoIsTold
  <2>5. \A h \in Passing : h \in Of(b_in)
    BY WhoIsTold
  <2> QED BY <1>3, <2>2, <2>3, <2>4, <2>5
<1>8. hart'[Shown].op = "sc" /\ hart'[Shown].line = hart[Shown].line
  <2>1. Told(r, Shown)
    BY <1>3, CycleOfHarts
  <2>2. /\ hart'[Shown].op = IF Shown \in r \/ Shown \in Given THEN "none" ELSE hart[Shown].op
        /\ hart'[Shown].line = hart[Shown].line
    BY <2>1, Zenon DEF Told
  <2> QED BY <1>3, <1>7, <2>2
<1> QED BY <1>3, <1>4, <1>6, <1>8


(* The write of a pair is passed on while its reservation stands, so it    *)
(* goes behind no write that covers its line.                              *)
LEMMA CyclePairs ==
  ASSUME MonInv, NEW beat \in BOOLEAN, NEW r \in SUBSET sampled, MonCycle(beat, r)
  PROVE  PairsWhole'
<1> SUFFICES ASSUME NEW h \in Of(out'), hart'[h].op = "sc", NEW g, g = Head(out')
             PROVE  /\ fresh'[h] = hart'[h].line
                    /\ h # g => hart'[h].line \notin Covered(g)'
  BY DEF PairsWhole, Of, Covered
<1>1. fresh' = fresh
  BY DEF MonCycle
<1>2. Queued(out) /\ Queued(out')
  BY CycleOfWrites DEF MonInv, Lined
<1>3. h \in Hosts /\ (h \in Of(out) \/ (Pass /\ h = Shown))
  <2>1. h \in Hosts
    BY <1>2, OfShort DEF Queued
  <2> QED BY <2>1, CycleOfWrites
<1>4. ASSUME NEW i \in Hosts
      PROVE  /\ hart'[i].line = hart[i].line /\ Covered(i)' = Covered(i)
             /\ hart'[i].op \in {"none", hart[i].op}
  <2>1. Told(r, i)
    BY CycleOfHarts
  <2>2. /\ hart'[i].line = hart[i].line /\ hart'[i].len = hart[i].len
        /\ hart'[i].op = IF i \in r \/ i \in Given THEN "none" ELSE hart[i].op
    BY <2>1, Zenon DEF Told
  <2> QED BY <2>2 DEF Covered
<1>5. hart[h].op = "sc" /\ hart'[h].line = hart[h].line
  BY <1>3, <1>4
<1>6. out # <<>> => g \in Hosts /\ g = Head(out) /\ g \in Of(out)
  BY <1>2, QueuedHead, CycleOfWrites
<1>7. CASE h \in Of(out)
  <2>1. out # <<>>
    BY <1>7, OfShort
  <2>2. /\ fresh[h] = hart[h].line
        /\ h # g => hart[h].line \notin Covered(g)
    BY <1>5, <1>6, <1>7, <2>1 DEF MonInv, PairsWhole
  <2> QED BY <1>1, <1>4, <1>5, <1>6, <2>1, <2>2
<1>8. CASE Pass /\ h = Shown
  <2>1. Offered(aw_in) /\ Locked /\ xk = "stores"
    BY <1>5, <1>8 DEF Pass, Take, Fails, Locked
  <2>2. h \in v /\ fw = {} /\ line[h] = hart[h].line
    BY <1>8, <2>1 DEF MonInv, Decided
  <2>3. ~Hit(h)
    BY <2>2 DEF Hit
  <2>4. h \notin reading
    BY <1>3, <1>5 DEF MonInv, ReadsPlaced
  <2>5. fresh[h] = line[h] /\ \A i \in Of(out) : line[h] \notin Covered(i)
    BY <2>2, <2>3, <2>4 DEF MonInv, Reserves
  <2>6. CASE out = <<>>
    <3>1. g = h
      BY <1>8, <2>6, CycleOfWrites
    <3> QED BY <1>1, <1>5, <2>2, <2>5, <3>1
  <2>7. CASE out # <<>>
    BY <1>1, <1>4, <1>5, <1>6, <2>2, <2>5, <2>7
  <2> QED BY <2>6, <2>7
<1> QED BY <1>3, <1>7, <1>8

LEMMA CycleArbiter ==
  ASSUME MonInv, NEW beat \in BOOLEAN, NEW r \in SUBSET sampled, MonCycle(beat, r)
  PROVE  Inv'
<1>1. Cycle(Room(ar_in), Room(aw_in), beat, r, Given)
  BY DEF MonCycle
<1>2. Room(ar_in) \in BOOLEAN /\ Room(aw_in) \in BOOLEAN
  BY DEF Room
<1>3. r \in SUBSET Tags /\ Given \in SUBSET Tags
  <2>1. sampled \subseteq Hosts
    BY DEF MonInv, MonTypeOK
  <2> QED BY <2>1, HostsTagged, WhoIsTold
<1> QED BY <1>1, <1>2, <1>3, CycleInv DEF MonInv

Channeled(s) ==
  s \in {<<>>} \cup {<<g>> : g \in Hosts} \cup {<<g, h>> : g, h \in Hosts}

LEMMA QueuedChanneled ==
  ASSUME NEW s, Queued(s) PROVE Channeled(s)
  BY DEF Queued, Channeled

LEMMA CycleType ==
  ASSUME MonInv, NEW beat \in BOOLEAN, beat => Room(w_in),
         NEW r \in SUBSET sampled, MonCycle(beat, r)
  PROVE  MonTypeOK'
<1>1. TypeOK'
  BY CycleArbiter DEF Inv
<1>2. {ar_in', aw_in', b_in', out'} \subseteq
        {<<>>} \cup {<<g>> : g \in Hosts} \cup {<<g, h>> : g, h \in Hosts}
  <2>1. Queued(ar_in') /\ Queued(aw_in') /\ Queued(b_in') /\ Queued(out')
    BY CycleOfReads, CycleOfWrites
  <2> QED BY <2>1, QueuedChanneled DEF Channeled
<1>3. w_in' \in Seq(BOOLEAN) /\ Len(w_in') <= 2
  <2> DEFINE u == IF BeatGo THEN Tail(w_in) ELSE w_in
             in == Item(WGo(beat), Head(beats[Sender]))
  <2>1. w_in' = u \o in
    BY DEF MonCycle, Through, Edge
  <2>2. w_in \in Seq(BOOLEAN) /\ Len(w_in) <= 2 /\ (BeatGo => w_in # <<>>)
    BY DEF MonInv, MonTypeOK, BeatGo, Offered
  <2>3. u \in Seq(BOOLEAN) /\ Len(u) <= Len(w_in)
    <3>1. ASSUME w_in # <<>>
          PROVE  Tail(w_in) \in Seq(BOOLEAN) /\ Len(Tail(w_in)) <= Len(w_in)
      BY <2>2, <3>1
    <3>2. Len(w_in) \in Nat
      BY <2>2
    <3>3. CASE BeatGo
      BY <2>2, <3>1, <3>3
    <3>4. CASE ~BeatGo
      BY <2>2, <3>2, <3>4
    <3> QED BY <3>3, <3>4
  <2>4. WGo(beat) => Head(beats[Sender]) \in BOOLEAN /\ Len(w_in) < 2
    <3>1. WGo(beat) => Head(beats[Sender]) \in BOOLEAN
      BY BeatOut DEF MonInv, Inv
    <3>2. WGo(beat) => Len(w_in) < 2
      BY DEF WGo, Room
    <3> QED BY <3>1, <3>2
  <2>5. in \in Seq(BOOLEAN) /\ (WGo(beat) => Len(in) = 1) /\ (~WGo(beat) => Len(in) = 0)
    <3> DEFINE e == Head(beats[Sender])
    <3>1. CASE WGo(beat)
      <4>1. in = <<e>> /\ e \in BOOLEAN
        BY <2>4, <3>1 DEF Item
      <4> HIDE DEF in, e
      <4>2. <<e>> \in Seq(BOOLEAN) /\ Len(<<e>>) = 1
        BY <4>1
      <4> QED BY <3>1, <4>1, <4>2
    <3>2. CASE ~WGo(beat)
      <4>1. in = <<>>
        BY <3>2 DEF Item
      <4> HIDE DEF in
      <4>2. <<>> \in Seq(BOOLEAN) /\ Len(<<>>) = 0
        OBVIOUS
      <4> QED BY <3>2, <4>1, <4>2
    <3> QED BY <3>1, <3>2
  <2> HIDE DEF u, in
  <2>6. u \o in \in Seq(BOOLEAN) /\ Len(u \o in) = Len(u) + Len(in)
    BY <2>3, <2>5
  <2>7. Len(u) \in Nat /\ Len(w_in) \in Nat /\ WGo(beat) \in BOOLEAN
    BY <2>2, <2>3 DEF WGo
  <2> QED BY <2>1, <2>2, <2>3, <2>4, <2>5, <2>6, <2>7
<1>4. /\ v' = {p \in v \cup (IF PassRead THEN {Head(ar_in)} ELSE {}) :
                 ~Hit(p) /\ ~(Absorb /\ p = Shown)}
      /\ line' = IF PassRead THEN [line EXCEPT ![Head(ar_in)] = hart[Head(ar_in)].line]
                 ELSE line
      /\ wids' = (wids \cup (IF Pass THEN {Shown} ELSE {})) \ Passing
      /\ fw' = IF Pass THEN Covered(Shown) ELSE {}
      /\ xk' = IF ~Offered(aw_in) \/ Pass \/ Absorb \/ ~Locked THEN "none"
               ELSE IF Stands(Shown) /\ hart[Shown].len = 1 THEN "stores"
               ELSE "fails"
      /\ x' = (x \cup (IF Pass /\ Locked THEN {Shown} ELSE {})) \ Passing
      /\ landed' = landed /\ fresh' = fresh /\ sampled' = sampled \ r
      /\ reading' = IF PassRead THEN reading \cup {Head(ar_in)} ELSE reading
  BY DEF MonCycle, MonitorStep, Flagged, Through, Answered
<1>5. MonTypeOK
  BY DEF MonInv
<1>6. Pass => /\ Shown \in Hosts /\ Covered(Shown) \subseteq Lines
              /\ Locked => Shown \in Watched
  <2>1. Pass => Shown \in Hosts /\ hart[Shown].op \in {"sc", "write"}
    BY WhoIsShown DEF Pass, Take
  <2> QED BY <2>1 DEF MonInv, Known, Locked
<1>7. PassRead => Head(ar_in) \in Hosts /\ Head(ar_in) \in Watched
                  /\ hart[Head(ar_in)].line \in Lines
  BY WhoPassesRead
<1>8. /\ v' \subseteq Watched /\ line' \in [Watched -> Lines \cup {NoLine}]
      /\ wids' \subseteq Hosts /\ fw' \subseteq Lines
      /\ xk' \in {"none", "stores", "fails"}
      /\ x' \subseteq Watched
      /\ landed' \subseteq Hosts /\ reading' \subseteq Hosts /\ sampled' \subseteq Hosts
      /\ fresh' \in [Hosts -> Lines \cup {NoLine}]
  BY <1>4, <1>5, <1>6, <1>7 DEF MonTypeOK
<1>9. {wpend', wdrop', binj'} \subseteq BOOLEAN /\ binjid' \in Hosts
  BY CycleOfDropped
<1>10. hart' \in [Hosts -> Harts]
  BY CycleOfHarts
<1> QED BY <1>1, <1>2, <1>3, <1>8, <1>9, <1>10 DEF MonTypeOK, Harts

LEMMA MonCycleInv ==
  ASSUME MonInv, NEW beat \in BOOLEAN, beat => Room(w_in),
         NEW r \in SUBSET sampled, MonCycle(beat, r)
  PROVE  MonInv'
<1>1. Inv' /\ MonTypeOK'
  BY CycleArbiter, CycleType
<1>2. Lined' /\ ReadsPlaced' /\ WritesPlaced'
  BY CyclePlaces
<1>3. Known' /\ Reserves' /\ Decided' /\ PairsWhole'
  BY CycleKnown, CycleReserves, CycleDecided, CyclePairs
<1> QED BY <1>1, <1>2, <1>3 DEF MonInv


-----------------------------------------------------------------------------
(* The steps between cycles.                                               *)
LEMMA InvKept ==
  ASSUME Inv, UNCHANGED vars PROVE Inv'
<1> USE DEF vars, unit, world, history
<1>1. TypeOK'
  BY DEF Inv, TypeOK
<1>2. LinkHeld' /\ BeatsShown' /\ AnswersHome'
  BY DEF Inv, LinkHeld, BeatsShown, OnLink, Showing, AnswersHome, Who
<1> QED BY <1>1, <1>2 DEF Inv

(* A write lands: the reservations it covers were cleared as it was passed *)
(* on, and the pairs behind it are of other lines.                         *)
LEMMA LandInv ==
  ASSUME MonInv, Land PROVE MonInv'
<1> DEFINE g == Head(out)
<1>1. /\ out # <<>> /\ out' = Tail(out)
      /\ landed' = landed \cup {g}
      /\ hart' = [hart EXCEPT ![g].stored = TRUE]
      /\ fresh' = [h \in Hosts |->
           IF fresh[h] \in Covered(g) THEN NoLine ELSE fresh[h]]
      /\ UNCHANGED <<vars, monitor, inputs, reading, sampled>>
  BY DEF Land
<1>2. /\ UNCHANGED <<ar_in, aw_in, w_in, b_in, reading, sampled, ars, aws>>
      /\ UNCHANGED <<v, line, wids, fw, xk, wpend, wdrop, binj, binjid, x>>
  BY <1>1 DEF vars, monitor, inputs, world
<1>3. Inv'
  BY <1>1, InvKept DEF MonInv
<1>4. /\ Queued(out) /\ g \in Hosts /\ g \in Of(out)
      /\ Queued(out') /\ \A h : h \in Of(out') <=> h \in Of(out) /\ h # g
      /\ \A h \in Of(out') : h = Head(out')
  BY <1>1, QueuedHead DEF MonInv, Lined
<1>5. \A h : h \in Of(out) => h \in Hosts
  BY <1>4, OfShort DEF Queued
<1>6. hart \in [Hosts -> Harts]
  BY DEF MonInv, MonTypeOK, Harts
<1>7. hart' \in [Hosts -> Harts]
  <2>1. [hart[g] EXCEPT !.stored = TRUE] \in Harts
    BY <1>4, <1>6 DEF Harts
  <2>2. hart' = [hart EXCEPT ![g] = [hart[g] EXCEPT !.stored = TRUE]]
    BY <1>1
  <2> QED BY <1>4, <1>6, <2>1, <2>2
<1>8. ASSUME NEW h \in Hosts
      PROVE  /\ hart'[h].op = hart[h].op /\ hart'[h].line = hart[h].line
             /\ hart'[h].len = hart[h].len /\ hart'[h].rsv = hart[h].rsv
             /\ h # g => hart'[h].stored = hart[h].stored
             /\ h = g => hart'[h].stored = TRUE
             /\ Covered(h)' = Covered(h)
  BY <1>1, <1>4, <1>6 DEF Harts, Covered
<1> HIDE DEF g
<1>9. MonTypeOK'
  <2>1. landed' \subseteq Hosts /\ fresh' \in [Hosts -> Lines \cup {NoLine}]
    BY <1>1, <1>4 DEF MonInv, MonTypeOK
  <2>2. TypeOK'
    BY <1>3 DEF Inv
  <2>3. Channeled(out')
    BY <1>4, QueuedChanneled
  <2> QED BY <1>2, <1>7, <2>1, <2>2, <2>3 DEF MonInv, MonTypeOK, Harts, Channeled
<1>10. Lined'
  BY <1>2, <1>4 DEF MonInv, Lined, Queued
<1>11. ReadsPlaced'
  BY <1>2, <1>8 DEF MonInv, ReadsPlaced, Of
<1>12. ASSUME NEW h \in Hosts
       PROVE  /\ h \in landed' <=> h \in landed \/ h = g
              /\ Of(aw_in') = Of(aw_in) /\ Of(b_in') = Of(b_in)
              /\ (Dropped(h)' <=> Dropped(h))
              /\ (OnItsWay(h)' <=> OnItsWay(h))
              /\ aws'[h] = aws[h]
  BY <1>1, <1>2, <1>4 DEF OnItsWay, Of, Dropped
<1>13. WritesPlaced'
  <2> SUFFICES ASSUME NEW h \in Hosts
               PROVE
    /\ hart'[h].op \in {"sc", "write"} <=>
         \/ aws'[h] # NoReq \/ h \in Of(aw_in') \/ Dropped(h)'
         \/ h \in Of(out') \/ h \in landed' \/ h \in Of(b_in')
    /\ aws'[h] # NoReq => /\ h \notin Of(aw_in') /\ ~Dropped(h)' /\ h \notin Of(out')
                          /\ h \notin landed' /\ h \notin Of(b_in')
    /\ h \in Of(aw_in') => /\ ~Dropped(h)' /\ h \notin Of(out')
                           /\ h \notin landed' /\ h \notin Of(b_in')
    /\ Dropped(h)' => h \notin Of(out') /\ h \notin landed' /\ h \notin Of(b_in')
    /\ h \in Of(out') => h \notin landed' /\ h \notin Of(b_in')
    /\ h \in landed' => h \notin Of(b_in')
    BY DEF WritesPlaced, Of, Dropped
  <2>1. h = g => h \in Of(out)
    BY <1>4
  <2> QED BY <1>4, <1>8, <1>12, <2>1 DEF MonInv, WritesPlaced
<1>14. Known'
  <2>1. ~(wpend' /\ binj')
    BY <1>2 DEF MonInv, Known
  <2>2. ASSUME NEW h \in Hosts
        PROVE  /\ h \in wids' <=> OnItsWay(h)'
               /\ h \in x' <=> OnItsWay(h)' /\ hart'[h].op = "sc"
               /\ Dropped(h)' => hart'[h].op = "sc"
               /\ hart'[h].op # "none" => Covered(h)' \subseteq Lines
               /\ hart'[h].op \in {"lr", "sc"} =>
                    h \in Watched /\ hart'[h].len = 1 /\ hart'[h].line \in Lines
               /\ hart'[h].rsv # NoLine => h \in Watched
               /\ hart'[h].op \in {"sc", "write"} =>
                    (hart'[h].stored <=> h \in landed' \/ h \in Of(b_in'))
    <3>1. h = g => hart[h].op \in {"sc", "write"}
      BY <1>4 DEF MonInv, WritesPlaced
    <3>2. /\ h \in wids <=> OnItsWay(h)
          /\ h \in x <=> OnItsWay(h) /\ hart[h].op = "sc"
          /\ Dropped(h) => hart[h].op = "sc"
          /\ hart[h].op # "none" => Covered(h) \subseteq Lines
          /\ hart[h].op \in {"lr", "sc"} =>
               h \in Watched /\ hart[h].len = 1 /\ hart[h].line \in Lines
          /\ hart[h].rsv # NoLine => h \in Watched
          /\ hart[h].op \in {"sc", "write"} =>
               (hart[h].stored <=> h \in landed \/ h \in Of(b_in))
      BY DEF MonInv, Known
    <3>3. wids' = wids /\ x' = x
      BY <1>2
    <3>4. CASE h = g
      <4>1. hart'[h].stored = TRUE /\ h \in landed'
        BY <1>8, <1>12, <3>4
      <4>2. /\ hart'[h].op = hart[h].op /\ hart'[h].line = hart[h].line
            /\ hart'[h].len = hart[h].len /\ hart'[h].rsv = hart[h].rsv
            /\ Covered(h)' = Covered(h)
        BY <1>8
      <4> QED BY <1>12, <3>1, <3>2, <3>3, <4>1, <4>2
    <3>5. CASE h # g
      BY <1>8, <1>12, <3>2, <3>3, <3>5
    <3> QED BY <3>4, <3>5
  <2> QED BY <2>1, <2>2 DEF Known, OnItsWay, Of, Covered, Dropped
<1>15. Reserves'
  <2> SUFFICES ASSUME NEW p \in v, ~Hit(p)
               PROVE  /\ \A h \in Of(out') : line[p] \notin Covered(h)'
                      /\ p \in reading => hart'[p].line = line[p]
                      /\ p \notin reading => fresh'[p] = line[p]
    BY <1>2 DEF Reserves, Of, Hit, Covered
  <2>1. /\ \A h \in Of(out) : line[p] \notin Covered(h)
        /\ p \in reading => hart[p].line = line[p]
        /\ p \notin reading => fresh[p] = line[p]
    BY DEF MonInv, Reserves
  <2>2. p \in Hosts
    BY ExclusiveAssumption DEF MonInv, MonTypeOK
  <2> QED BY <1>1, <1>4, <1>5, <1>8, <2>1, <2>2
<1>16. Decided'
  <2>1. aw_in # <<>> => Shown \in Hosts
    BY WhoIsShown DEF Offered
  <2>2. Shown' = Shown
    BY <1>2 DEF Shown
  <2> QED BY <1>2, <1>8, <2>1, <2>2 DEF MonInv, Decided
<1>17. PairsWhole'
  <2> SUFFICES ASSUME NEW h \in Of(out'), hart'[h].op = "sc"
               PROVE  fresh'[h] = hart'[h].line
    BY <1>4 DEF PairsWhole, Of
  <2>1. h \in Of(out) /\ h # g /\ h \in Hosts
    BY <1>4, <1>5
  <2>2. hart[h].op = "sc" /\ hart'[h].line = hart[h].line
    BY <1>8, <2>1
  <2>3. fresh[h] = hart[h].line /\ hart[h].line \notin Covered(g)
    BY <2>1, <2>2 DEF MonInv, PairsWhole, g
  <2> QED BY <1>1, <2>1, <2>2, <2>3
<1> QED BY <1>3, <1>9, <1>10, <1>11, <1>13, <1>14, <1>15, <1>16, <1>17 DEF MonInv


(* A read is served: memory holds its line as the host will see it.        *)
LEMMA SampleInv ==
  ASSUME MonInv, NEW s \in Hosts, Sample(s) PROVE MonInv'
<1>1. /\ s \in reading /\ reading' = reading \ {s} /\ sampled' = sampled \cup {s}
      /\ fresh' = [fresh EXCEPT ![s] = hart[s].line]
      /\ UNCHANGED <<vars, monitor, inputs, out, landed, hart>>
  BY DEF Sample
<1>2. /\ UNCHANGED <<ar_in, aw_in, w_in, b_in, out, landed, hart, ars, aws>>
      /\ UNCHANGED <<v, line, wids, fw, xk, wpend, wdrop, binj, binjid, x>>
  BY <1>1 DEF vars, monitor, inputs, world
<1>3. Inv'
  BY <1>1, InvKept DEF MonInv
<1>4. hart[s].op = "lr" /\ hart[s].line \in Lines
  BY <1>1 DEF MonInv, ReadsPlaced, Known
<1>5. MonTypeOK'
  <2>1. TypeOK'
    BY <1>3 DEF Inv
  <2>2. fresh' \in [Hosts -> Lines \cup {NoLine}]
        /\ reading' \subseteq Hosts /\ sampled' \subseteq Hosts
    BY <1>1, <1>4 DEF MonInv, MonTypeOK
  <2> QED BY <1>2, <2>1, <2>2 DEF MonInv, MonTypeOK
<1>6. Lined' /\ WritesPlaced'
  BY <1>2 DEF MonInv, Lined, Queued, WritesPlaced, Of, Dropped
<1>7. ReadsPlaced'
  <2> SUFFICES ASSUME NEW h \in Hosts
               PROVE
    /\ hart'[h].op = "lr" <=>
         ars'[h] # NoReq \/ h \in Of(ar_in') \/ h \in reading' \/ h \in sampled'
    /\ ars'[h] # NoReq => h \notin Of(ar_in') /\ h \notin reading' /\ h \notin sampled'
    /\ h \in Of(ar_in') => h \notin reading' /\ h \notin sampled'
    /\ h \in reading' => h \notin sampled'
    BY DEF ReadsPlaced, Of
  <2>1. hart' = hart /\ ars' = ars /\ Of(ar_in') = Of(ar_in)
    BY <1>2 DEF Of
  <2>2. /\ h \in reading' <=> h \in reading /\ h # s
        /\ h \in sampled' <=> h \in sampled \/ h = s
    BY <1>1
  <2> QED BY <1>1, <2>1, <2>2 DEF MonInv, ReadsPlaced
<1>8. Known'
  BY <1>2 DEF MonInv, Known, OnItsWay, Of, Covered, Dropped
<1>9. Reserves'
  <2> SUFFICES ASSUME NEW p \in v, ~Hit(p)
               PROVE  /\ \A h \in Of(out) : line[p] \notin Covered(h)
                      /\ p \in reading' => hart[p].line = line[p]
                      /\ p \notin reading' => fresh'[p] = line[p]
    BY <1>2 DEF Reserves, Of, Hit, Covered
  <2>1. /\ \A h \in Of(out) : line[p] \notin Covered(h)
        /\ p \in reading => hart[p].line = line[p]
        /\ p \notin reading => fresh[p] = line[p]
    BY DEF MonInv, Reserves
  <2>2. p \in Hosts /\ fresh \in [Hosts -> Lines \cup {NoLine}]
    BY ExclusiveAssumption DEF MonInv, MonTypeOK
  <2> QED BY <1>1, <2>1, <2>2
<1>10. Decided'
  BY <1>2 DEF MonInv, Decided, Shown
<1>11. PairsWhole'
  <2> SUFFICES ASSUME NEW h \in Of(out), hart[h].op = "sc"
               PROVE  fresh'[h] = fresh[h]
    BY <1>2 DEF MonInv, PairsWhole, Of, Covered
  <2>1. h # s
    BY <1>4
  <2>2. h \in Hosts
    BY OfShort DEF MonInv, Lined, Queued
  <2> QED BY <1>1, <2>1, <2>2 DEF MonInv, MonTypeOK
<1> QED BY <1>3, <1>5, <1>6, <1>7, <1>8, <1>9, <1>10, <1>11 DEF MonInv

(* A write that landed is answered.                                        *)
LEMMA RespondInv ==
  ASSUME MonInv, NEW s \in Hosts, Respond(s) PROVE MonInv'
<1>1. /\ s \in landed /\ Room(b_in) /\ landed' = landed \ {s}
      /\ b_in' = Append(b_in, s)
      /\ UNCHANGED <<vars, monitor, ar_in, aw_in, w_in, out, reading, sampled>>
      /\ UNCHANGED <<hart, fresh>>
  BY DEF Respond
<1>2. /\ UNCHANGED <<ar_in, aw_in, w_in, out, hart, fresh, reading, sampled, ars, aws>>
      /\ UNCHANGED <<v, line, wids, fw, xk, wpend, wdrop, binj, binjid, x>>
  BY <1>1 DEF vars, monitor, world
<1>3. Inv'
  BY <1>1, InvKept DEF MonInv
<1>4. Queued(b_in') /\ \A h : h \in Of(b_in') <=> h \in Of(b_in) \/ h = s
  <2>1. Queued(b_in) /\ s \notin Of(b_in)
    BY <1>1 DEF MonInv, Lined, WritesPlaced
  <2>2. b_in' = b_in \o <<s>>
    BY <1>1, <2>1, QueuedAppend
  <2> QED BY <1>1, <2>1, <2>2, QueuedAppend
<1>5. MonTypeOK'
  <2>1. TypeOK' /\ landed' \subseteq Hosts /\ Channeled(b_in')
    BY <1>1, <1>3, <1>4, QueuedChanneled DEF Inv, MonInv, MonTypeOK
  <2> QED BY <1>2, <2>1 DEF MonInv, MonTypeOK, Channeled
<1>6. Lined'
  BY <1>2, <1>4 DEF MonInv, Lined, Queued
<1>7. ASSUME NEW h \in Hosts
      PROVE  /\ h \in landed' <=> h \in landed /\ h # s
             /\ Of(aw_in') = Of(aw_in) /\ Of(out') = Of(out)
             /\ (Dropped(h)' <=> Dropped(h))
             /\ (OnItsWay(h)' <=> OnItsWay(h))
             /\ (h \in landed' \/ h \in Of(b_in') <=> h \in landed \/ h \in Of(b_in))
             /\ hart'[h] = hart[h] /\ aws'[h] = aws[h]
  BY <1>1, <1>2, <1>4 DEF OnItsWay, Of, Dropped
<1>8. WritesPlaced'
  <2> SUFFICES ASSUME NEW h \in Hosts
               PROVE
    /\ hart'[h].op \in {"sc", "write"} <=>
         \/ aws'[h] # NoReq \/ h \in Of(aw_in') \/ Dropped(h)'
         \/ h \in Of(out') \/ h \in landed' \/ h \in Of(b_in')
    /\ aws'[h] # NoReq => /\ h \notin Of(aw_in') /\ ~Dropped(h)' /\ h \notin Of(out')
                          /\ h \notin landed' /\ h \notin Of(b_in')
    /\ h \in Of(aw_in') => /\ ~Dropped(h)' /\ h \notin Of(out')
                           /\ h \notin landed' /\ h \notin Of(b_in')
    /\ Dropped(h)' => h \notin Of(out') /\ h \notin landed' /\ h \notin Of(b_in')
    /\ h \in Of(out') => h \notin landed' /\ h \notin Of(b_in')
    /\ h \in landed' => h \notin Of(b_in')
    BY DEF WritesPlaced, Of, Dropped
  <2> QED BY <1>1, <1>4, <1>7 DEF MonInv, WritesPlaced
<1>9. Known'
  BY <1>2, <1>7 DEF MonInv, Known, Covered, Of
<1>10. ReadsPlaced' /\ Reserves' /\ Decided' /\ PairsWhole'
  BY <1>2 DEF MonInv, ReadsPlaced, Reserves, Decided, PairsWhole, Of, Hit, Covered, Shown
<1> QED BY <1>3, <1>5, <1>6, <1>8, <1>9, <1>10 DEF MonInv


(* A host at rest begins an access: it has none anywhere.                  *)
LEMMA BeginInv ==
  ASSUME MonInv, Inv', NEW s \in Hosts, hart[s].op = "none",
         NEW a \in Harts, hart' = [hart EXCEPT ![s] = a],
         UNCHANGED <<monitor, inputs, memory>>,
         a.op \in {"lr", "sc", "write"}, ~a.stored,
         a.rsv # NoLine => s \in Watched,
         \A l \in a.line..(a.line + a.len - 1) : l \in Lines,
         a.op \in {"lr", "sc"} => s \in Watched /\ a.len = 1 /\ a.line \in Lines,
         \A h \in Hosts : h # s => ars'[h] = ars[h] /\ aws'[h] = aws[h],
         ars'[s] # NoReq <=> a.op = "lr",
         aws'[s] # NoReq <=> a.op \in {"sc", "write"}
  PROVE  MonInv'
<1>1. /\ UNCHANGED <<ar_in, aw_in, w_in, b_in, out, landed, reading, sampled, fresh>>
      /\ UNCHANGED <<v, line, wids, fw, xk, wpend, wdrop, binj, binjid, x>>
  BY DEF monitor, inputs, memory
<1>2. hart \in [Hosts -> Harts]
  BY DEF MonInv, MonTypeOK, Harts
<1>3. ASSUME NEW h \in Hosts, h # s PROVE hart'[h] = hart[h]
  BY <1>2, <1>3
<1>4. hart'[s] = a /\ hart' \in [Hosts -> Harts]
  BY <1>2
<1>5. /\ s \notin Of(ar_in) /\ s \notin reading /\ s \notin sampled
      /\ s \notin Of(aw_in) /\ ~Dropped(s) /\ s \notin Of(out)
      /\ s \notin landed /\ s \notin Of(b_in) /\ ~OnItsWay(s)
  BY DEF MonInv, ReadsPlaced, WritesPlaced, OnItsWay
<1>6. MonTypeOK'
  <2>1. TypeOK'
    BY DEF Inv
  <2> QED BY <1>1, <1>4, <2>1 DEF MonInv, MonTypeOK, Harts
<1>7. Lined'
  BY <1>1 DEF MonInv, Lined, Queued
<1>8. ASSUME NEW h \in Hosts
      PROVE  /\ Of(ar_in') = Of(ar_in) /\ Of(aw_in') = Of(aw_in)
             /\ Of(out') = Of(out) /\ Of(b_in') = Of(b_in)
             /\ (Dropped(h)' <=> Dropped(h)) /\ (OnItsWay(h)' <=> OnItsWay(h))
             /\ h # s => Covered(h)' = Covered(h)
             /\ Covered(s)' = a.line..(a.line + a.len - 1)
  BY <1>1, <1>3, <1>4 DEF OnItsWay, Of, Dropped, Covered
<1>9. ReadsPlaced'
  <2> SUFFICES ASSUME NEW h \in Hosts
               PROVE
    /\ hart'[h].op = "lr" <=>
         ars'[h] # NoReq \/ h \in Of(ar_in') \/ h \in reading' \/ h \in sampled'
    /\ ars'[h] # NoReq => h \notin Of(ar_in') /\ h \notin reading' /\ h \notin sampled'
    /\ h \in Of(ar_in') => h \notin reading' /\ h \notin sampled'
    /\ h \in reading' => h \notin sampled'
    BY DEF ReadsPlaced, Of
  <2>1. CASE h = s
    BY <1>1, <1>4, <1>5, <1>8, <2>1
  <2>2. CASE h # s
    BY <1>1, <1>3, <1>8, <2>2 DEF MonInv, ReadsPlaced
  <2> QED BY <2>1, <2>2
<1>10. WritesPlaced'
  <2> SUFFICES ASSUME NEW h \in Hosts
               PROVE
    /\ hart'[h].op \in {"sc", "write"} <=>
         \/ aws'[h] # NoReq \/ h \in Of(aw_in') \/ Dropped(h)'
         \/ h \in Of(out') \/ h \in landed' \/ h \in Of(b_in')
    /\ aws'[h] # NoReq => /\ h \notin Of(aw_in') /\ ~Dropped(h)' /\ h \notin Of(out')
                          /\ h \notin landed' /\ h \notin Of(b_in')
    /\ h \in Of(aw_in') => /\ ~Dropped(h)' /\ h \notin Of(out')
                           /\ h \notin landed' /\ h \notin Of(b_in')
    /\ Dropped(h)' => h \notin Of(out') /\ h \notin landed' /\ h \notin Of(b_in')
    /\ h \in Of(out') => h \notin landed' /\ h \notin Of(b_in')
    /\ h \in landed' => h \notin Of(b_in')
    BY DEF WritesPlaced, Of, Dropped
  <2>1. CASE h = s
    BY <1>1, <1>4, <1>5, <1>8, <2>1
  <2>2. CASE h # s
    BY <1>1, <1>3, <1>8, <2>2 DEF MonInv, WritesPlaced
  <2> QED BY <2>1, <2>2
<1>11. Known'
  <2>1. ~(wpend' /\ binj')
    BY <1>1 DEF MonInv, Known
  <2>2. ASSUME NEW h \in Hosts
        PROVE  /\ h \in wids' <=> OnItsWay(h)'
               /\ h \in x' <=> OnItsWay(h)' /\ hart'[h].op = "sc"
               /\ Dropped(h)' => hart'[h].op = "sc"
               /\ hart'[h].op # "none" => Covered(h)' \subseteq Lines
               /\ hart'[h].op \in {"lr", "sc"} =>
                    h \in Watched /\ hart'[h].len = 1 /\ hart'[h].line \in Lines
               /\ hart'[h].rsv # NoLine => h \in Watched
               /\ hart'[h].op \in {"sc", "write"} =>
                    (hart'[h].stored <=> h \in landed' \/ h \in Of(b_in'))
    <3>1. /\ h \in wids <=> OnItsWay(h)
          /\ h \in x <=> OnItsWay(h) /\ hart[h].op = "sc"
          /\ Dropped(h) => hart[h].op = "sc"
          /\ hart[h].op # "none" => Covered(h) \subseteq Lines
          /\ hart[h].op \in {"lr", "sc"} =>
               h \in Watched /\ hart[h].len = 1 /\ hart[h].line \in Lines
          /\ hart[h].rsv # NoLine => h \in Watched
          /\ hart[h].op \in {"sc", "write"} =>
               (hart[h].stored <=> h \in landed \/ h \in Of(b_in))
      BY DEF MonInv, Known
    <3>2. wids' = wids /\ x' = x /\ landed' = landed
      BY <1>1
    <3>3. CASE h = s
      <4>1. Covered(h)' \subseteq Lines
        BY <1>8, <3>3
      <4> QED BY <1>4, <1>5, <1>8, <3>1, <3>2, <3>3, <4>1
    <3>4. CASE h # s
      BY <1>3, <1>8, <3>1, <3>2, <3>4
    <3> QED BY <3>3, <3>4
  <2> QED BY <2>1, <2>2 DEF Known, OnItsWay, Of, Covered, Dropped
<1>12. \A h : h \in Of(out) => h \in Hosts /\ h # s
  BY <1>5, OfShort DEF MonInv, Lined, Queued
<1>13. Reserves'
  <2> SUFFICES ASSUME NEW p \in v, ~Hit(p)
               PROVE  /\ \A h \in Of(out') : line[p] \notin Covered(h)'
                      /\ p \in reading => hart'[p].line = line[p]
                      /\ p \notin reading => fresh[p] = line[p]
    BY <1>1 DEF Reserves, Of, Hit, Covered
  <2>1. p \in Hosts
    BY ExclusiveAssumption DEF MonInv, MonTypeOK
  <2>2. /\ \A h \in Of(out) : line[p] \notin Covered(h)
        /\ p \in reading => hart[p].line = line[p]
        /\ p \notin reading => fresh[p] = line[p]
    BY DEF MonInv, Reserves
  <2> QED BY <1>3, <1>5, <1>8, <1>12, <2>1, <2>2
<1>14. Decided'
  <2>1. aw_in # <<>> => Shown \in Hosts /\ Shown \in Of(aw_in)
    BY WhoIsShown DEF Offered
  <2>2. Shown' = Shown
    BY <1>1 DEF Shown
  <2> QED BY <1>1, <1>3, <1>5, <2>1, <2>2 DEF MonInv, Decided
<1>15. PairsWhole'
  <2> SUFFICES ASSUME NEW h \in Of(out'), hart'[h].op = "sc", NEW g, g = Head(out')
               PROVE  /\ fresh'[h] = hart'[h].line
                      /\ h # g => hart'[h].line \notin Covered(g)'
    BY DEF PairsWhole, Of, Covered
  <2>1. h \in Of(out) /\ h \in Hosts /\ h # s
    BY <1>8, <1>12
  <2>2. g = Head(out) /\ g \in Of(out)
    <3>1. out # <<>>
      BY <2>1, OfShort
    <3> QED BY <1>1, <3>1, QueuedHead DEF MonInv, Lined
  <2>3. g \in Hosts /\ g # s
    BY <1>12, <2>2
  <2> QED BY <1>1, <1>3, <1>8, <2>1, <2>2, <2>3 DEF MonInv, PairsWhole
<1> QED BY <1>6, <1>7, <1>9, <1>10, <1>11, <1>13, <1>14, <1>15 DEF MonInv

LEMMA LoadReservedInv ==
  ASSUME MonInv, NEW s \in Hosts, NEW l \in Lines, LoadReserved(s, l) PROVE MonInv'
<1> DEFINE a == [AtRest EXCEPT !.op = "lr", !.line = l]
<1>1. /\ s \in Watched /\ hart[s].op = "none" /\ OfferRead(s)
      /\ hart' = [hart EXCEPT ![s] = a]
      /\ UNCHANGED <<monitor, inputs, memory>>
  BY DEF LoadReserved
<1>2. Inv'
  BY <1>1, OfferReadInv DEF MonInv
<1>3. /\ a \in Harts /\ a.op = "lr" /\ a.rsv = NoLine /\ ~a.stored /\ a.len = 1 /\ a.line = l
  BY DEF AtRest, Harts
<1>4. /\ \A h \in Hosts : h # s => ars'[h] = ars[h] /\ aws'[h] = aws[h]
      /\ ars'[s] # NoReq /\ aws'[s] = NoReq
  <2>1. PICK req \in Reads : ars' = [ars EXCEPT ![s] = req]
    BY <1>1 DEF OfferRead
  <2>2. aws' = aws /\ ars \in [Hosts -> Reads \cup {NoReq}]
    BY <1>1 DEF OfferRead, MonInv, Inv, TypeOK
  <2>3. aws[s] = NoReq
    BY <1>1 DEF MonInv, WritesPlaced
  <2> QED BY <2>1, <2>2, <2>3, NoReqAssumption
<1> HIDE DEF a
<1>5. \A k \in a.line..(a.line + a.len - 1) : k \in Lines
  <2>1. l \in Nat
    BY ExclusiveAssumption
  <2> QED BY <1>3, <2>1
<1> QED BY <1>1, <1>2, <1>3, <1>4, <1>5, BeginInv

LEMMA StoreConditionalInv ==
  ASSUME MonInv, NEW s \in Hosts, StoreConditional(s) PROVE MonInv'
<1> DEFINE a == [AtRest EXCEPT !.op = "sc", !.line = hart[s].rsv]
<1>1. /\ hart[s].op = "none" /\ hart[s].rsv # NoLine /\ OfferWrite(s)
      /\ hart' = [hart EXCEPT ![s] = a]
      /\ UNCHANGED <<monitor, inputs, memory>>
  BY DEF StoreConditional
<1>2. Inv'
  BY <1>1, OfferWriteInv DEF MonInv
<1>3. hart[s] \in Harts
  BY DEF MonInv, MonTypeOK, Harts
<1>4. s \in Watched /\ hart[s].rsv \in Lines
  BY <1>1, <1>3 DEF MonInv, Known, Harts
<1>5. /\ a \in Harts /\ a.op = "sc" /\ a.rsv = NoLine /\ ~a.stored
      /\ a.len = 1 /\ a.line = hart[s].rsv
  BY <1>4 DEF AtRest, Harts
<1>6. /\ \A h \in Hosts : h # s => ars'[h] = ars[h] /\ aws'[h] = aws[h]
      /\ aws'[s] # NoReq /\ ars'[s] = NoReq
  <2>1. PICK req \in Writes : aws' = [aws EXCEPT ![s] = req]
    BY <1>1 DEF OfferWrite
  <2>2. ars' = ars /\ aws \in [Hosts -> Writes \cup {NoReq}]
    BY <1>1 DEF OfferWrite, MonInv, Inv, TypeOK
  <2>3. ars[s] = NoReq
    BY <1>1 DEF MonInv, ReadsPlaced
  <2> QED BY <2>1, <2>2, <2>3, NoReqAssumption
<1> HIDE DEF a
<1>7. \A k \in a.line..(a.line + a.len - 1) : k \in Lines
  <2>1. a.line \in Nat /\ a.len = 1 /\ a.line \in Lines
    BY <1>4, <1>5, ExclusiveAssumption
  <2> QED BY <2>1
<1> QED BY <1>1, <1>2, <1>4, <1>5, <1>6, <1>7, BeginInv

LEMMA WriteInv ==
  ASSUME MonInv, NEW s \in Hosts, NEW l \in Lines, Write(s, l) PROVE MonInv'
<1> DEFINE n == aws'[s].len
           a == [AtRest EXCEPT !.op = "write", !.line = l, !.len = n,
                               !.rsv = hart[s].rsv]
<1>1. /\ hart[s].op = "none" /\ OfferWrite(s)
      /\ hart' = [hart EXCEPT ![s] = a]
      /\ Covered(s)' \subseteq Lines
      /\ UNCHANGED <<monitor, inputs, memory>>
  BY DEF Write
<1>2. Inv'
  BY <1>1, OfferWriteInv DEF MonInv
<1>3. /\ \A h \in Hosts : h # s => ars'[h] = ars[h] /\ aws'[h] = aws[h]
      /\ aws'[s] # NoReq /\ ars'[s] = NoReq /\ n \in Lens
  <2>1. PICK req \in Writes : aws' = [aws EXCEPT ![s] = req]
    BY <1>1 DEF OfferWrite
  <2>2. ars' = ars /\ aws \in [Hosts -> Writes \cup {NoReq}]
    BY <1>1 DEF OfferWrite, MonInv, Inv, TypeOK
  <2>3. ars[s] = NoReq
    BY <1>1 DEF MonInv, ReadsPlaced
  <2> QED BY <2>1, <2>2, <2>3, NoReqAssumption DEF Writes
<1> HIDE DEF n
<1>4. /\ a \in Harts /\ a.op = "write" /\ a.rsv = hart[s].rsv /\ ~a.stored
      /\ a.len = n /\ a.line = l
  <2>1. hart[s].rsv \in Lines \cup {NoLine}
    BY DEF MonInv, MonTypeOK
  <2> QED BY <1>3, <2>1 DEF AtRest, Harts
<1> HIDE DEF a
<1>5. \A k \in a.line..(a.line + a.len - 1) : k \in Lines
  <2>1. hart'[s] = a
    BY <1>1 DEF MonInv, MonTypeOK
  <2>2. Covered(s)' = a.line..(a.line + a.len - 1)
    BY <2>1 DEF Covered
  <2> QED BY <1>1, <2>2
<1>6. a.rsv # NoLine => s \in Watched
  BY <1>4 DEF MonInv, Known
<1> QED BY <1>1, <1>2, <1>3, <1>4, <1>5, <1>6, BeginInv


-----------------------------------------------------------------------------
LEMMA InitMonInv == MonInit => MonInv
<1> SUFFICES ASSUME MonInit PROVE MonInv
  OBVIOUS
<1> USE DEF MonInit
<1>1. Inv
  BY InitInv
<1>2. hart \in [Hosts -> Harts]
  <2>1. AtRest \in Harts
    BY DEF AtRest, Harts
  <2> QED BY <2>1
<1>3. 0 \in Hosts
  BY HostNumbers
<1>4. MonTypeOK
  <2>1. TypeOK /\ hart \in [Hosts -> Harts]
    BY <1>1, <1>2 DEF Inv
  <2>2. /\ {ar_in, aw_in, b_in, out} \subseteq
             {<<>>} \cup {<<g>> : g \in Hosts} \cup {<<g, h>> : g, h \in Hosts}
        /\ w_in \in Seq(BOOLEAN) /\ Len(w_in) <= 2
    OBVIOUS
  <2>3. /\ v \subseteq Watched /\ line \in [Watched -> Lines \cup {NoLine}]
        /\ x \subseteq Watched /\ fresh \in [Hosts -> Lines \cup {NoLine}]
    OBVIOUS
  <2>4. /\ wids \subseteq Hosts /\ fw \subseteq Lines
        /\ xk \in {"none", "stores", "fails"}
        /\ {wpend, wdrop, binj} \subseteq BOOLEAN /\ binjid \in Hosts
        /\ landed \subseteq Hosts /\ reading \subseteq Hosts /\ sampled \subseteq Hosts
    BY <1>3
  <2> HIDE DEF MonInit
  <2> QED BY <2>1, <2>2, <2>3, <2>4 DEF MonTypeOK, Harts
<1>5. Lined
  BY DEF Lined, Queued
<1>6. ASSUME NEW h \in Hosts
      PROVE  /\ hart[h].op = "none" /\ hart[h].rsv = NoLine
             /\ ars[h] = NoReq /\ aws[h] = NoReq /\ ~Dropped(h) /\ ~OnItsWay(h)
             /\ h \notin Of(ar_in) /\ h \notin Of(aw_in)
             /\ h \notin Of(out) /\ h \notin Of(b_in)
  BY OfShort DEF Init, AtRest, Dropped, OnItsWay
<1>7. ReadsPlaced /\ WritesPlaced /\ Known
  BY <1>6 DEF ReadsPlaced, WritesPlaced, Known
<1>8. Reserves /\ Decided /\ PairsWhole
  BY OfShort DEF Reserves, Decided, PairsWhole
<1> QED BY <1>1, <1>4, <1>5, <1>7, <1>8 DEF MonInv

LEMMA StutterInv == ASSUME MonInv, UNCHANGED all PROVE MonInv'
<1>1. UNCHANGED <<vars, monitor, inputs, memory, hart>>
  BY DEF all
<1>2. Inv'
  BY <1>1, InvKept DEF MonInv
<1>3. TypeOK' /\ UNCHANGED <<ars, aws>>
  BY <1>1, <1>2 DEF Inv, vars, world
<1>4. MonTypeOK'
  BY <1>1, <1>3 DEF MonInv, MonTypeOK, monitor, inputs, memory
<1>5. Lined' /\ ReadsPlaced' /\ WritesPlaced' /\ Known'
  BY <1>1, <1>3 DEF MonInv, Lined, Queued, ReadsPlaced, WritesPlaced, Known, Of,
                    Dropped, OnItsWay, Covered, monitor, inputs, memory
<1>6. Reserves' /\ Decided' /\ PairsWhole'
  BY <1>1 DEF MonInv, Reserves, Decided, PairsWhole, Of, Hit, Covered, Shown,
              monitor, inputs, memory
<1> QED BY <1>2, <1>4, <1>5, <1>6 DEF MonInv

LEMMA NextMonInv == MonInv /\ [MonNext]_all => MonInv'
<1> SUFFICES ASSUME MonInv, [MonNext]_all PROVE MonInv'
  OBVIOUS
<1>1. CASE \E beat \in BOOLEAN, r \in AtMostOne(sampled) :
             (beat => wbusy /\ Room(w_in)) /\ MonCycle(beat, r)
  <2>1. PICK beat \in BOOLEAN, r \in AtMostOne(sampled) :
          (beat => wbusy /\ Room(w_in)) /\ MonCycle(beat, r)
    BY <1>1
  <2>2. r \in SUBSET sampled
    BY DEF AtMostOne
  <2> QED BY <2>1, <2>2, MonCycleInv
<1>2. CASE Land
  BY <1>2, LandInv
<1>3. CASE \E h \in Hosts :
             \/ Sample(h) \/ Respond(h) \/ StoreConditional(h)
             \/ \E l \in Lines : LoadReserved(h, l) \/ Write(h, l)
  BY <1>3, SampleInv, RespondInv, StoreConditionalInv, LoadReservedInv, WriteInv
<1>4. CASE UNCHANGED all
  BY <1>4, StutterInv
<1> QED BY <1>1, <1>2, <1>3, <1>4 DEF MonNext

LEMMA MonInvAlways == MonSpec => []MonInv
  BY InitMonInv, NextMonInv, PTL DEF MonSpec

(* The monitor's registers keep their types, its lists of writes name      *)
(* hosts of the arbiter, and no channel overflows.                         *)
THEOREM ExclusiveType == MonSpec => []MonTypeOK
  BY MonInvAlways, PTL DEF MonInv

(* Behind the arbiter with the monitor, bursts stay whole on the link.     *)
THEOREM ExclusiveBurstsWhole == MonSpec => []BurstsWhole
<1>1. MonInv => BurstsWhole
  BY InvBursts DEF MonInv
<1> QED BY <1>1, MonInvAlways, PTL

(* And every answer still leads home to the host and the identifier it is  *)
(* for.                                                                    *)
THEOREM ExclusiveAnswersHome == MonSpec => []AnswersHome
<1>1. MonInv => AnswersHome
  BY DEF MonInv, Inv
<1> QED BY <1>1, MonInvAlways, PTL

(* And a fair arbiter still lets everyone have its turn: that a hart waits *)
(* for its answer before it goes on changes nothing of who is next.        *)
THEOREM ExclusiveTakeTurns ==
  ASSUME ~FIXED, PRIO \notin Hosts
  PROVE  MonSpec => []TakeTurns
<1>1. MonInit => Turns
  BY DEF MonInit, Init, Turns, PassedBehind
<1>2. MonInv /\ Turns /\ [MonNext]_all => Turns'
  <2> SUFFICES ASSUME MonInv, Turns, [MonNext]_all PROVE Turns'
    OBVIOUS
  <2>1. CASE \E beat \in BOOLEAN, r \in AtMostOne(sampled) : MonCycle(beat, r)
    <3>1. PICK beat \in BOOLEAN, r \in AtMostOne(sampled) : MonCycle(beat, r)
      BY <2>1
    <3>2. /\ Grants(ArGo(Room(ar_in)), AwGo(Room(aw_in)), beat)
          /\ Recorded(ArGo(Room(ar_in)), AwGo(Room(aw_in)))
      BY <3>1 DEF MonCycle, Cycle
    <3>3. Room(ar_in) \in BOOLEAN /\ Room(aw_in) \in BOOLEAN
      BY DEF Room
    <3> QED BY <3>2, <3>3, CycleTurns DEF MonInv
  <2>2. CASE UNCHANGED <<unit, history>>
    BY <2>2 DEF unit, history, Turns, PassedBehind, Before
  <2>3. Land \/ (\E h \in Hosts : Sample(h) \/ Respond(h)) \/ UNCHANGED all
          => UNCHANGED <<unit, history>>
    BY DEF Land, Sample, Respond, all, vars
  <2>4. (\E h \in Hosts : \/ StoreConditional(h)
                          \/ \E l \in Lines : LoadReserved(h, l) \/ Write(h, l))
          => UNCHANGED <<unit, history>>
    BY DEF StoreConditional, LoadReserved, Write, OfferRead, OfferWrite
  <2> QED BY <2>1, <2>2, <2>3, <2>4 DEF MonNext
<1>3. Turns => TakeTurns
  BY DEF Turns, PassedBehind, TakeTurns
<1> QED BY <1>1, <1>2, <1>3, MonInvAlways, PTL DEF MonSpec

(* And a hold keeps every other host's write out of its owner's pair, from *)
(* the read's grant on.                                                    *)
THEOREM ExclusiveHoldWhole == MonSpec => []HoldWhole
<1>1. MonInit => HoldWhole
  BY DEF MonInit, Init, HoldWhole, held
<1>2. MonInv /\ HoldWhole /\ [MonNext]_all => HoldWhole'
  <2> SUFFICES ASSUME MonInv, HoldWhole, [MonNext]_all PROVE HoldWhole'
    OBVIOUS
  <2>1. CASE \E beat \in BOOLEAN, r \in AtMostOne(sampled) : MonCycle(beat, r)
    <3>1. /\ Holds(ArGo(Room(ar_in)), AwGo(Room(aw_in)))
          /\ Recorded(ArGo(Room(ar_in)), AwGo(Room(aw_in)))
      BY <2>1 DEF MonCycle, Cycle
    <3>2. Room(ar_in) \in BOOLEAN /\ Room(aw_in) \in BOOLEAN
      BY DEF Room
    <3> QED BY <3>1, <3>2, CycleHold DEF MonInv
  <2>2. CASE UNCHANGED <<unit, history>>
    BY <2>2 DEF unit, history, HoldWhole, held
  <2>3. Land \/ (\E h \in Hosts : Sample(h) \/ Respond(h)) \/ UNCHANGED all
          => UNCHANGED <<unit, history>>
    BY DEF Land, Sample, Respond, all, vars
  <2>4. (\E h \in Hosts : \/ StoreConditional(h)
                          \/ \E l \in Lines : LoadReserved(h, l) \/ Write(h, l))
          => UNCHANGED <<unit, history>>
    BY DEF StoreConditional, LoadReserved, Write, OfferRead, OfferWrite
  <2> QED BY <2>1, <2>2, <2>3, <2>4 DEF MonNext
<1> QED BY <1>1, <1>2, MonInvAlways, PTL DEF MonSpec

(* When the write of a store-conditional lands, memory still holds, in the *)
(* whole line, what the host's load-reserved read there, for every number  *)
(* of hosts and of lines (Hit, quiet, xk; issue 1408).                     *)
THEOREM ExclusivePairAtomic == MonSpec => PairAtomic
<1>1. ASSUME MonInv, [MonNext]_all, NEW h \in Hosts,
             Len(out') < Len(out), h = Head(out), hart[h].op = "sc"
      PROVE  fresh[h] = hart[h].line
  <2>1. Queued(out)
    BY <1>1 DEF MonInv, Lined
  <2>2. CASE out = <<>>
    <3>1. Len(out) = 0 /\ Queued(out')
      BY <1>1, <2>2, NextMonInv DEF MonInv, Lined, Queued
    <3>2. Len(out') \in Nat
      BY <3>1, QueuedHead DEF Queued
    <3> QED BY <1>1, <3>1, <3>2
  <2>3. CASE out # <<>>
    BY <1>1, <2>1, <2>3, QueuedHead DEF MonInv, PairsWhole
  <2> QED BY <2>2, <2>3
<1>2. MonInv /\ [MonNext]_all =>
        [\A h \in Hosts :
           Len(out') < Len(out) /\ h = Head(out) /\ hart[h].op = "sc"
             => fresh[h] = hart[h].line]_all
  BY <1>1
<1> QED BY <1>2, MonInvAlways, PTL DEF MonSpec, PairAtomic

(* A store-conditional is answered ExOkay exactly when it is in memory,    *)
(* and any other write Okay, once it is (x0, x1, binj).                    *)
THEOREM ExclusiveAnswersTrue == MonSpec => AnswersTrue
<1>1. ASSUME MonInv, [MonNext]_all, NEW h \in Hosts, hart[h].op # hart'[h].op
      PROVE  /\ hart[h].op = "sc" => hart[h].stored = hart'[h].ex
             /\ hart[h].op = "write" => hart[h].stored /\ ~hart'[h].ex
  <2>1. hart \in [Hosts -> Harts]
    BY <1>1 DEF MonInv, MonTypeOK, Harts
  <2>2. CASE \E beat \in BOOLEAN, r \in AtMostOne(sampled) : MonCycle(beat, r)
    <3>1. PICK beat \in BOOLEAN, r \in AtMostOne(sampled) : MonCycle(beat, r)
      BY <2>2
    <3>2. r \in SUBSET sampled
      BY DEF AtMostOne
    <3>3. Told(r, h)
      BY <1>1, <3>1, <3>2, CycleOfHarts
    <3>4. CASE h \in r
      <4>1. hart[h].op = "lr"
        BY <3>3, <3>4, Zenon DEF Told
      <4> QED BY <4>1
    <3>5. CASE h \notin r
      <4>1. h \in Given /\ hart'[h].ex = (~Inject /\ h \in x)
        <5>1. h \in Given
          BY <1>1, <3>3, <3>5, Zenon DEF Told
        <5> QED BY <3>3, <5>1, Zenon DEF Told
      <4>2. CASE Inject
        <5>1. Dropped(h)
          BY <1>1, <4>1, <4>2, WhoIsTold
        <5>2. hart[h].op = "sc" /\ h \notin landed /\ h \notin Of(b_in)
          BY <1>1, <5>1 DEF MonInv, Known, WritesPlaced
        <5>3. ~hart[h].stored /\ hart[h].stored \in BOOLEAN
          BY <1>1, <2>1, <5>2 DEF MonInv, Known, Harts
        <5> QED BY <4>1, <4>2, <5>2, <5>3
      <4>3. CASE ~Inject
        <5>1. h \in Of(b_in)
          BY <1>1, <4>1, <4>3, WhoIsTold
        <5>2. /\ hart[h].op \in {"sc", "write"} => hart[h].stored
              /\ h \in x <=> hart[h].op = "sc"
              /\ hart[h].stored \in BOOLEAN
          BY <1>1, <2>1, <5>1 DEF MonInv, Known, OnItsWay, Harts
        <5>3. CASE hart[h].op = "sc"
          BY <4>1, <4>3, <5>2, <5>3
        <5>4. CASE hart[h].op = "write"
          BY <4>1, <4>3, <5>2, <5>4
        <5> QED BY <5>3, <5>4
      <4> QED BY <4>2, <4>3
    <3> QED BY <3>4, <3>5
  <2>3. CASE ~(\E beat \in BOOLEAN, r \in AtMostOne(sampled) : MonCycle(beat, r))
    <3>1. \/ hart' = hart \/ Land
          \/ \E s \in Hosts : \/ StoreConditional(s)
                              \/ \E l \in Lines : LoadReserved(s, l) \/ Write(s, l)
      BY <1>1, <2>3 DEF MonNext, Sample, Respond, all
    <3>2. CASE hart' = hart
      BY <1>1, <3>2
    <3>3. CASE Land
      <4>1. hart' = [hart EXCEPT ![Head(out)].stored = TRUE]
        BY <3>3 DEF Land
      <4>2. hart'[h].op = hart[h].op
        BY <2>1, <4>1 DEF Harts
      <4> QED BY <1>1, <4>2
    <3>4. CASE \E s \in Hosts : \/ StoreConditional(s)
                                \/ \E l \in Lines : LoadReserved(s, l) \/ Write(s, l)
      <4>1. PICK s \in Hosts : \/ StoreConditional(s)
                               \/ \E l \in Lines : LoadReserved(s, l) \/ Write(s, l)
        BY <3>4
      <4>2. hart[s].op = "none" /\ \A i \in Hosts : i # s => hart'[i] = hart[i]
        BY <2>1, <4>1 DEF StoreConditional, LoadReserved, Write
      <4> QED BY <1>1, <4>2
    <3> QED BY <3>1, <3>2, <3>3, <3>4
  <2> QED BY <2>2, <2>3
<1>2. MonInv /\ [MonNext]_all =>
        [\A h \in Hosts : hart[h].op # hart'[h].op =>
           /\ hart[h].op = "sc" => hart[h].stored = hart'[h].ex
           /\ hart[h].op = "write" => hart[h].stored /\ ~hart'[h].ex]_all
  BY <1>1
<1> QED BY <1>2, MonInvAlways, PTL DEF MonSpec, AnswersTrue

-----------------------------------------------------------------------------
(* The address phases that the arbiter has passed and the ends of bursts   *)
(* go in step: each phase before the monitor, and the one whose beats the  *)
(* monitor takes, has its last beat still to come, in the channel or from  *)
(* the host that has the link.                                             *)
One(yes) == IF yes THEN 1 ELSE 0
Counts(s, e) == One(Len(s) >= 1 /\ s[1] = e) + One(Len(s) >= 2 /\ s[2] = e)
Lasts(s) == Counts(s, TRUE)

BeatsFollow == Lasts(w_in) + Len(open) = Len(aw_in) + One(wpend)

LEMMA CountsShort ==
  \A e, f, g :
    /\ Counts(<<>>, e) = 0 /\ Counts(<<f>>, e) = One(f = e)
    /\ Counts(<<f, g>>, e) = One(f = e) + One(g = e)
<1> SUFFICES ASSUME NEW e, NEW f, NEW g
             PROVE  /\ Counts(<<>>, e) = 0 /\ Counts(<<f>>, e) = One(f = e)
                    /\ Counts(<<f, g>>, e) = One(f = e) + One(g = e)
  OBVIOUS
<1>1. /\ Len(<<>>) = 0 /\ Len(<<f>>) = 1 /\ Len(<<f, g>>) = 2
      /\ <<f>>[1] = f /\ <<f, g>>[1] = f /\ <<f, g>>[2] = g
  OBVIOUS
<1> QED BY <1>1 DEF Counts, One

LEMMA UpToTwo ==
  ASSUME NEW T, NEW s \in Seq(T), Len(s) <= 2
  PROVE  \/ s = <<>>
         \/ \E f \in T : s = <<f>>
         \/ \E f, g \in T : s = <<f, g>>
<1>1. Len(s) \in {0, 1, 2}
  <2>1. PICK n \in Nat : n = Len(s)
    BY LenProperties
  <2>2. n \in {0, 1, 2}
    BY <2>1
  <2> QED BY <2>1, <2>2
<1>2. CASE Len(s) = 0
  BY <1>2
<1>3. CASE Len(s) = 1
  <2>1. s[1] \in T /\ s = <<s[1]>>
    BY <1>3
  <2> QED BY <2>1
<1>4. CASE Len(s) = 2
  <2>1. s[1] \in T /\ s[2] \in T /\ s = <<s[1], s[2]>>
    BY <1>4, TwoElements
  <2> QED BY <2>1
<1> QED BY <1>1, <1>2, <1>3, <1>4

(* What an edge does to the count.                                         *)
LEMMA CountsEdge ==
  ASSUME NEW T, NEW s \in Seq(T), Len(s) <= 2, NEW e,
         NEW took \in BOOLEAN, took => s # <<>>,
         NEW go \in BOOLEAN, NEW g, go => g \in T /\ Room(s),
         NEW t, t = Edge(s, took, Item(go, g))
  PROVE  Counts(t, e) = Counts(s, e) - One(took /\ Head(s) = e) + One(go /\ g = e)
<1> DEFINE u == IF took THEN Tail(s) ELSE s
<1>1. /\ u \in Seq(T) /\ Len(u) <= 2 /\ (go => Len(u) < 2)
      /\ Counts(u, e) = Counts(s, e) - One(took /\ Head(s) = e)
      /\ Counts(u, e) \in Nat
  <2>1. CASE s = <<>>
    <3>1. ~took /\ Len(<<>>) = 0 /\ Counts(<<>>, e) = 0
      BY <2>1, CountsShort
    <3> QED BY <2>1, <3>1 DEF One
  <2>2. CASE \E f \in T : s = <<f>>
    <3>1. PICK f \in T : s = <<f>>
      BY <2>2
    <3>2. /\ Tail(<<f>>) = <<>> /\ Head(<<f>>) = f /\ Len(<<f>>) = 1 /\ Len(<<>>) = 0
          /\ <<>> \in Seq(T)
      OBVIOUS
    <3>3. Counts(<<f>>, e) = One(f = e) /\ Counts(<<>>, e) = 0
      BY CountsShort
    <3> QED BY <3>1, <3>2, <3>3 DEF One
  <2>3. CASE \E f, h \in T : s = <<f, h>>
    <3>1. PICK f \in T, h \in T : s = <<f, h>>
      BY <2>3
    <3>2. /\ Tail(<<f, h>>) = <<h>> /\ Head(<<f, h>>) = f
          /\ Len(<<f, h>>) = 2 /\ Len(<<h>>) = 1 /\ <<h>> \in Seq(T)
      OBVIOUS
    <3>3. Counts(<<f, h>>, e) = One(f = e) + One(h = e)
      BY CountsShort
    <3>5. Counts(<<h>>, e) = One(h = e)
      BY CountsShort
    <3>4. ~go
      BY <3>1, <3>2 DEF Room
    <3> QED BY <3>1, <3>2, <3>3, <3>4, <3>5 DEF One
  <2> QED BY <2>1, <2>2, <2>3, UpToTwo
<1>2. t = u \o Item(go, g)
  BY DEF Edge
<1> HIDE DEF u
<1>3. CASE ~go
  <2>1. Item(go, g) = <<>>
    BY <1>3 DEF Item
  <2>2. t = u
    BY <1>1, <1>2, <2>1
  <2> QED BY <1>1, <1>3, <2>2 DEF One
<1>4. CASE go /\ u = <<>>
  <2>1. t = <<g>>
    BY <1>2, <1>4, ConcatShort DEF Item
  <2>2. Counts(<<g>>, e) = One(g = e)
    BY CountsShort
  <2>3. Counts(u, e) = 0
    BY <1>4, CountsShort
  <2>4. One(go /\ g = e) = One(g = e) /\ One(g = e) \in Nat
    BY <1>4 DEF One
  <2> QED BY <1>1, <2>1, <2>2, <2>3, <2>4
<1>5. CASE go /\ \E f \in T : u = <<f>>
  <2>1. PICK f \in T : u = <<f>>
    BY <1>5
  <2>2. t = <<f, g>>
    BY <1>2, <1>5, <2>1, ConcatShort DEF Item
  <2>3. Counts(<<f, g>>, e) = One(f = e) + One(g = e) /\ Counts(<<f>>, e) = One(f = e)
    BY CountsShort
  <2> QED BY <1>1, <1>5, <2>1, <2>2, <2>3 DEF One
<1>6. ~(go /\ \E f, h \in T : u = <<f, h>>)
  <2> SUFFICES ASSUME go, NEW f \in T, NEW h \in T, u = <<f, h>> PROVE FALSE
    OBVIOUS
  <2>1. Len(<<f, h>>) = 2
    OBVIOUS
  <2> QED BY <1>1, <2>1
<1>7. \/ u = <<>>
      \/ \E f \in T : u = <<f>>
      \/ \E f, h \in T : u = <<f, h>>
  BY <1>1, UpToTwo
<1> QED BY <1>3, <1>4, <1>5, <1>6, <1>7

LEMMA QueuedLength ==
  ASSUME NEW s, Queued(s), NEW took \in BOOLEAN, took => s # <<>>,
         NEW go \in BOOLEAN, NEW g, go => g \in Hosts /\ g \notin Of(s) /\ Room(s),
         NEW t, t = Edge(s, took, Item(go, g))
  PROVE  Len(t) = Len(s) - One(took) + One(go) /\ Len(s) \in Nat
<1> DEFINE u == IF took THEN Tail(s) ELSE s
<1>1. Len(s) \in Nat
  <2>1. Len(<<>>) = 0
    OBVIOUS
  <2> QED BY <2>1, QueuedHead
<1>2. /\ Queued(u) /\ Len(u) = Len(s) - One(took)
      /\ go => g \notin Of(u) /\ Room(u)
  BY <1>1, QueuedHead DEF Room, One
<1>3. t = u \o Item(go, g)
  BY DEF Edge
<1> HIDE DEF u
<1>4. CASE go
  <2>1. Len(u \o <<g>>) = Len(u) + 1
    BY <1>2, <1>4, QueuedAppend
  <2> QED BY <1>1, <1>2, <1>3, <1>4, <2>1 DEF Item, One
<1>5. CASE ~go
  <2>1. u \o <<>> = u
    BY <1>2, QueuedConcatNone
  <2> QED BY <1>1, <1>2, <1>3, <1>5, <2>1 DEF Item, One
<1> QED BY <1>4, <1>5

LEMMA CycleBeats ==
  ASSUME MonInv, BeatsFollow, NEW beat \in BOOLEAN, beat => Room(w_in),
         NEW r \in SUBSET sampled, MonCycle(beat, r)
  PROVE  BeatsFollow'
<1> DEFINE took == Pass \/ Absorb
           last == Head(beats[Sender])
           ends == BeatGo /\ Head(w_in) = TRUE
           closes == WGo(beat) /\ last = TRUE
           aw == AwGo(Room(aw_in))
<1>1. /\ Cycle(Room(ar_in), Room(aw_in), beat, r, Given)
      /\ aw_in' = Edge(aw_in, took, Item(aw, aw_who))
      /\ w_in' = Edge(w_in, BeatGo, Item(WGo(beat), last))
      /\ wpend' = IF BeatEnd THEN FALSE ELSE wpend \/ Pass \/ Absorb
  BY DEF MonCycle, Through, MonitorStep
<1>2. open' = Advanced(beat) \o Opened(aw) /\ Room(aw_in) \in BOOLEAN
  BY <1>1 DEF Cycle, Room
<1>3. /\ TypeOK /\ LinkHeld /\ BeatsShown /\ Queued(aw_in)
      /\ w_in \in Seq(BOOLEAN) /\ Len(w_in) <= 2 /\ wpend \in BOOLEAN
  BY DEF MonInv, Inv, Lined, MonTypeOK
<1>4. /\ took \in BOOLEAN /\ BeatGo \in BOOLEAN /\ WGo(beat) \in BOOLEAN /\ aw \in BOOLEAN
      /\ took => aw_in # <<>> /\ ~wpend
      /\ BeatGo => wpend /\ w_in # <<>>
  <2>1. wbusy \in BOOLEAN
    BY <1>3 DEF TypeOK
  <2> QED BY <1>3, <2>1 DEF Pass, Absorb, Take, BeatGo, Offered, WGo, AwGo, Room
<1>5. aw => aw_who \in Hosts /\ aw_who \notin Of(aw_in) /\ Room(aw_in)
  <2>1. aw => aw_who \in Hosts /\ aws[aw_who] # NoReq
    BY <1>2, <1>3, GrantedWrite DEF AwOffers
  <2>2. aw => Room(aw_in)
    BY DEF AwGo
  <2> QED BY <2>1, <2>2 DEF MonInv, WritesPlaced
<1>6. WGo(beat) => last \in BOOLEAN /\ last = (open[1].len = 1) /\ Room(w_in)
  BY <1>3, BeatOut DEF WGo
<1> HIDE DEF took, last, aw
<1>7. Len(open') = Len(open) - One(closes) + One(aw) /\ Len(open) \in Nat
  <2>1. Len(<<>>) = 0 /\ \A e : Len(<<e>>) = 1
    OBVIOUS
  <2>2. open \in Seq([who : Hosts, len : Nat \ {0}, tag : Tags]) /\ Len(open) \in Nat
    BY <1>3 DEF TypeOK
  <2>3. CASE aw
    <3>1. open = <<>> /\ ~WGo(beat) /\ Len(open') = 1
      BY <1>2, <1>3, <2>1, <2>3, GrantedWrite, LinkMoves DEF WGo, aw
    <3> QED BY <2>1, <2>3, <3>1 DEF One, closes
  <2>4. CASE ~aw /\ WGo(beat)
    <3>1. Len(open) = 1
      BY <1>3, <2>4, OpenOne DEF WGo
    <3>2. CASE open[1].len = 1
      <4>1. open' = <<>>
        BY <1>2, <1>3, <2>4, <3>2, LinkMoves DEF aw
      <4>2. closes
        BY <1>6, <2>4, <3>2 DEF closes
      <4> QED BY <2>1, <2>4, <3>1, <4>1, <4>2 DEF One
    <3>3. CASE open[1].len # 1
      <4>1. Len(open') = 1
        BY <1>2, <1>3, <2>1, <2>4, <3>3, LinkMoves DEF aw
      <4>2. ~closes
        BY <1>6, <2>4, <3>3 DEF closes
      <4> QED BY <2>4, <3>1, <4>1, <4>2 DEF One
    <3> QED BY <3>2, <3>3
  <2>5. CASE ~aw /\ ~WGo(beat)
    <3>1. open' = open
      BY <1>2, <1>3, <2>5, LinkMoves DEF aw
    <3> QED BY <2>2, <2>5, <3>1 DEF One, closes
  <2> QED BY <2>3, <2>4, <2>5
<1>8. Len(aw_in') = Len(aw_in) - One(took) + One(aw) /\ Len(aw_in) \in Nat
  BY <1>1, <1>3, <1>4, <1>5, QueuedLength
<1>9. Lasts(w_in') = Lasts(w_in) - One(ends) + One(closes)
  <2>1. PICK took1 \in BOOLEAN : took1 = BeatGo
    BY <1>4
  <2>2. PICK go1 \in BOOLEAN : go1 = WGo(beat)
    BY <1>4
  <2>3. /\ took1 => w_in # <<>>
        /\ go1 => last \in BOOLEAN /\ Room(w_in)
        /\ w_in' = Edge(w_in, took1, Item(go1, last))
    BY <1>1, <1>4, <1>6, <2>1, <2>2
  <2>4. PICK T : T = BOOLEAN
    OBVIOUS
  <2>5. PICK e : e = TRUE
    OBVIOUS
  <2>6. PICK g : g = last
    OBVIOUS
  <2>7. /\ w_in \in Seq(T) /\ Len(w_in) <= 2
        /\ go1 => g \in T /\ Room(w_in)
        /\ w_in' = Edge(w_in, took1, Item(go1, g))
    BY <1>3, <2>3, <2>4, <2>6
  <2>8. Counts(w_in', e) =
          Counts(w_in, e) - One(took1 /\ Head(w_in) = e) + One(go1 /\ g = e)
    BY <2>3, <2>7, CountsEdge
  <2>9. One(took1 /\ Head(w_in) = e) = One(ends) /\ One(go1 /\ g = e) = One(closes)
    BY <2>1, <2>2, <2>5, <2>6 DEF ends, closes
  <2>10. Lasts(w_in) = Counts(w_in, e) /\ Lasts(w_in') = Counts(w_in', e)
    BY <2>5 DEF Lasts
  <2> QED BY <2>8, <2>9, <2>10
<1>10. One(wpend') = One(wpend) - One(ends) + One(took)
  <2>1. BeatEnd <=> ends
    <3>1. BeatGo => Head(w_in) \in BOOLEAN
      BY <1>3, <1>4
    <3>2. BeatGo => (Head(w_in) <=> Head(w_in) = TRUE)
      BY <3>1, Zenon
    <3> QED BY <3>2, Zenon DEF BeatEnd, ends
  <2>2. wpend' = IF ends THEN FALSE ELSE wpend \/ took
    BY <1>1, <2>1, Zenon DEF took
  <2>3. (ends => wpend = TRUE) /\ (took => wpend = FALSE)
    BY <1>3, <1>4, Zenon DEF ends
  <2>4. One(TRUE) = 1 /\ One(FALSE) = 0
    BY DEF One
  <2>5. CASE ends
    <3>1. wpend' = FALSE /\ wpend = TRUE /\ ends = TRUE /\ took = FALSE
      BY <1>4, <2>2, <2>3, <2>5, Zenon
    <3>2. One(wpend') = 0 /\ One(wpend) = 1 /\ One(ends) = 1 /\ One(took) = 0
      BY <2>4, <3>1, Zenon
    <3>3. 0 = 1 - 1 + 0
      OBVIOUS
    <3> QED BY <3>2, <3>3, Zenon
  <2>6. CASE took
    <3>1. wpend' = TRUE /\ wpend = FALSE /\ ends = FALSE /\ took = TRUE
      BY <1>4, <2>2, <2>3, <2>6, Zenon
    <3>2. One(wpend') = 1 /\ One(wpend) = 0 /\ One(ends) = 0 /\ One(took) = 1
      BY <2>4, <3>1, Zenon
    <3>3. 1 = 0 - 0 + 1
      OBVIOUS
    <3> QED BY <3>2, <3>3, Zenon
  <2>7. CASE ~ends /\ ~took
    <3>1. wpend' = wpend
      <4>1. CASE wpend = TRUE
        BY <2>2, <2>7, <4>1, Zenon
      <4>2. CASE wpend = FALSE
        BY <2>2, <2>7, <4>2, Zenon
      <4> QED BY <1>3, <4>1, <4>2
    <3>2. PICK n \in Nat : n = One(wpend) /\ n = One(wpend')
      BY <3>1 DEF One
    <3>3. One(ends) = 0 /\ One(took) = 0
      BY <2>7 DEF One
    <3>4. n = n - 0 + 0
      BY <3>2
    <3> QED BY <3>2, <3>3, <3>4, Zenon
  <2> QED BY <2>5, <2>6, <2>7
<1> HIDE DEF ends, closes
<1>11. /\ One(took) \in Nat /\ One(aw) \in Nat /\ One(wpend) \in Nat
       /\ One(ends) \in Nat /\ One(closes) \in Nat /\ Lasts(w_in) \in Nat
  BY DEF One, Lasts, Counts
<1>12. Lasts(w_in) + Len(open) = Len(aw_in) + One(wpend)
  BY DEF BeatsFollow
<1>13. PICK c \in Nat, e \in Nat, k \in Nat, n \in Nat :
         c = One(closes) /\ e = One(ends) /\ k = One(took) /\ n = One(aw)
  BY <1>11
<1>14. PICK a \in Nat, l \in Nat, m \in Nat, p \in Nat :
         a = Lasts(w_in) /\ l = Len(open) /\ m = Len(aw_in) /\ p = One(wpend)
  BY <1>7, <1>8, <1>11
<1>15. /\ Lasts(w_in') = a - e + c /\ Len(open') = l - c + n
       /\ Len(aw_in') = m - k + n /\ One(wpend') = p - e + k
  BY <1>7, <1>8, <1>9, <1>10, <1>13, <1>14, Zenon
<1>16. a + l = m + p
  BY <1>12, <1>14, Zenon
<1>17. (a - e + c) + (l - c + n) = (m - k + n) + (p - e + k)
  BY <1>16
<1>18. Lasts(w_in') + Len(open') = Len(aw_in') + One(wpend')
  BY <1>15, <1>17, Zenon
<1> QED BY <1>18 DEF BeatsFollow

-----------------------------------------------------------------------------
(* Something that is waited for can take its next step: a cycle grants,    *)
(* passes, drops, decides or answers something, or counts the hold down,   *)
(* or memory has something to land, to serve or to answer.                 *)
Decides == Offered(aw_in) /\ Locked /\ xk = "none"
Lands == out # <<>> /\ (Len(out) > 1 \/ ~wpend \/ wdrop)

Moves ==
  \/ ArGo(Room(ar_in)) \/ AwGo(Room(aw_in)) \/ held
  \/ Room(w_in) /\ WGo(TRUE)
  \/ PassRead \/ Decides \/ Pass \/ Absorb \/ BeatGo \/ Inject \/ AnswerGo
  \/ reading # {} \/ sampled # {} \/ Lands
  \/ landed # {} /\ Room(b_in)

NeverStuck == (\E h \in Hosts : hart[h].op # "none") => Moves

LEMMA NoMove ==
  ASSUME ~Moves
  PROVE  /\ ~ArGo(Room(ar_in)) /\ ~AwGo(Room(aw_in)) /\ ~held
         /\ ~(Room(w_in) /\ WGo(TRUE))
         /\ ~PassRead /\ ~Decides /\ ~Pass /\ ~Absorb /\ ~BeatGo /\ ~Inject /\ ~AnswerGo
         /\ reading = {} /\ sampled = {} /\ ~Lands
         /\ ~(landed # {} /\ Room(b_in))
BY Zenon DEF Moves

LEMMA RoomEmpty == Room(<<>>)
<1>1. Len(<<>>) = 0
  OBVIOUS
<1> QED BY <1>1 DEF Room

(* From memory back to the harts: nothing is left anywhere.                *)
LEMMA AllStill ==
  ASSUME MonInv, BeatsFollow, ~Moves
  PROVE  \A h \in Hosts : hart[h].op = "none"
<1>1. /\ Queued(ar_in) /\ Queued(aw_in) /\ Queued(b_in) /\ Queued(out)
      /\ TypeOK /\ LinkHeld /\ BeatsShown
      /\ w_in \in Seq(BOOLEAN) /\ wpend \in BOOLEAN /\ binj \in BOOLEAN
      /\ wids \subseteq Hosts /\ Len(open) \in Nat /\ Len(aw_in) \in Nat
  <2>1. Queued(aw_in) /\ Len(<<>>) = 0
    BY DEF MonInv, Lined
  <2>2. Len(aw_in) \in Nat
    BY <2>1, QueuedHead
  <2>3. Len(open) \in Nat
    BY DEF MonInv, Inv, TypeOK
  <2> QED BY <2>2, <2>3 DEF MonInv, Inv, Lined, MonTypeOK
<1>2. b_in = <<>>
  BY NoMove DEF AnswerGo, Offered
<1>3. landed = {}
  BY <1>2, NoMove, RoomEmpty
<1>4. ~wpend
  <2> SUFFICES ASSUME wpend PROVE FALSE
    OBVIOUS
  <2>1. w_in = <<>>
    BY NoMove DEF BeatGo, Offered
  <2>2. Lasts(w_in) = 0 /\ One(wpend) = 1
    BY <2>1, CountsShort DEF Lasts, One
  <2>3. Len(open) # 0
    <3>1. 0 + Len(open) = Len(aw_in) + 1
      BY <2>2, Zenon DEF BeatsFollow
    <3> QED BY <1>1, <3>1
  <2>4. wbusy
    BY <1>1, <2>3 DEF LinkHeld
  <2>5. WGo(TRUE)
    <3>1. wsel = {open[1].who} /\ open[1].who \in Hosts /\ open[1].len \in Nat \ {0}
      BY <1>1, <2>4, OpenOne DEF LinkHeld
    <3>2. Len(beats[open[1].who]) >= open[1].len
      BY <2>4, InvBursts DEF MonInv, BurstsWhole
    <3>3. beats[open[1].who] # <<>>
      BY <3>1, <3>2
    <3> QED BY <2>4, <3>1, <3>3 DEF WGo
  <2> QED BY <2>1, <2>5, NoMove, RoomEmpty
<1>5. out = <<>>
  BY <1>4, NoMove DEF Lands
<1>6. wids = {}
  BY <1>1, <1>2, <1>3, <1>5, OfShort DEF MonInv, Known, OnItsWay
<1>7. ~binj /\ ar_in = <<>>
  BY <1>6, NoMove DEF Inject, PassRead, quiet, Offered
<1>8. aw_in = <<>>
  <2> SUFFICES ASSUME aw_in # <<>> PROVE FALSE
    OBVIOUS
  <2>1. Take
    BY <1>4, <1>7, NoMove DEF Take, Decides, Offered
  <2>2. Len(out) < 2
    BY <1>5, RoomEmpty DEF Room
  <2> QED BY <2>1, <2>2, NoMove DEF Pass, Absorb
<1>9. ~wbusy
  <2> SUFFICES ASSUME wbusy PROVE FALSE
    OBVIOUS
  <2>1. Len(open) = 1 /\ Len(aw_in) = 0 /\ One(wpend) = 0 /\ Lasts(w_in) \in Nat
    BY <1>1, <1>4, <1>8, OpenOne DEF One, Lasts, Counts
  <2>2. Lasts(w_in) + 1 = 0 + 0
    BY <2>1, Zenon DEF BeatsFollow
  <2> QED BY <2>1, <2>2
<1>10. \A h \in Hosts : ars[h] = NoReq /\ aws[h] = NoReq
  <2>1. ArOffers = {}
    BY <1>7, NoMove, RoomEmpty DEF ArGo
  <2>2. AwOffers = {}
    BY <1>8, <1>9, NoMove, RoomEmpty DEF AwGo
  <2> QED BY <2>1, <2>2, NoMove DEF ArOffers, AwOffers
<1> SUFFICES ASSUME NEW h \in Hosts PROVE hart[h].op = "none"
  OBVIOUS
<1>11. hart[h].op # "lr"
  BY <1>7, <1>10, NoMove, OfShort DEF MonInv, ReadsPlaced
<1>12. hart[h].op \notin {"sc", "write"}
  <2>1. ~Dropped(h)
    BY <1>4, <1>7 DEF Dropped
  <2> QED BY <1>2, <1>3, <1>5, <1>8, <1>10, <2>1, OfShort DEF MonInv, WritesPlaced
<1>13. hart[h].op \in {"none", "lr", "sc", "write"}
  BY DEF MonInv, MonTypeOK
<1> QED BY <1>11, <1>12, <1>13

(* The arbiter and the monitor cannot wait for one another: while a host   *)
(* has an access open, one of them, or memory, can take the next step with *)
(* it, or a hold that keeps it out is running down.  The hold, the read's  *)
(* wait for quiet and the failed write's wait for the answers before its   *)
(* own close no circle (quiet, binj, xk, held).                            *)
THEOREM ExclusiveNeverStuck == MonSpec => []NeverStuck
<1>1. MonInit => BeatsFollow
  <2> SUFFICES ASSUME MonInit PROVE BeatsFollow
    OBVIOUS
  <2>1. w_in = <<>> /\ open = <<>> /\ aw_in = <<>> /\ wpend = FALSE
    BY DEF MonInit, Init
  <2>2. Lasts(w_in) = 0 /\ Len(open) = 0 /\ Len(aw_in) = 0 /\ One(wpend) = 0
    BY <2>1, CountsShort DEF Lasts, One
  <2> QED BY <2>2 DEF BeatsFollow
<1>2. MonInv /\ BeatsFollow /\ [MonNext]_all => BeatsFollow'
  <2> SUFFICES ASSUME MonInv, BeatsFollow, [MonNext]_all PROVE BeatsFollow'
    OBVIOUS
  <2>1. CASE \E beat \in BOOLEAN, r \in AtMostOne(sampled) :
               (beat => wbusy /\ Room(w_in)) /\ MonCycle(beat, r)
    <3>1. PICK beat \in BOOLEAN, r \in AtMostOne(sampled) :
            (beat => wbusy /\ Room(w_in)) /\ MonCycle(beat, r)
      BY <2>1
    <3>2. r \in SUBSET sampled
      BY DEF AtMostOne
    <3> QED BY <3>1, <3>2, CycleBeats
  <2>2. CASE UNCHANGED <<open, aw_in, w_in, wpend>>
    BY <2>2 DEF BeatsFollow, Lasts, Counts
  <2>3. Land \/ (\E h \in Hosts : Sample(h) \/ Respond(h)) \/ UNCHANGED all
          => UNCHANGED <<open, aw_in, w_in, wpend>>
    BY DEF Land, Sample, Respond, all, vars, world, monitor, inputs
  <2>4. (\E h \in Hosts : \/ StoreConditional(h)
                          \/ \E l \in Lines : LoadReserved(h, l) \/ Write(h, l))
          => UNCHANGED <<open, aw_in, w_in, wpend>>
    BY DEF StoreConditional, LoadReserved, Write, OfferRead, OfferWrite, monitor, inputs
  <2> QED BY <2>1, <2>2, <2>3, <2>4 DEF MonNext
<1>3. MonInv /\ BeatsFollow => NeverStuck
  BY AllStill DEF NeverStuck
<1> QED BY <1>1, <1>2, <1>3, MonInvAlways, PTL DEF MonSpec
=============================================================================
