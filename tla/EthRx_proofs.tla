---------------------------- MODULE EthRx_proofs ----------------------------
(***************************************************************************)
(* Proofs about EthRx, for every length of bursts and of frames and every  *)
(* bound on their number.                                                  *)
(***************************************************************************)
EXTENDS EthRx, ModelLemmas

-----------------------------------------------------------------------------
(* Edges of a channel.                                                     *)
LEMMA ItemSeq ==
  ASSUME NEW S, NEW really \in BOOLEAN, NEW e, really => e \in S
  PROVE  /\ Item(really, e) \in Seq(S) /\ Len(Item(really, e)) <= 1
         /\ Len(Item(really, e)) = IF really THEN 1 ELSE 0
         /\ really => Item(really, e)[1] = e
<1>1. CASE really
  <2> DEFINE t == <<e>>
  <2>1. Item(really, e) = t
    BY <1>1 DEF Item
  <2>2. e \in S /\ t \in Seq(S) /\ Len(t) = 1 /\ t[1] = e
    BY <1>1
  <2> HIDE DEF t
  <2>3. t \in Seq(S) /\ Len(t) <= 1 /\ Len(t) = 1 /\ t[1] = e
    BY <2>2
  <2> QED BY <1>1, <2>1, <2>3
<1>2. CASE ~really
  <2>1. Item(really, e) = <<>>
    BY <1>2 DEF Item
  <2> QED BY <1>2, <2>1
<1> QED BY <1>1, <1>2

-----------------------------------------------------------------------------
(* The types.  A frame that is offered is within the bound, and a burst is *)
(* under way as long as it has beats left.                                 *)
Small ==
  /\ offer # 0 => sent < MaxFrames
  /\ store.busy <=> store.left # 0

TypeInv == TypeOK /\ Small

LEMMA InitType == Init => TypeInv
<1> SUFFICES ASSUME Init PROVE TypeInv
  OBVIOUS
<1>1. 0 \in Frames /\ 0 \in Slots /\ 0 \in Ids /\ 0 \in 0..Beats /\ 0 \in Nat
  BY EthRxAssumption DEF Frames, Slots, Ids
<1>2. \A S : <<>> \in Seq(S) /\ Len(<<>>) = 0
  OBVIOUS
<1>3. TypeOK
  <2>1. /\ late \in BOOLEAN /\ offer \in Words \cup {0}
        /\ sent \in Nat /\ rcvd \in Nat
        /\ plic \in [pending : BOOLEAN, active : BOOLEAN, asserted : BOOLEAN]
        /\ seen \in [running : BOOLEAN, full : BOOLEAN, irq : BOOLEAN]
    BY DEF Init
  <2>2. fin \in [run : BOOLEAN, skip : BOOLEAN, left : Nat, n : Frames,
                 words : Nat, slot : Slots]
    BY <1>1 DEF Init
  <2>3. store \in [want : Nat, left : 0..Beats, busy : BOOLEAN, held : BOOLEAN,
                   id : Ids, slot : Slots]
    BY <1>1 DEF Init
  <2>4. /\ host \in [next : Ids, busy : SUBSET Ids]
        /\ burst \in [id : Ids, slot : Slots, left : 0..Beats, open : BOOLEAN]
        /\ mem \in [Slots -> [n : Frames, words : Nat]]
        /\ cpu \in [at : {"idle", "claim", "pending", "length", "slot", "copy"},
                    saw : Frames, n : Frames, slot : Slots,
                    ack : BOOLEAN, comp : BOOLEAN]
    BY <1>1 DEF Init, NoBurst
  <2>5. /\ eth \in [q : Seq([n : Frames, words : Nat, slot : Slots]),
                    rx_was : BOOLEAN]
        /\ Len(eth.q) <= 2
    BY <1>1, <1>2 DEF Init
  <2>6. /\ words = <<>> /\ issue = <<>> /\ grant = <<>> /\ done = <<>>
        /\ release = <<>> /\ aw = <<>> /\ w = <<>>
    BY DEF Init
  <2> QED BY <1>2, <2>1, <2>2, <2>3, <2>4, <2>5, <2>6 DEF TypeOK
<1>4. Small
  BY DEF Init, Small
<1> QED BY <1>3, <1>4 DEF TypeInv


(* What each unit makes of its registers, field by field.                  *)
LEMMA FinFields ==
  ASSUME TypeInv, NEW word \in BOOLEAN, FinStep(word)
  PROVE  /\ Begin => /\ fin'.run /\ fin'.left = offer /\ fin'.words = offer
                     /\ fin'.skip = SeenFull
                     /\ fin'.n = IF Accept THEN sent + 1 ELSE 0
                     /\ fin'.slot = IF Accept THEN 1 - fin.slot ELSE fin.slot
         /\ ~Begin => /\ fin'.skip = fin.skip /\ fin'.n = fin.n
                      /\ fin'.words = fin.words /\ fin'.slot = fin.slot
                      /\ fin'.left = IF Emit(word) THEN fin.left - 1
                                     ELSE IF Skip(word) THEN 0 ELSE fin.left
                      /\ fin'.run = IF Emit(word) \/ Skip(word) THEN fin.run
                                    ELSE fin.run /\ fin.left # 0
         /\ sent' = IF Accept THEN sent + 1 ELSE sent
<1>1. fin \in [run : BOOLEAN, skip : BOOLEAN, left : Nat, n : Frames,
               words : Nat, slot : Slots]
  BY DEF TypeInv, TypeOK
<1>2. CASE Begin
  BY <1>2 DEF FinStep
<1>3. CASE ~Begin
  <2>1. CASE Emit(word)
    <3>1. fin' = [fin EXCEPT !.left = @ - 1]
      BY <1>3, <2>1 DEF FinStep
    <3> QED BY <1>1, <1>3, <2>1, <3>1 DEF FinStep, Accept
  <2>2. CASE ~Emit(word) /\ Skip(word)
    <3>1. fin' = [fin EXCEPT !.left = 0]
      BY <1>3, <2>2 DEF FinStep
    <3> QED BY <1>1, <1>3, <2>2, <3>1 DEF FinStep, Accept
  <2>3. CASE ~Emit(word) /\ ~Skip(word) /\ fin.left = 0
    <3>1. fin' = [fin EXCEPT !.run = FALSE]
      BY <1>3, <2>3 DEF FinStep
    <3> QED BY <1>1, <1>3, <2>3, <3>1 DEF FinStep, Accept
  <2>4. CASE ~Emit(word) /\ ~Skip(word) /\ fin.left # 0
    <3>1. fin' = fin
      BY <1>3, <2>4 DEF FinStep
    <3>2. fin.run \in BOOLEAN
      BY <1>1
    <3> QED BY <1>3, <2>4, <3>1, <3>2 DEF FinStep, Accept
  <2> QED BY <2>1, <2>2, <2>3, <2>4
<1> QED BY <1>2, <1>3

(* The engine sends a burst or a beat in a cycle, never both.              *)
LEMMA StoreFields ==
  ASSUME TypeInv, StoreStep
  PROVE  /\ store'.want = IF StartRun THEN fin.words
                          ELSE IF Send THEN store.want - Burst ELSE store.want
         /\ store'.left = IF Beat THEN store.left - 1
                          ELSE IF Send THEN Burst ELSE store.left
         /\ store'.held = IF Fin THEN FALSE ELSE Offered(grant) \/ store.held
         /\ store'.id = IF Offered(grant) THEN Head(grant) ELSE store.id
         /\ store'.slot = IF StartRun THEN fin.slot ELSE store.slot
         /\ store'.busy <=> store'.left # 0
         /\ store'.busy \in BOOLEAN /\ store'.held \in BOOLEAN
         /\ Send => Burst \in 1..Beats /\ Burst <= store.want /\ ~Beat
         /\ Beat => store.left \in 1..Beats
         /\ StartRun => ~Send /\ ~Beat
<1>1. /\ store.want \in Nat /\ store.left \in 0..Beats /\ store.busy \in BOOLEAN
      /\ store.held \in BOOLEAN /\ (store.busy <=> store.left # 0)
      /\ Beats \in Nat \ {0}
  BY EthRxAssumption DEF TypeInv, TypeOK, Small
<1>2. /\ store'.want = IF StartRun THEN fin.words
                       ELSE IF Send THEN store.want - Burst ELSE store.want
      /\ store'.left = IF Beat THEN store.left - 1
                       ELSE IF Send THEN Burst ELSE store.left
      /\ store'.held = IF Fin THEN FALSE ELSE Offered(grant) \/ store.held
      /\ store'.id = IF Offered(grant) THEN Head(grant) ELSE store.id
      /\ store'.slot = IF StartRun THEN fin.slot ELSE store.slot
      /\ store'.busy = IF LastBeat THEN FALSE ELSE Send \/ store.busy
  BY DEF StoreStep
<1>3. Send => Burst \in 1..Beats /\ Burst <= store.want /\ ~Beat
  BY <1>1 DEF Send, Beat, Burst
<1>4. Beat => store.left \in 1..Beats /\ store.busy /\ ~Send
  BY <1>1 DEF Beat, Send
<1>5. StartRun => ~Send /\ ~Beat
  BY DEF StartRun, Running, Send, Beat
<1>6. store'.busy <=> store'.left # 0
  <2>1. CASE Beat
    BY <1>1, <1>2, <1>4, <2>1 DEF LastBeat
  <2>2. CASE Send
    <3>1. ~Beat /\ Burst # 0
      BY <1>3, <2>2
    <3> QED BY <1>2, <2>2, <3>1 DEF LastBeat
  <2>3. CASE ~Beat /\ ~Send
    BY <1>1, <1>2, <2>3 DEF LastBeat
  <2> QED BY <2>1, <2>2, <2>3
<1>7. store'.busy \in BOOLEAN /\ store'.held \in BOOLEAN
  BY <1>1, <1>2 DEF LastBeat
<1> QED BY <1>2, <1>3, <1>4, <1>5, <1>6, <1>7

LEMMA QueueStep ==
  ASSUME TypeInv, NEW acked \in BOOLEAN, EthStep(acked)
  PROVE  LET p == IF Pop(acked) THEN 1 ELSE 0
             a == IF Arrived /\ Len(eth.q) - p < 2 THEN 1 ELSE 0
         IN /\ eth'.q \in Seq([n : Frames, words : Nat, slot : Slots])
            /\ Len(eth'.q) = (Len(eth.q) - p) + a /\ Len(eth'.q) <= 2
            /\ \A k \in 1..Len(eth'.q) :
                 eth'.q[k] = IF k <= Len(eth.q) - p THEN eth.q[k + p] ELSE Arrival
            /\ p <= Len(eth.q)
            /\ eth'.rx_was = SeenRunning /\ SeenRunning \in BOOLEAN
            /\ rcvd' = rcvd + p
<1> DEFINE R == [n : Frames, words : Nat, slot : Slots]
           q == eth.q
           p == IF Pop(acked) THEN 1 ELSE 0
           rest == IF Pop(acked) THEN Tail(q) ELSE q
           more == Arrived /\ Len(q) - p < 2
           a == IF more THEN 1 ELSE 0
           e == Arrival
<1>1. q \in Seq(R) /\ Len(q) \in Nat /\ Len(q) <= 2 /\ rcvd \in Nat /\ e \in R
  BY DEF TypeInv, TypeOK, Arrival
<1>2. eth'.q = IF Arrived /\ Len(rest) < 2 THEN Append(rest, e) ELSE rest
  BY DEF EthStep, Waiting
<1>3. eth'.rx_was = SeenRunning /\ rcvd' = rcvd + p
  BY <1>1 DEF EthStep
<1>4. SeenRunning \in BOOLEAN
  BY DEF SeenRunning, Running, TypeInv, TypeOK
<1>5. Pop(acked) => q # <<>>
  BY DEF Pop
<1> DEFINE q2 == eth'.q
<1> HIDE DEF q, q2, e, R
<1>6. /\ rest \in Seq(R) /\ Len(rest) = Len(q) - p /\ p <= Len(q)
      /\ \A k \in 1..Len(rest) : rest[k] = q[k + p]
  BY <1>1, <1>5, HeadTailProperties
<1>7. p \in 0..1 /\ Len(rest) \in Nat /\ Len(rest) <= 2
  BY <1>1, <1>6
<1> HIDE DEF rest, p
<1>8. CASE more
  <2>1. q2 = Append(rest, e) /\ Len(rest) < 2 /\ a = 1
    BY <1>2, <1>6, <1>8 DEF q2
  <2>2. /\ q2 \in Seq(R) /\ Len(q2) = Len(rest) + 1
        /\ \A k \in 1..Len(rest) : q2[k] = rest[k]
        /\ q2[Len(rest) + 1] = e
    BY <1>1, <1>6, <2>1, AppendProperties
  <2>3. ASSUME NEW k \in 1..Len(q2)
        PROVE  q2[k] = IF k <= Len(q) - p THEN q[k + p] ELSE e
    <3>1. CASE k <= Len(rest)
      BY <1>6, <1>7, <2>2, <3>1
    <3>2. CASE ~(k <= Len(rest))
      <4>1. k = Len(rest) + 1
        BY <1>7, <2>2, <3>2
      <4> QED BY <1>6, <2>2, <3>2, <4>1
    <3> QED BY <3>1, <3>2
  <2>4. Len(q2) = (Len(q) - p) + a /\ Len(q2) <= 2
    <3> HIDE DEF a
    <3> QED BY <1>6, <1>7, <2>1, <2>2
  <2> QED BY <1>3, <1>4, <1>6, <2>2, <2>3, <2>4 DEF a, p, q, q2, e, R
<1>9. CASE ~more
  <2>1. q2 = rest /\ a = 0
    BY <1>2, <1>6, <1>9 DEF q2
  <2>2. \A k \in 1..Len(q2) : q2[k] = IF k <= Len(q) - p THEN q[k + p] ELSE e
    BY <1>6, <2>1
  <2>3. Len(q2) = (Len(q) - p) + a /\ Len(q2) <= 2 /\ q2 \in Seq(R)
    <3> HIDE DEF a
    <3> QED BY <1>1, <1>6, <1>7, <2>1
  <2> QED BY <1>3, <1>4, <1>6, <2>2, <2>3 DEF a, p, q, q2, e, R
<1> QED BY <1>8, <1>9


(* A channel of two, as up to one goes out and up to one comes in.         *)
LEMMA EdgeItem ==
  ASSUME NEW S, NEW c \in Seq(S), NEW took \in BOOLEAN, took => c # <<>>,
         NEW really \in BOOLEAN, NEW e, really => e \in S
  PROVE  Edge(c, took, Item(really, e)) \in Seq(S)
<1> DEFINE in == Item(really, e)  rest == IF took THEN Tail(c) ELSE c
<1>1. in \in Seq(S)
  BY ItemSeq
<1>2. rest \in Seq(S)
  BY HeadTailProperties
<1>3. Edge(c, took, in) = rest \o in
  BY DEF Edge
<1> HIDE DEF in, rest
<1>4. rest \o in \in Seq(S)
  BY <1>1, <1>2, ConcatProperties
<1> QED BY <1>3, <1>4 DEF in

LEMMA EdgeLen ==
  ASSUME NEW S, NEW c \in Seq(S), NEW took \in BOOLEAN, took => c # <<>>,
         NEW really \in BOOLEAN, NEW e, really => e \in S
  PROVE  /\ took /\ ~really => Len(Edge(c, took, Item(really, e))) = Len(c) - 1
         /\ ~took /\ really => Len(Edge(c, took, Item(really, e))) = Len(c) + 1
         /\ took /\ really => Len(Edge(c, took, Item(really, e))) = Len(c)
         /\ ~took /\ ~really => Len(Edge(c, took, Item(really, e))) = Len(c)
<1> DEFINE in == Item(really, e)  rest == IF took THEN Tail(c) ELSE c
<1>1. in \in Seq(S) /\ (really => Len(in) = 1) /\ (~really => Len(in) = 0)
  BY ItemSeq
<1>2. rest \in Seq(S) /\ (took => Len(rest) = Len(c) - 1) /\ (~took => Len(rest) = Len(c))
  BY HeadTailProperties
<1>3. Edge(c, took, in) = rest \o in
  BY DEF Edge
<1> HIDE DEF in, rest
<1>4. Len(rest \o in) = Len(rest) + Len(in)
  BY <1>1, <1>2, ConcatProperties
<1> DEFINE a == Len(rest)  b == Len(in)  n == Len(c)  e2 == Len(Edge(c, took, in))
<1>5. /\ n \in Nat /\ e2 = a + b
      /\ (really => b = 1) /\ (~really => b = 0) /\ (took => a = n - 1) /\ (~took => a = n)
  BY <1>1, <1>2, <1>3, <1>4
<1> HIDE DEF a, b, n, e2
<1>6. /\ took /\ ~really => e2 = n - 1
      /\ ~took /\ really => e2 = n + 1
      /\ took /\ really => e2 = n
      /\ ~took /\ ~really => e2 = n
  BY <1>5
<1> QED BY <1>6 DEF n, e2, in

LEMMA WiresBoolean ==
  ASSUME TypeInv, NEW word \in BOOLEAN, NEW takes \in BOOLEAN,
         NEW lands \in BOOLEAN, NEW answers \in BOOLEAN
  PROVE  /\ Emit(word) \in BOOLEAN /\ Beat \in BOOLEAN /\ Send \in BOOLEAN
         /\ HostGo \in BOOLEAN /\ Take(takes) \in BOOLEAN /\ Land(lands) \in BOOLEAN
         /\ Answer(answers) \in BOOLEAN /\ Fin \in BOOLEAN
         /\ Offered(grant) \in BOOLEAN /\ Offered(release) \in BOOLEAN
         /\ Running \in BOOLEAN /\ Full \in BOOLEAN /\ Irq \in BOOLEAN
         /\ SeenRunning \in BOOLEAN /\ SeenFull \in BOOLEAN /\ SeenIrq \in BOOLEAN
BY DEF TypeInv, TypeOK, Emit, Go, Beat, Send, HostGo, Free, Take, Land, Answer, Fin,
       Offered, Room, Running, Full, Irq, SeenRunning, SeenFull, SeenIrq

(* How the two channels of words grow and shrink.                          *)
LEMMA WordLens ==
  ASSUME TypeInv, NEW word \in BOOLEAN, NEW takes \in BOOLEAN,
         NEW lands \in BOOLEAN, NEW answers \in BOOLEAN,
         Channels(word, takes, lands, answers)
  PROVE  /\ Beat /\ ~Emit(word) => Len(words') = Len(words) - 1
         /\ ~Beat /\ Emit(word) => Len(words') = Len(words) + 1
         /\ Beat /\ Emit(word) => Len(words') = Len(words)
         /\ ~Beat /\ ~Emit(word) => Len(words') = Len(words)
         /\ Land(lands) /\ ~Beat => Len(w') = Len(w) - 1
         /\ ~Land(lands) /\ Beat => Len(w') = Len(w) + 1
         /\ Land(lands) /\ Beat => Len(w') = Len(w)
         /\ ~Land(lands) /\ ~Beat => Len(w') = Len(w)
<1>1. /\ \E b \in BOOLEAN : b = Beat
      /\ \E b \in BOOLEAN : b = Emit(word)
      /\ \E b \in BOOLEAN : b = Land(lands)
  BY WiresBoolean
<1>2. PICK beat \in BOOLEAN : beat = Beat
  BY <1>1
<1>3. PICK emits \in BOOLEAN : emits = Emit(word)
  BY <1>1
<1>4. PICK goes \in BOOLEAN : goes = Land(lands)
  BY <1>1
<1>5. /\ words \in Seq(Frames) /\ w \in Seq(Frames) /\ fin.n \in Frames
      /\ beat => words # <<>>
      /\ goes => w # <<>>
  BY <1>2, <1>4 DEF TypeInv, TypeOK, Beat, Land, Offered
<1>6. beat => Head(words) \in Frames
  BY <1>5, HeadTailProperties
<1> DEFINE W == Edge(words, beat, Item(emits, fin.n))
           V == Edge(w, goes, Item(beat, Head(words)))
<1>7. /\ beat /\ ~emits => Len(W) = Len(words) - 1
      /\ ~beat /\ emits => Len(W) = Len(words) + 1
      /\ beat /\ emits => Len(W) = Len(words)
      /\ ~beat /\ ~emits => Len(W) = Len(words)
  <2>1. words \in Seq(Frames) /\ fin.n \in Frames
    BY <1>5
  <2>2. beat => words # <<>>
    BY <1>5
  <2> QED BY <2>1, <2>2, EdgeLen
<1>8. /\ goes /\ ~beat => Len(V) = Len(w) - 1
      /\ ~goes /\ beat => Len(V) = Len(w) + 1
      /\ goes /\ beat => Len(V) = Len(w)
      /\ ~goes /\ ~beat => Len(V) = Len(w)
  <2>1. w \in Seq(Frames)
    BY <1>5
  <2>2. goes => w # <<>>
    BY <1>5
  <2> QED BY <1>6, <2>1, <2>2, EdgeLen
<1>9. words' = W /\ w' = V
  BY <1>2, <1>3, <1>4 DEF Channels, Item
<1> HIDE DEF W, V
<1> QED BY <1>2, <1>3, <1>4, <1>7, <1>8, <1>9

LEMMA ChannelTypes ==
  ASSUME TypeInv, NEW word \in BOOLEAN, NEW takes \in BOOLEAN,
         NEW lands \in BOOLEAN, NEW answers \in BOOLEAN,
         Channels(word, takes, lands, answers)
  PROVE  /\ words' \in Seq(Frames) /\ Len(words') <= 2
         /\ issue' \in Seq([slot : Slots, left : 1..Beats])
         /\ grant' \in Seq(Ids) /\ done' \in Seq(Ids) /\ release' \in Seq(Ids)
         /\ aw' \in Seq([id : Ids, slot : Slots, left : 0..Beats, open : BOOLEAN])
         /\ w' \in Seq(Frames) /\ Len(w') <= 4
<1> USE DEF Offered
<1>1. /\ fin.n \in Frames /\ store.want \in Nat /\ store.id \in Ids
      /\ store.slot \in Slots /\ host.next \in Ids /\ burst.id \in Ids
      /\ words \in Seq(Frames) /\ Len(words) <= 2
      /\ issue \in Seq([slot : Slots, left : 1..Beats])
      /\ grant \in Seq(Ids) /\ done \in Seq(Ids) /\ release \in Seq(Ids)
      /\ aw \in Seq([id : Ids, slot : Slots, left : 0..Beats, open : BOOLEAN])
      /\ w \in Seq(Frames) /\ Len(w) <= 4
      /\ Beats \in Nat \ {0}
  BY EthRxAssumption DEF TypeInv, TypeOK
<1>2. words' \in Seq(Frames) /\ Len(words') <= 2
  <2>1. words' = Edge(words, Beat, Item(Emit(word), fin.n))
    BY DEF Channels
  <2>2. Beat => words # <<>>
    BY DEF Beat
  <2>3. Emit(word) => Len(words) < 2
    BY DEF Emit, Room
  <2>6. words' \in Seq(Frames)
    BY <1>1, <2>1, <2>2, WiresBoolean, EdgeItem
  <2>5. Len(words) \in Nat
    BY <1>1
  <2>4. /\ Emit(word) => Len(words') <= Len(words) + 1
        /\ ~Emit(word) => Len(words') <= Len(words)
    BY <2>5, WordLens
  <2> QED BY <1>1, <2>3, <2>4, <2>5, <2>6
<1>3. issue' \in Seq([slot : Slots, left : 1..Beats])
  <2>1. issue' = Edge(issue, HostGo, Item(Send, [slot |-> store.slot, left |-> Burst]))
    BY DEF Channels
  <2>2. HostGo => issue # <<>>
    BY DEF HostGo
  <2>3. Send => [slot |-> store.slot, left |-> Burst] \in [slot : Slots, left : 1..Beats]
    BY <1>1 DEF Send, Burst
  <2> QED BY <1>1, <2>1, <2>2, <2>3, WiresBoolean, EdgeItem
<1>4. grant' \in Seq(Ids)
  BY <1>1, WiresBoolean, EdgeItem DEF Channels
<1>5. done' \in Seq(Ids)
  <2>1. Fin => done # <<>>
    BY DEF Fin
  <2> QED BY <1>1, <2>1, WiresBoolean, EdgeItem DEF Channels
<1>6. release' \in Seq(Ids)
  BY <1>1, WiresBoolean, EdgeItem DEF Channels
<1>7. aw' \in Seq([id : Ids, slot : Slots, left : 0..Beats, open : BOOLEAN])
  <2> DEFINE A == [id : Ids, slot : Slots, left : 0..Beats, open : BOOLEAN]
  <2>1. aw' = Edge(aw, Take(takes), Item(HostGo, Granted))
    BY DEF Channels, Item
  <2>2. Take(takes) => aw # <<>>
    BY DEF Take
  <2>3. HostGo => Granted \in A
    <3>1. HostGo => issue # <<>>
      BY DEF HostGo
    <3>2. issue # <<>> => Head(issue) \in [slot : Slots, left : 1..Beats]
      BY <1>1, HeadTailProperties
    <3> QED BY <1>1, <3>1, <3>2 DEF Granted
  <2>4. aw \in Seq(A)
    BY <1>1
  <2> HIDE DEF A
  <2>5. aw' \in Seq(A)
    BY <2>1, <2>2, <2>3, <2>4, WiresBoolean, EdgeItem
  <2> QED BY <2>5 DEF A
<1>8. w' \in Seq(Frames) /\ Len(w') <= 4
  <2>1. w' = Edge(w, Land(lands), Item(Beat, Head(words)))
    BY DEF Channels, Item
  <2>2. Land(lands) => w # <<>>
    BY DEF Land
  <2>3. Beat => Head(words) \in Frames /\ Len(w) < 4
    BY <1>1 DEF Beat
  <2>6. w' \in Seq(Frames)
    BY <1>1, <2>1, <2>2, <2>3, WiresBoolean, EdgeItem
  <2>5. Len(w) \in Nat
    BY <1>1
  <2>4. /\ Beat => Len(w') <= Len(w) + 1
        /\ ~Beat => Len(w') <= Len(w)
    BY <2>5, WordLens
  <2> QED BY <1>1, <2>3, <2>4, <2>5, <2>6
<1> QED BY <1>2, <1>3, <1>4, <1>5, <1>6, <1>7, <1>8


LEMMA MemTypes ==
  ASSUME TypeInv, NEW takes \in BOOLEAN, NEW lands \in BOOLEAN,
         NEW answers \in BOOLEAN, MemStep(takes, lands, answers)
  PROVE  /\ burst' \in [id : Ids, slot : Slots, left : 0..Beats, open : BOOLEAN]
         /\ mem' \in [Slots -> [n : Frames, words : Nat]]
<1> DEFINE B == [id : Ids, slot : Slots, left : 0..Beats, open : BOOLEAN]
<1>1. /\ burst \in B /\ aw \in Seq(B) /\ w \in Seq(Frames)
      /\ mem \in [Slots -> [n : Frames, words : Nat]]
      /\ Beats \in Nat \ {0}
  BY EthRxAssumption DEF TypeInv, TypeOK
<1>2. burst' \in B
  <2>1. Take(takes) => Head(aw) \in B
    <3>1. aw # <<>> => Head(aw) \in B
      BY <1>1, HeadTailProperties
    <3> QED BY <3>1 DEF Take, Offered
  <2>2. Land(lands) => [burst EXCEPT !.left = @ - 1] \in B
    <3>1. Land(lands) => burst.left - 1 \in 0..Beats
      BY <1>1 DEF Land
    <3> QED BY <1>1, <3>1
  <2>3. NoBurst \in B
    BY <1>1 DEF NoBurst, Ids, Slots
  <2> HIDE DEF B
  <2> QED BY <1>1, <2>1, <2>2, <2>3 DEF MemStep
<1>3. mem' \in [Slots -> [n : Frames, words : Nat]]
  <2>1. CASE Land(lands)
    <3>1. Head(w) \in Frames
      BY <1>1, <2>1, HeadTailProperties DEF Land, Offered
    <3>2. mem' = Landed(Head(w), burst.slot)
      BY <2>1 DEF MemStep
    <3>3. burst.slot \in Slots
      BY <1>1
    <3> DEFINE s == burst.slot
               to == IF mem[s].n = Head(w) THEN mem[s].words + 1 ELSE 1
    <3>4. mem' = [mem EXCEPT ![s] = [n |-> Head(w), words |-> to]]
      BY <3>2 DEF Landed
    <3>5. to \in Nat
      BY <1>1, <3>3
    <3> HIDE DEF to
    <3> QED BY <1>1, <3>1, <3>3, <3>4, <3>5
  <2>2. CASE ~Land(lands)
    BY <1>1, <2>2 DEF MemStep
  <2> QED BY <2>1, <2>2
<1> QED BY <1>2, <1>3

LEMMA CpuType ==
  ASSUME TypeInv, NEW reads \in BOOLEAN, NEW down \in BOOLEAN, NEW acked \in BOOLEAN,
         NEW completed \in BOOLEAN, CpuStep(reads, down, acked, completed)
  PROVE  cpu' \in [at : {"idle", "claim", "pending", "length", "slot", "copy"},
                   saw : Frames, n : Frames, slot : Slots,
                   ack : BOOLEAN, comp : BOOLEAN]
<1> DEFINE C == [at : {"idle", "claim", "pending", "length", "slot", "copy"},
                 saw : Frames, n : Frames, slot : Slots,
                 ack : BOOLEAN, comp : BOOLEAN]
           next == Steps(reads, down)
<1>1. cpu \in C
  BY DEF TypeInv, TypeOK
<1>2. Oldest.n \in Frames /\ Oldest.slot \in Slots
  <2>1. CASE eth.q = <<>>
    BY <2>1, EthRxAssumption DEF Oldest, Frames, Slots
  <2>2. CASE eth.q # <<>>
    <3>1. eth.q[1] \in [n : Frames, words : Nat, slot : Slots]
      <4>1. eth.q \in Seq([n : Frames, words : Nat, slot : Slots])
        BY DEF TypeInv, TypeOK
      <4>2. 1 \in 1..Len(eth.q)
        BY <2>2, <4>1, EmptySeq
      <4> QED BY <4>1, <4>2, ElementOfSeq
    <3> QED BY <2>2, <3>1 DEF Oldest
  <2> QED BY <2>1, <2>2
<1>3. next \in C
  <2>1. 0 \in Frames
    BY EthRxAssumption DEF Frames
  <2> QED BY <1>1, <1>2, <2>1 DEF Steps, Claims
<1>4. cpu' = [next EXCEPT !.ack = @ /\ ~acked, !.comp = @ /\ ~completed]
  BY DEF CpuStep
<1> HIDE DEF next
<1> QED BY <1>3, <1>4

(* A cycle with what its environment chooses in it.                        *)
Inputs == [new : Words \cup {0}, word : BOOLEAN, takes : BOOLEAN, lands : BOOLEAN,
           answers : BOOLEAN, reads : BOOLEAN, down : BOOLEAN, acked : BOOLEAN,
           completed : BOOLEAN]

Ticks(i) == Tick(i.new, i.word, i.takes, i.lands, i.answers, i.reads, i.down,
                 i.acked, i.completed)

LEMMA TickParts ==
  ASSUME NEW i \in Inputs, Ticks(i)
  PROVE  /\ OfferStep(i.new) /\ FinStep(i.word) /\ StoreStep /\ HostStep
         /\ MemStep(i.takes, i.lands, i.answers)
         /\ Channels(i.word, i.takes, i.lands, i.answers)
         /\ EthStep(i.acked) /\ PlicStep(Claims(i.reads), i.completed)
         /\ CpuStep(i.reads, i.down, i.acked, i.completed)
         /\ seen' = (IF late THEN [running |-> Running, full |-> Full, irq |-> Irq]
                     ELSE seen)
         /\ late' = late
         /\ i.new \in Words \cup {0}
         /\ i.word \in BOOLEAN /\ i.takes \in BOOLEAN /\ i.lands \in BOOLEAN
         /\ i.answers \in BOOLEAN /\ i.reads \in BOOLEAN /\ i.down \in BOOLEAN
         /\ i.acked \in BOOLEAN /\ i.completed \in BOOLEAN
<1>1. /\ i.new \in Words \cup {0}
      /\ i.word \in BOOLEAN /\ i.takes \in BOOLEAN /\ i.lands \in BOOLEAN
      /\ i.answers \in BOOLEAN /\ i.reads \in BOOLEAN /\ i.down \in BOOLEAN
      /\ i.acked \in BOOLEAN /\ i.completed \in BOOLEAN
  BY DEF Inputs
<1> QED BY <1>1 DEF Ticks, Tick

LEMMA TickType ==
  ASSUME TypeInv, NEW i \in Inputs, Ticks(i)
  PROVE  TypeInv'
<1> DEFINE new == i.new  word == i.word  takes == i.takes  lands == i.lands
           answers == i.answers  reads == i.reads  down == i.down
           acked == i.acked  completed == i.completed
<1>1. /\ OfferStep(new) /\ FinStep(word) /\ StoreStep /\ HostStep
      /\ MemStep(takes, lands, answers) /\ Channels(word, takes, lands, answers)
      /\ EthStep(acked) /\ PlicStep(Claims(reads), completed)
      /\ CpuStep(reads, down, acked, completed)
      /\ seen' = (IF late THEN [running |-> Running, full |-> Full, irq |-> Irq]
                  ELSE seen)
      /\ late' = late
      /\ new \in Words \cup {0}
      /\ word \in BOOLEAN /\ takes \in BOOLEAN /\ lands \in BOOLEAN
      /\ answers \in BOOLEAN /\ reads \in BOOLEAN /\ down \in BOOLEAN
      /\ acked \in BOOLEAN /\ completed \in BOOLEAN
  BY TickParts
<1> HIDE DEF new, word, takes, lands, answers, reads, down, acked, completed
<1>2. /\ late \in BOOLEAN /\ offer \in Words \cup {0} /\ sent \in Nat /\ rcvd \in Nat
      /\ fin \in [run : BOOLEAN, skip : BOOLEAN, left : Nat, n : Frames,
                  words : Nat, slot : Slots]
      /\ store \in [want : Nat, left : 0..Beats, busy : BOOLEAN, held : BOOLEAN,
                    id : Ids, slot : Slots]
      /\ host \in [next : Ids, busy : SUBSET Ids]
      /\ issue \in Seq([slot : Slots, left : 1..Beats])
      /\ grant \in Seq(Ids)
      /\ plic \in [pending : BOOLEAN, active : BOOLEAN, asserted : BOOLEAN]
      /\ seen \in [running : BOOLEAN, full : BOOLEAN, irq : BOOLEAN]
      /\ Beats \in Nat \ {0} /\ Words \subseteq Nat \ {0} /\ MaxFrames \in Nat
      /\ offer # 0 => sent < MaxFrames
  BY EthRxAssumption DEF TypeInv, TypeOK, Small
<1>3. /\ offer' \in Words \cup {0} /\ (offer' # 0 => sent' < MaxFrames) /\ sent' \in Nat
  <2>1. Accept => Begin
    BY DEF Accept
  <2>2. sent' = IF Accept THEN sent + 1 ELSE sent
    BY <1>1 DEF FinStep
  <2>3. offer' = IF Begin THEN 0 ELSE IF new # 0 THEN new ELSE offer
    BY <1>1 DEF OfferStep
  <2>4. new # 0 => sent < MaxFrames
    BY <1>1 DEF OfferStep
  <2>5. offer' \in Words \cup {0}
    BY <1>1, <1>2, <2>3
  <2>6. ASSUME Begin PROVE offer' = 0 /\ sent' \in Nat
    BY <1>2, <2>2, <2>3, <2>6
  <2>7. ASSUME ~Begin PROVE sent' = sent /\ (offer' # 0 => sent < MaxFrames)
    BY <1>2, <2>1, <2>2, <2>3, <2>4, <2>7
  <2> QED BY <1>2, <2>5, <2>6, <2>7
<1>4. fin' \in [run : BOOLEAN, skip : BOOLEAN, left : Nat, n : Frames,
                words : Nat, slot : Slots]
  <2> DEFINE F == [run : BOOLEAN, skip : BOOLEAN, left : Nat, n : Frames,
                   words : Nat, slot : Slots]
  <2>1. CASE Begin
    <3> DEFINE n == IF Accept THEN sent + 1 ELSE 0
               slot == IF Accept THEN 1 - fin.slot ELSE fin.slot
    <3>1. offer \in Nat /\ sent < MaxFrames
      BY <1>2, <2>1 DEF Begin
    <3>2. n \in Frames /\ slot \in Slots /\ SeenFull \in BOOLEAN
      <4>1. n \in Frames
        BY <1>2, <3>1 DEF Frames
      <4>2. slot \in Slots
        BY <1>2 DEF Slots
      <4> QED BY <4>1, <4>2, WiresBoolean
    <3>3. fin' = [run |-> TRUE, skip |-> SeenFull, left |-> offer, n |-> n,
                  words |-> offer, slot |-> slot]
      BY <1>1, <2>1 DEF FinStep
    <3> HIDE DEF n, slot
    <3> QED BY <3>1, <3>2, <3>3
  <2>2. CASE ~Begin
    <3>1. Emit(word) => fin.left # 0
      BY DEF Emit
    <3>2. Emit(word) => [fin EXCEPT !.left = @ - 1] \in F
      <4>1. Emit(word) => fin.left - 1 \in Nat
        BY <1>2, <3>1
      <4> QED BY <1>2, <4>1
    <3>3. /\ [fin EXCEPT !.left = 0] \in F /\ [fin EXCEPT !.run = FALSE] \in F
          /\ fin \in F
      BY <1>2
    <3>4. fin' = IF Emit(word) THEN [fin EXCEPT !.left = @ - 1]
                 ELSE IF Skip(word) THEN [fin EXCEPT !.left = 0]
                 ELSE IF fin.left = 0 THEN [fin EXCEPT !.run = FALSE] ELSE fin
      BY <1>1, <2>2 DEF FinStep
    <3> HIDE DEF F
    <3>5. fin' \in F
      BY <3>2, <3>3, <3>4
    <3> QED BY <3>5 DEF F
  <2> QED BY <2>1, <2>2
<1>5. store' \in [want : Nat, left : 0..Beats, busy : BOOLEAN, held : BOOLEAN,
                  id : Ids, slot : Slots] /\ (store'.busy <=> store'.left # 0)
  <2>1. Offered(grant) => Head(grant) \in Ids
    <3>1. grant # <<>> => Head(grant) \in Ids
      BY <1>2, HeadTailProperties
    <3> QED BY <3>1 DEF Offered
  <2>2. /\ store'.busy \in BOOLEAN /\ store'.held \in BOOLEAN
        /\ (store'.busy <=> store'.left # 0)
    BY <1>1, StoreFields
  <2>3. store'.want \in Nat
    <3>1. Send => Burst \in 1..Beats /\ Burst <= store.want
      BY <1>1, StoreFields
    <3>2. store'.want = IF StartRun THEN fin.words
                        ELSE IF Send THEN store.want - Burst ELSE store.want
      BY <1>1, StoreFields
    <3> QED BY <1>2, <3>1, <3>2
  <2>4. store'.left \in 0..Beats
    <3>1. store'.left = IF Beat THEN store.left - 1
                        ELSE IF Send THEN Burst ELSE store.left
      BY <1>1, StoreFields
    <3>2. /\ Send => Burst \in 1..Beats
          /\ Beat => store.left \in 1..Beats
      BY <1>1, StoreFields
    <3> QED BY <1>2, <3>1, <3>2
  <2>5. /\ store'.id = IF Offered(grant) THEN Head(grant) ELSE store.id
        /\ store'.slot = IF StartRun THEN fin.slot ELSE store.slot
    BY <1>1, StoreFields
  <2>6. store'.id \in Ids /\ store'.slot \in Slots
    BY <1>2, <2>1, <2>5
  <2>7. store' = [want |-> store'.want, left |-> store'.left, busy |-> store'.busy,
                  held |-> store'.held, id |-> store'.id, slot |-> store'.slot]
    BY <1>1 DEF StoreStep
  <2> QED BY <2>2, <2>3, <2>4, <2>6, <2>7
<1>6. host' \in [next : Ids, busy : SUBSET Ids]
  BY <1>1, <1>2 DEF HostStep, Ids
<1>7. /\ plic' \in [pending : BOOLEAN, active : BOOLEAN, asserted : BOOLEAN]
      /\ seen' \in [running : BOOLEAN, full : BOOLEAN, irq : BOOLEAN]
  <2>1. Running \in BOOLEAN /\ Full \in BOOLEAN /\ Irq \in BOOLEAN /\ SeenIrq \in BOOLEAN
    BY WiresBoolean
  <2>2. seen' \in [running : BOOLEAN, full : BOOLEAN, irq : BOOLEAN]
    BY <1>1, <1>2, <2>1
  <2>3. /\ ((plic.pending /\ ~Claims(reads)) \/ Forward) \in BOOLEAN
        /\ ((plic.active /\ ~completed) \/ Forward) \in BOOLEAN
        /\ plic.pending \in BOOLEAN
    BY <1>2, <2>1 DEF Forward, Claims
  <2> QED BY <1>1, <2>2, <2>3 DEF PlicStep
<1>8. /\ eth' \in [q : Seq([n : Frames, words : Nat, slot : Slots]), rx_was : BOOLEAN]
      /\ Len(eth'.q) <= 2 /\ rcvd' \in Nat
  <2>1. eth' = [q |-> Waiting(acked), rx_was |-> SeenRunning]
    BY <1>1 DEF EthStep
  <2>2. /\ eth'.q \in Seq([n : Frames, words : Nat, slot : Slots])
        /\ Len(eth'.q) <= 2
    BY <1>1, QueueStep
  <2>3. SeenRunning \in BOOLEAN
    BY WiresBoolean
  <2>4. rcvd' \in Nat
    BY <1>1, <1>2 DEF EthStep
  <2> QED BY <2>1, <2>2, <2>3, <2>4
<1>9. /\ words' \in Seq(Frames) /\ Len(words') <= 2
      /\ issue' \in Seq([slot : Slots, left : 1..Beats])
      /\ grant' \in Seq(Ids) /\ done' \in Seq(Ids) /\ release' \in Seq(Ids)
      /\ aw' \in Seq([id : Ids, slot : Slots, left : 0..Beats, open : BOOLEAN])
      /\ w' \in Seq(Frames) /\ Len(w') <= 4
  BY <1>1, ChannelTypes
<1>10. /\ burst' \in [id : Ids, slot : Slots, left : 0..Beats, open : BOOLEAN]
       /\ mem' \in [Slots -> [n : Frames, words : Nat]]
  BY <1>1, MemTypes
<1>11. cpu' \in [at : {"idle", "claim", "pending", "length", "slot", "copy"},
                 saw : Frames, n : Frames, slot : Slots,
                 ack : BOOLEAN, comp : BOOLEAN]
  BY <1>1, CpuType
<1>12. late' \in BOOLEAN
  BY <1>1, <1>2
<1>13. TypeOK'
  BY <1>3, <1>4, <1>5, <1>6, <1>7, <1>8, <1>9, <1>10, <1>11, <1>12
     DEF TypeOK, Frames, Slots, Ids
<1>14. Small'
  BY <1>3, <1>5 DEF Small
<1> QED BY <1>13, <1>14 DEF TypeInv

LEMMA NextTicks ==
  ASSUME Next
  PROVE  \E i \in Inputs : Ticks(i)
<1>1. PICK new \in {0} \cup (IF offer = 0 /\ sent < MaxFrames THEN Words ELSE {}),
           word \in If(fin.run /\ fin.left # 0),
           takes \in If(~burst.open /\ Offered(aw)),
           lands \in If(burst.left # 0 /\ Offered(w)),
           answers \in If(burst.open /\ burst.left = 0),
           reads \in If(cpu.at # "idle" \/ plic.asserted),
           down \in If(cpu.at = "pending" /\ eth.q # <<>>),
           acked \in If(cpu.ack), completed \in If(cpu.comp) :
        Tick(new, word, takes, lands, answers, reads, down, acked, completed)
  BY Zenon DEF Next
<1>2. new \in Words \cup {0}
  OBVIOUS
<1>3. /\ word \in BOOLEAN /\ takes \in BOOLEAN /\ lands \in BOOLEAN /\ answers \in BOOLEAN
      /\ reads \in BOOLEAN /\ down \in BOOLEAN
      /\ acked \in BOOLEAN /\ completed \in BOOLEAN
  BY DEF If
<1> DEFINE i == [new |-> new, word |-> word, takes |-> takes, lands |-> lands,
                 answers |-> answers, reads |-> reads, down |-> down, acked |-> acked,
                 completed |-> completed]
<1>4. i \in Inputs
  BY <1>2, <1>3 DEF Inputs
<1>5. /\ i.new = new /\ i.word = word /\ i.takes = takes /\ i.lands = lands
      /\ i.answers = answers /\ i.reads = reads /\ i.down = down /\ i.acked = acked
      /\ i.completed = completed
  OBVIOUS
<1> HIDE DEF i
<1>6. Ticks(i)
  BY <1>1, <1>5 DEF Ticks
<1> QED BY <1>4, <1>6

LEMMA NextType == TypeInv /\ [Next]_vars => TypeInv'
<1> SUFFICES ASSUME TypeInv, [Next]_vars PROVE TypeInv'
  OBVIOUS
<1>1. CASE Next
  BY <1>1, NextTicks, TickType
<1>2. CASE UNCHANGED vars
  <2>1. /\ UNCHANGED <<late, offer, fin, words, store, host, issue, grant, done>>
        /\ UNCHANGED <<release, aw, w, burst, mem, eth, plic, cpu, seen, sent, rcvd>>
    BY <1>2 DEF vars, units
  <2>2. /\ late' = late /\ offer' = offer /\ fin' = fin /\ words' = words
        /\ store' = store /\ host' = host /\ issue' = issue /\ grant' = grant
        /\ done' = done /\ release' = release /\ aw' = aw /\ w' = w
        /\ burst' = burst /\ mem' = mem /\ eth' = eth /\ plic' = plic
        /\ cpu' = cpu /\ seen' = seen /\ sent' = sent /\ rcvd' = rcvd
    BY <2>1
  <2>3. TypeOK'
    <3>1. TypeOK
      BY DEF TypeInv
    <3> QED BY <2>2, <3>1, SMTT(30) DEF TypeOK
  <2> QED BY <2>2, <2>3 DEF TypeInv, Small
<1> QED BY <1>1, <1>2

LEMMA TypeAlways == Spec => []TypeInv
  BY InitType, NextType, PTL DEF Spec

(* The registers, channels and posted stores keep their types: no channel  *)
(* overflows, and the bound on frames is never passed.                     *)
THEOREM EthRxType == Spec => []TypeOK
  BY TypeAlways, PTL DEF TypeInv


-----------------------------------------------------------------------------
(* The frame the driver found waiting stays the oldest until the           *)
(* acknowledgement it posts lands, and what it has read is of that frame.  *)
Reading ==
  /\ cpu.ack => cpu.at \in {"idle", "claim"}
  /\ cpu.at \in {"length", "slot", "copy"} \/ cpu.ack =>
       eth.q # <<>> /\ cpu.saw = eth.q[1].n
  /\ cpu.at \in {"slot", "copy"} \/ (cpu.ack /\ cpu.n # 0) => cpu.n = eth.q[1].n
  /\ cpu.at = "copy" \/ (cpu.ack /\ cpu.n # 0) => cpu.slot = eth.q[1].slot

LEMMA CpuFields ==
  ASSUME TypeInv, NEW reads \in BOOLEAN, NEW down \in BOOLEAN, NEW acked \in BOOLEAN,
         NEW completed \in BOOLEAN, CpuStep(reads, down, acked, completed)
  PROVE  /\ acked => cpu.ack
         /\ cpu'.at = Steps(reads, down).at /\ cpu'.n = Steps(reads, down).n
         /\ cpu'.saw = Steps(reads, down).saw /\ cpu'.slot = Steps(reads, down).slot
         /\ cpu'.ack = (Steps(reads, down).ack /\ ~acked)
<1> DEFINE next == Steps(reads, down)
<1>1. cpu \in [at : {"idle", "claim", "pending", "length", "slot", "copy"},
               saw : Frames, n : Frames, slot : Slots,
               ack : BOOLEAN, comp : BOOLEAN]
  BY DEF TypeInv, TypeOK
<1>2. next \in [at : {"idle", "claim", "pending", "length", "slot", "copy"},
                saw : {cpu.saw, Oldest.n}, n : {cpu.n, Oldest.n, 0},
                slot : {cpu.slot, Oldest.slot},
                ack : BOOLEAN, comp : BOOLEAN]
  BY <1>1 DEF Steps, Claims
<1>3. /\ cpu' = [next EXCEPT !.ack = @ /\ ~acked, !.comp = @ /\ ~completed]
      /\ acked => cpu.ack
  BY DEF CpuStep
<1> HIDE DEF next
<1> QED BY <1>2, <1>3 DEF next

(* The oldest frame stays the oldest until it is acknowledged.             *)
LEMMA OldestStays ==
  ASSUME TypeInv, NEW acked \in BOOLEAN, EthStep(acked), ~Pop(acked), eth.q # <<>>
  PROVE  eth'.q # <<>> /\ eth'.q[1] = eth.q[1]
<1> DEFINE R == [n : Frames, words : Nat, slot : Slots]
<1>1. eth.q \in Seq(R) /\ Arrival \in R
  BY DEF TypeInv, TypeOK, Arrival
<1>2. eth'.q = eth.q \/ eth'.q = Append(eth.q, Arrival)
  BY DEF EthStep, Waiting
<1> HIDE DEF R
<1>3. Len(eth.q) \in Nat \ {0}
  BY <1>1, EmptySeq, LenProperties
<1>4. CASE eth'.q = Append(eth.q, Arrival)
  <2>1. Len(eth'.q) = Len(eth.q) + 1 /\ eth'.q[1] = eth.q[1]
    BY <1>1, <1>3, <1>4, AppendProperties
  <2>2. Len(<<>>) = 0
    OBVIOUS
  <2> QED BY <1>3, <2>1, <2>2
<1> QED BY <1>2, <1>4

LEMMA TickReading ==
  ASSUME TypeInv, Reading, NEW i \in Inputs, Ticks(i)
  PROVE  Reading'
<1> DEFINE reads == i.reads  down == i.down
           acked == i.acked  completed == i.completed
           next == Steps(reads, down)
<1>1. /\ reads \in BOOLEAN /\ down \in BOOLEAN
      /\ acked \in BOOLEAN /\ completed \in BOOLEAN
      /\ EthStep(acked) /\ CpuStep(reads, down, acked, completed)
  BY TickParts
<1> HIDE DEF reads, down, acked, completed
<1>2. /\ acked => cpu.ack
      /\ cpu'.at = next.at /\ cpu'.saw = next.saw
      /\ cpu'.n = next.n /\ cpu'.slot = next.slot
      /\ cpu'.ack = (next.ack /\ ~acked)
  BY <1>1, CpuFields
<1>3. cpu \in [at : {"idle", "claim", "pending", "length", "slot", "copy"},
               saw : Frames, n : Frames, slot : Slots,
               ack : BOOLEAN, comp : BOOLEAN]
  BY DEF TypeInv, TypeOK
<1>4. CASE Pop(acked)
  <2>1. acked /\ cpu.ack /\ cpu.at \in {"idle", "claim"}
    BY <1>2, <1>4 DEF Pop, Reading
  <2>2. next.at \in {"idle", "claim"}
    BY <1>3, <2>1 DEF Steps, Claims, Landable
  <2>3. cpu'.at \in {"idle", "claim"} /\ ~cpu'.ack
    BY <1>2, <2>1, <2>2
  <2> QED BY <2>3 DEF Reading
<1>5. CASE ~Pop(acked)
  <2>1. ~acked
    BY <1>2, <1>5 DEF Pop, Reading
  <2>2. cpu'.ack = next.ack
    BY <1>2, <1>3, <2>1 DEF Steps, Claims
  <2>3. eth.q # <<>> => eth'.q # <<>> /\ eth'.q[1] = eth.q[1]
    BY <1>1, <1>5, OldestStays
  <2>4. next = cpu \/ reads
    BY DEF Steps, Claims
  <2>5. CASE next = cpu
    BY <1>2, <2>2, <2>3, <2>5 DEF Reading
  <2>6. CASE reads
    <3>1. CASE cpu.at \in {"idle", "claim"}
      <4>1. /\ next.at \in {"idle", "claim", "pending"} /\ next.ack = cpu.ack
            /\ next.saw = cpu.saw /\ next.n = cpu.n /\ next.slot = cpu.slot
            /\ next.at = "pending" => ~cpu.ack
        BY <1>3, <2>6, <3>1 DEF Steps, Claims, Landable
      <4> QED BY <1>2, <2>2, <2>3, <4>1 DEF Reading
    <3>2. CASE cpu.at = "pending"
      <4>1. ~cpu.ack
        BY <3>2 DEF Reading
      <4>2. CASE eth.q = <<>>
        <5>1. next.at = "idle" /\ ~next.ack
          BY <1>3, <2>6, <3>2, <4>1, <4>2 DEF Steps, Claims
        <5> QED BY <1>2, <2>2, <5>1 DEF Reading
      <4>3. CASE eth.q # <<>>
        <5>1. /\ next.saw = eth.q[1].n /\ next.n = 0
              /\ (next.at = "length" /\ ~next.ack) \/ next.at = "idle"
          BY <1>3, <2>6, <3>2, <4>1, <4>3 DEF Steps, Claims, Oldest
        <5> QED BY <1>2, <2>2, <2>3, <4>3, <5>1 DEF Reading
      <4> QED BY <4>2, <4>3
    <3>3. CASE cpu.at = "length"
      <4>1. /\ next.at = "slot" /\ next.n = eth.q[1].n /\ ~next.ack
            /\ eth.q # <<>> /\ next.saw = eth.q[1].n
        BY <1>3, <2>6, <3>3 DEF Steps, Claims, Reading, Oldest
      <4> QED BY <1>2, <2>2, <2>3, <4>1 DEF Reading
    <3>4. CASE cpu.at = "slot"
      <4>1. /\ next.at = "copy" /\ next.n = cpu.n /\ next.slot = eth.q[1].slot
            /\ ~next.ack /\ eth.q # <<>> /\ cpu.n = eth.q[1].n
            /\ next.saw = eth.q[1].n
        BY <1>3, <2>6, <3>4 DEF Steps, Claims, Reading, Oldest
      <4> QED BY <1>2, <2>2, <2>3, <4>1 DEF Reading
    <3>5. CASE cpu.at = "copy"
      <4>1. /\ next.at = "idle" /\ next.n = cpu.n /\ next.slot = cpu.slot
            /\ eth.q # <<>> /\ cpu.n = eth.q[1].n /\ cpu.slot = eth.q[1].slot
            /\ next.saw = eth.q[1].n
        BY <1>3, <2>6, <3>5 DEF Steps, Claims, Reading
      <4> QED BY <1>2, <2>2, <2>3, <4>1 DEF Reading
    <3> QED BY <1>3, <3>1, <3>2, <3>3, <3>4, <3>5
  <2> QED BY <2>4, <2>5, <2>6
<1> QED BY <1>4, <1>5

LEMMA NextReading == TypeInv /\ Reading /\ [Next]_vars => Reading'
<1> SUFFICES ASSUME TypeInv, Reading, [Next]_vars PROVE Reading'
  OBVIOUS
<1>1. CASE Next
  BY <1>1, NextTicks, TickReading
<1>2. CASE UNCHANGED vars
  BY <1>2 DEF vars, Reading
<1> QED BY <1>1, <1>2

LEMMA ReadingAlways == Spec => []Reading
<1>1. Init => Reading
  BY DEF Init, Reading
<1> QED BY <1>1, TypeAlways, NextReading, PTL DEF Spec

(* An acknowledgement, whenever it lands, takes off the frame the driver   *)
(* found waiting, and no other: the one whose length and slot it read, or  *)
(* the one it dropped unread (eth_vreteno_receive, eth_vreteno_isr).       *)
THEOREM EthRxAcksWhatItRead == Spec => AcksWhatItRead
<1>1. TypeInv /\ Reading /\ [Next]_vars
        => [rcvd' # rcvd =>
              /\ eth.q[1].n = cpu.saw
              /\ cpu.n # 0 => eth.q[1].n = cpu.n /\ eth.q[1].slot = cpu.slot]_vars
  <2> SUFFICES ASSUME TypeInv, Reading, Next, rcvd' # rcvd
               PROVE  /\ eth.q[1].n = cpu.saw
                      /\ cpu.n # 0 => /\ eth.q[1].n = cpu.n
                                      /\ eth.q[1].slot = cpu.slot
    OBVIOUS
  <2>1. PICK i \in Inputs : Ticks(i)
    BY NextTicks
  <2>2. /\ i.reads \in BOOLEAN /\ i.down \in BOOLEAN
        /\ i.acked \in BOOLEAN /\ i.completed \in BOOLEAN
        /\ EthStep(i.acked) /\ CpuStep(i.reads, i.down, i.acked, i.completed)
    BY <2>1, TickParts
  <2>3. Pop(i.acked)
    BY <2>2 DEF EthStep
  <2>4. cpu.ack
    BY <2>2, <2>3, CpuFields DEF Pop
  <2> QED BY <2>4 DEF Reading
<1> QED BY <1>1, TypeAlways, ReadingAlways, PTL DEF Spec, AcksWhatItRead

-----------------------------------------------------------------------------
(* One interrupt at a time: the gateway is closed exactly while one is     *)
(* pending, or the driver has claimed it, or its completion is under way,  *)
(* and never two of these.  So whenever a frame waits, either the driver   *)
(* has yet to come to it, or the gateway is open and its line goes through.*)
Claimed == cpu.at \in {"pending", "length", "slot", "copy"}

OneInterrupt ==
  /\ plic.active <=> plic.pending \/ Claimed \/ cpu.comp
  /\ ~(plic.pending /\ Claimed)
  /\ ~(plic.pending /\ cpu.comp)
  /\ ~(Claimed /\ cpu.comp)

(* What a step of the driver does to the interrupt it handles.             *)
LEMMA DriverSteps ==
  ASSUME TypeInv, NEW reads \in BOOLEAN, NEW down \in BOOLEAN, NEW acked \in BOOLEAN,
         NEW completed \in BOOLEAN, CpuStep(reads, down, acked, completed)
  PROVE  /\ completed => cpu.comp
         /\ Claims(reads) => /\ ~Claimed /\ ~cpu.comp /\ ~cpu'.comp
                             /\ Claimed' = plic.pending
         /\ ~Claims(reads) => \/ Claimed' = Claimed /\ cpu'.comp = (cpu.comp /\ ~completed)
                              \/ Claimed /\ ~Claimed' /\ cpu'.comp = ~completed
<1> DEFINE next == Steps(reads, down)
<1>1. cpu \in [at : {"idle", "claim", "pending", "length", "slot", "copy"},
               saw : Frames, n : Frames, slot : Slots,
               ack : BOOLEAN, comp : BOOLEAN]
      /\ plic.pending \in BOOLEAN
  BY DEF TypeInv, TypeOK
<1>2. next \in [at : {"idle", "claim", "pending", "length", "slot", "copy"},
                saw : {cpu.saw, Oldest.n}, n : {cpu.n, Oldest.n, 0},
                slot : {cpu.slot, Oldest.slot},
                ack : BOOLEAN, comp : BOOLEAN]
  BY <1>1 DEF Steps, Claims
<1>3. /\ cpu' = [next EXCEPT !.ack = @ /\ ~acked, !.comp = @ /\ ~completed]
      /\ completed => cpu.comp
  BY DEF CpuStep
<1>4. cpu'.at = next.at /\ cpu'.comp = (next.comp /\ ~completed)
  <2> HIDE DEF next
  <2> QED BY <1>2, <1>3
<1>5. CASE Claims(reads)
  <2>1. cpu.at = "claim" /\ ~cpu.comp
    BY <1>5 DEF Claims, Landable
  <2>2. /\ next.comp = cpu.comp
        /\ next.at = IF plic.pending THEN "pending" ELSE "idle"
    BY <1>1, <1>5, <2>1 DEF Steps
  <2> HIDE DEF next
  <2> QED BY <1>1, <1>3, <1>4, <1>5, <2>1, <2>2 DEF Claimed
<1>6. CASE ~Claims(reads)
  <2>1. \/ next = cpu
        \/ cpu.at = "idle" /\ next.at = "claim" /\ next.comp = cpu.comp
        \/ cpu.at = "pending" /\ next.at = "length" /\ next.comp = cpu.comp
        \/ cpu.at = "pending" /\ next.at = "idle" /\ next.comp = TRUE
        \/ cpu.at = "length" /\ next.at = "slot" /\ next.comp = cpu.comp
        \/ cpu.at = "slot" /\ next.at = "copy" /\ next.comp = cpu.comp
        \/ cpu.at = "copy" /\ next.at = "idle" /\ next.comp = TRUE
    BY <1>1, <1>6 DEF Steps
  <2> HIDE DEF next
  <2> QED BY <1>1, <1>3, <1>4, <1>6, <2>1 DEF Claimed
<1> QED BY <1>5, <1>6

LEMMA TickInterrupt ==
  ASSUME TypeInv, OneInterrupt, NEW i \in Inputs, Ticks(i)
  PROVE  OneInterrupt'
<1> DEFINE claims == Claims(i.reads)
<1>1. /\ i.reads \in BOOLEAN /\ i.down \in BOOLEAN
      /\ i.acked \in BOOLEAN /\ i.completed \in BOOLEAN
      /\ PlicStep(claims, i.completed) /\ CpuStep(i.reads, i.down, i.acked, i.completed)
  BY TickParts
<1>2. /\ i.completed => cpu.comp
      /\ claims => ~Claimed /\ ~cpu.comp /\ ~cpu'.comp /\ Claimed' = plic.pending
      /\ ~claims => \/ Claimed' = Claimed /\ cpu'.comp = (cpu.comp /\ ~i.completed)
                    \/ Claimed /\ ~Claimed' /\ cpu'.comp = ~i.completed
  BY <1>1, DriverSteps
<1>3. /\ plic.pending \in BOOLEAN /\ plic.active \in BOOLEAN /\ cpu.comp \in BOOLEAN
      /\ SeenIrq \in BOOLEAN /\ claims \in BOOLEAN /\ Claimed \in BOOLEAN
  <2>1. SeenIrq \in BOOLEAN
    <3>1. FALSE \in BOOLEAN
      OBVIOUS
    <3> QED BY <3>1, WiresBoolean
  <2> QED BY <2>1 DEF TypeInv, TypeOK, Claims, Claimed
<1>4. /\ plic'.pending = ((plic.pending /\ ~claims) \/ (SeenIrq /\ ~plic.active))
      /\ plic'.active = ((plic.active /\ ~i.completed) \/ (SeenIrq /\ ~plic.active))
  BY <1>1 DEF PlicStep, Forward
<1> HIDE DEF claims
<1>5. CASE claims
  <2>1. plic.active <=> plic.pending
    BY <1>2, <1>5 DEF OneInterrupt
  <2>2. ~cpu'.comp /\ Claimed' = plic.pending /\ ~i.completed
    BY <1>2, <1>5
  <2>3. plic'.pending = (SeenIrq /\ ~plic.active)
        /\ plic'.active = (plic.active \/ (SeenIrq /\ ~plic.active))
    BY <1>3, <1>4, <1>5, <2>2
  <2> QED BY <1>3, <2>1, <2>2, <2>3 DEF OneInterrupt
<1>6. CASE ~claims
  <2>1. /\ plic'.pending = (plic.pending \/ (SeenIrq /\ ~plic.active))
        /\ plic'.active = ((plic.active /\ ~i.completed) \/ (SeenIrq /\ ~plic.active))
    BY <1>3, <1>4, <1>6
  <2>2. CASE Claimed' = Claimed /\ cpu'.comp = (cpu.comp /\ ~i.completed)
    BY <1>1, <1>2, <1>3, <2>1, <2>2 DEF OneInterrupt
  <2>3. CASE Claimed /\ ~Claimed' /\ cpu'.comp = ~i.completed
    <3>1. ~i.completed /\ ~cpu.comp /\ ~plic.pending /\ plic.active
      BY <1>2, <2>3 DEF OneInterrupt
    <3>2. ~plic'.pending /\ plic'.active /\ cpu'.comp
      BY <2>1, <2>3, <3>1
    <3> QED BY <2>3, <3>2 DEF OneInterrupt
  <2> QED BY <1>2, <1>6, <2>2, <2>3
<1> QED BY <1>5, <1>6

(* No wake-up is lost, however the frames, the acknowledgement and the     *)
(* completion interleave: the gateway never stays closed with nobody left  *)
(* to open it, and no interrupt is claimed twice (Plic, the driver's       *)
(* claim and completion).                                                  *)
THEOREM EthRxOneInterrupt == Spec => []OneInterrupt
<1>1. Init => OneInterrupt
  BY DEF Init, OneInterrupt, Claimed
<1>2. TypeInv /\ OneInterrupt /\ [Next]_vars => OneInterrupt'
  <2> SUFFICES ASSUME TypeInv, OneInterrupt, [Next]_vars PROVE OneInterrupt'
    OBVIOUS
  <2>1. CASE Next
    BY <2>1, NextTicks, TickInterrupt
  <2>2. CASE UNCHANGED vars
    BY <2>2 DEF vars, OneInterrupt, Claimed
  <2> QED BY <2>1, <2>2
<1> QED BY <1>1, <1>2, TypeAlways, PTL DEF Spec


-----------------------------------------------------------------------------
(* The one burst that is under way, from the store engine through its      *)
(* host, the bus and memory and back.                                      *)

(* No burst has a single beat, the last of a frame included: a grant comes *)
(* while the burst has beats to go, so that the engine never looks idle    *)
(* between the two (without this StoredWhenTold is violated).              *)
NoShortBurst ==
  Beats > 1 /\ \A n \in Words, k \in Nat : n # k * Beats + 1

Wants == store.want # 0 => \A k \in Nat : store.want # k * Beats + 1

Owned == 1 - host.next             \* the identifier granted last
Behind == Len(w) + store.left      \* the beats that have not landed
Phase(left) ==
  [id |-> Owned, slot |-> store.slot, left |-> left, open |-> TRUE]

Rests ==
  /\ ~store.busy /\ ~store.held /\ w = <<>>
  /\ issue = <<>> /\ grant = <<>> /\ aw = <<>> /\ ~burst.open /\ done = <<>>
  /\ \/ release = <<>> /\ host.busy = {}
     \/ release = <<Owned>> /\ host.busy = {Owned}
Issued ==
  /\ store.left >= 2 /\ ~store.held /\ w = <<>>
  /\ issue = <<[slot |-> store.slot, left |-> store.left]>>
  /\ grant = <<>> /\ aw = <<>> /\ ~burst.open /\ done = <<>>
  /\ release = <<>> /\ host.busy = {}

Out == issue = <<>> /\ release = <<>> /\ host.busy = {Owned}
Given ==
  /\ Out /\ store.left >= 1 /\ ~store.held
  /\ grant = <<Owned>> /\ aw = <<Phase(Behind)>> /\ ~burst.open /\ done = <<>>
Asked ==
  /\ Out /\ store.held /\ store.id = Owned
  /\ grant = <<>> /\ aw = <<Phase(Behind)>> /\ ~burst.open /\ done = <<>>
Served ==
  /\ Out /\ store.held /\ store.id = Owned
  /\ grant = <<>> /\ aw = <<>> /\ burst = Phase(Behind) /\ done = <<>>
Answered ==
  /\ Out /\ store.held /\ store.id = Owned /\ Behind = 0
  /\ grant = <<>> /\ aw = <<>> /\ ~burst.open /\ done = <<Owned>>

OneBurst ==
  /\ Wants
  /\ Rests \/ Issued \/ Given \/ Asked \/ Served \/ Answered

(* An edge of a channel that holds one item at most, and gets none while   *)
(* it holds one.                                                           *)
LEMMA EdgeAlone ==
  ASSUME NEW c, NEW x, NEW took \in BOOLEAN, NEW really \in BOOLEAN, NEW e
  PROVE  /\ c = <<>> /\ ~took /\ ~really => Edge(c, took, Item(really, e)) = <<>>
         /\ c = <<>> /\ ~took /\ really => Edge(c, took, Item(really, e)) = <<e>>
         /\ c = <<x>> /\ took /\ ~really => Edge(c, took, Item(really, e)) = <<>>
         /\ c = <<x>> /\ ~took /\ ~really => Edge(c, took, Item(really, e)) = <<x>>
<1>1. Tail(<<x>>) = <<>>
  OBVIOUS
<1> QED BY <1>1, ConcatShort DEF Edge, Item

LEMMA OneIsOffered ==
  ASSUME NEW c, NEW x
  PROVE  /\ c = <<>> => ~Offered(c) /\ Room(c)
         /\ c = <<x>> => Offered(c) /\ Room(c) /\ Head(c) = x /\ Tail(c) = <<>>
<1>1. c = <<x>> => Offered(c) /\ Room(c) /\ Head(c) = x /\ Tail(c) = <<>>
  BY DEF Offered, Room
<1>2. c = <<>> => ~Offered(c) /\ Room(c)
  BY DEF Offered, Room
<1> QED BY <1>1, <1>2

LEMMA HostFields ==
  ASSUME TypeInv, HostStep
  PROVE  /\ host'.next = (IF HostGo \/ ~Free THEN 1 - host.next ELSE host.next)
         /\ host'.busy = (host.busy \cup (IF HostGo THEN {host.next} ELSE {}))
                           \ (IF Offered(release) THEN {Head(release)} ELSE {})
         /\ host.next \in {0, 1}
BY DEF HostStep, TypeInv, TypeOK, Ids

(* A cycle's bookkeeping of want.                                          *)
LEMMA TickWants ==
  ASSUME NoShortBurst, TypeInv, Wants, fin.run => fin.words \in Words, StoreStep
  PROVE  Wants' /\ (Send => Burst >= 2)
<1> DEFINE want == store.want  want2 == store'.want
<1>1. /\ want \in Nat /\ Beats \in Nat /\ Beats > 1
  BY EthRxAssumption DEF TypeInv, TypeOK, NoShortBurst
<1>2. want2 = IF StartRun THEN fin.words ELSE IF Send THEN want - Burst ELSE want
  BY StoreFields
<1>3. want # 0 => \A k \in Nat : want # k * Beats + 1
  BY DEF Wants
<1>4. Send => want # 0 /\ ~StartRun
  BY DEF Send, StartRun, Running
<1>5. Burst = IF want < Beats THEN want ELSE Beats
  BY DEF Burst
<1>6. StartRun => \A k \in Nat : fin.words # k * Beats + 1
  BY DEF StartRun, Go, NoShortBurst
<1> HIDE DEF want, want2
<1>7. want # 0 => want # 1
  <2>1. 0 * Beats + 1 = 1 /\ 0 \in Nat
    BY <1>1
  <2> QED BY <1>3, <2>1
<1>8. Send => Burst >= 2
  BY <1>1, <1>4, <1>5, <1>7
<1>9. ASSUME want2 # 0, NEW k \in Nat
      PROVE  want2 # k * Beats + 1
  <2>1. CASE StartRun
    BY <1>2, <1>6, <2>1
  <2>2. CASE ~StartRun /\ ~Send
    BY <1>2, <1>3, <1>9, <2>2
  <2>3. CASE Send
    <3>1. want2 = want - Beats /\ want # 0
      BY <1>1, <1>2, <1>4, <1>5, <1>9, <2>3
    <3>2. want # (k + 1) * Beats + 1
      BY <1>3, <3>1
    <3> DEFINE m == k * Beats
    <3>3. (k + 1) * Beats = m + Beats /\ m \in Nat
      BY <1>1
    <3> HIDE DEF m
    <3>4. want # m + Beats + 1
      BY <1>1, <3>2, <3>3
    <3>5. want2 # m + 1
      BY <1>1, <3>1, <3>3, <3>4
    <3> QED BY <3>5 DEF m
  <2> QED BY <2>1, <2>2, <2>3
<1>10. Wants'
  BY <1>9 DEF Wants, want2
<1> QED BY <1>8, <1>10


(* The channels at a cycle's end.                                          *)
LEMMA TickEdges ==
  ASSUME TypeInv, NEW i \in Inputs, Ticks(i)
  PROVE  /\ words' = Edge(words, Beat, Item(Emit(i.word), fin.n))
         /\ issue' = Edge(issue, HostGo,
                          Item(Send, [slot |-> store.slot, left |-> Burst]))
         /\ grant' = Edge(grant, Offered(grant), Item(HostGo, host.next))
         /\ aw' = Edge(aw, Take(i.takes), Item(HostGo, Granted))
         /\ w' = Edge(w, Land(i.lands), Item(Beat, Head(words)))
         /\ done' = Edge(done, Fin, Item(Answer(i.answers), burst.id))
         /\ release' = Edge(release, Offered(release), Item(Fin, store.id))
         /\ burst' = (IF Take(i.takes) THEN Head(aw)
                      ELSE IF Land(i.lands) THEN [burst EXCEPT !.left = @ - 1]
                      ELSE IF Answer(i.answers) THEN NoBurst
                      ELSE burst)
<1>1. Channels(i.word, i.takes, i.lands, i.answers) /\ MemStep(i.takes, i.lands, i.answers)
  BY TickParts
<1> QED BY <1>1 DEF Channels, MemStep, Item

LEMMA TickSignals ==
  ASSUME TypeInv, NEW i \in Inputs
  PROVE  /\ Emit(i.word) \in BOOLEAN /\ Beat \in BOOLEAN /\ Send \in BOOLEAN
         /\ HostGo \in BOOLEAN /\ Take(i.takes) \in BOOLEAN
         /\ Land(i.lands) \in BOOLEAN /\ Answer(i.answers) \in BOOLEAN
         /\ Fin \in BOOLEAN /\ Offered(grant) \in BOOLEAN
         /\ Offered(release) \in BOOLEAN
<1>1. /\ i.word \in BOOLEAN /\ i.takes \in BOOLEAN /\ i.lands \in BOOLEAN
      /\ i.answers \in BOOLEAN
  BY DEF Inputs
<1> QED BY <1>1, WiresBoolean

LEMMA RestsStep ==
  ASSUME TypeInv, NEW i \in Inputs, Ticks(i), Rests, Send => Burst >= 2
  PROVE  IF Send THEN Issued' ELSE Rests'
<1>1. StoreStep /\ HostStep
  BY TickParts
<1>2. ~Offered(issue) /\ ~Offered(grant) /\ ~Offered(aw) /\ ~Offered(w) /\ ~Offered(done)
  BY OneIsOffered DEF Rests
<1>3. /\ ~HostGo /\ ~Take(i.takes) /\ ~Land(i.lands) /\ ~Answer(i.answers)
      /\ ~Fin /\ ~Beat
  BY <1>2 DEF Rests, HostGo, Take, Land, Answer, Fin, Beat
<1>4. /\ grant' = <<>> /\ aw' = <<>> /\ w' = <<>> /\ done' = <<>>
  BY <1>2, <1>3, TickEdges, TickSignals, EdgeAlone DEF Rests
<1>5. release' = <<>>
  <2>1. CASE release = <<>>
    BY <1>3, <2>1, TickEdges, TickSignals, EdgeAlone, OneIsOffered
  <2>2. CASE release = <<Owned>>
    BY <1>3, <2>2, TickEdges, TickSignals, EdgeAlone, OneIsOffered
  <2> QED BY <2>1, <2>2 DEF Rests
<1>6. issue' = IF Send THEN <<[slot |-> store.slot, left |-> Burst]>> ELSE <<>>
  BY <1>3, TickEdges, TickSignals, EdgeAlone DEF Rests
<1>7. burst' = burst
  BY <1>3, TickEdges
<1>8. host'.busy = {} /\ host'.next = host.next
  <2>1. Free
    BY <1>1, HostFields DEF Free, Rests, Owned
  <2>2. CASE release = <<>>
    BY <1>1, <1>3, <2>1, <2>2, HostFields, OneIsOffered DEF Rests
  <2>3. CASE release = <<Owned>>
    BY <1>1, <1>3, <2>1, <2>3, HostFields, OneIsOffered DEF Rests
  <2> QED BY <2>2, <2>3 DEF Rests
<1>9. ~store'.held
  BY <1>1, <1>2, <1>3, StoreFields DEF Rests
<1>10. CASE Send
  <2>1. store'.left = Burst /\ store'.slot = store.slot
    BY <1>1, <1>3, <1>10, StoreFields
  <2> QED BY <1>4, <1>5, <1>6, <1>7, <1>8, <1>9, <1>10, <2>1 DEF Rests, Issued
<1>11. CASE ~Send
  <2>1. store'.left = store.left /\ (store.busy <=> store.left # 0)
    BY <1>1, <1>3, <1>11, StoreFields DEF TypeInv, Small
  <2>2. ~store'.busy
    BY <1>1, <2>1, StoreFields DEF Rests
  <2> QED BY <1>4, <1>5, <1>6, <1>7, <1>8, <1>9, <1>11, <2>2 DEF Rests
<1> QED BY <1>10, <1>11


LEMMA TickBehind ==
  ASSUME TypeInv, NEW i \in Inputs, Ticks(i), ~Send
  PROVE  /\ Land(i.lands) => Behind' = Behind - 1
         /\ ~Land(i.lands) => Behind' = Behind
         /\ Behind \in Nat
<1> DEFINE l == Len(w)  l2 == Len(w')  n == store.left  n2 == store'.left
<1>1. StoreStep /\ Channels(i.word, i.takes, i.lands, i.answers)
  BY TickParts
<1>2. /\ i.word \in BOOLEAN /\ i.takes \in BOOLEAN /\ i.lands \in BOOLEAN
      /\ i.answers \in BOOLEAN
  BY DEF Inputs
<1>3. /\ Land(i.lands) /\ ~Beat => l2 = l - 1
      /\ ~Land(i.lands) /\ Beat => l2 = l + 1
      /\ Land(i.lands) /\ Beat => l2 = l
      /\ ~Land(i.lands) /\ ~Beat => l2 = l
  BY <1>1, <1>2, WordLens
<1>4. /\ n2 = (IF Beat THEN n - 1 ELSE n)
      /\ n \in Nat /\ l \in Nat
  <2>1. n2 = (IF Beat THEN n - 1 ELSE n)
    BY <1>1, StoreFields
  <2>2. n \in Nat /\ l \in Nat
    BY EthRxAssumption DEF TypeInv, TypeOK
  <2> QED BY <2>1, <2>2
<1>5. Behind = l + n /\ Behind' = l2 + n2
  BY DEF Behind
<1> HIDE DEF l, l2, n, n2
<1> QED BY <1>3, <1>4, <1>5

LEMMA IssuedStep ==
  ASSUME TypeInv, NEW i \in Inputs, Ticks(i), Issued
  PROVE  Given'
<1>1. StoreStep /\ HostStep
  BY TickParts
<1>2. store.busy /\ store.left \in 2..Beats /\ Beats \in Nat
  BY EthRxAssumption DEF Issued, TypeInv, TypeOK, Small
<1>3. /\ Offered(issue) /\ Head(issue) = [slot |-> store.slot, left |-> store.left]
      /\ Room(aw) /\ Room(grant)
      /\ ~Offered(grant) /\ ~Offered(aw) /\ ~Offered(done) /\ ~Offered(release)
  BY OneIsOffered DEF Issued
<1>4. Free
  BY DEF Free, Issued
<1>5. /\ HostGo /\ ~Take(i.takes) /\ ~Land(i.lands) /\ ~Answer(i.answers)
      /\ ~Fin /\ ~Send /\ ~StartRun
  BY <1>2, <1>3, <1>4
     DEF Issued, HostGo, Take, Land, Answer, Fin, Send, StartRun, Running
<1> DEFINE it == [slot |-> store.slot, left |-> store.left]
<1>13. grant = <<>> /\ done = <<>> /\ release = <<>> /\ aw = <<>> /\ issue = <<it>>
  BY DEF Issued
<1> HIDE DEF it
<1>6. issue' = <<>> /\ grant' = <<host.next>> /\ done' = <<>> /\ release' = <<>>
  <2>1. grant' = <<host.next>>
    BY <1>3, <1>5, <1>13, TickEdges, ConcatShort DEF Edge, Item
  <2>2. release' = <<>>
    BY <1>3, <1>5, <1>13, TickEdges, ConcatShort DEF Edge, Item
  <2>3. done' = <<>>
    BY <1>3, <1>5, <1>13, TickEdges, ConcatShort DEF Edge, Item
  <2>4. issue' = <<>>
    BY <1>5, <1>13, TickEdges, ConcatShort, OneIsOffered DEF Edge, Item
  <2> QED BY <2>1, <2>2, <2>3, <2>4
<1>7. burst' = burst
  BY <1>5, TickEdges
<1>8. host'.busy = {host.next} /\ Owned' = host.next
  BY <1>1, <1>3, <1>4, <1>5, HostFields DEF Issued, Owned
<1>9. store'.slot = store.slot /\ ~store'.held /\ store'.left >= 1
  <2>1. store'.slot = store.slot /\ ~store'.held
    BY <1>1, <1>3, <1>5, StoreFields DEF Issued
  <2>2. store'.left = (IF Beat THEN store.left - 1 ELSE store.left)
    BY <1>1, <1>5, StoreFields
  <2> QED BY <1>2, <2>1, <2>2
<1>10. Behind' = Behind
  BY <1>5, TickBehind
<1>11. Behind = store.left
  <2>1. Len(w) = 0
    BY DEF Issued
  <2> QED BY <1>2, <2>1 DEF Behind
<1>12. aw' = <<Phase(Behind)'>>
  <2>1. aw' = <<Granted>>
    BY <1>3, <1>5, <1>13, TickEdges, ConcatShort DEF Edge, Item
  <2>2. Granted = [id |-> host.next, slot |-> store.slot, left |-> store.left,
                   open |-> TRUE]
    <3>1. Head(issue).slot = store.slot /\ Head(issue).left = store.left
      BY <1>3
    <3> QED BY <3>1 DEF Granted
  <2>3. Phase(Behind)' = [id |-> host.next, slot |-> store.slot, left |-> store.left,
                          open |-> TRUE]
    BY <1>8, <1>9, <1>10, <1>11 DEF Phase
  <2> QED BY <2>1, <2>2, <2>3
<1> QED BY <1>6, <1>7, <1>8, <1>9, <1>12 DEF Issued, Given, Out

(* What a cycle does to a burst the bus has not taken, or is serving.      *)
LEMMA OutStep ==
  ASSUME TypeInv, NEW i \in Inputs, Ticks(i), Out, store.busy \/ store.held
  PROVE  /\ ~HostGo /\ ~Send /\ ~StartRun
         /\ issue' = <<>> /\ host' = host /\ Owned' = Owned
         /\ store'.slot = store.slot
         /\ release' = Item(Fin, store.id)
         /\ grant = <<>> => grant' = <<>>
         /\ grant = <<Owned>> => grant' = <<>>
<1>1. StoreStep /\ HostStep
  BY TickParts
<1>2. ~Offered(issue) /\ ~Offered(release)
  BY OneIsOffered DEF Out
<1>3. ~HostGo
  BY <1>2 DEF HostGo
<1>4. ~Send /\ ~StartRun
  BY DEF Send, StartRun, Running
<1>5. issue' = <<>>
  BY <1>3, <1>4, TickEdges, ConcatShort DEF Out, Edge, Item
<1>6. release' = Item(Fin, store.id)
  BY <1>2, TickEdges, ConcatShort DEF Out, Edge, Item
<1>7. host' = host /\ Owned' = Owned
  <2>1. host \in [next : {0, 1}, busy : SUBSET {0, 1}]
    BY DEF TypeInv, TypeOK, Ids
  <2>2. Free
    BY <2>1 DEF Free, Out, Owned
  <2>3. host' = [next |-> host.next, busy |-> (host.busy \cup {}) \ {}]
    BY <1>1, <1>2, <1>3, <2>2 DEF HostStep
  <2>4. host' = host
    BY <2>1, <2>3
  <2> QED BY <2>4 DEF Owned
<1>8. store'.slot = store.slot
  BY <1>1, <1>4, StoreFields
<1>9. grant = <<>> => grant' = <<>>
  BY <1>3, TickEdges, ConcatShort, OneIsOffered DEF Edge, Item
<1>10. grant = <<Owned>> => grant' = <<>>
  BY <1>3, TickEdges, ConcatShort, OneIsOffered DEF Edge, Item
<1> QED BY <1>3, <1>4, <1>5, <1>6, <1>7, <1>8, <1>9, <1>10


LEMMA AskStep ==
  ASSUME TypeInv, NEW i \in Inputs, Ticks(i), Out, store.busy \/ store.held,
         aw = <<Phase(Behind)>>, ~burst.open, done = <<>>
  PROVE  /\ ~Fin /\ done' = <<>> /\ Out'
         /\ \/ aw' = <<>> /\ burst' = Phase(Behind)'
            \/ aw' = <<Phase(Behind)'>> /\ ~burst'.open
<1> DEFINE it == Phase(Behind)
<1>1. ~Fin /\ ~Land(i.lands) /\ ~Answer(i.answers)
  BY OneIsOffered DEF Fin, Land, Answer
<1>2. /\ ~HostGo /\ ~Send /\ issue' = <<>> /\ host' = host /\ Owned' = Owned
      /\ store'.slot = store.slot /\ release' = Item(Fin, store.id)
  BY OutStep
<1>3. done' = <<>>
  BY <1>1, TickEdges, OneIsOffered, ConcatShort DEF Edge, Item
<1>4. Out'
  BY <1>1, <1>2 DEF Out, Item
<1>5. Behind' = Behind
  BY <1>1, <1>2, TickBehind
<1>6. Phase(Behind)' = it
  BY <1>2, <1>5 DEF Phase
<1>7. aw = <<it>>
  OBVIOUS
<1> HIDE DEF it
<1>8. CASE Take(i.takes)
  <2>1. aw' = <<>>
    BY <1>2, <1>7, <1>8, TickEdges, OneIsOffered, ConcatShort DEF Edge, Item
  <2>2. burst' = it
    BY <1>7, <1>8, TickEdges, OneIsOffered
  <2> QED BY <1>1, <1>3, <1>4, <1>6, <2>1, <2>2
<1>9. CASE ~Take(i.takes)
  <2>1. aw' = <<it>>
    BY <1>2, <1>7, <1>9, TickEdges, OneIsOffered, ConcatShort DEF Edge, Item
  <2>2. burst' = burst
    BY <1>1, <1>9, TickEdges
  <2> QED BY <1>1, <1>3, <1>4, <1>6, <2>1, <2>2
<1> QED BY <1>8, <1>9

LEMMA GivenStep ==
  ASSUME TypeInv, NEW i \in Inputs, Ticks(i), Given
  PROVE  Asked' \/ Served'
<1>1. /\ Out /\ aw = <<Phase(Behind)>> /\ ~burst.open /\ done = <<>>
      /\ grant = <<Owned>>
  BY DEF Given
<1>2. store.busy
  BY EthRxAssumption DEF Given, TypeInv, TypeOK, Small
<1>3. StoreStep
  BY TickParts
<1>4. /\ ~Fin /\ done' = <<>> /\ Out'
      /\ \/ aw' = <<>> /\ burst' = Phase(Behind)'
         \/ aw' = <<Phase(Behind)'>> /\ ~burst'.open
  BY <1>1, <1>2, AskStep
<1>5. grant' = <<>> /\ Owned' = Owned
  BY <1>1, <1>2, OutStep
<1>6. store'.held /\ store'.id = Owned
  BY <1>1, <1>3, <1>4, StoreFields, OneIsOffered
<1> QED BY <1>4, <1>5, <1>6 DEF Asked, Served

LEMMA AskedStep ==
  ASSUME TypeInv, NEW i \in Inputs, Ticks(i), Asked
  PROVE  Asked' \/ Served'
<1>1. /\ Out /\ aw = <<Phase(Behind)>> /\ ~burst.open /\ done = <<>>
      /\ grant = <<>> /\ store.held /\ store.id = Owned
  BY DEF Asked
<1>2. StoreStep
  BY TickParts
<1>3. /\ ~Fin /\ done' = <<>> /\ Out'
      /\ \/ aw' = <<>> /\ burst' = Phase(Behind)'
         \/ aw' = <<Phase(Behind)'>> /\ ~burst'.open
  BY <1>1, AskStep
<1>4. grant' = <<>> /\ Owned' = Owned
  BY <1>1, OutStep
<1>5. store'.held /\ store'.id = Owned
  BY <1>1, <1>2, <1>3, StoreFields, OneIsOffered
<1> QED BY <1>3, <1>4, <1>5 DEF Asked, Served

LEMMA ServedStep ==
  ASSUME TypeInv, NEW i \in Inputs, Ticks(i), Served
  PROVE  Served' \/ Answered'
<1> DEFINE n == Behind
<1>1. /\ Out /\ aw = <<>> /\ done = <<>> /\ grant = <<>>
      /\ store.held /\ store.id = Owned
      /\ burst = [id |-> Owned, slot |-> store.slot, left |-> n, open |-> TRUE]
  BY DEF Served, Phase
<1>2. StoreStep
  BY TickParts
<1>3. ~Fin /\ ~Take(i.takes)
  BY <1>1, OneIsOffered DEF Fin, Take
<1>4. /\ ~HostGo /\ ~Send /\ issue' = <<>> /\ host' = host /\ Owned' = Owned
      /\ store'.slot = store.slot /\ release' = Item(Fin, store.id) /\ grant' = <<>>
  BY <1>1, OutStep
<1>5. Out'
  BY <1>1, <1>3, <1>4 DEF Out, Item
<1>6. aw' = <<>>
  BY <1>1, <1>3, <1>4, TickEdges, ConcatShort DEF Edge, Item
<1>7. store'.held /\ store'.id = Owned
  BY <1>1, <1>2, <1>3, StoreFields, OneIsOffered
<1>8. /\ Land(i.lands) => Behind' = n - 1
      /\ ~Land(i.lands) => Behind' = n
      /\ n \in Nat
  BY <1>4, TickBehind
<1>9. burst.left = n /\ burst.id = Owned
  BY <1>1
<1>10. CASE Answer(i.answers)
  <2>1. ~Land(i.lands) /\ n = 0
    BY <1>9, <1>10 DEF Answer, Land
  <2>2. burst' = NoBurst
    BY <1>3, <1>10, <2>1, TickEdges
  <2>3. done' = <<Owned>>
    BY <1>1, <1>3, <1>9, <1>10, TickEdges, ConcatShort DEF Edge, Item
  <2> QED BY <1>4, <1>5, <1>6, <1>7, <1>8, <2>1, <2>2, <2>3 DEF Answered, NoBurst
<1>11. CASE ~Answer(i.answers)
  <2>1. done' = <<>>
    BY <1>1, <1>3, <1>11, TickEdges, ConcatShort DEF Edge, Item
  <2>2. burst' = [id |-> Owned, slot |-> store.slot, left |-> Behind', open |-> TRUE]
    <3> HIDE DEF n
    <3>1. CASE Land(i.lands)
      BY <1>1, <1>3, <1>8, <3>1, TickEdges
    <3>2. CASE ~Land(i.lands)
      BY <1>1, <1>3, <1>8, <1>11, <3>2, TickEdges
    <3> QED BY <3>1, <3>2
  <2>3. burst' = Phase(Behind)'
    BY <1>4, <2>2 DEF Phase
  <2> QED BY <1>4, <1>5, <1>6, <1>7, <2>1, <2>3 DEF Served
<1> QED BY <1>10, <1>11

LEMMA AnsweredStep ==
  ASSUME TypeInv, NEW i \in Inputs, Ticks(i), Answered
  PROVE  Rests'
<1>1. /\ Out /\ aw = <<>> /\ done = <<Owned>> /\ grant = <<>> /\ release = <<>>
      /\ store.held /\ store.id = Owned /\ ~burst.open /\ Behind = 0
      /\ host.busy = {Owned}
  BY DEF Answered, Out
<1>2. StoreStep
  BY TickParts
<1>3. Fin /\ ~Take(i.takes) /\ ~Land(i.lands) /\ ~Answer(i.answers)
  BY <1>1, OneIsOffered DEF Fin, Take, Land, Answer
<1>4. /\ ~HostGo /\ ~Send /\ issue' = <<>> /\ host' = host /\ Owned' = Owned
      /\ release' = Item(Fin, store.id) /\ grant' = <<>>
  BY <1>1, OutStep
<1>5. aw' = <<>> /\ burst' = burst
  BY <1>1, <1>3, <1>4, TickEdges, ConcatShort DEF Edge, Item
<1>6. done' = <<>>
  BY <1>1, <1>3, TickEdges, OneIsOffered, ConcatShort DEF Edge, Item
<1>7. release' = <<Owned>>
  BY <1>1, <1>3, <1>4 DEF Item
<1>8. ~store'.held /\ w' = <<>> /\ ~store'.busy
  <2>1. Behind' = 0
    BY <1>1, <1>3, <1>4, TickBehind
  <2>2. TypeOK' /\ Small'
    BY TickType DEF TypeInv
  <2>3. Len(w') \in Nat /\ store'.left \in Nat /\ w' \in Seq(Frames)
    BY <2>2, EthRxAssumption DEF TypeOK, Frames
  <2>4. Len(w') = 0 /\ store'.left = 0
    BY <2>1, <2>3 DEF Behind
  <2>5. w' = <<>>
    BY <2>3, <2>4, EmptySeq
  <2>6. ~store'.busy
    BY <2>2, <2>4 DEF Small
  <2>7. ~store'.held
    BY <1>2, <1>3, StoreFields
  <2> QED BY <2>5, <2>6, <2>7
<1> QED BY <1>1, <1>4, <1>5, <1>6, <1>7, <1>8 DEF Rests


LEMMA TickOneBurst ==
  ASSUME NoShortBurst, TypeInv, fin.run => fin.words \in Words, OneBurst,
         NEW i \in Inputs, Ticks(i)
  PROVE  OneBurst'
<1>1. Wants' /\ (Send => Burst >= 2)
  BY TickParts, TickWants DEF OneBurst
<1>2. CASE Rests
  BY <1>1, <1>2, RestsStep DEF OneBurst
<1>3. CASE Issued
  BY <1>1, <1>3, IssuedStep DEF OneBurst
<1>4. CASE Given
  BY <1>1, <1>4, GivenStep DEF OneBurst
<1>5. CASE Asked
  BY <1>1, <1>5, AskedStep DEF OneBurst
<1>6. CASE Served
  BY <1>1, <1>6, ServedStep DEF OneBurst
<1>7. CASE Answered
  BY <1>1, <1>7, AnsweredStep DEF OneBurst
<1> QED BY <1>2, <1>3, <1>4, <1>5, <1>6, <1>7 DEF OneBurst

-----------------------------------------------------------------------------
(* The one frame that is on its way.                                       *)
SeenRun == late /\ seen.running
Unseen == ~eth.rx_was /\ ~SeenRun

(* The words of the frame that have landed.                                *)
Loaded == IF mem[fin.slot].n = fin.n THEN mem[fin.slot].words ELSE 0

(* None, or one that is dropped.                                           *)
NoFrame ==
  /\ fin.n = 0 /\ (fin.run => fin.skip)
  /\ ~Running /\ Unseen /\ words = <<>>

(* Taken in, and the engine starts in this cycle.                          *)
Begun ==
  /\ fin.n # 0 /\ Go /\ ~Running /\ Unseen /\ words = <<>>
  /\ fin.left = fin.words /\ mem[fin.slot].n # fin.n

(* Each of its words is with FrameIn, on its way, or in memory.            *)
Storing ==
  /\ fin.n # 0 /\ fin.words # 0 /\ (fin.run => Go) /\ Running
  /\ store.slot = fin.slot
  /\ words \in Seq({fin.n}) /\ w \in Seq({fin.n})
  /\ Len(words) + fin.left = store.want + store.left
  /\ Loaded + Behind + store.want = fin.words

(* Whole in memory, and waiting to be counted, or counted.                 *)
Stored ==
  /\ fin.n # 0 /\ ~fin.run /\ ~Running /\ words = <<>>
  /\ mem[fin.slot] = [n |-> fin.n, words |-> fin.words]

FrameWell ==
  /\ fin.run \/ fin.left = 0
  /\ fin.run => fin.words \in Words
  /\ fin.n # 0 => fin.n = sent
  /\ \A s \in Slots : mem[s].n <= sent

OneFrame == FrameWell /\ (NoFrame \/ Begun \/ Storing \/ Stored)

(* What the late wires can show.                                           *)
LateWires ==
  late =>
  /\ Running /\ ~seen.running => Go /\ store.want # 0
  /\ eth.rx_was /\ ~seen.running => ~Running
  /\ seen.running /\ ~eth.rx_was => Running
  /\ ~seen.full /\ ~seen.running
       => eth.q = <<>> \/ (Len(eth.q) = 1 /\ ~eth.rx_was)

(* Nothing begins and nothing is counted while the engine runs.            *)
LEMMA RunningHolds ==
  ASSUME LateWires, Running
  PROVE  ~Begin /\ ~Arrived /\ ~StartRun
<1>1. CASE late
  BY <1>1 DEF LateWires, Begin, Arrived, SeenRunning, StartRun, Go
<1>2. CASE ~late
  BY <1>2 DEF Begin, Arrived, SeenRunning, StartRun
<1> QED BY <1>1, <1>2

LEMMA RestsUnlessRunning ==
  ASSUME OneBurst, TypeInv, ~Running
  PROVE  Rests
<1>1. store.left = 0 /\ ~store.held
  BY DEF Running, TypeInv, Small
<1>2. ~Issued /\ ~Given /\ ~Asked /\ ~Served /\ ~Answered
  BY <1>1 DEF Issued, Given, Asked, Served, Answered
<1> QED BY <1>2 DEF OneBurst

(* What lands, lands in the engine's slot, and while it runs.              *)
LEMMA Landing ==
  ASSUME TypeInv, OneBurst, NEW i \in Inputs, Ticks(i)
  PROVE  /\ Land(i.lands) => Running /\ w # <<>> /\ mem' = Landed(Head(w), store.slot)
         /\ ~Land(i.lands) => mem' = mem
<1>1. mem' = IF Land(i.lands) THEN Landed(Head(w), burst.slot) ELSE mem
  BY TickParts DEF MemStep
<1>2. ASSUME Land(i.lands) PROVE Running /\ w # <<>> /\ burst.slot = store.slot
  <2>1. burst.open /\ w # <<>>
    BY <1>2 DEF Land, Offered
  <2>2. Served
    BY <2>1 DEF OneBurst, Rests, Issued, Given, Asked, Answered
  <2> QED BY <2>1, <2>2 DEF Served, Phase, Running
<1> QED BY <1>1, <1>2

(* What is to come, as the engine counts it.                               *)
LEMMA TickSums ==
  ASSUME TypeInv, OneBurst, NEW i \in Inputs, Ticks(i), ~StartRun
  PROVE  /\ Beat => store'.want + store'.left = store.want + store.left - 1
         /\ ~Beat => store'.want + store'.left = store.want + store.left
         /\ Land(i.lands) => Behind' + store'.want = Behind + store.want - 1
         /\ ~Land(i.lands) => Behind' + store'.want = Behind + store.want
         /\ Behind \in Nat /\ store.want \in Nat /\ store.left \in Nat
<1> DEFINE n == store.left  n2 == store'.left  m == store.want  m2 == store'.want
           l == Len(w)  l2 == Len(w')
<1>1. StoreStep /\ Channels(i.word, i.takes, i.lands, i.answers)
  BY TickParts
<1>2. /\ i.word \in BOOLEAN /\ i.takes \in BOOLEAN /\ i.lands \in BOOLEAN
      /\ i.answers \in BOOLEAN
  BY DEF Inputs
<1>3. /\ m2 = (IF Send THEN m - Burst ELSE m)
      /\ n2 = (IF Beat THEN n - 1 ELSE IF Send THEN Burst ELSE n)
      /\ Send => Burst \in Nat /\ Burst <= m /\ ~Beat
  <2>1. m2 = (IF Send THEN m - Burst ELSE m)
    BY <1>1, StoreFields
  <2>2. n2 = (IF Beat THEN n - 1 ELSE IF Send THEN Burst ELSE n)
    BY <1>1, StoreFields
  <2>3. Send => Burst \in 1..Beats /\ Burst <= m /\ ~Beat
    BY <1>1, StoreFields
  <2> QED BY <2>1, <2>2, <2>3, EthRxAssumption
<1>4. /\ n \in Nat /\ m \in Nat /\ l \in Nat /\ (Send => n = 0)
  <2>1. n \in Nat /\ m \in Nat
    BY EthRxAssumption DEF TypeInv, TypeOK
  <2>2. l \in Nat
    BY DEF TypeInv, TypeOK
  <2>3. Send => n = 0
    BY DEF TypeInv, Small, Send
  <2> QED BY <2>1, <2>2, <2>3
<1>5. Send => ~Land(i.lands)
  <2>1. ~store.busy /\ ~store.held => ~burst.open
    BY EthRxAssumption
       DEF OneBurst, Rests, Issued, Given, Asked, Served, Answered
  <2> QED BY <2>1 DEF Send, Land
<1>6. /\ Land(i.lands) /\ ~Beat => l2 = l - 1
      /\ ~Land(i.lands) /\ Beat => l2 = l + 1
      /\ Land(i.lands) /\ Beat => l2 = l
      /\ ~Land(i.lands) /\ ~Beat => l2 = l
  BY <1>1, <1>2, WordLens
<1>7. Behind = l + n /\ Behind' = l2 + n2
  BY DEF Behind
<1> HIDE DEF n, n2, m, m2, l, l2
<1>8. /\ Beat => m2 + n2 = m + n - 1
      /\ ~Beat => m2 + n2 = m + n
  BY <1>3, <1>4
<1>9. /\ Land(i.lands) => Behind' + m2 = Behind + m - 1
      /\ ~Land(i.lands) => Behind' + m2 = Behind + m
  <2>1. CASE Beat
    BY <1>3, <1>4, <1>6, <1>7, <2>1
  <2>2. CASE Send
    BY <1>3, <1>4, <1>5, <1>6, <1>7, <2>2
  <2>3. CASE ~Beat /\ ~Send
    BY <1>3, <1>4, <1>6, <1>7, <2>3
  <2> QED BY <2>1, <2>2, <2>3
<1> QED BY <1>4, <1>7, <1>8, <1>9 DEF n, n2, m, m2


(* Nothing moves while the engine waits and FrameIn asks nothing of it.    *)
LEMMA IdleStep ==
  ASSUME TypeInv, OneBurst, ~Running, ~Go, words = <<>>, NEW i \in Inputs, Ticks(i)
  PROVE  ~Running' /\ words' = <<>> /\ mem' = mem /\ ~SeenRun'
<1>1. StoreStep /\ late' = late
      /\ seen' = (IF late THEN [running |-> Running, full |-> Full, irq |-> Irq]
                  ELSE seen)
  BY TickParts
<1>2. Rests
  BY RestsUnlessRunning
<1>3. ~StartRun /\ ~Send /\ ~Beat /\ ~Emit(i.word) /\ ~Offered(grant)
  BY <1>2, OneIsOffered DEF StartRun, Send, Beat, Emit, Running, Rests
<1>4. store'.want = 0 /\ store'.left = store.left /\ ~store'.held
  BY <1>1, <1>3, StoreFields DEF Running
<1>5. ~store'.busy
  BY <1>1, <1>4, StoreFields DEF Running, TypeInv, Small
<1>6. words' = <<>>
  BY <1>3, TickEdges, ConcatShort DEF Edge, Item
<1>7. mem' = mem
  BY Landing
<1>8. ~SeenRun'
  BY <1>1 DEF SeenRun
<1> QED BY <1>4, <1>5, <1>6, <1>7, <1>8 DEF Running

LEMMA BeginStep ==
  ASSUME TypeInv, OneBurst, FrameWell, ~Running, Begin, words = <<>>,
         NEW i \in Inputs, Ticks(i)
  PROVE  FrameWell' /\ (IF Accept THEN Begun' ELSE NoFrame')
<1>1. FinStep(i.word) /\ EthStep(i.acked) /\ i.word \in BOOLEAN
  BY TickParts
<1>2. ~Running' /\ words' = <<>> /\ mem' = mem /\ ~SeenRun'
  <2>1. ~Go
    BY DEF Begin, Go
  <2> QED BY <2>1, IdleStep
<1>3. ~eth'.rx_was
  BY <1>1 DEF EthStep, Begin
<1>4. /\ fin'.run /\ fin'.left = offer /\ fin'.words = offer /\ fin'.skip = SeenFull
      /\ fin'.n = (IF Accept THEN sent + 1 ELSE 0)
      /\ sent' = (IF Accept THEN sent + 1 ELSE sent)
  BY <1>1, FinFields DEF FinStep
<1>5. /\ offer \in Words /\ sent \in Nat
      /\ mem \in [Slots -> [n : Frames, words : Nat]]
      /\ \A s \in Slots : mem[s].n \in Nat /\ mem[s].n <= sent
  <2>1. /\ offer \in Words /\ sent \in Nat
        /\ mem \in [Slots -> [n : Frames, words : Nat]]
    BY DEF TypeInv, TypeOK, Begin
  <2>2. ASSUME NEW s \in Slots PROVE mem[s].n \in Nat /\ mem[s].n <= sent
    BY <2>1, EthRxAssumption DEF FrameWell, Frames
  <2> QED BY <2>1, <2>2
<1>6. fin'.slot \in Slots
  BY TickType DEF TypeInv, TypeOK, Slots
<1>7. FrameWell'
  <2>1. \A s \in Slots' : mem'[s].n <= sent'
    BY <1>2, <1>4, <1>5 DEF Slots
  <2> QED BY <1>4, <1>5, <2>1 DEF FrameWell
<1>8. CASE Accept
  <2>1. ~SeenFull /\ fin'.n = sent + 1
    BY <1>4, <1>8 DEF Accept
  <2>2. mem'[fin'.slot].n # fin'.n /\ fin'.n # 0
    BY <1>2, <1>5, <1>6, <2>1
  <2> QED BY <1>2, <1>3, <1>4, <1>7, <1>8, <2>1, <2>2 DEF Begun, Go, Unseen
<1>9. CASE ~Accept
  <2>1. SeenFull
    BY <1>9 DEF Accept
  <2> QED BY <1>2, <1>3, <1>4, <1>7, <1>9, <2>1 DEF NoFrame, Unseen
<1> QED BY <1>8, <1>9

LEMMA NoFrameStep ==
  ASSUME TypeInv, OneBurst, FrameWell, NoFrame, ~Begin, NEW i \in Inputs, Ticks(i)
  PROVE  FrameWell' /\ NoFrame'
<1>1. FinStep(i.word) /\ EthStep(i.acked) /\ i.word \in BOOLEAN
  BY TickParts
<1>2. ~Running' /\ words' = <<>> /\ mem' = mem /\ ~SeenRun'
  <2>1. ~Go
    BY DEF NoFrame, Go
  <2> QED BY <2>1, IdleStep DEF NoFrame
<1>3. ~eth'.rx_was
  BY <1>1 DEF EthStep, NoFrame, Unseen, SeenRun, SeenRunning
<1>4. /\ fin'.n = fin.n /\ fin'.skip = fin.skip /\ fin'.words = fin.words
      /\ fin'.run => fin.run
      /\ ~fin'.run => fin'.left = 0
      /\ sent' = sent
  <2>1. ~Accept /\ ~Emit(i.word)
    BY DEF Accept, NoFrame, Emit, Go
  <2>2. fin'.left = IF Skip(i.word) THEN 0 ELSE fin.left
    BY <1>1, <2>1, FinFields
  <2>3. fin'.run = IF Skip(i.word) THEN fin.run ELSE fin.run /\ fin.left # 0
    BY <1>1, <2>1, FinFields
  <2>4. fin'.n = fin.n /\ fin'.skip = fin.skip /\ fin'.words = fin.words /\ sent' = sent
    BY <1>1, <2>1, FinFields
  <2> QED BY <2>2, <2>3, <2>4 DEF FrameWell, Skip
<1>5. FrameWell'
  BY <1>2, <1>4 DEF FrameWell, NoFrame, Slots
<1> QED BY <1>2, <1>3, <1>4, <1>5 DEF NoFrame, Unseen

LEMMA StoredStep ==
  ASSUME TypeInv, OneBurst, FrameWell, Stored, ~Begin, NEW i \in Inputs, Ticks(i)
  PROVE  FrameWell' /\ Stored'
<1>1. FinStep(i.word)
  BY TickParts
<1>2. ~Running' /\ words' = <<>> /\ mem' = mem
  <2>1. ~Go
    BY DEF Stored, Go
  <2> QED BY <2>1, IdleStep DEF Stored
<1>3. fin' = fin /\ sent' = sent
  <2>1. ~Accept /\ ~Emit(i.word) /\ ~Skip(i.word) /\ fin.left = 0
    BY DEF Accept, Stored, Emit, Go, Skip, FrameWell
  <2>2. fin' = [fin EXCEPT !.run = FALSE] /\ sent' = sent
    BY <1>1, <2>1 DEF FinStep
  <2>3. fin.run = FALSE
    BY DEF Stored, TypeInv, TypeOK
  <2>4. fin \in [run : BOOLEAN, skip : BOOLEAN, left : Nat, n : Frames, words : Nat,
                 slot : Slots]
    BY DEF TypeInv, TypeOK
  <2> QED BY <2>2, <2>3, <2>4
<1> QED BY <1>2, <1>3 DEF FrameWell, Stored, Slots

LEMMA BegunStep ==
  ASSUME TypeInv, OneBurst, FrameWell, Begun, NEW i \in Inputs, Ticks(i)
  PROVE  /\ FrameWell' /\ Storing' /\ fin'.run /\ store'.want # 0 /\ ~Begin /\ ~Arrived
         /\ ~eth'.rx_was
<1>1. FinStep(i.word) /\ StoreStep /\ EthStep(i.acked) /\ i.word \in BOOLEAN
  BY TickParts
<1>2. Rests
  BY RestsUnlessRunning DEF Begun
<1>3. /\ StartRun /\ ~Send /\ ~Beat /\ ~Offered(grant) /\ ~Begin /\ ~Skip(i.word)
      /\ ~Arrived /\ ~Accept
  BY <1>2, OneIsOffered
     DEF Begun, StartRun, Send, Beat, Running, Begin, Skip, Go, Rests, Arrived, Unseen,
         Accept
<1>4. fin.words \in Words /\ fin.words \in Nat \ {0} /\ fin.left = fin.words
  BY EthRxAssumption DEF FrameWell, Begun, Go
<1>5. /\ fin'.n = fin.n /\ fin'.words = fin.words /\ fin'.slot = fin.slot
      /\ fin'.skip = fin.skip /\ sent' = sent
      /\ fin'.left = (IF Emit(i.word) THEN fin.left - 1 ELSE fin.left)
      /\ fin'.run
  <2>1. /\ fin'.n = fin.n /\ fin'.words = fin.words /\ fin'.slot = fin.slot
        /\ fin'.skip = fin.skip /\ sent' = sent
    BY <1>1, <1>3, FinFields
  <2>2. fin'.left = (IF Emit(i.word) THEN fin.left - 1 ELSE fin.left)
    BY <1>1, <1>3, FinFields
  <2>3. fin'.run = (IF Emit(i.word) \/ Skip(i.word) THEN fin.run
                    ELSE fin.run /\ fin.left # 0)
    BY <1>1, <1>3, FinFields
  <2> QED BY <1>4, <2>1, <2>2, <2>3 DEF Begun, Go
<1>6. store'.want = fin.words /\ store'.left = 0 /\ store'.slot = fin.slot
  BY <1>1, <1>3, StoreFields DEF Begun, Running, TypeInv, Small
<1>7. mem' = mem /\ w' = <<>>
  <2>1. ~Land(i.lands)
    BY Landing DEF Begun
  <2> QED BY <1>2, <1>3, <2>1, Landing, TickEdges, ConcatShort DEF Rests, Edge, Item
<1>8. words' = IF Emit(i.word) THEN <<fin.n>> ELSE <<>>
  BY <1>3, TickEdges, ConcatShort DEF Begun, Edge, Item
<1>9. FrameWell'
  BY <1>4, <1>5, <1>7 DEF FrameWell, Slots
<1>10. words' \in Seq({fin'.n}) /\ w' \in Seq({fin'.n})
       /\ Len(words') + fin'.left = fin.words /\ Len(w') = 0
  <2>1. CASE Emit(i.word)
    <3>1. words' = <<fin.n>> /\ fin'.left = fin.words - 1
      BY <1>4, <1>5, <1>8, <2>1
    <3>2. words' \in Seq({fin.n}) /\ Len(words') = 1
      BY <3>1
    <3> QED BY <1>4, <1>5, <1>7, <3>1, <3>2
  <2>2. CASE ~Emit(i.word)
    BY <1>4, <1>5, <1>7, <1>8, <2>2
  <2> QED BY <2>1, <2>2
<1>11. Loaded' = 0
  BY <1>5, <1>7 DEF Loaded, Begun
<1>12. Behind' = 0
  BY <1>6, <1>10 DEF Behind
<1>13. Storing'
  <2>1. Running' /\ Go'
    BY <1>4, <1>5, <1>6 DEF Running, Go, Begun
  <2>2. Len(words') + fin'.left = store'.want + store'.left
    BY <1>4, <1>6, <1>10
  <2>3. Loaded' + Behind' + store'.want = fin'.words
    BY <1>4, <1>5, <1>6, <1>11, <1>12
  <2> QED BY <1>4, <1>5, <1>6, <1>10, <2>1, <2>2, <2>3 DEF Storing, Begun
<1>14. ~eth'.rx_was
  BY <1>1 DEF EthStep, Begun, Unseen, SeenRun, SeenRunning
<1> QED BY <1>3, <1>4, <1>5, <1>6, <1>9, <1>13, <1>14


(* The words on their way to memory are all of the frame.                  *)
LEMMA StoringWords ==
  ASSUME TypeInv, OneBurst, LateWires, Storing, NEW i \in Inputs, Ticks(i)
  PROVE  words' \in Seq({fin.n}) /\ w' \in Seq({fin.n})
<1> DEFINE S == {fin.n}
<1>1. words \in Seq(S) /\ w \in Seq(S) /\ fin.n \in S
  BY DEF Storing
<1>2. Beat => words # <<>>
  BY DEF Beat, Offered
<1>3. Land(i.lands) => w # <<>>
  BY DEF Land, Offered
<1>4. words # <<>> => Head(words) \in S
  BY <1>1, HeadTailProperties
<1>5. words' = Edge(words, Beat, Item(Emit(i.word), fin.n))
  BY TickEdges
<1>6. w' = Edge(w, Land(i.lands), Item(Beat, Head(words)))
  BY TickEdges
<1>7. Beat \in BOOLEAN /\ Emit(i.word) \in BOOLEAN /\ Land(i.lands) \in BOOLEAN
  BY TickSignals
<1> HIDE DEF S
<1>8. words' \in Seq(S)
  BY <1>1, <1>2, <1>5, <1>7, EdgeItem
<1>9. w' \in Seq(S)
  <2>1. Beat => Head(words) \in S
    BY <1>2, <1>4
  <2> QED BY <1>1, <1>3, <1>6, <1>7, <2>1, EdgeItem
<1> QED BY <1>8, <1>9 DEF S

(* A word that lands is one more of the frame in its slot.                 *)
LEMMA StoringLands ==
  ASSUME TypeInv, OneBurst, FrameWell, Storing, NEW i \in Inputs, Ticks(i)
  PROVE  /\ Land(i.lands) => /\ mem' = [mem EXCEPT ![fin.slot] =
                                          [n |-> fin.n, words |-> Loaded + 1]]
         /\ ~Land(i.lands) => mem' = mem
         /\ \A s \in Slots : mem'[s].n <= sent
         /\ Loaded \in Nat
<1>1. /\ mem \in [Slots -> [n : Frames, words : Nat]] /\ fin.slot \in Slots
      /\ fin.n \in Frames
  BY DEF TypeInv, TypeOK
<1>2. ~Land(i.lands) => mem' = mem
  BY Landing
<1>3. ASSUME Land(i.lands)
      PROVE  mem' = [mem EXCEPT ![fin.slot] = [n |-> fin.n, words |-> Loaded + 1]]
  <2>1. mem' = Landed(Head(w), fin.slot) /\ w # <<>>
    BY <1>3, Landing DEF Storing
  <2>2. Head(w) = fin.n
    <3>1. w \in Seq({fin.n})
      BY DEF Storing
    <3>2. Head(w) \in {fin.n}
      BY <2>1, <3>1, HeadTailProperties
    <3> QED BY <3>2
  <2>3. (IF mem[fin.slot].n = fin.n THEN mem[fin.slot].words + 1 ELSE 1) = Loaded + 1
    BY DEF Loaded
  <2>4. mem' = [mem EXCEPT ![fin.slot] =
          [n |-> fin.n,
           words |-> IF mem[fin.slot].n = fin.n THEN mem[fin.slot].words + 1 ELSE 1]]
    BY <2>1, <2>2 DEF Landed
  <2> QED BY <2>3, <2>4
<1>4. \A s \in Slots : mem'[s].n <= sent
  <2>1. \A s \in Slots : mem[s].n <= sent
    BY DEF FrameWell
  <2>2. fin.n = sent /\ sent \in Nat
    BY DEF FrameWell, Storing, TypeInv, TypeOK
  <2>3. CASE Land(i.lands)
    <3> DEFINE to == [n |-> fin.n, words |-> Loaded + 1]
    <3>1. to.n <= sent
      BY <2>2
    <3>2. mem' = [mem EXCEPT ![fin.slot] = to]
      BY <1>3, <2>3
    <3> HIDE DEF to
    <3> QED BY <1>1, <2>1, <3>1, <3>2
  <2>4. CASE ~Land(i.lands)
    BY <1>2, <2>1, <2>4
  <2> QED BY <2>3, <2>4
<1>5. Loaded \in Nat
  BY <1>1 DEF Loaded
<1> QED BY <1>2, <1>3, <1>4, <1>5

LEMMA StoringStep ==
  ASSUME TypeInv, OneBurst, FrameWell, LateWires, Storing, NEW i \in Inputs, Ticks(i),
         OneBurst'
  PROVE  FrameWell' /\ (IF Running' THEN Storing' ELSE Stored')
<1> DEFINE a == Len(words)  a2 == Len(words')  f == fin.left  f2 == fin'.left
           m == store.want  m2 == store'.want  n == store.left  n2 == store'.left
           b == Behind  b2 == Behind'  l == Loaded  l2 == Loaded'
<1>1. /\ FinStep(i.word) /\ StoreStep /\ i.word \in BOOLEAN
      /\ Channels(i.word, i.takes, i.lands, i.answers)
      /\ i.takes \in BOOLEAN /\ i.lands \in BOOLEAN /\ i.answers \in BOOLEAN
  BY TickParts
<1>2. ~Begin /\ ~StartRun /\ ~Accept
  <2>1. ~Begin /\ ~StartRun
    BY RunningHolds DEF Storing
  <2> QED BY <2>1 DEF Accept
<1>3. ~Skip(i.word)
  BY DEF Skip, Storing, Go
<1>4. /\ fin'.n = fin.n /\ fin'.words = fin.words /\ fin'.slot = fin.slot
      /\ fin'.skip = fin.skip /\ sent' = sent
  BY <1>1, <1>2, FinFields
<1>5. f2 = (IF Emit(i.word) THEN f - 1 ELSE f)
  BY <1>1, <1>2, <1>3, FinFields
<1>6. fin'.run = (IF Emit(i.word) THEN fin.run ELSE fin.run /\ f # 0)
  BY <1>1, <1>2, <1>3, FinFields
<1>7. Emit(i.word) => f # 0 /\ fin.run
  BY DEF Emit, Go
<1>8. store'.slot = fin'.slot
  BY <1>1, <1>2, <1>4, StoreFields DEF Storing
<1>9. words' \in Seq({fin'.n}) /\ w' \in Seq({fin'.n})
  BY <1>4, StoringWords
<1>10. /\ Beat => m2 + n2 = m + n - 1
       /\ ~Beat => m2 + n2 = m + n
       /\ Land(i.lands) => b2 + m2 = b + m - 1
       /\ ~Land(i.lands) => b2 + m2 = b + m
       /\ b \in Nat /\ m \in Nat /\ n \in Nat
  BY <1>2, TickSums
<1>11. /\ Beat /\ ~Emit(i.word) => a2 = a - 1
       /\ ~Beat /\ Emit(i.word) => a2 = a + 1
       /\ Beat /\ Emit(i.word) => a2 = a
       /\ ~Beat /\ ~Emit(i.word) => a2 = a
  BY <1>1, WordLens
<1>12. /\ Land(i.lands) => l2 = l + 1
       /\ ~Land(i.lands) => l2 = l
       /\ l \in Nat
  <2>1. mem \in [Slots -> [n : Frames, words : Nat]] /\ fin.slot \in Slots
    BY DEF TypeInv, TypeOK
  <2>2. ASSUME ~Land(i.lands) PROVE l2 = l
    <3>1. mem' = mem
      BY <2>2, StoringLands
    <3> QED BY <1>4, <3>1 DEF Loaded
  <2>3. ASSUME Land(i.lands) PROVE l2 = l + 1
    <3> DEFINE k == Loaded + 1
    <3>1. mem' = [mem EXCEPT ![fin.slot] = [n |-> fin.n, words |-> k]]
      BY <2>3, StoringLands
    <3> HIDE DEF k
    <3>2. mem'[fin.slot].n = fin.n /\ mem'[fin.slot].words = k
      BY <2>1, <3>1
    <3>3. Loaded' = k
      BY <1>4, <3>2 DEF Loaded
    <3> QED BY <3>3 DEF k
  <2> QED BY <2>2, <2>3, StoringLands
<1>13. a \in Nat /\ f \in Nat /\ a2 \in Nat /\ f2 \in Nat /\ m2 \in Nat /\ n2 \in Nat
       /\ b2 \in Nat /\ fin.words \in Nat \ {0} /\ l2 \in Nat
  <2>1. TypeInv'
    BY TickType
  <2>2. a \in Nat /\ a2 \in Nat /\ Len(w') \in Nat
    <3>1. words \in Seq(Frames)
      BY DEF TypeInv, TypeOK
    <3>2. words' \in Seq({fin'.n}) /\ w' \in Seq({fin'.n})
      BY <1>9
    <3> QED BY <3>1, <3>2
  <2>3. f \in Nat /\ f2 \in Nat /\ m2 \in Nat /\ n2 \in Nat /\ fin.words \in Nat \ {0}
    BY <2>1, EthRxAssumption DEF TypeInv, TypeOK, Storing
  <2>4. b2 \in Nat
    BY <2>2, <2>3 DEF Behind
  <2>5. l2 \in Nat
    BY <1>12
  <2> QED BY <2>2, <2>3, <2>4, <2>5
<1>14. a + f = m + n /\ l + b + m = fin.words
  BY DEF Storing
<1>15. FrameWell'
  <2>1. fin'.run \/ f2 = 0
    BY <1>5, <1>6, <1>7 DEF FrameWell
  <2>2. \A s \in Slots' : mem'[s].n <= sent'
    BY <1>4, StoringLands DEF Slots
  <2>3. fin'.run => fin'.words \in Words
    BY <1>4, <1>6 DEF FrameWell
  <2> QED BY <1>4, <2>1, <2>2, <2>3 DEF FrameWell
<1> HIDE DEF a, a2, f, f2, m, m2, n, n2, b, b2, l, l2
<1>16. a2 + f2 = m2 + n2
  BY <1>5, <1>10, <1>11, <1>13, <1>14
<1>17. l2 + b2 + m2 = fin.words
  <2>1. CASE Land(i.lands)
    BY <1>10, <1>12, <1>13, <1>14, <2>1
  <2>2. CASE ~Land(i.lands)
    BY <1>10, <1>12, <1>13, <1>14, <2>2
  <2> QED BY <2>1, <2>2
<1>18. CASE Running'
  <2>1. fin'.run => Go'
    BY <1>4, <1>6 DEF Go, Storing
  <2> QED BY <1>4, <1>8, <1>9, <1>13, <1>15, <1>16, <1>17, <1>18, <2>1
          DEF Storing, a2, f2, m2, n2, l2, b2
<1>19. CASE ~Running'
  <2>1. TypeInv'
    BY TickType
  <2>2. m2 = 0 /\ n2 = 0
    BY <1>19, <2>1 DEF Running, TypeInv, Small, m2, n2
  <2>3. b2 = 0
    <3>1. store'.left = 0 /\ ~store'.held
      BY <1>19, <2>2 DEF Running, n2
    <3>2. ~Issued' /\ ~Given' /\ ~Asked' /\ ~Served' /\ ~Answered'
      BY <3>1 DEF Issued, Given, Asked, Served, Answered
    <3>3. Len(w') = 0
      BY <3>2 DEF OneBurst, Rests
    <3> QED BY <2>2, <3>3 DEF b2, n2, Behind
  <2>4. a2 = 0 /\ f2 = 0 /\ l2 = fin.words
    BY <1>13, <1>16, <1>17, <2>2, <2>3
  <2>5. words' = <<>>
    BY <1>9, <2>4, EmptySeq DEF a2
  <2>6. ~fin'.run
    <3>1. SUFFICES ASSUME fin'.run PROVE FALSE
      OBVIOUS
    <3>2. Emit(i.word)
      BY <1>5, <1>6, <2>4, <3>1
    <3>3. Beat => a # 0
      <4>1. words \in Seq(Frames)
        BY DEF TypeInv, TypeOK
      <4> QED BY <4>1, EmptySeq DEF Beat, Offered, a
    <3> QED BY <1>11, <1>13, <2>4, <3>2, <3>3
  <2>7. mem'[fin'.slot] = [n |-> fin'.n, words |-> fin'.words]
    <3>1. l2 # 0
      BY <1>13, <2>4
    <3>2. mem'[fin'.slot].n = fin'.n /\ mem'[fin'.slot].words = fin.words
      BY <2>4, <3>1 DEF l2, Loaded
    <3>3. mem'[fin'.slot] \in [n : Frames, words : Nat]
      BY <2>1 DEF TypeInv, TypeOK, Slots, Frames
    <3> QED BY <1>4, <3>2, <3>3
  <2> QED BY <1>4, <1>15, <1>19, <2>5, <2>6, <2>7 DEF Stored, Storing
<1> QED BY <1>18, <1>19


LEMMA TickOneFrame ==
  ASSUME TypeInv, OneBurst, OneFrame, LateWires, NEW i \in Inputs, Ticks(i), OneBurst'
  PROVE  OneFrame'
<1>1. CASE Begin
  <2>1. ~Running /\ words = <<>>
    BY <1>1, RunningHolds DEF OneFrame, NoFrame, Begun, Storing, Stored, Begin, Go
  <2> QED BY <1>1, <2>1, BeginStep DEF OneFrame
<1>2. CASE ~Begin
  <2>1. CASE NoFrame
    BY <1>2, <2>1, NoFrameStep DEF OneFrame
  <2>2. CASE Begun
    BY <2>2, BegunStep DEF OneFrame
  <2>3. CASE Storing
    BY <2>3, StoringStep DEF OneFrame
  <2>4. CASE Stored
    BY <1>2, <2>4, StoredStep DEF OneFrame
  <2> QED BY <2>1, <2>2, <2>3, <2>4 DEF OneFrame
<1> QED BY <1>1, <1>2

(* A frame is on its way from when it is taken in until it is counted, and *)
(* it is whole in memory by then.                                          *)
LEMMA TickWay ==
  ASSUME TypeInv, OneBurst, OneFrame, LateWires, NEW i \in Inputs, Ticks(i), OneBurst'
  PROVE  /\ OnItsWay' <=> (OnItsWay /\ ~Arrived) \/ Accept
         /\ Arrived => OnItsWay /\ Stored
         /\ Accept /\ ~Arrived => ~OnItsWay
         /\ OnItsWay => fin.n = sent
<1>1. /\ eth'.rx_was = SeenRunning /\ late' = late
      /\ seen' = (IF late THEN [running |-> Running, full |-> Full, irq |-> Irq]
                  ELSE seen)
  BY TickParts DEF EthStep
<1>2. OnItsWay => fin.n = sent
  BY DEF OnItsWay, OneFrame, FrameWell
<1>3. Accept => Begin
  BY DEF Accept
<1>4. CASE NoFrame
  <2>1. ~OnItsWay /\ ~Arrived
    BY <1>4 DEF NoFrame, OnItsWay, Arrived, Unseen
  <2>2. CASE Begin
    <3>1. IF Accept THEN Begun' ELSE NoFrame'
      BY <1>4, <2>2, BeginStep DEF OneFrame, NoFrame
    <3>2. OnItsWay' <=> Accept
      BY <3>1 DEF OnItsWay, Begun, NoFrame, Go
    <3> QED BY <1>2, <2>1, <3>2
  <2>3. CASE ~Begin
    <3>1. NoFrame'
      BY <1>4, <2>3, NoFrameStep DEF OneFrame
    <3>2. ~OnItsWay'
      BY <3>1 DEF OnItsWay, NoFrame
    <3> QED BY <1>2, <1>3, <2>1, <2>3, <3>2
  <2> QED BY <2>2, <2>3
<1>5. CASE Begun
  <2>1. Storing' /\ ~Begin /\ ~Arrived
    BY <1>5, BegunStep DEF OneFrame
  <2>2. OnItsWay /\ OnItsWay'
    BY <1>5, <2>1 DEF OnItsWay, Begun, Storing, Go
  <2> QED BY <1>2, <1>3, <2>1, <2>2
<1>6. CASE Storing
  <2>1. Running /\ ~Begin /\ ~Arrived
    BY <1>6, RunningHolds DEF Storing
  <2>2. IF Running' THEN Storing' ELSE Stored'
    BY <1>6, StoringStep DEF OneFrame
  <2>3. fin'.n # 0
    BY <2>2 DEF Storing, Stored
  <2>4. (late' /\ seen'.running) \/ eth'.rx_was
    <3>1. CASE late
      BY <1>1, <2>1, <3>1
    <3>2. CASE ~late
      BY <1>1, <2>1, <3>2 DEF SeenRunning
    <3> QED BY <3>1, <3>2
  <2>5. OnItsWay /\ OnItsWay'
    BY <1>6, <2>1, <2>3, <2>4 DEF OnItsWay, Storing
  <2> QED BY <1>2, <1>3, <2>1, <2>5
<1>7. CASE Stored
  <2>1. OnItsWay <=> SeenRun \/ eth.rx_was
    BY <1>7 DEF OnItsWay, Stored, SeenRun
  <2>2. SeenRunning <=> SeenRun
    BY <1>7 DEF SeenRunning, SeenRun, Stored
  <2>3. ~SeenRun'
    BY <1>1, <1>7 DEF SeenRun, Stored
  <2>4. Arrived => OnItsWay
    BY <2>1 DEF Arrived
  <2>5. CASE Begin
    <3>1. IF Accept THEN Begun' ELSE NoFrame'
      BY <1>7, <2>5, BeginStep DEF OneFrame, Stored
    <3>2. OnItsWay' <=> Accept
      BY <3>1 DEF OnItsWay, Begun, NoFrame, Go
    <3>3. OnItsWay => Arrived
      BY <2>1, <2>2, <2>5 DEF Begin, Arrived
    <3> QED BY <1>2, <1>7, <2>4, <3>2, <3>3
  <2>6. CASE ~Begin
    <3>1. Stored'
      BY <1>7, <2>6, StoredStep DEF OneFrame
    <3>2. OnItsWay' <=> eth'.rx_was
      BY <2>3, <3>1 DEF OnItsWay, Stored, SeenRun
    <3>3. OnItsWay /\ ~Arrived <=> SeenRunning
      BY <2>1, <2>2 DEF Arrived
    <3> QED BY <1>1, <1>2, <1>3, <1>7, <2>4, <2>6, <3>2, <3>3
  <2> QED BY <2>5, <2>6
<1> QED BY <1>4, <1>5, <1>6, <1>7 DEF OneFrame

(* A frame is taken in only when the other slot is free, or about to be.   *)
LEMMA AcceptsWithRoom ==
  ASSUME TypeInv, LateWires, Accept
  PROVE  eth.q = <<>> \/ (Len(eth.q) = 1 /\ ~eth.rx_was)
<1>1. CASE late
  BY <1>1 DEF LateWires, Accept, Begin, SeenRunning, SeenFull
<1>2. CASE ~late
  <2>1. ~Full
    BY <1>2 DEF Accept, SeenFull
  <2>2. Len(eth.q) = 0 \/ Len(eth.q) = 1 \/ Len(eth.q) = 2
    <3> DEFINE n == Len(eth.q)
    <3>1. n \in Nat /\ n <= 2
      BY DEF TypeInv, TypeOK
    <3> HIDE DEF n
    <3>2. n = 0 \/ n = 1 \/ n = 2
      BY <3>1
    <3> QED BY <3>2 DEF n
  <2>3. Len(eth.q) = 0 => eth.q = <<>>
    <3>1. eth.q \in Seq([n : Frames, words : Nat, slot : Slots])
      BY DEF TypeInv, TypeOK
    <3> QED BY <3>1, EmptySeq
  <2> QED BY <2>1, <2>2, <2>3, Zenon DEF Full
<1> QED BY <1>1, <1>2

LEMMA TickLateWires ==
  ASSUME TypeInv, OneBurst, OneFrame, LateWires, NEW i \in Inputs, Ticks(i)
  PROVE  LateWires'
<1>0. /\ EthStep(i.acked) /\ StoreStep /\ i.acked \in BOOLEAN /\ late' = late
      /\ seen' = (IF late THEN [running |-> Running, full |-> Full, irq |-> Irq]
                  ELSE seen)
  BY TickParts
<1>8. CASE ~late
  BY <1>0, <1>8 DEF LateWires
<1>9. SUFFICES ASSUME late PROVE LateWires'
  BY <1>8
<1>1. /\ EthStep(i.acked) /\ StoreStep /\ i.acked \in BOOLEAN /\ late
      /\ seen' = [running |-> Running, full |-> Full, irq |-> Irq]
      /\ eth'.rx_was = seen.running
  <2>1. eth'.rx_was = SeenRunning
    BY <1>0 DEF EthStep
  <2> QED BY <1>0, <1>9, <2>1 DEF SeenRunning
<1>2. ASSUME Running', ~Running PROVE fin'.run /\ ~fin'.skip /\ store'.want # 0 /\ Begun
  <2>1. Go
    <3>1. SUFFICES ASSUME ~Go PROVE FALSE
      OBVIOUS
    <3>2. words = <<>>
      BY <1>2, <3>1 DEF OneFrame, NoFrame, Begun, Storing, Stored
    <3> QED BY <1>2, <3>1, <3>2, IdleStep
  <2>2. Begun
    BY <1>2, <2>1 DEF OneFrame, NoFrame, Storing, Stored, Go
  <2>3. fin'.run /\ store'.want # 0 /\ Storing'
    BY <2>2, BegunStep DEF OneFrame
  <2> QED BY <2>2, <2>3 DEF Storing, Go
<1>3. ASSUME Running, ~Running' PROVE seen.running
  <2>1. SUFFICES ASSUME ~seen.running PROVE FALSE
    OBVIOUS
  <2>2. store.want # 0 /\ ~StartRun
    BY <1>1, <1>3, <2>1, RunningHolds DEF LateWires
  <2>3. CASE Send
    <3>1. Burst \in 1..Beats /\ ~Beat
      BY <1>1, <2>3, StoreFields
    <3>2. store'.left = Burst
      BY <1>1, <2>3, <3>1, StoreFields
    <3>3. Burst # 0
      BY <3>1, EthRxAssumption
    <3> QED BY <1>1, <1>3, <3>2, <3>3, StoreFields DEF Running
  <2>4. CASE ~Send
    BY <1>1, <1>3, <2>2, <2>4, StoreFields DEF Running
  <2> QED BY <2>3, <2>4
<1>4. Running' /\ ~seen'.running => Go' /\ store'.want # 0
  BY <1>1, <1>2 DEF Go
<1>5. eth'.rx_was /\ ~seen'.running => ~Running'
  <2>1. SUFFICES ASSUME seen.running, ~Running, Running' PROVE FALSE
    BY <1>1
  <2> QED BY <1>1, <1>2, <2>1 DEF Begun, Unseen, SeenRun
<1>6. seen'.running /\ ~eth'.rx_was => Running'
  BY <1>1, <1>3
<1>7. ASSUME ~seen'.full, ~seen'.running
      PROVE  eth'.q = <<>> \/ (Len(eth'.q) = 1 /\ ~eth'.rx_was)
  <2> DEFINE p == IF Pop(i.acked) THEN 1 ELSE 0
             a == IF Arrived /\ Len(eth.q) - p < 2 THEN 1 ELSE 0
  <2>1. /\ Len(eth'.q) = (Len(eth.q) - p) + a /\ p <= Len(eth.q)
        /\ eth'.q \in Seq([n : Frames, words : Nat, slot : Slots])
    BY <1>1, QueueStep
  <2>2. ~Full /\ ~Running
    BY <1>1, <1>7
  <2>3. Len(eth.q) \in Nat /\ Len(eth.q) <= 2
    BY DEF TypeInv, TypeOK
  <2>10. Len(eth.q) = 0 \/ Len(eth.q) = 1 \/ Len(eth.q) = 2
    <3> DEFINE n == Len(eth.q)
    <3>1. n \in Nat /\ n <= 2
      BY <2>3
    <3> HIDE DEF n
    <3>2. n = 0 \/ n = 1 \/ n = 2
      BY <3>1
    <3> QED BY <3>2 DEF n
  <2>4. Len(eth.q) = 0 \/ (Len(eth.q) = 1 /\ ~eth.rx_was)
    BY <2>2, <2>10, Zenon DEF Full
  <2>5. eth'.rx_was => ~Arrived
    BY <1>1 DEF Arrived, SeenRunning
  <2>6. eth'.rx_was => eth.rx_was
    BY <1>1, <2>2 DEF LateWires
  <2>7. (p = 0 \/ p = 1) /\ (a = 0 \/ a = 1) /\ (~Arrived => a = 0)
    OBVIOUS
  <2>8. ~eth.rx_was => ~Arrived
    BY DEF Arrived
  <2> HIDE DEF p, a
  <2>9. Len(eth'.q) = 0 \/ (Len(eth'.q) = 1 /\ ~eth'.rx_was)
    <3>1. CASE Arrived
      <4>1. Len(eth.q) = 0
        BY <2>4, <2>8, <3>1
      <4>2. Len(eth'.q) = 0 \/ Len(eth'.q) = 1
        BY <2>1, <2>7, <4>1
      <4> QED BY <2>5, <3>1, <4>2
    <3>2. CASE ~Arrived
      <4>1. Len(eth.q) = 0 => Len(eth'.q) = 0
        BY <2>1, <2>7, <3>2
      <4>2. Len(eth.q) = 1 => Len(eth'.q) = 0 \/ Len(eth'.q) = 1
        BY <2>1, <2>7, <3>2
      <4> QED BY <2>4, <2>6, <4>1, <4>2
    <3> QED BY <3>1, <3>2
  <2> QED BY <2>1, <2>9, EmptySeq
<1> QED BY <1>4, <1>5, <1>6, <1>7 DEF LateWires


-----------------------------------------------------------------------------
(* The frames the driver is told of.                                       *)
Counted ==
  /\ sent = rcvd + Len(eth.q) + (IF OnItsWay THEN 1 ELSE 0)
  /\ OnItsWay => Len(eth.q) <= 1
  /\ \A k \in 1..Len(eth.q) : eth.q[k].n = rcvd + k

(* Their slots alternate, the one on its way included.                     *)
Apart ==
  /\ Len(eth.q) = 2 => eth.q[1].slot = 1 - eth.q[2].slot
  /\ Len(eth.q) # 0 =>
       eth.q[Len(eth.q)].slot = IF OnItsWay THEN 1 - fin.slot ELSE fin.slot

Whole ==
  \A k \in 1..Len(eth.q) :
    mem[eth.q[k].slot] = [n |-> eth.q[k].n, words |-> eth.q[k].words]

Told == Counted /\ Apart /\ Whole

EthInv == TypeInv /\ OneBurst /\ OneFrame /\ LateWires /\ Told

(* The queue in a cycle; p is 1 when its oldest frame goes.                *)
LEMMA TickQueue ==
  ASSUME EthInv, NEW i \in Inputs, Ticks(i)
  PROVE  \E p \in {0, 1} :
           /\ p <= Len(eth.q) /\ rcvd' = rcvd + p
           /\ Arrived => Len(eth'.q) = Len(eth.q) - p + 1
           /\ ~Arrived => Len(eth'.q) = Len(eth.q) - p
           /\ \A k \in 1..Len(eth'.q) :
                /\ k <= Len(eth.q) - p => eth'.q[k] = eth.q[k + p]
                /\ ~(k <= Len(eth.q) - p) => eth'.q[k] = Arrival
<1> DEFINE p == IF Pop(i.acked) THEN 1 ELSE 0
           a == IF Arrived /\ Len(eth.q) - p < 2 THEN 1 ELSE 0
<1>1. EthStep(i.acked) /\ i.acked \in BOOLEAN
  BY TickParts
<1>2. TypeInv
  BY DEF EthInv
<1>3. /\ Len(eth'.q) = (Len(eth.q) - p) + a /\ p <= Len(eth.q)
      /\ \A k \in 1..Len(eth'.q) :
           eth'.q[k] = IF k <= Len(eth.q) - p THEN eth.q[k + p] ELSE Arrival
      /\ rcvd' = rcvd + p
  BY <1>1, <1>2, QueueStep
<1>4. p \in {0, 1}
  OBVIOUS
<1>5. Arrived => OnItsWay /\ Len(eth.q) <= 1
  <2>1. Arrived => Stored
    BY RunningHolds DEF EthInv, OneFrame, NoFrame, Begun, Storing, Arrived, Unseen
  <2>2. Arrived => OnItsWay
    BY <2>1 DEF Arrived, OnItsWay, Stored
  <2> QED BY <2>2 DEF EthInv, Told, Counted
<1>6. Len(eth.q) \in Nat
  BY <1>2 DEF TypeInv, TypeOK
<1>7. (Arrived => a = 1) /\ (~Arrived => a = 0)
  <2> HIDE DEF p
  <2>1. Arrived => Len(eth.q) - p < 2
    BY <1>4, <1>5, <1>6
  <2> QED BY <2>1
<1> HIDE DEF p, a
<1>8. /\ Arrived => Len(eth'.q) = Len(eth.q) - p + 1
      /\ ~Arrived => Len(eth'.q) = Len(eth.q) - p
  BY <1>3, <1>4, <1>6, <1>7
<1> QED BY <1>3, <1>4, <1>8


(* What a cycle does to the count of frames on their way.                  *)
LEMMA TickCount ==
  ASSUME EthInv, NEW i \in Inputs, Ticks(i), OneBurst'
  PROVE  /\ sent' = (IF Accept THEN sent + 1 ELSE sent)
         /\ fin'.slot = (IF Accept THEN 1 - fin.slot ELSE fin.slot)
         /\ OnItsWay' <=> (OnItsWay /\ ~Arrived) \/ Accept
         /\ Arrived => OnItsWay /\ Stored /\ mem' = mem
         /\ OnItsWay => fin.n = sent /\ Len(eth.q) <= 1
         /\ Accept => ~OnItsWay \/ (Arrived /\ Len(eth.q) = 0)
         /\ Accept => Len(eth.q) <= 1
         /\ sent \in Nat /\ rcvd \in Nat /\ Len(eth.q) \in Nat /\ fin.slot \in {0, 1}
<1>1. TypeInv /\ OneBurst /\ OneFrame /\ LateWires
  BY DEF EthInv
<1>2. FinStep(i.word) /\ i.word \in BOOLEAN
  BY TickParts
<1>3. /\ sent \in Nat /\ rcvd \in Nat /\ Len(eth.q) \in Nat /\ fin.slot \in {0, 1}
  BY <1>1 DEF TypeInv, TypeOK, Slots
<1>4. /\ OnItsWay' <=> (OnItsWay /\ ~Arrived) \/ Accept
      /\ Arrived => OnItsWay /\ Stored
      /\ Accept /\ ~Arrived => ~OnItsWay
      /\ OnItsWay => fin.n = sent
  BY <1>1, TickWay
<1>5. sent' = (IF Accept THEN sent + 1 ELSE sent)
  BY <1>2 DEF FinStep
<1>6. fin'.slot = (IF Accept THEN 1 - fin.slot ELSE fin.slot)
  <2>1. CASE Begin
    BY <1>1, <1>2, <2>1, FinFields
  <2>2. CASE ~Begin
    BY <1>1, <1>2, <2>2, FinFields DEF Accept
  <2> QED BY <2>1, <2>2
<1>7. OnItsWay => Len(eth.q) <= 1
  BY DEF EthInv, Told, Counted
<1>8. Accept => eth.q = <<>> \/ (Len(eth.q) = 1 /\ ~eth.rx_was)
  BY <1>1, AcceptsWithRoom
<1>9. Accept /\ Arrived => Len(eth.q) = 0
  BY <1>8 DEF Arrived
<1>10. Accept => Len(eth.q) <= 1
  <2>1. Accept => Len(eth.q) = 0 \/ Len(eth.q) = 1
    BY <1>8
  <2>2. 0 <= 1 /\ 1 <= 1
    OBVIOUS
  <2> QED BY <2>1, <2>2
<1>11. Arrived => mem' = mem
  BY <1>1, <1>4, Landing DEF Stored
<1> QED BY <1>3, <1>4, <1>5, <1>6, <1>7, <1>9, <1>10, <1>11

LEMMA TickCounted ==
  ASSUME EthInv, NEW i \in Inputs, Ticks(i), OneBurst'
  PROVE  Counted'
<1> DEFINE n == Len(eth.q)  n2 == Len(eth'.q)  q == eth.q  q2 == eth'.q
<1>1. /\ sent' = (IF Accept THEN sent + 1 ELSE sent)
      /\ OnItsWay' <=> (OnItsWay /\ ~Arrived) \/ Accept
      /\ Arrived => OnItsWay
      /\ OnItsWay => fin.n = sent /\ n <= 1
      /\ Accept => ~OnItsWay \/ (Arrived /\ n = 0)
      /\ Accept => n <= 1
      /\ sent \in Nat /\ rcvd \in Nat /\ n \in Nat
  BY TickCount
<1>2. PICK p \in {0, 1} :
        /\ p <= n /\ rcvd' = rcvd + p
        /\ Arrived => n2 = n - p + 1
        /\ ~Arrived => n2 = n - p
        /\ \A k \in 1..n2 :
             /\ k <= n - p => q2[k] = q[k + p]
             /\ ~(k <= n - p) => q2[k] = Arrival
  BY TickQueue
<1>3. /\ OnItsWay => sent = rcvd + n + 1
      /\ ~OnItsWay => sent = rcvd + n
      /\ \A k \in 1..n : q[k].n = rcvd + k
  <2>1. /\ sent = rcvd + n + (IF OnItsWay THEN 1 ELSE 0)
        /\ \A k \in 1..n : q[k].n = rcvd + k
    BY DEF EthInv, Told, Counted
  <2> HIDE DEF n, q
  <2>2. OnItsWay => sent = rcvd + n + 1
    BY <2>1
  <2>3. ~OnItsWay => sent = rcvd + n
    BY <1>1, <2>1
  <2> QED BY <2>1, <2>2, <2>3
<1> HIDE DEF n, n2, q, q2
<1>4. sent' = rcvd' + n2 + (IF OnItsWay' THEN 1 ELSE 0)
  <2>1. CASE Accept
    <3>1. OnItsWay' /\ sent' = sent + 1
      BY <1>1, <2>1
    <3>2. CASE Arrived
      BY <1>1, <1>2, <1>3, <2>1, <3>1, <3>2
    <3>3. CASE ~Arrived
      <4>1. ~OnItsWay
        BY <1>1, <2>1, <3>3
      <4> QED BY <1>1, <1>2, <1>3, <3>1, <3>3, <4>1
    <3> QED BY <3>2, <3>3
  <2>2. CASE ~Accept
    <3>1. sent' = sent
      BY <1>1, <2>2
    <3>2. CASE Arrived
      <4>1. ~OnItsWay' /\ OnItsWay
        BY <1>1, <2>2, <3>2
      <4> QED BY <1>1, <1>2, <1>3, <3>1, <3>2, <4>1
    <3>3. CASE ~Arrived /\ OnItsWay
      <4>1. OnItsWay'
        BY <1>1, <2>2, <3>3
      <4> QED BY <1>1, <1>2, <1>3, <3>1, <3>3, <4>1
    <3>4. CASE ~Arrived /\ ~OnItsWay
      <4>1. ~OnItsWay'
        BY <1>1, <2>2, <3>4
      <4> QED BY <1>1, <1>2, <1>3, <3>1, <3>4, <4>1
    <3> QED BY <3>2, <3>3, <3>4
  <2> QED BY <2>1, <2>2
<1>5. OnItsWay' => n2 <= 1
  <2>1. CASE Accept /\ Arrived
    <3>1. n = 0
      BY <1>1, <2>1
    <3> QED BY <1>2, <2>1, <3>1
  <2>2. CASE Accept /\ ~Arrived
    BY <1>1, <1>2, <2>2
  <2>3. CASE ~Accept
    <3>1. OnItsWay' => ~Arrived /\ n <= 1
      BY <1>1, <2>3
    <3> QED BY <1>1, <1>2, <3>1
  <2> QED BY <2>1, <2>2, <2>3
<1>6. ASSUME NEW k \in 1..n2 PROVE q2[k].n = rcvd' + k
  <2>1. CASE k <= n - p
    <3>1. k + p \in 1..n
      BY <1>1, <1>2, <2>1
    <3>2. q[k + p].n = rcvd + (k + p)
      BY <1>3, <3>1
    <3> QED BY <1>1, <1>2, <2>1, <3>2
  <2>2. CASE ~(k <= n - p)
    <3>1. Arrived
      BY <1>1, <1>2, <2>2
    <3>2. OnItsWay /\ fin.n = sent /\ sent = rcvd + n + 1
      BY <1>1, <1>3, <3>1
    <3>3. k = n - p + 1
      BY <1>1, <1>2, <2>2, <3>1
    <3>4. q2[k].n = fin.n
      BY <1>2, <2>2 DEF Arrival
    <3> QED BY <1>1, <1>2, <3>2, <3>3, <3>4
  <2> QED BY <2>1, <2>2
<1> QED BY <1>4, <1>5, <1>6 DEF Counted, n2, q2


LEMMA TickApart ==
  ASSUME EthInv, NEW i \in Inputs, Ticks(i), OneBurst'
  PROVE  Apart'
<1> DEFINE n == Len(eth.q)  n2 == Len(eth'.q)  q == eth.q  q2 == eth'.q
           s == fin.slot  s2 == fin'.slot
<1>1. /\ s2 = (IF Accept THEN 1 - s ELSE s)
      /\ OnItsWay' <=> (OnItsWay /\ ~Arrived) \/ Accept
      /\ Arrived => OnItsWay
      /\ OnItsWay => n <= 1
      /\ Accept => ~OnItsWay \/ (Arrived /\ n = 0)
      /\ n \in Nat /\ s \in {0, 1}
  BY TickCount
<1>2. PICK p \in {0, 1} :
        /\ p <= n /\ rcvd' = rcvd + p
        /\ Arrived => n2 = n - p + 1
        /\ ~Arrived => n2 = n - p
        /\ \A k \in 1..n2 :
             /\ k <= n - p => q2[k] = q[k + p]
             /\ ~(k <= n - p) => q2[k] = Arrival
  BY TickQueue
<1>3. /\ n = 2 => q[1].slot = 1 - q[2].slot
      /\ n # 0 => q[n].slot = IF OnItsWay THEN 1 - s ELSE s
  BY DEF EthInv, Told, Apart
<1>4. Arrival.slot = s
  BY DEF Arrival
<1> HIDE DEF n, n2, q, q2, s, s2
<1>5. CASE Arrived
  <2>1. OnItsWay /\ n <= 1 /\ n2 = n - p + 1
    BY <1>1, <1>2, <1>5
  <2>2. n2 \in 1..n2 /\ ~(n2 <= n - p) /\ n2 # 0
    BY <1>1, <1>2, <2>1
  <2>3. q2[n2].slot = s
    BY <1>2, <1>4, <2>2
  <2>4. s = IF OnItsWay' THEN 1 - s2 ELSE s2
    BY <1>1, <1>5
  <2>5. ASSUME n2 = 2 PROVE q2[1].slot = 1 - q2[2].slot
    <3>1. n = 1 /\ p = 0
      BY <1>1, <1>2, <2>1, <2>5
    <3>2. q2[1] = q[1]
      <4>1. 1 \in 1..n2 /\ 1 <= n - p /\ 1 + p = 1
        BY <2>5, <3>1
      <4>2. q2[1] = q[1 + p]
        BY <1>2, <4>1
      <4> QED BY <4>1, <4>2
    <3>3. q[1].slot = 1 - s
      BY <1>3, <2>1, <3>1
    <3> QED BY <2>3, <2>5, <3>2, <3>3
  <2> QED BY <2>3, <2>4, <2>5 DEF Apart, n2, q2, s2
<1>6. CASE ~Arrived
  <2>1. n2 = n - p
    BY <1>2, <1>6
  <2>2. (IF OnItsWay THEN 1 - s ELSE s) = IF OnItsWay' THEN 1 - s2 ELSE s2
    BY <1>1, <1>6
  <2>3. ASSUME n2 # 0 PROVE q2[n2].slot = IF OnItsWay' THEN 1 - s2 ELSE s2
    <3>1. n2 \in 1..n2 /\ n2 <= n - p /\ n2 + p = n /\ n # 0
      BY <1>1, <1>2, <2>1, <2>3
    <3>2. q2[n2] = q[n2 + p]
      BY <1>2, <3>1
    <3>3. q2[n2] = q[n]
      BY <3>1, <3>2
    <3> QED BY <1>3, <2>2, <3>1, <3>3
  <2>4. ASSUME n2 = 2, n <= 2 PROVE q2[1].slot = 1 - q2[2].slot
    <3>1. n = 2 /\ p = 0
      BY <1>1, <1>2, <2>1, <2>4
    <3>2. /\ 1 \in 1..n2 /\ 1 <= n - p /\ 1 + p = 1
          /\ 2 \in 1..n2 /\ 2 <= n - p /\ 2 + p = 2
      BY <2>4, <3>1
    <3>3. q2[1] = q[1 + p] /\ q2[2] = q[2 + p]
      BY <1>2, <3>2
    <3> QED BY <1>3, <3>1, <3>2, <3>3
  <2>5. n <= 2
    BY DEF EthInv, TypeInv, TypeOK, n
  <2> QED BY <2>3, <2>4, <2>5 DEF Apart, n2, q2, s2
<1> QED BY <1>5, <1>6

LEMMA TickWhole ==
  ASSUME EthInv, NEW i \in Inputs, Ticks(i), OneBurst'
  PROVE  Whole'
<1> DEFINE n == Len(eth.q)  n2 == Len(eth'.q)  q == eth.q  q2 == eth'.q
<1>1. /\ Arrived => Stored /\ mem' = mem
      /\ OnItsWay => n <= 1
      /\ n \in Nat /\ fin.slot \in {0, 1}
  BY TickCount
<1>2. PICK p \in {0, 1} :
        /\ p <= n /\ rcvd' = rcvd + p
        /\ Arrived => n2 = n - p + 1
        /\ ~Arrived => n2 = n - p
        /\ \A k \in 1..n2 :
             /\ k <= n - p => q2[k] = q[k + p]
             /\ ~(k <= n - p) => q2[k] = Arrival
  BY TickQueue
<1>3. /\ \A k \in 1..n : mem[q[k].slot] = [n |-> q[k].n, words |-> q[k].words]
      /\ n # 0 => q[n].slot = IF OnItsWay THEN 1 - fin.slot ELSE fin.slot
  BY DEF EthInv, Told, Apart, Whole
(* A word lands beside the frame that waits.                               *)
<1>4. ASSUME NEW k \in 1..n PROVE mem'[q[k].slot] = mem[q[k].slot]
  <2>1. CASE ~Land(i.lands)
    BY <2>1, Landing DEF EthInv
  <2>2. CASE Land(i.lands)
    <3>1. Running
      BY <2>2, Landing DEF EthInv
    <3>2. Storing
      BY <3>1 DEF EthInv, OneFrame, NoFrame, Begun, Stored
    <3>3. OnItsWay
      BY <3>1, <3>2 DEF OnItsWay, Storing
    <3>4. k = n /\ q[k].slot = 1 - fin.slot
      <4> HIDE DEF n, q
      <4>1. k = n /\ n # 0
        BY <1>1, <3>3
      <4> QED BY <1>3, <3>3, <4>1
    <3>5. q[k].slot # fin.slot
      <4> HIDE DEF n, q
      <4> QED BY <1>1, <3>4
    <3>6. mem' = [mem EXCEPT ![fin.slot] = [n |-> fin.n, words |-> Loaded + 1]]
      BY <2>2, <3>2, StoringLands DEF EthInv, OneFrame
    <3>7. mem \in [Slots -> [n : Frames, words : Nat]] /\ q[k].slot \in Slots
      <4>1. mem \in [Slots -> [n : Frames, words : Nat]]
        BY DEF EthInv, TypeInv, TypeOK
      <4>2. q \in Seq([n : Frames, words : Nat, slot : Slots])
        BY DEF EthInv, TypeInv, TypeOK
      <4>3. q[k] \in [n : Frames, words : Nat, slot : Slots]
        BY <4>2, ElementOfSeq
      <4> QED BY <4>1, <4>3
    <3> HIDE DEF n, q
    <3> QED BY <3>5, <3>6, <3>7
  <2> QED BY <2>1, <2>2
<1> HIDE DEF n, n2, q, q2
<1>5. ASSUME NEW k \in 1..n2
      PROVE  mem'[q2[k].slot] = [n |-> q2[k].n, words |-> q2[k].words]
  <2>1. CASE k <= n - p
    <3>1. q2[k] = q[k + p] /\ k + p \in 1..n
      BY <1>1, <1>2, <2>1
    <3> QED BY <1>3, <1>4, <3>1
  <2>2. CASE ~(k <= n - p)
    <3>1. Arrived
      BY <1>1, <1>2, <2>2
    <3>2. mem'[fin.slot] = [n |-> fin.n, words |-> fin.words]
      BY <1>1, <3>1 DEF Stored
    <3>3. q2[k] = Arrival
      BY <1>2, <2>2
    <3> QED BY <3>2, <3>3 DEF Arrival
  <2> QED BY <2>1, <2>2
<1> QED BY <1>5 DEF Whole, n2, q2

LEMMA InitEthInv == Init => EthInv
<1> SUFFICES ASSUME Init PROVE EthInv
  OBVIOUS
<1>1. TypeInv
  BY InitType
<1>2. OneBurst
  BY DEF Init, NoBurst, OneBurst, Wants, Rests
<1>3. ~Running /\ eth.q = <<>> /\ Len(eth.q) = 0
  BY DEF Init, Running
<1>4. OneFrame
  BY <1>3 DEF Init, OneFrame, FrameWell, NoFrame, Unseen, SeenRun
<1>5. LateWires
  BY <1>3 DEF Init, LateWires
<1>6. ~OnItsWay
  BY DEF Init, OnItsWay
<1>7. Told
  BY <1>3, <1>6 DEF Init, Told, Counted, Apart, Whole
<1> QED BY <1>1, <1>2, <1>4, <1>5, <1>7 DEF EthInv

LEMMA TickEthInv ==
  ASSUME NoShortBurst, EthInv, NEW i \in Inputs, Ticks(i)
  PROVE  EthInv'
<1>1. TypeInv /\ OneBurst /\ OneFrame /\ LateWires /\ (fin.run => fin.words \in Words)
  BY DEF EthInv, OneFrame, FrameWell
<1>2. OneBurst'
  BY <1>1, TickOneBurst
<1>3. TypeInv'
  BY <1>1, TickType
<1>4. OneFrame' /\ LateWires'
  BY <1>1, <1>2, TickOneFrame, TickLateWires
<1>5. Told'
  BY <1>2, TickCounted, TickApart, TickWhole DEF Told
<1> QED BY <1>2, <1>3, <1>4, <1>5 DEF EthInv

LEMMA NextEthInv == NoShortBurst /\ EthInv /\ [Next]_vars => EthInv'
<1> SUFFICES ASSUME NoShortBurst, EthInv, [Next]_vars PROVE EthInv'
  OBVIOUS
<1>1. CASE Next
  BY <1>1, NextTicks, TickEthInv
<1>2. CASE UNCHANGED vars
  <2>1. TypeInv'
    BY <1>2, NextType DEF EthInv
  <2>2. OneBurst'
    BY <1>2 DEF vars, units, EthInv, OneBurst, Wants, Rests, Issued, Given, Asked,
                Served, Answered, Out, Owned, Behind, Phase
  <2>3. OneFrame'
    BY <1>2 DEF vars, units, EthInv, OneFrame, FrameWell, NoFrame, Begun, Storing,
                Stored, Loaded, Running, Go, Unseen, SeenRun, Behind
  <2>4. LateWires'
    BY <1>2 DEF vars, units, EthInv, LateWires, Running, Go
  <2>5. Told'
    BY <1>2 DEF vars, units, EthInv, Told, Counted, Apart, Whole, OnItsWay, Running
  <2> QED BY <2>1, <2>2, <2>3, <2>4, <2>5 DEF EthInv
<1> QED BY <1>1, <1>2

LEMMA EthInvAlways == ASSUME NoShortBurst PROVE Spec => []EthInv
<1>1. EthInv /\ [Next]_vars => EthInv'
  BY NextEthInv
<1> QED BY <1>1, InitEthInv, PTL DEF Spec


-----------------------------------------------------------------------------
(* The frames that are not released, in their order.                       *)
LEMMA UnreleasedNumbered ==
  ASSUME EthInv
  PROVE  /\ Numbered(Unreleased, rcvd, sent)
         /\ Len(Unreleased) = Len(eth.q) + (IF OnItsWay THEN 1 ELSE 0)
<1> DEFINE q == eth.q  n == Len(q)
           b == [k \in DOMAIN q |-> q[k].n]
           e == Item(OnItsWay, fin.n)
<1>1. /\ sent = rcvd + n + (IF OnItsWay THEN 1 ELSE 0)
      /\ OnItsWay => n <= 1
      /\ \A k \in 1..n : q[k].n = rcvd + k
  BY DEF EthInv, Told, Counted
<1>2. /\ q \in Seq([n : Frames, words : Nat, slot : Slots])
      /\ n \in Nat /\ n <= 2 /\ rcvd \in Nat /\ sent \in Nat
  BY DEF EthInv, TypeInv, TypeOK
<1>3. OnItsWay => fin.n = sent
  BY DEF OnItsWay, EthInv, OneFrame, FrameWell
<1>4. Unreleased = b \o e
  BY DEF Unreleased
<1>5. DOMAIN q = 1..n
  BY <1>2, LenProperties
<1>6. b \in Seq(Nat) /\ Len(b) = n /\ \A k \in 1..n : b[k] = rcvd + k
  <2>1. \A k \in 1..n : q[k].n \in Nat
    <3> HIDE DEF q, n
    <3> QED BY <1>1, <1>2
  <2>2. b \in [1..n -> Nat]
    BY <1>5, <2>1
  <2>3. \A k \in 1..n : b[k] = rcvd + k
    BY <1>1, <1>5
  <2> HIDE DEF b
  <2> QED BY <1>2, <2>2, <2>3
<1> HIDE DEF b, n, q
<1>7. /\ n = 0 => b = <<>>
      /\ n = 1 => b = <<rcvd + 1>>
      /\ n = 2 => b = <<rcvd + 1, rcvd + 2>>
  <2>1. n = 0 => b = <<>>
    BY <1>6, EmptySeq
  <2>2. ASSUME n = 1 PROVE b = <<rcvd + 1>>
    <3>1. b = <<b[1]>> /\ b[1] = rcvd + 1
      BY <1>6, <2>2, OneElement
    <3> QED BY <3>1
  <2>3. ASSUME n = 2 PROVE b = <<rcvd + 1, rcvd + 2>>
    <3>1. b = <<b[1], b[2]>>
      BY <1>6, <2>3, TwoElements
    <3>2. b[1] = rcvd + 1 /\ b[2] = rcvd + 2
      BY <1>6, <2>3
    <3> QED BY <3>1, <3>2
  <2> QED BY <2>1, <2>2, <2>3
<1>8. n = 0 \/ n = 1 \/ n = 2
  BY <1>2
<1>9. CASE OnItsWay
  <2>1. e = <<sent>> /\ sent = rcvd + n + 1 /\ (n = 0 \/ n = 1)
    BY <1>1, <1>2, <1>3, <1>8, <1>9 DEF Item
  <2>2. CASE n = 0
    <3>1. sent = rcvd + 1
      BY <1>2, <2>1, <2>2
    <3>2. b \o e = <<rcvd + 1>>
      BY <1>7, <2>1, <2>2, <3>1, ConcatShort
    <3>3. Len(<<rcvd + 1>>) = 1
      OBVIOUS
    <3>4. Unreleased = <<rcvd + 1>>
      BY <1>4, <3>2
    <3>5. Numbered(Unreleased, rcvd, sent)
      BY <3>1, <3>4 DEF Numbered
    <3>6. Len(Unreleased) = n + (IF OnItsWay THEN 1 ELSE 0)
      BY <1>9, <2>2, <3>3, <3>4
    <3> QED BY <3>5, <3>6 DEF n, q
  <2>3. CASE n = 1
    <3>1. sent = rcvd + 2
      BY <1>2, <2>1, <2>3
    <3>2. b \o e = <<rcvd + 1, rcvd + 2>>
      BY <1>7, <2>1, <2>3, <3>1, ConcatShort
    <3>3. Len(<<rcvd + 1, rcvd + 2>>) = 2
      OBVIOUS
    <3>4. Unreleased = <<rcvd + 1, rcvd + 2>>
      BY <1>4, <3>2
    <3>5. Numbered(Unreleased, rcvd, sent)
      BY <3>1, <3>4 DEF Numbered
    <3>6. Len(Unreleased) = n + (IF OnItsWay THEN 1 ELSE 0)
      BY <1>9, <2>3, <3>3, <3>4
    <3> QED BY <3>5, <3>6 DEF n, q
  <2> QED BY <2>1, <2>2, <2>3
<1>10. CASE ~OnItsWay
  <2>1. e = <<>> /\ sent = rcvd + n
    BY <1>1, <1>2, <1>10 DEF Item
  <2>2. b \o e = b
    BY <1>7, <1>8, <2>1, ConcatShort
  <2>3. Numbered(b, rcvd, sent)
    <3>1. CASE n = 0
      BY <1>2, <1>7, <2>1, <3>1 DEF Numbered
    <3>2. CASE n = 1
      BY <1>7, <2>1, <3>2 DEF Numbered
    <3>3. CASE n = 2
      BY <1>7, <2>1, <3>3 DEF Numbered
    <3> QED BY <1>8, <3>1, <3>2, <3>3
  <2>4. n + 0 = n
    BY <1>2
  <2> QED BY <1>4, <1>6, <1>10, <2>2, <2>3, <2>4 DEF n, q
<1> QED BY <1>9, <1>10

(* A cycle takes in up to one frame and releases up to one.                *)
LEMMA TickIsEdge ==
  ASSUME EthInv, EthInv', NEW i \in Inputs, Ticks(i)
  PROVE  Q!Next
<1> DEFINE in == IF Accept THEN 1 ELSE 0
           a == Q!Arrivals(in)
<1>1. PICK out \in {0, 1} : rcvd' = rcvd + out
  BY TickQueue
<1>2. OneBurst'
  BY DEF EthInv
<1>3. /\ sent \in Nat /\ rcvd \in Nat
      /\ sent' = sent + in
      /\ in \in {0, 1}
  <2>1. sent \in Nat /\ rcvd \in Nat /\ sent' = (IF Accept THEN sent + 1 ELSE sent)
    BY <1>2, TickCount
  <2> QED BY <2>1
<1>4. in = 1 => sent # rcvd + 2
  <2> DEFINE n == Len(eth.q)
  <2>1. /\ Accept => n <= 1
        /\ Accept => ~OnItsWay \/ n = 0
        /\ n \in Nat
    BY <1>2, TickCount
  <2>2. sent = rcvd + n + (IF OnItsWay THEN 1 ELSE 0)
    BY DEF EthInv, Told, Counted
  <2> HIDE DEF n
  <2>3. ASSUME Accept PROVE sent # rcvd + 2
    <3>1. CASE OnItsWay
      <4>1. n = 0 /\ sent = rcvd + n + 1
        BY <2>1, <2>2, <2>3, <3>1
      <4> QED BY <1>3, <4>1
    <3>2. CASE ~OnItsWay
      <4>1. n <= 1 /\ sent = rcvd + n + 0
        BY <2>1, <2>2, <2>3, <3>2
      <4> QED BY <1>3, <2>1, <4>1
    <3> QED BY <3>1, <3>2
  <2> QED BY <2>3
<1>5. Numbered(Unreleased, rcvd, sent)
  BY UnreleasedNumbered
<1>6. Numbered(Unreleased, rcvd, sent)'
  BY UnreleasedNumbered, PTL
<1>7. Numbered(Unreleased', rcvd + out, sent + in)
  BY <1>1, <1>3, <1>6 DEF Numbered
<1> HIDE DEF in
<1>8. a = IF in = 1 THEN <<sent + 1>> ELSE <<>>
  BY DEF Q!Arrivals
<1>9. Moved(Unreleased, a, out, Unreleased')
  <2> HIDE DEF a
  <2> QED BY <1>3, <1>4, <1>5, <1>7, <1>8, NumberedMove
<1>10. Q!Move(in, out)
  BY <1>1, <1>3, <1>9 DEF Moved, Q!Move
<1> QED BY <1>1, <1>3, <1>10 DEF Q!Next

(* From when the driver can read of a frame until it acknowledges it, the  *)
(* whole frame is in memory, in the slot and with the length it is told.   *)
THEOREM EthRxStoredWhenTold == ASSUME NoShortBurst PROVE Spec => []StoredWhenTold
<1>1. EthInv => StoredWhenTold
  <2> SUFFICES ASSUME EthInv PROVE StoredWhenTold
    OBVIOUS
  <2>1. DOMAIN eth.q = 1..Len(eth.q)
    BY LenProperties DEF EthInv, TypeInv, TypeOK
  <2> QED BY <2>1 DEF EthInv, Told, Whole, StoredWhenTold
<1> QED BY <1>1, EthInvAlways, PTL

(* A frame is dropped only while the driver has yet to release two.        *)
THEOREM EthRxDropsOnlyWhenFull == ASSUME NoShortBurst PROVE Spec => DropsOnlyWhenFull
<1>1. EthInv /\ [Next]_vars
        => [~late /\ fin'.run /\ fin'.skip /\ ~fin.run => Len(Unreleased) = 2]_vars
  <2> SUFFICES ASSUME EthInv, Next, ~late, fin'.run, fin'.skip, ~fin.run
               PROVE  Len(Unreleased) = 2
    OBVIOUS
  <2>1. PICK i \in Inputs : Ticks(i)
    BY NextTicks
  <2>2. FinStep(i.word) /\ i.word \in BOOLEAN /\ TypeInv
    BY <2>1, TickParts DEF EthInv
  <2>3. ~Emit(i.word)
    BY DEF Emit, Go
  <2>4. Begin
    <3>1. ~Begin => fin'.run = (IF Emit(i.word) \/ Skip(i.word) THEN fin.run
                                ELSE fin.run /\ fin.left # 0)
      BY <2>2, FinFields
    <3> QED BY <3>1
  <2>5. Full
    BY <2>2, <2>4, FinFields DEF SeenFull
  <2> DEFINE n == Len(eth.q)
  <2>6. /\ OnItsWay => n <= 1
        /\ Len(Unreleased) = n + (IF OnItsWay THEN 1 ELSE 0)
    BY UnreleasedNumbered DEF EthInv, Told, Counted
  <2>7. eth.rx_was => OnItsWay
    BY <2>4 DEF OnItsWay, EthInv, OneFrame, NoFrame, Begun, Storing, Stored, Unseen
  <2>8. n = 2 \/ (n = 1 /\ eth.rx_was)
    BY <2>5 DEF Full
  <2> HIDE DEF n
  <2>9. (n = 2 /\ ~OnItsWay) \/ (n = 1 /\ OnItsWay)
    BY <2>6, <2>7, <2>8
  <2> QED BY <2>6, <2>9
<1> QED BY <1>1, EthInvAlways, PTL DEF Spec, DropsOnlyWhenFull

(* The port implements a queue of two frames: each frame taken in is told  *)
(* of once, in order, and none is lost.                                    *)
THEOREM EthRxFramesAreQueue == ASSUME NoShortBurst PROVE Spec => FramesAreQueue
<1>1. Init => Q!Init
  <2> SUFFICES ASSUME Init PROVE Q!Init
    OBVIOUS
  <2>1. Numbered(Unreleased, rcvd, sent)
    BY InitEthInv, UnreleasedNumbered
  <2> QED BY <2>1 DEF Init, Q!Init, Numbered
<1>2. EthInv /\ EthInv' /\ [Next]_vars => [Q!Next]_(Q!vars)
  <2> SUFFICES ASSUME EthInv, EthInv', [Next]_vars PROVE [Q!Next]_(Q!vars)
    OBVIOUS
  <2>1. CASE Next
    BY <2>1, NextTicks, TickIsEdge
  <2>2. CASE UNCHANGED vars
    BY <2>2 DEF vars, units, Q!vars, Unreleased, OnItsWay, Running
  <2> QED BY <2>1, <2>2
<1> QED BY <1>1, <1>2, EthInvAlways, PTL DEF Spec, FramesAreQueue, Q!Spec
=============================================================================
