--------------------------- MODULE NocExit_proofs ---------------------------
(***************************************************************************)
(* Proofs about NocExit and the two bridges in it, for any number of       *)
(* identifiers on either side, any width of the counts and any lengths.    *)
(***************************************************************************)
EXTENDS NocExit, ModelLemmas, FiniteSetTheorems

(* A host the bridge keeps its word to: it has several writes open only if *)
(* each is to be split, and no burst is as long as the count of answers.   *)
(* Without the first AnswersRight is violated, and without the second the  *)
(* count of a longest burst starts at zero.                                *)
Heeds == Careful /\ \A l \in Lens : l + 1 < Top

-----------------------------------------------------------------------------
(* The host's bridge.  Where each of the host's writes is.                 *)
Queued == {aw[k].id : k \in 1..Len(aw)}
Merged == IF merging THEN {sid} ELSE {}
Failing == IF eat \/ owe THEN {bad} ELSE {}

Waits ==
  /\ \A j, k \in 1..Len(aw) : aw[j].id = aw[k].id => j = k
  /\ \A k \in 1..Len(aw) : want[aw[k].id] = Want(aw[k]) /\ net[aw[k].id] = 0

(* The burst being merged, split or not yet: each answer to come is a      *)
(* packet the network has or a beat to leave.                              *)
IsSplit(v, beats, fail) == v.open /\ v.split /\ v.beats = beats /\ v.fail = fail

Merges ==
  /\ left <= pend
  /\ merging =>
       /\ IsSplit(want[sid], pend, err)
       /\ net[sid] + left = pend
       /\ sid \notin Queued

(* A refused burst, as it is eaten and as its answer waits.                *)
Fails ==
  eat \/ owe =>
    /\ ~(eat /\ owe)
    /\ want[bad].open /\ ~want[bad].split /\ want[bad].fail
    /\ eat <=> want[bad].beats # 0
    /\ net[bad] = 0
    /\ bad \notin Queued

(* A write of one beat, sent and not answered.                             *)
Single == [open |-> TRUE, split |-> FALSE, beats |-> 1, fail |-> FALSE]

Others ==
  \A d \in Ids \ (Queued \cup Merged \cup Failing) :
    \/ want[d] = Idle /\ net[d] = 0
    \/ want[d] = Single /\ net[d] = 1

Apart ==
  \A d, e \in Ids : d # e /\ want[d].open /\ want[e].open => want[d].split

(* The beats the host has yet to hand over: the rest of the burst that is  *)
(* being split or eaten, then those of the bursts it shows.  upto[k] is    *)
(* how many there are up to the k-th of these.                             *)
Rest == IF eat THEN want[bad].beats ELSE left

AddsUp(phases, first, total) ==
  \E upto \in [0..Len(phases) -> Nat] :
    /\ upto[0] = first
    /\ \A k \in 1..Len(phases) : upto[k] = upto[k - 1] + phases[k].len + 1
    /\ upto[Len(phases)] = total

Beats == AddsUp(aw, Rest, Len(w))

(* A refused burst is the only one, and its last beat says so.             *)
Ending ==
  eat \/ (aw # <<>> /\ aw[1].wrap) => \A k \in 1..Len(w) : w[k] = (k = Len(w))

HostInv ==
  /\ TypeOK /\ Waits /\ Merges /\ Fails /\ Others /\ Apart /\ Beats /\ Ending
  /\ ~wrong

-----------------------------------------------------------------------------
(* The peripheral's bridge: an identifier is given out until its last      *)
(* answer has gone, and is one request's.                                  *)
Held ==
  /\ \A l \in P!Local : mem[l].beats # 0 => l \in busy
  /\ \A l \in P!Local : ~mem[l].read => mem[l].beats <= 1
  /\ \A k \in 1..Len(req) : ~req[k].read => req[k].beats = 1
  /\ \A k \in 1..Len(b) :
       b[k].id \in busy /\ ~mem[b[k].id].read /\ mem[b[k].id].beats = 0
  /\ \A k \in 1..Len(r) :
       r[k].id \in busy /\ mem[r[k].id].read /\ (r[k].last => mem[r[k].id].beats = 0)
  /\ \A j, k \in 1..Len(b) : b[j].id = b[k].id => j = k
  /\ \A j, k \in 1..Len(r) : j < k /\ r[j].id = r[k].id => ~r[j].last

(* The reader's one read: as a request, with the peripheral, or as beats   *)
(* of which the one that says it is the last one is.                       *)
OneRead ==
  /\ asks => reading # 0
  /\ \A k \in 1..Len(req) : req[k].read =>
       /\ \A j \in 1..Len(req) : req[j].read => j = k
       /\ \A l \in P!Local : mem[l].read => mem[l].beats = 0
       /\ r = <<>>
       /\ \A j \in 1..Len(rsp) : ~rsp[j].read
  /\ \A l \in P!Local : mem[l].read /\ mem[l].beats # 0 =>
       /\ \A m \in P!Local : mem[m].read /\ mem[m].beats # 0 => m = l
       /\ \A j \in 1..Len(r) : ~r[j].last
       /\ \A j \in 1..Len(rsp) : rsp[j].read => ~rsp[j].last
  /\ \A j, k \in 1..Len(r) : j < k => ~r[j].last
  /\ r # <<>> => \A j \in 1..Len(rsp) : rsp[j].read => ~rsp[j].last
  /\ \A j, k \in 1..Len(rsp) : j < k /\ rsp[j].read /\ rsp[k].read => ~rsp[j].last

ExitInv == ExitTypeOK /\ HostInv /\ PacketsKept /\ Held /\ OneRead

-----------------------------------------------------------------------------
(* Facts of the state.                                                     *)
Wanted == [open : BOOLEAN, split : BOOLEAN, beats : 0..Top, fail : BOOLEAN]

LEMMA HostFacts ==
  ASSUME HostInv
  PROVE  /\ aw \in Seq(Phases) /\ w \in Seq(BOOLEAN)
         /\ left \in Nat /\ sid \in Ids /\ pend \in Nat /\ err \in BOOLEAN
         /\ left < Top /\ pend < Top /\ Top \in Nat
         /\ eat \in BOOLEAN /\ owe \in BOOLEAN /\ bad \in Ids
         /\ net \in [Ids -> Nat] /\ want \in [Ids -> Wanted]
         /\ Len(aw) \in Nat /\ Len(w) \in Nat
         /\ \A k \in 1..Len(aw) :
              /\ aw[k] \in Phases /\ aw[k].id \in Ids /\ aw[k].len \in Nat
              /\ aw[k].len <= Top - 1 /\ aw[k].wrap \in BOOLEAN
              /\ aw[k].wrap => aw[k].len # 0
         /\ Queued \subseteq Ids
<1>1. TypeOK /\ Top \in Nat \ {0}
  BY HostBridgeAssumption DEF HostInv
<1>2. /\ aw \in Seq(Phases) /\ w \in Seq(BOOLEAN)
      /\ left \in Nat /\ sid \in Ids /\ pend \in Nat /\ err \in BOOLEAN
      /\ left < Top /\ pend < Top /\ Top \in Nat
      /\ eat \in BOOLEAN /\ owe \in BOOLEAN /\ bad \in Ids
      /\ net \in [Ids -> Nat] /\ want \in [Ids -> Wanted]
  BY <1>1 DEF TypeOK, Count, Wanted
<1>3. Len(aw) \in Nat /\ Len(w) \in Nat
  BY <1>2, LenProperties
<1>4. ASSUME NEW k \in 1..Len(aw)
      PROVE  /\ aw[k] \in Phases /\ aw[k].id \in Ids /\ aw[k].len \in Nat
             /\ aw[k].len <= Top - 1 /\ aw[k].wrap \in BOOLEAN
             /\ aw[k].wrap => aw[k].len # 0
  <2>1. aw[k] \in Phases
    BY <1>2, ElementOfSeq
  <2>2. aw[k] \in [id : Ids, len : Lens, wrap : Wraps] /\ (aw[k].wrap => aw[k].len > 0)
    BY <2>1 DEF Phases
  <2>3. aw[k].id \in Ids /\ aw[k].len \in Lens /\ aw[k].wrap \in Wraps
    BY <2>2
  <2>4. aw[k].len \in 0..(Top - 1) /\ aw[k].wrap \in BOOLEAN
    BY <2>3, HostBridgeAssumption
  <2> QED BY <1>1, <2>1, <2>2, <2>3, <2>4
<1>5. Queued \subseteq Ids
  BY <1>4 DEF Queued
<1> QED BY <1>2, <1>3, <1>4, <1>5

(* While one write is open that is not to be split, it is the only one.    *)
LEMMA OnlyOne ==
  ASSUME HostInv, NEW d \in Ids, want[d].open, ~want[d].split,
         NEW e \in Ids, e # d
  PROVE  ~want[e].open
  BY DEF HostInv, Apart

(* An answer is to the burst being merged or to a write of one beat.       *)
LEMMA AnswerTo ==
  ASSUME HostInv, NEW d \in Ids, net[d] # 0
  PROVE  \/ merging /\ d = sid
         \/ /\ d \notin Queued \cup Merged \cup Failing
            /\ want[d] = Single /\ net[d] = 1
<1>1. d \notin Queued
  <2> SUFFICES ASSUME d \in Queued PROVE FALSE
    OBVIOUS
  <2>1. PICK k \in 1..Len(aw) : d = aw[k].id
    BY DEF Queued
  <2> QED BY <2>1 DEF HostInv, Waits
<1>2. d \notin Failing
  BY DEF HostInv, Fails, Failing
<1>3. CASE merging /\ d = sid
  BY <1>3
<1>4. CASE ~(merging /\ d = sid)
  <2>1. d \notin Merged
    BY <1>4 DEF Merged
  <2> QED BY <1>1, <1>2, <2>1 DEF HostInv, Others
<1> QED BY <1>3, <1>4

-----------------------------------------------------------------------------
(* What a cycle counts for the host's writes.                              *)
LEMMA CountedNothing ==
  ASSUME HostInv, NEW here \in BOOLEAN, NEW broom \in BOOLEAN, NEW d \in Ids
  PROVE  Counted(here, {}, broom)[d] =
           IF DropW(here) /\ d = Refused /\ want[d].beats # 0
           THEN [want[d] EXCEPT !.beats = @ - 1] ELSE want[d]
<1> DEFINE none == {a \in {} : Taken({}, broom)}
           eaten == IF DropW(here) THEN {Refused} ELSE {}
           n == Cardinality({a \in none : a.id = d}) + (IF d \in eaten THEN 1 ELSE 0)
<1>1. {a \in none : a.id = d} = {} /\ ~\E a \in none : a.id = d /\ a.fail
  OBVIOUS
<1>2. n = IF d \in eaten THEN 1 ELSE 0
  BY <1>1, FS_EmptySet
<1>3. Counted(here, {}, broom)[d] =
        IF n <= want[d].beats /\ n > 0
        THEN [want[d] EXCEPT !.beats = @ - n,
                !.fail = @ \/ \E a \in none : a.id = d /\ a.fail]
        ELSE want[d]
  BY DEF Counted
<1>4. want[d] \in Wanted
  BY HostFacts
<1>5. want[d].beats \in Nat /\ want[d].fail \in BOOLEAN
  BY <1>4, HostFacts DEF Wanted
<1> HIDE DEF n, none
<1>6. CASE d \in eaten
  <2>1. n = 1
    BY <1>2, <1>6
  <2>2. [want[d] EXCEPT !.beats = @ - n,
           !.fail = @ \/ \E a \in none : a.id = d /\ a.fail]
        = [want[d] EXCEPT !.beats = @ - 1]
    <3> DEFINE f == want[d].fail \/ \E a \in none : a.id = d /\ a.fail
    <3>1. f = want[d].fail
      BY <1>1, <1>5
    <3> HIDE DEF f
    <3>2. [want[d] EXCEPT !.beats = @ - n, !.fail = f]
          = [want[d] EXCEPT !.beats = @ - 1]
      BY <1>4, <2>1, <3>1 DEF Wanted
    <3> QED BY <3>2 DEF f
  <2> QED BY <1>3, <1>5, <1>6, <2>1, <2>2
<1>7. CASE d \notin eaten
  BY <1>2, <1>3, <1>5, <1>7
<1> QED BY <1>6, <1>7

LEMMA CountedAnswer ==
  ASSUME HostInv, NEW here \in BOOLEAN, NEW broom \in BOOLEAN,
         NEW a \in [id : Ids, fail : BOOLEAN], ~DropW(here), NEW d \in Ids
  PROVE  Counted(here, {a}, broom)[d] =
           IF Taken({a}, broom) /\ d = a.id /\ want[d].beats # 0
           THEN [want[d] EXCEPT !.beats = @ - 1, !.fail = @ \/ a.fail]
           ELSE want[d]
<1> DEFINE some == {e \in {a} : Taken({a}, broom)}
           eaten == IF DropW(here) THEN {Refused} ELSE {}
           its == {e \in some : e.id = d}
           n == Cardinality(its) + (IF d \in eaten THEN 1 ELSE 0)
<1>1. Counted(here, {a}, broom)[d] =
        IF n <= want[d].beats /\ n > 0
        THEN [want[d] EXCEPT !.beats = @ - n,
                !.fail = @ \/ \E e \in some : e.id = d /\ e.fail]
        ELSE want[d]
  BY DEF Counted
<1>2. d \notin eaten
  OBVIOUS
<1>3. want[d] \in Wanted
  BY HostFacts
<1>4. want[d].beats \in Nat /\ want[d].fail \in BOOLEAN
  BY <1>3, HostFacts DEF Wanted
<1>5. CASE Taken({a}, broom) /\ d = a.id
  <2>1. its = {a}
    BY <1>5
  <2>2. n = 1
    <3>1. Cardinality(its) = 1
      BY <2>1, FS_Singleton, Zenon
    <3> HIDE DEF its, eaten
    <3> QED BY <1>2, <3>1
  <2>3. (\E e \in some : e.id = d /\ e.fail) <=> a.fail
    BY <1>5
  <2>4. a.fail \in BOOLEAN
    OBVIOUS
  <2> HIDE DEF n, some
  <2>5. [want[d] EXCEPT !.beats = @ - n,
           !.fail = @ \/ \E e \in some : e.id = d /\ e.fail]
        = [want[d] EXCEPT !.beats = @ - 1, !.fail = @ \/ a.fail]
    <3> DEFINE f == want[d].fail \/ \E e \in some : e.id = d /\ e.fail
               g == want[d].fail \/ a.fail
    <3>1. f = g
      BY <2>3
    <3>2. g \in BOOLEAN
      BY <1>4, <2>4
    <3> HIDE DEF f, g
    <3>3. [want[d] EXCEPT !.beats = @ - n, !.fail = f]
          = [want[d] EXCEPT !.beats = @ - 1, !.fail = g]
      BY <1>3, <2>2, <3>1, <3>2 DEF Wanted
    <3> QED BY <3>3 DEF f, g
  <2> QED BY <1>1, <1>4, <1>5, <2>2, <2>5
<1>6. CASE ~(Taken({a}, broom) /\ d = a.id)
  <2>1. its = {}
    BY <1>6
  <2>2. n = 0
    <3>1. Cardinality(its) = 0
      BY <2>1, FS_EmptySet, Zenon
    <3> HIDE DEF its, eaten
    <3> QED BY <1>2, <3>1
  <2> HIDE DEF n, some
  <2> QED BY <1>1, <1>6, <2>2
<1> QED BY <1>5, <1>6

-----------------------------------------------------------------------------
(* While a write that is not to be split is open, there is nothing else.   *)
LEMMA QueuedOpen ==
  ASSUME HostInv, NEW k \in 1..Len(aw)
  PROVE  /\ aw[k].id \in Queued
         /\ want[aw[k].id].open /\ (want[aw[k].id].split <=> Split(aw[k]))
         /\ want[aw[k].id].beats = aw[k].len + 1
         /\ want[aw[k].id].fail = aw[k].wrap
<1>1. want[aw[k].id] = Want(aw[k])
  BY DEF HostInv, Waits
<1>2. Split(aw[k]) \in BOOLEAN
  BY DEF Split
<1>3. aw[k].id \in Queued
  BY DEF Queued
<1> HIDE DEF Split
<1> QED BY <1>1, <1>2, <1>3 DEF Want

LEMMA Alone ==
  ASSUME HostInv, NEW d \in Ids, want[d].open, ~want[d].split
  PROVE  /\ \A e \in Ids \ {d} : want[e] = Idle /\ net[e] = 0
         /\ Queued \subseteq {d} /\ Failing \subseteq {d}
         /\ ~merging /\ left = 0 /\ pend = 0
         /\ Len(aw) \in {0, 1}
<1>1. \A e \in Ids : e # d => ~want[e].open
  BY OnlyOne
<1>2. ASSUME merging PROVE FALSE
  <2>1. IsSplit(want[sid], pend, err)
    BY <1>2 DEF HostInv, Merges
  <2>0. sid \in Ids
    BY HostFacts
  <2>2. want[sid].open /\ want[sid].split
    BY <2>1 DEF IsSplit
  <2> QED BY <1>1, <2>0, <2>2
<1>3. Queued \subseteq {d}
  BY <1>1, QueuedOpen, HostFacts DEF Queued
<1>4. Failing \subseteq {d}
  BY <1>1, HostFacts DEF HostInv, Fails, Failing
<1>5. ASSUME NEW e \in Ids \ {d} PROVE want[e] = Idle /\ net[e] = 0
  <2>1. e \notin Queued \cup Merged \cup Failing
    BY <1>2, <1>3, <1>4 DEF Merged
  <2>2. ~want[e].open
    BY <1>1
  <2>3. want[e] # Single
    BY <2>2 DEF Single
  <2> QED BY <2>1, <2>3 DEF HostInv, Others
<1>6. pend = 0 /\ left = 0
  BY <1>2, HostFacts DEF merging, HostInv, Merges
<1>7. Len(aw) \in {0, 1}
  <2> DEFINE n == Len(aw)
  <2>1. n \in Nat
    BY HostFacts
  <2>2. ASSUME 1 \in 1..n, 2 \in 1..n PROVE FALSE
    <3>1. aw[1].id \in Queued /\ aw[2].id \in Queued
      BY <2>2 DEF Queued
    <3>2. aw[1].id = aw[2].id
      BY <1>3, <3>1
    <3>3. 1 = 2
      BY <2>2, <3>2 DEF HostInv, Waits
    <3> QED BY <3>3
  <2> HIDE DEF n
  <2>3. n \in {0, 1}
    BY <2>1, <2>2
  <2> QED BY <2>3 DEF n
<1> QED BY <1>2, <1>3, <1>4, <1>5, <1>6, <1>7

(* Then there is no answer but to that write.                              *)
LEMMA AloneAnswer ==
  ASSUME HostInv, NEW d \in Ids, want[d].open, ~want[d].split,
         NEW e \in Ids, net[e] # 0
  PROVE  e = d /\ want[d] = Single /\ d \notin Queued \cup Failing
<1>1. e = d
  BY Alone
<1> QED BY <1>1, Alone, AnswerTo

(* The beats of no burst, of one, of one less and of one more.             *)
LEMMA AddsEmpty ==
  ASSUME NEW first \in Nat, NEW total
  PROVE  AddsUp(<<>>, first, total) <=> total = first
<1>1. Len(<<>>) = 0
  BY EmptySeq
<1>2. ASSUME total = first PROVE AddsUp(<<>>, first, total)
  <2> DEFINE upto == [k \in 0..0 |-> first]
  <2>1. upto \in [0..0 -> Nat] /\ upto[0] = first
    OBVIOUS
  <2> HIDE DEF upto
  <2> QED BY <1>1, <1>2, <2>1 DEF AddsUp
<1>3. ASSUME AddsUp(<<>>, first, total) PROVE total = first
  BY <1>1, <1>3 DEF AddsUp
<1> QED BY <1>2, <1>3

LEMMA AddsOne ==
  ASSUME NEW phases, Len(phases) = 1, NEW first \in Nat, NEW total,
         AddsUp(phases, first, total)
  PROVE  total = first + phases[1].len + 1
<1>1. PICK upto \in [0..1 -> Nat] :
         /\ upto[0] = first
         /\ \A k \in 1..1 : upto[k] = upto[k - 1] + phases[k].len + 1
         /\ upto[1] = total
  BY DEF AddsUp
<1>2. upto[1] = upto[1 - 1] + phases[1].len + 1
  BY <1>1
<1> QED BY <1>1, <1>2

LEMMA AddsLess ==
  ASSUME NEW phases, Len(phases) \in Nat,
         \A k \in 1..Len(phases) : phases[k].len \in Nat,
         NEW first \in Nat \ {0}, NEW total \in Nat,
         AddsUp(phases, first, total)
  PROVE  total # 0 /\ AddsUp(phases, first - 1, total - 1)
<1> DEFINE n == Len(phases)
<1>1. PICK upto \in [0..n -> Nat] :
         /\ upto[0] = first
         /\ \A k \in 1..n : upto[k] = upto[k - 1] + phases[k].len + 1
         /\ upto[n] = total
  BY DEF AddsUp
<1>2. n \in Nat /\ \A k \in 1..n : phases[k].len \in Nat
  OBVIOUS
<1> HIDE DEF n
<1>3. \A k \in 0..n : upto[k] \in Nat
  BY <1>1
<1>4. \A k \in 0..n : upto[k] # 0
  <2> SUFFICES ASSUME NEW k \in 0..n PROVE upto[k] # 0
    OBVIOUS
  <2>1. CASE k = 0
    BY <1>1, <2>1
  <2>2. CASE k # 0
    <3>1. k \in 1..n /\ k - 1 \in 0..n
      BY <1>2, <2>2
    <3>2. upto[k] = upto[k - 1] + phases[k].len + 1 /\ upto[k - 1] \in Nat
      BY <1>1, <1>3, <3>1
    <3> QED BY <1>2, <3>1, <3>2
  <2> QED BY <2>1, <2>2
<1> DEFINE less == [k \in 0..n |-> upto[k] - 1]
<1>5. less \in [0..n -> Nat]
  BY <1>3, <1>4
<1>6. less[0] = first - 1 /\ less[n] = total - 1 /\ total # 0
  BY <1>1, <1>2, <1>4
<1>7. ASSUME NEW k \in 1..n PROVE less[k] = less[k - 1] + phases[k].len + 1
  <2>1. k \in 0..n /\ k - 1 \in 0..n
    BY <1>2
  <2>2. less[k] = upto[k] - 1 /\ less[k - 1] = upto[k - 1] - 1
    BY <2>1
  <2>3. /\ upto[k] = upto[k - 1] + phases[k].len + 1
        /\ upto[k - 1] \in Nat /\ phases[k].len \in Nat
    BY <1>1, <1>2, <1>3, <2>1
  <2> HIDE DEF less
  <2> QED BY <2>2, <2>3
<1> HIDE DEF less
<1> QED BY <1>5, <1>6, <1>7 DEF AddsUp, n

LEMMA AddsTail ==
  ASSUME NEW S, NEW phases \in Seq(S), phases # <<>>,
         \A k \in 1..Len(phases) : phases[k].len \in Nat,
         NEW total \in Nat, AddsUp(phases, 0, total)
  PROVE  total # 0 /\ AddsUp(Tail(phases), phases[1].len, total - 1)
<1> DEFINE n == Len(phases)  m == Len(Tail(phases))
<1>1. PICK upto \in [0..n -> Nat] :
         /\ upto[0] = 0
         /\ \A k \in 1..n : upto[k] = upto[k - 1] + phases[k].len + 1
         /\ upto[n] = total
  BY DEF AddsUp
<1>2. /\ n \in Nat \ {0} /\ m = n - 1
      /\ \A k \in 1..m : Tail(phases)[k] = phases[k + 1]
      /\ \A k \in 1..n : phases[k].len \in Nat
  BY HeadTailProperties, LenProperties, EmptySeq
<1> HIDE DEF n, m
<1>3. \A k \in 0..n : upto[k] \in Nat
  BY <1>1
<1>4. \A k \in 1..n : upto[k] # 0 /\ k - 1 \in 0..n
  <2> SUFFICES ASSUME NEW k \in 1..n PROVE upto[k] # 0 /\ k - 1 \in 0..n
    OBVIOUS
  <2>1. k \in 1..n /\ k - 1 \in 0..n
    BY <1>2
  <2>2. upto[k] = upto[k - 1] + phases[k].len + 1 /\ upto[k - 1] \in Nat
    BY <1>1, <1>3, <2>1
  <2> QED BY <1>2, <2>1, <2>2
<1> DEFINE less == [k \in 0..m |-> upto[k + 1] - 1]
<1>5. \A k \in 0..m : k + 1 \in 1..n
  BY <1>2
<1>6. less \in [0..m -> Nat]
  BY <1>3, <1>4, <1>5
<1>7. upto[1] = phases[1].len + 1
  <2>1. 1 \in 1..n /\ 1 - 1 = 0
    BY <1>2
  <2>2. upto[1] = upto[1 - 1] + phases[1].len + 1
    BY <1>1, <2>1
  <2> QED BY <1>1, <1>2, <2>1, <2>2
<1>8. less[0] = phases[1].len /\ less[m] = total - 1 /\ total # 0
  <2>1. 0 \in 0..m /\ m \in 0..m /\ 1 \in 1..n /\ n \in 1..n /\ m + 1 = n
    BY <1>2
  <2>2. less[0] = upto[1] - 1 /\ less[m] = upto[n] - 1
    BY <2>1
  <2> HIDE DEF less
  <2> QED BY <1>1, <1>2, <1>4, <1>7, <2>1, <2>2
<1>9. ASSUME NEW k \in 1..m PROVE less[k] = less[k - 1] + Tail(phases)[k].len + 1
  <2>1. k \in 0..m /\ k - 1 \in 0..m /\ k \in Nat /\ k + 1 \in 1..n /\ (k - 1) + 1 = k
    BY <1>2
  <2>2. less[k] = upto[k + 1] - 1 /\ less[k - 1] = upto[k] - 1
    BY <2>1
  <2>3. (k + 1) - 1 = k
    BY <2>1
  <2>4. /\ upto[k + 1] = upto[k] + phases[k + 1].len + 1
        /\ upto[k] \in Nat /\ phases[k + 1].len \in Nat
    <3>1. upto[k + 1] = upto[(k + 1) - 1] + phases[k + 1].len + 1
      BY <1>1, <2>1
    <3>2. k \in 0..n
      BY <1>2, <2>1
    <3> QED BY <1>2, <1>3, <2>1, <2>3, <3>1, <3>2
  <2>5. Tail(phases)[k] = phases[k + 1]
    BY <1>2
  <2> DEFINE x == upto[k]  y == phases[k + 1].len
  <2>6. /\ less[k] = (x + y + 1) - 1 /\ less[k - 1] = x - 1
        /\ Tail(phases)[k].len = y /\ x \in Nat /\ y \in Nat
    BY <2>2, <2>4, <2>5
  <2> HIDE DEF less, x, y
  <2>7. (x + y + 1) - 1 = (x - 1) + y + 1
    BY <2>6
  <2> QED BY <2>6, <2>7, Zenon
<1> HIDE DEF less
<1> QED BY <1>6, <1>8, <1>9 DEF AddsUp, m

LEMMA AddsAppend ==
  ASSUME NEW S, NEW phases \in Seq(S), NEW p \in S, p.len \in Nat,
         NEW first \in Nat, NEW total \in Nat, AddsUp(phases, first, total)
  PROVE  AddsUp(Append(phases, p), first, total + p.len + 1)
<1> DEFINE n == Len(phases)  more == Append(phases, p)
<1>1. PICK upto \in [0..n -> Nat] :
         /\ upto[0] = first
         /\ \A k \in 1..n : upto[k] = upto[k - 1] + phases[k].len + 1
         /\ upto[n] = total
  BY DEF AddsUp
<1>2. /\ n \in Nat /\ Len(more) = n + 1
      /\ \A k \in 1..n : more[k] = phases[k]
      /\ more[n + 1] = p
  BY AppendProperties, LenProperties
<1> HIDE DEF n, more
<1> DEFINE whole == total + p.len + 1
           up == [k \in 0..(n + 1) |-> IF k <= n THEN upto[k] ELSE whole]
<1>3. up \in [0..(n + 1) -> Nat]
  <2>1. whole \in Nat
    OBVIOUS
  <2> HIDE DEF whole
  <2>2. \A k \in 0..(n + 1) : k <= n => k \in 0..n
    BY <1>2
  <2> QED BY <1>1, <2>1, <2>2
<1>4. \A k \in 0..n : up[k] = upto[k]
  BY <1>2
<1>5. up[n + 1] = total + p.len + 1
  BY <1>2
<1>6. up[0] = first /\ up[n] = total /\ (n + 1) - 1 = n
  BY <1>1, <1>2, <1>4
<1> HIDE DEF up
<1>7. ASSUME NEW k \in 1..(n + 1) PROVE up[k] = up[k - 1] + more[k].len + 1
  <2>1. CASE k = n + 1
    BY <1>2, <1>5, <1>6, <2>1
  <2>2. CASE k # n + 1
    <3>1. k \in 1..n /\ k \in 0..n /\ k - 1 \in 0..n
      BY <1>2, <2>2
    <3> QED BY <1>1, <1>2, <1>4, <3>1
  <2> QED BY <2>1, <2>2
<1>8. AddsUp(more, first, total + p.len + 1)
  BY <1>2, <1>3, <1>5, <1>6, <1>7 DEF AddsUp
<1> QED BY <1>8 DEF more

-----------------------------------------------------------------------------
(* The cycle.  Answering: the network gives back what it has.              *)
Answering(ans) ==
  \/ ans = {}
  \/ \E d \in Ids, f \in BOOLEAN :
       ans = {[id |-> d, fail |-> f]} /\ net[d] # 0

LEMMA NoAnswer ==
  ASSUME NEW broom \in BOOLEAN, HostInv
  PROVE  /\ ~Mine({}) /\ ~ToB({}, broom) /\ ~DoneB({}, broom)
         /\ ~Merge({}, broom) /\ ~Taken({}, broom)
         /\ Say({}, broom) <=> owe /\ broom
         /\ Told({}, broom) =
              IF owe /\ broom THEN {[id |-> bad, fail |-> TRUE]} ELSE {}
<1>1. ~Mine({})
  BY DEF Mine
<1>2. ~ToB({}, broom) /\ ~DoneB({}, broom) /\ ~Merge({}, broom)
  BY <1>1 DEF ToB, DoneB, Merge
<1>3. ~Taken({}, broom) /\ (Say({}, broom) <=> owe /\ broom)
  BY <1>2 DEF Taken, Say
<1> QED BY <1>1, <1>2, <1>3 DEF Told

LEMMA AloneSilent ==
  ASSUME HostInv, NEW d \in Ids, want[d].open, ~want[d].split,
         d \in Queued \cup Failing, NEW ans, Answering(ans)
  PROVE  ans = {}
  BY AloneAnswer DEF Answering

(* What is counted where nothing is answered.                              *)
LEMMA QuietCount ==
  ASSUME HostInv, NEW here \in BOOLEAN, NEW broom \in BOOLEAN, ~DropW(here)
  PROVE  Counted(here, {}, broom) = want
<1>1. \A d \in Ids : Counted(here, {}, broom)[d] = want[d]
  BY CountedNothing
<1>2. want = [d \in Ids |-> want[d]]
  BY HostFacts
<1>3. Counted(here, {}, broom) = [d \in Ids |-> Counted(here, {}, broom)[d]]
  BY DEF Counted
<1> QED BY <1>1, <1>2, <1>3

(* A burst that is refused, in its first cycle and after.                  *)
LEMMA DropState ==
  ASSUME HostInv, eat \/ refuse
  PROVE  /\ Refused \in Ids /\ want[Refused].open /\ ~want[Refused].split
         /\ want[Refused].fail /\ net[Refused] = 0
         /\ Refused \in Queued \cup Failing
         /\ ~owe /\ ~merging /\ left = 0 /\ pend = 0
         /\ IF eat THEN aw = <<>> ELSE Len(aw) = 1 /\ aw # <<>>
         /\ Len(w) = want[Refused].beats /\ want[Refused].beats \in Nat \ {0}
         /\ eat \/ want[Refused].beats >= 2
         /\ \A k \in 1..Len(w) : w[k] = (k = Len(w))
<1>1. CASE eat
  <2>1. /\ Refused = bad /\ bad \in Ids /\ want[bad].open /\ ~want[bad].split
        /\ want[bad].fail /\ want[bad].beats # 0 /\ net[bad] = 0
        /\ bad \notin Queued /\ ~owe /\ bad \in Failing
    BY <1>1, HostFacts DEF Refused, HostInv, Fails, Failing
  <2>2. ~merging /\ left = 0 /\ pend = 0 /\ Queued \subseteq {bad} /\ Len(aw) \in {0, 1}
    BY <2>1, Alone
  <2>3. Len(aw) # 1
    <3> DEFINE n == Len(aw)
    <3>1. \A k \in 1..n : aw[k].id # bad
      BY <2>1, <2>2 DEF Queued
    <3>2. \A k \in 1..n : aw[k].id = bad
      BY <2>2 DEF Queued
    <3> HIDE DEF n
    <3>3. n # 1
      BY <3>1, <3>2
    <3> QED BY <3>3 DEF n
  <2>4. aw = <<>>
    BY <2>2, <2>3, HostFacts, EmptySeq
  <2>5. want[bad].beats \in Nat
    <3>1. want[bad] \in Wanted
      BY <2>1, HostFacts
    <3> QED BY <3>1, HostFacts DEF Wanted
  <2>6. Len(w) = want[bad].beats
    BY <1>1, <2>4, <2>5, AddsEmpty DEF Rest, HostInv, Beats
  <2>7. \A k \in 1..Len(w) : w[k] = (k = Len(w))
    BY <1>1 DEF HostInv, Ending
  <2> QED BY <1>1, <2>1, <2>2, <2>4, <2>5, <2>6, <2>7
<1>2. CASE ~eat /\ refuse
  <2>1. aw # <<>> /\ aw[1].wrap /\ left = 0
    BY <1>2 DEF refuse, offered, splitting
  <2>2. 1 \in 1..Len(aw)
    BY <2>1, HostFacts, EmptySeq
  <2>3. /\ Refused = aw[1].id /\ aw[1].id \in Ids /\ aw[1].len \in Nat \ {0}
        /\ want[Refused].open /\ ~want[Refused].split /\ want[Refused].fail
        /\ want[Refused].beats = aw[1].len + 1 /\ Refused \in Queued
    BY <1>2, <2>1, <2>2, HostFacts, QueuedOpen DEF Refused, Split
  <2>4. /\ ~merging /\ left = 0 /\ pend = 0 /\ Len(aw) \in {0, 1}
        /\ Failing \subseteq {Refused}
    BY <2>3, Alone
  <2>5. ~owe
    BY <1>2, <2>3, <2>4 DEF HostInv, Fails, Failing
  <2>6. Len(aw) = 1
    BY <2>2, <2>4
  <2>7. Rest = 0
    BY <1>2, <2>1 DEF Rest
  <2>8. Len(w) = aw[1].len + 1
    <3>1. AddsUp(aw, 0, Len(w))
      BY <2>7 DEF HostInv, Beats
    <3>2. Len(w) = 0 + aw[1].len + 1
      BY <2>6, <3>1, AddsOne
    <3> QED BY <2>3, <3>2
  <2>9. \A k \in 1..Len(w) : w[k] = (k = Len(w))
    BY <2>1 DEF HostInv, Ending
  <2>10. net[Refused] = 0
    BY <2>2, <2>3 DEF HostInv, Waits
  <2> QED BY <1>2, <2>1, <2>3, <2>4, <2>5, <2>6, <2>8, <2>9, <2>10
<1> QED BY <1>1, <1>2

LEMMA DropStep ==
  ASSUME HostInv, NEW here \in BOOLEAN, NEW room \in BOOLEAN,
         NEW broom \in BOOLEAN, NEW ans, Answering(ans),
         Cycle(here, room, ans, broom), eat \/ refuse
  PROVE  HostInv'
<1> DEFINE d == Refused
           n == want[d].beats
           m == IF here THEN n - 1 ELSE n
<1>1. /\ d \in Ids /\ want[d].open /\ ~want[d].split
      /\ want[d].fail /\ net[d] = 0 /\ d \in Queued \cup Failing
      /\ ~owe /\ ~merging /\ left = 0 /\ pend = 0
      /\ IF eat THEN aw = <<>> ELSE Len(aw) = 1 /\ aw # <<>>
      /\ Len(w) = n /\ n \in Nat \ {0} /\ (eat \/ n >= 2)
      /\ \A k \in 1..Len(w) : w[k] = (k = Len(w))
  BY DropState
<1>2. ans = {}
  BY <1>1, AloneSilent
<1>3. /\ aw \in Seq(Phases) /\ w \in Seq(BOOLEAN) /\ sid \in Ids /\ bad \in Ids
      /\ eat \in BOOLEAN /\ err \in BOOLEAN /\ Top \in Nat
      /\ net \in [Ids -> Nat] /\ want \in [Ids -> Wanted]
  BY HostFacts
<1>4. w # <<>> /\ w[1] = (1 = n)
  <2>1. w # <<>>
    BY <1>1, EmptySeq
  <2> HIDE DEF n
  <2>2. 1 \in 1..n
    BY <1>1
  <2> QED BY <1>1, <2>1, <2>2
<1>5. DropW(here) <=> here
  BY <1>1 DEF DropW
<1>6. AteLast(here) <=> here /\ n = 1
  <2>1. Head(w) = (1 = n)
    BY <1>3, <1>4, HeadTailProperties
  <2> HIDE DEF n
  <2> QED BY <1>5, <2>1 DEF AteLast
<1>7. ~First(here, room) /\ ~More(here, room) /\ ~Start(here, room) /\ ~GoW(here, room)
  <2>1. ~splitting
    BY <1>1 DEF splitting
  <2> QED BY <2>1 DEF First, More, Start, GoW
<1>8. /\ ~Merge({}, broom) /\ ~Taken({}, broom) /\ ~Say({}, broom)
      /\ Told({}, broom) = {}
  BY <1>1, NoAnswer
<1>9. Registers(here, room, {}, broom)
  BY <1>2 DEF Cycle
<1>10. /\ left' = 0 /\ sid' = sid /\ pend' = 0 /\ err' = err
  BY <1>1, <1>7, <1>8, <1>9 DEF Registers
<1>11. bad' = d
  BY <1>9 DEF Registers, Refused, refuse
<1>12. eat' = (m # 0) /\ owe' = (m = 0)
  <2>1. eat' = IF AteLast(here) THEN FALSE ELSE eat \/ refuse
    BY <1>9 DEF Registers
  <2>2. owe' = IF FALSE THEN FALSE ELSE owe \/ AteLast(here)
    BY <1>8, <1>9 DEF Registers, OweNext
  <2> HIDE DEF n
  <2>3. (m = 0) <=> here /\ n = 1
    BY <1>1
  <2> HIDE DEF m
  <2> QED BY <1>1, <1>6, <2>1, <2>2, <2>3
<1>13. aw' = <<>>
  <2>1. aw' = IF refuse THEN Tail(aw) ELSE aw
    BY <1>7 DEF Cycle
  <2>2. CASE eat
    BY <1>1, <2>1, <2>2 DEF refuse
  <2>3. CASE ~eat
    <3>1. Tail(aw) \in Seq(Phases) /\ Len(Tail(aw)) = Len(aw) - 1
      BY <1>1, <1>3, <2>3, HeadTailProperties
    <3> QED BY <1>1, <2>1, <2>3, <3>1, EmptySeq
  <2> QED BY <2>2, <2>3
<1>14. /\ w' \in Seq(BOOLEAN) /\ Len(w') = m
       /\ \A k \in 1..Len(w') : w'[k] = (k = Len(w'))
  <2>1. w' = IF here THEN Tail(w) ELSE w
    BY <1>5, <1>7 DEF Cycle
  <2>2. CASE ~here
    BY <1>1, <1>3, <2>1, <2>2
  <2>3. CASE here
    <3>1. /\ Tail(w) \in Seq(BOOLEAN) /\ Len(Tail(w)) = n - 1
          /\ \A k \in 1..Len(Tail(w)) : Tail(w)[k] = w[k + 1]
      BY <1>1, <1>3, <1>4, HeadTailProperties
    <3> DEFINE t == Tail(w)
    <3>2. w' = t /\ m = n - 1
      BY <2>1, <2>3
    <3> HIDE DEF t, n
    <3>3. \A k \in 1..(n - 1) : t[k] = (k = n - 1)
      <4> SUFFICES ASSUME NEW k \in 1..(n - 1) PROVE t[k] = (k = n - 1)
        OBVIOUS
      <4>1. k + 1 \in 1..n /\ (k + 1 = n <=> k = n - 1)
        BY <1>1
      <4>2. t[k] = w[k + 1]
        BY <3>1 DEF t
      <4> QED BY <1>1, <4>1, <4>2
    <3> HIDE DEF m
    <3> QED BY <3>1, <3>2, <3>3 DEF t
  <2> QED BY <2>2, <2>3
<1>15. net' = net
  <2>1. net' = [e \in Ids |-> net[e] + (IF FALSE THEN 1 ELSE 0) - (IF FALSE THEN 1 ELSE 0)]
    BY <1>2, <1>7, <1>8 DEF Cycle
  <2>2. \A e \in Ids : net[e] + 0 - 0 = net[e]
    BY <1>3
  <2> QED BY <1>3, <2>1, <2>2
<1> DEFINE counted == Counted(here, {}, broom)
<1>16. \A e \in Ids : counted[e] = IF e = d THEN [want[d] EXCEPT !.beats = m] ELSE want[e]
  <2>1. \A e \in Ids : counted[e] = IF here /\ e = d /\ want[e].beats # 0
                                    THEN [want[e] EXCEPT !.beats = @ - 1] ELSE want[e]
    BY <1>5, CountedNothing
  <2>2. want[d] \in Wanted
    BY <1>1, <1>3
  <2>3. ~here => [want[d] EXCEPT !.beats = m] = want[d]
    BY <2>2 DEF Wanted
  <2>4. here => [want[d] EXCEPT !.beats = m] = [want[d] EXCEPT !.beats = @ - 1]
    OBVIOUS
  <2>5. want[d].beats # 0
    BY <1>1
  <2> HIDE DEF counted, d, m, n
  <2> QED BY <2>1, <2>3, <2>4, <2>5
<1>17. want' = counted
  <2>1. want' = [e \in Ids |-> counted[e]]
    BY <1>2, <1>8 DEF Cycle
  <2> QED BY <2>1 DEF Counted
<1>18. ~wrong'
  <2>1. Right(counted, {})
    BY DEF Right
  <2>2. wrong' = (wrong \/ ~Right(counted, {}))
    BY <1>2, <1>8 DEF Cycle
  <2> QED BY <2>1, <2>2 DEF HostInv
<1>19. m \in Nat /\ m <= n
  <2> HIDE DEF n
  <2> QED BY <1>1
<1>20. /\ want' \in [Ids -> Wanted]
       /\ want'[d].open /\ ~want'[d].split /\ want'[d].fail /\ want'[d].beats = m
       /\ \A e \in Ids \ {d} : want'[e] = Idle /\ net'[e] = 0
  <2>1. want[d] \in Wanted
    BY <1>1, <1>3
  <2>2. m \in 0..Top
    BY <1>3, <1>19, <2>1 DEF Wanted
  <2> HIDE DEF n, m, d, counted
  <2>3. [want[d] EXCEPT !.beats = m] \in Wanted
    BY <2>1, <2>2 DEF Wanted
  <2>4. want' \in [Ids -> Wanted]
    BY <1>3, <1>16, <1>17, <2>3 DEF Counted, counted
  <2>5. want'[d] = [want[d] EXCEPT !.beats = m]
    BY <1>1, <1>16, <1>17
  <2>6. want'[d].open /\ ~want'[d].split /\ want'[d].fail /\ want'[d].beats = m
    BY <1>1, <2>1, <2>5 DEF Wanted
  <2>7. \A e \in Ids \ {d} : want'[e] = Idle /\ net'[e] = 0
    BY <1>1, <1>15, <1>16, <1>17, Alone
  <2> QED BY <2>4, <2>6, <2>7
<1> HIDE DEF n, m, d, counted
<1>21. Len(<<>>) = 0 /\ <<>> \in Seq(Phases)
  BY EmptySeq
<1>22. Queued' = {}
  BY <1>13, <1>21 DEF Queued
<1>23. TypeOK'
  <2>1. 0 \in Count
    BY HostBridgeAssumption DEF Count
  <2>2. wrong' \in BOOLEAN
    BY <1>18 DEF Cycle
  <2>3. eat' \in BOOLEAN /\ owe' \in BOOLEAN
    BY <1>12
  <2>4. aw' \in Seq(Phases) /\ w' \in Seq(BOOLEAN)
    BY <1>13, <1>14, <1>21
  <2> QED BY <1>1, <1>3, <1>10, <1>11, <1>15, <1>20, <2>1, <2>2, <2>3, <2>4
          DEF TypeOK, Wanted
<1>24. Waits' /\ Merges' /\ Apart'
  BY <1>10, <1>13, <1>20, <1>21 DEF Waits, Merges, merging, Apart, Idle
<1>25. Fails' /\ Others'
  BY <1>1, <1>10, <1>11, <1>12, <1>15, <1>20, <1>22 DEF Fails, Others, Merged, merging, Failing
<1>26. Beats'
  <2>1. Rest' = m
    BY <1>10, <1>11, <1>12, <1>20 DEF Rest
  <2> QED BY <1>13, <1>14, <1>19, <2>1, AddsEmpty DEF Beats
<1>27. Ending'
  BY <1>14 DEF Ending
<1> QED BY <1>18, <1>23, <1>24, <1>25, <1>26, <1>27 DEF HostInv

(* The first beat of a burst that is not refused leaves.                   *)
LEMMA FirstState ==
  ASSUME HostInv, NEW here, NEW room, First(here, room), NEW ans, Answering(ans)
  PROVE  /\ ans = {} /\ ~eat /\ ~owe /\ ~merging /\ left = 0 /\ pend = 0
         /\ aw # <<>> /\ 1 \in 1..Len(aw) /\ ~aw[1].wrap /\ aw[1].id \in Queued
         /\ \A k \in 2..Len(aw) : ~aw[k].wrap
<1> DEFINE p == aw[1]
<1>1. aw # <<>> /\ ~eat /\ ~refuse /\ left = 0 /\ (p.len = 0 \/ ~merging)
  BY DEF First, offered, splitting, long
<1>2. 1 \in 1..Len(aw)
  BY <1>1, HostFacts, EmptySeq
<1>3. p.wrap \in BOOLEAN /\ p.id \in Ids /\ p.len \in Nat
  BY <1>2, HostFacts
<1>4. ~p.wrap
  BY <1>1 DEF refuse, offered, splitting
<1>5. /\ p.id \in Queued /\ want[p.id].open /\ (want[p.id].split <=> p.len > 0)
      /\ net[p.id] = 0
  BY <1>2, <1>4, QueuedOpen DEF Split, HostInv, Waits
<1>6. ~merging
  BY <1>1, <1>3, <1>5, Alone
<1>7. pend = 0
  BY <1>6 DEF merging
<1>8. ASSUME NEW d \in Ids, want[d].open, ~want[d].split
      PROVE  d = p.id
  BY <1>3, <1>5, <1>8, OnlyOne
<1>9. ~owe
  BY <1>5, <1>8, HostFacts DEF HostInv, Fails
<1>10. ASSUME NEW d \in Ids PROVE net[d] = 0
  <2> SUFFICES ASSUME net[d] # 0 PROVE FALSE
    OBVIOUS
  <2>1. d \notin Queued /\ want[d] = Single
    BY <1>6, AnswerTo
  <2>2. want[d].open /\ ~want[d].split
    BY <2>1 DEF Single
  <2> QED BY <1>5, <1>8, <2>1, <2>2
<1>11. ASSUME NEW k \in 2..Len(aw) PROVE ~aw[k].wrap
  <2> DEFINE n == Len(aw)
  <2>1. n \in Nat
    BY HostFacts
  <2>2. k \in 1..n /\ k # 1
    <3> HIDE DEF n
    <3> QED BY <2>1 DEF n
  <2>3. aw[k].id # p.id
    BY <1>2, <2>2 DEF HostInv, Waits
  <2>4. want[aw[k].id].open /\ (want[aw[k].id].split <=> Split(aw[k]))
        /\ aw[k].id \in Ids /\ aw[k].wrap \in BOOLEAN
    BY <2>2, QueuedOpen, HostFacts
  <2> QED BY <1>8, <2>3, <2>4 DEF Split
<1> QED BY <1>1, <1>2, <1>4, <1>5, <1>6, <1>7, <1>9, <1>10, <1>11 DEF Answering

LEMMA FirstStep ==
  ASSUME HostInv, Heeds, NEW here \in BOOLEAN, NEW room \in BOOLEAN,
         NEW broom \in BOOLEAN, NEW ans, Answering(ans),
         Cycle(here, room, ans, broom), First(here, room)
  PROVE  HostInv'
<1> DEFINE p == aw[1]
           n == Len(aw)
<1>1. /\ ans = {} /\ ~eat /\ ~owe /\ ~merging /\ left = 0 /\ pend = 0
      /\ aw # <<>> /\ 1 \in 1..n /\ ~p.wrap /\ p.id \in Queued
      /\ \A k \in 2..n : ~aw[k].wrap
  BY FirstState
<1>2. /\ aw \in Seq(Phases) /\ w \in Seq(BOOLEAN) /\ sid \in Ids /\ bad \in Ids
      /\ eat \in BOOLEAN /\ err \in BOOLEAN /\ Top \in Nat /\ n \in Nat
      /\ net \in [Ids -> Nat] /\ want \in [Ids -> Wanted]
  BY HostFacts
<1>3. p \in Phases /\ p.id \in Ids /\ p.len \in Nat
  BY <1>1, HostFacts
<1>4. p.len + 1 < Top
  <2>1. p.len \in Lens
    BY <1>3 DEF Phases
  <2> QED BY <2>1 DEF Heeds
<1>5. ~refuse /\ ~splitting /\ ~DropW(here) /\ ~AteLast(here) /\ ~More(here, room)
  BY <1>1 DEF First, DropW, AteLast, More
<1>6. GoW(here, room) /\ PacketId = p.id /\ (Start(here, room) <=> p.len # 0)
  BY <1>1, <1>5 DEF GoW, PacketId, Start, long, offered
<1>7. /\ ~Merge({}, broom) /\ ~Taken({}, broom) /\ ~Say({}, broom)
      /\ Told({}, broom) = {}
  BY <1>1, NoAnswer
<1>8. Registers(here, room, {}, broom)
  BY <1>1 DEF Cycle
<1>9. eat' = FALSE /\ owe' = FALSE /\ bad' = bad
  <2>1. eat' = IF AteLast(here) THEN FALSE ELSE eat \/ refuse
    BY <1>8 DEF Registers
  <2>2. owe' = IF Say({}, broom) THEN FALSE ELSE owe \/ AteLast(here)
    BY <1>8 DEF Registers, OweNext
  <2>3. bad' = IF refuse THEN aw[1].id ELSE bad
    BY <1>8 DEF Registers
  <2> QED BY <1>1, <1>5, <1>7, <2>1, <2>2, <2>3
<1>10. left' = p.len /\ sid' = p.id
  BY <1>8 DEF Registers
<1>11. pend' = IF p.len = 0 THEN 0 ELSE p.len + 1
  <2> DEFINE l == p.len + 1
  <2>1. l % Top = l
    <3>1. l \in Nat /\ l < Top
      BY <1>3, <1>4
    <3> HIDE DEF l
    <3> QED BY <1>2, <3>1, NoWrap
  <2>2. pend' = IF p.len # 0 THEN (p.len + 1) % Top ELSE pend
    BY <1>6, <1>7, <1>8 DEF Registers
  <2> HIDE DEF p
  <2> QED BY <1>1, <2>1, <2>2
<1>12. p.len # 0 => err' = FALSE
  BY <1>6, <1>8 DEF Registers
<1>13. err' \in BOOLEAN
  BY <1>2, <1>7, <1>8 DEF Registers
<1>14. /\ aw' = Tail(aw) /\ aw' \in Seq(Phases) /\ Len(aw') = n - 1
       /\ \A k \in 1..(n - 1) : aw'[k] = aw[k + 1]
  <2>1. aw' = Tail(aw)
    BY DEF Cycle
  <2>2. /\ Tail(aw) \in Seq(Phases) /\ Len(Tail(aw)) = Len(aw) - 1
        /\ \A k \in 1..Len(Tail(aw)) : Tail(aw)[k] = aw[k + 1]
    BY <1>1, <1>2, HeadTailProperties
  <2> QED BY <2>1, <2>2
<1>15. Rest = 0 /\ Len(w) \in Nat
  BY <1>1, HostFacts DEF Rest
<1>16. Len(w) # 0 /\ AddsUp(Tail(aw), p.len, Len(w) - 1)
  <2>1. AddsUp(aw, 0, Len(w))
    BY <1>15 DEF HostInv, Beats
  <2>2. \A k \in 1..Len(aw) : aw[k].len \in Nat
    BY HostFacts
  <2> QED BY <1>1, <1>2, <1>15, <2>1, <2>2, AddsTail
<1>17. w' \in Seq(BOOLEAN) /\ Len(w') = Len(w) - 1
  <2>1. w' = Tail(w)
    BY <1>6 DEF Cycle
  <2>2. w # <<>>
    BY <1>16, EmptySeq
  <2> QED BY <1>2, <2>1, <2>2, HeadTailProperties
<1>18. net' = [net EXCEPT ![p.id] = @ + 1]
  <2>1. net' = [e \in Ids |-> net[e] + (IF e = p.id THEN 1 ELSE 0) - (IF FALSE THEN 1 ELSE 0)]
    BY <1>1, <1>6, <1>7 DEF Cycle
  <2>2. \A e \in Ids : net[e] + (IF e = p.id THEN 1 ELSE 0) - 0
                       = [net EXCEPT ![p.id] = @ + 1][e]
    BY <1>2, <1>3
  <2> HIDE DEF p
  <2> QED BY <1>2, <2>1, <2>2
<1>19. want' = want
  <2>1. want' = [e \in Ids |-> Counted(here, {}, broom)[e]]
    BY <1>1, <1>7 DEF Cycle
  <2>2. Counted(here, {}, broom) = want
    BY <1>5, QuietCount
  <2> QED BY <1>2, <2>1, <2>2
<1>20. ~wrong'
  <2>1. Right(Counted(here, {}, broom), {})
    BY DEF Right
  <2>2. wrong' = (wrong \/ ~Right(Counted(here, {}, broom), {}))
    BY <1>1, <1>7 DEF Cycle
  <2> QED BY <2>1, <2>2 DEF HostInv
<1>21. /\ want[p.id] = Want(p) /\ net[p.id] = 0
       /\ \A k \in 1..n : aw[k].id = p.id => k = 1
  BY <1>1 DEF HostInv, Waits
<1>22. net' \in [Ids -> Nat] /\ net'[p.id] = 1
       /\ \A e \in Ids \ {p.id} : net'[e] = net[e]
  <2> HIDE DEF p
  <2> QED BY <1>2, <1>3, <1>18, <1>21
<1> HIDE DEF n
<1>23. Queued' = Queued \ {p.id}
  <2>1. Queued' = {aw[k + 1].id : k \in 1..(n - 1)}
    BY <1>14 DEF Queued
  <2>2. \A k \in 1..(n - 1) : k + 1 \in 1..n /\ k + 1 # 1
    BY <1>2
  <2>3. \A k \in 1..n : k # 1 => k - 1 \in 1..(n - 1) /\ (k - 1) + 1 = k
    BY <1>2
  <2>4. Queued = {aw[k].id : k \in 1..n}
    BY DEF Queued, n
  <2>5. Queued' \subseteq Queued \ {p.id}
    BY <1>21, <2>1, <2>2, <2>4
  <2>6. ASSUME NEW e \in Queued \ {p.id} PROVE e \in Queued'
    <3>1. PICK k \in 1..n : e = aw[k].id
      BY <2>4
    <3>2. k # 1
      BY <3>1 DEF p
    <3> DEFINE j == k - 1
    <3>3. j \in 1..(n - 1) /\ j + 1 = k
      BY <2>3, <3>2
    <3> HIDE DEF j
    <3>4. aw[j + 1].id = e
      BY <3>1, <3>3
    <3> QED BY <2>1, <3>3, <3>4
  <2> QED BY <2>5, <2>6
<1>24. TypeOK'
  <2>1. p.len \in Count /\ pend' \in Count
    BY <1>2, <1>3, <1>4, <1>11 DEF Count
  <2>2. wrong' \in BOOLEAN
    BY <1>20 DEF Cycle
  <2> QED BY <1>2, <1>3, <1>9, <1>10, <1>13, <1>14, <1>17, <1>19, <1>22, <2>1, <2>2
          DEF TypeOK, Wanted
<1>25. Waits'
  <2>1. \A k \in 1..(n - 1) : k + 1 \in 1..n /\ aw'[k] = aw[k + 1]
    BY <1>2, <1>14
  <2>2. \A j, k \in 1..(n - 1) : aw'[j].id = aw'[k].id => j = k
    <3> SUFFICES ASSUME NEW j \in 1..(n - 1), NEW k \in 1..(n - 1),
                        aw'[j].id = aw'[k].id
                 PROVE  j = k
      OBVIOUS
    <3>1. j + 1 = k + 1
      BY <2>1 DEF HostInv, Waits, n
    <3> QED BY <1>2, <3>1
  <2>3. ASSUME NEW k \in 1..(n - 1)
        PROVE  want'[aw'[k].id] = Want(aw'[k]) /\ net'[aw'[k].id] = 0
    <3>1. k + 1 \in 1..n /\ aw'[k] = aw[k + 1] /\ k + 1 # 1
      BY <1>2, <2>1
    <3>2. want[aw[k + 1].id] = Want(aw[k + 1]) /\ net[aw[k + 1].id] = 0
      BY <3>1 DEF HostInv, Waits, n
    <3>3. aw[k + 1].id \in Ids \ {p.id}
      BY <1>21, <3>1, HostFacts DEF n
    <3> QED BY <1>19, <1>22, <3>1, <3>2, <3>3
  <2> QED BY <1>14, <2>2, <2>3 DEF Waits
<1>26. Merges'
  <2>1. left' <= pend' /\ (merging' => p.len # 0)
    BY <1>3, <1>10, <1>11 DEF merging
  <2>2. ASSUME p.len # 0
        PROVE  /\ IsSplit(want'[sid'], pend', err')
               /\ net'[sid'] + left' = pend'
               /\ sid' \notin Queued'
    <3>1. Split(p) = TRUE /\ p.wrap = FALSE /\ pend' = p.len + 1
      <4>1. p.wrap \in BOOLEAN
        BY <1>1, HostFacts DEF n
      <4> QED BY <1>1, <1>3, <1>11, <2>2, <4>1 DEF Split
    <3>2. IsSplit(want'[sid'], pend', err')
      <4>1. want'[sid'] = [open |-> TRUE, split |-> Split(p), beats |-> p.len + 1,
                           fail |-> p.wrap]
        BY <1>10, <1>19, <1>21 DEF Want
      <4>2. err' = FALSE
        BY <1>12, <2>2
      <4>3. Split(p) \in BOOLEAN
        BY <3>1
      <4> HIDE DEF p, Split
      <4>4. /\ want'[sid'].open /\ want'[sid'].split = Split(p)
            /\ want'[sid'].beats = p.len + 1 /\ want'[sid'].fail = p.wrap
        BY <4>1, <4>3
      <4> QED BY <3>1, <4>2, <4>4 DEF IsSplit
    <3>3. net'[sid'] + left' = pend'
      BY <1>3, <1>10, <1>22, <3>1
    <3> QED BY <1>10, <1>23, <3>2, <3>3
  <2> QED BY <2>1, <2>2 DEF Merges
<1>27. Fails' /\ Apart'
  BY <1>9, <1>19 DEF Fails, HostInv, Apart
<1>28. Others'
  <2> SUFFICES ASSUME NEW e \in Ids, e \notin Queued', e \notin Merged', e \notin Failing'
               PROVE  \/ want'[e] = Idle /\ net'[e] = 0
                      \/ want'[e] = Single /\ net'[e] = 1
    BY DEF Others
  <2>1. CASE e = p.id
    <3>1. p.len = 0
      BY <1>3, <1>10, <1>11, <2>1 DEF Merged, merging
    <3>2. Split(p) = FALSE /\ p.wrap = FALSE /\ p.len + 1 = 1
      <4>1. p.wrap \in BOOLEAN
        BY <1>1, HostFacts DEF n
      <4> QED BY <1>1, <3>1, <4>1 DEF Split
    <3>3. want'[e] = Single
      BY <1>19, <1>21, <2>1, <3>2 DEF Want, Single
    <3> QED BY <1>22, <2>1, <3>3
  <2>2. CASE e # p.id
    <3>1. e \notin Queued \cup Merged \cup Failing
      BY <1>1, <1>23, <2>2 DEF Merged, Failing
    <3>2. \/ want[e] = Idle /\ net[e] = 0
          \/ want[e] = Single /\ net[e] = 1
      BY <3>1 DEF HostInv, Others
    <3> QED BY <1>19, <1>22, <2>2, <3>2
  <2> QED BY <2>1, <2>2
<1>29. Beats'
  <2>1. Rest' = p.len
    BY <1>9, <1>10 DEF Rest
  <2> QED BY <1>14, <1>16, <1>17, <2>1 DEF Beats
<1>30. Ending'
  <2>1. ASSUME aw' # <<>> PROVE ~aw'[1].wrap
    <3>1. n - 1 # 0
      BY <1>14, <2>1, EmptySeq
    <3>2. 1 \in 1..(n - 1) /\ 2 \in 2..n /\ 1 + 1 = 2
      BY <1>1, <1>2, <3>1
    <3>3. aw'[1] = aw[2]
      BY <1>14, <3>2
    <3> QED BY <1>1, <3>2, <3>3
  <2> QED BY <1>9, <2>1 DEF Ending
<1> QED BY <1>20, <1>24, <1>25, <1>26, <1>27, <1>28, <1>29, <1>30 DEF HostInv


(* Neither the first beat of a burst nor a refused one's: the front of the *)
(* cycle leaves a beat of the burst being split, or nothing.               *)
FrontMoves(here, room, ans, broom) ==
  /\ ~DropW(here) /\ eat' = FALSE /\ bad' = bad /\ sid' = sid /\ aw' = aw
  /\ owe' = (owe /\ ~Say(ans, broom))
  /\ pend' = IF Merge(ans, broom) THEN pend - 1 ELSE pend
  /\ err' = IF Merge(ans, broom) THEN ErrNow(ans, broom) ELSE err
  /\ More(here, room) => merging /\ left # 0
  /\ left' = IF More(here, room) THEN left - 1 ELSE left
  /\ left' \in Nat /\ left' <= left
  /\ \A e \in Ids : net'[e] =
       net[e] + (IF More(here, room) /\ e = sid THEN 1 ELSE 0)
              - (IF Taken(ans, broom) /\ \E a \in ans : a.id = e THEN 1 ELSE 0)
  /\ net' = [e \in Ids |-> net'[e]]
  /\ w' \in Seq(BOOLEAN) /\ Beats' /\ Ending'

LEMMA FrontStep ==
  ASSUME HostInv, NEW here \in BOOLEAN, NEW room \in BOOLEAN,
         NEW broom \in BOOLEAN, NEW ans, Cycle(here, room, ans, broom),
         ~eat, ~refuse, ~First(here, room)
  PROVE  FrontMoves(here, room, ans, broom)
<1> DEFINE more == More(here, room)
<1>1. /\ aw \in Seq(Phases) /\ w \in Seq(BOOLEAN) /\ left \in Nat /\ pend \in Nat
      /\ Len(w) \in Nat /\ Len(aw) \in Nat /\ owe \in BOOLEAN
  BY HostFacts
<1>2. ~DropW(here) /\ ~AteLast(here) /\ ~Start(here, room) /\ (GoW(here, room) <=> more)
  BY DEF DropW, AteLast, Start, GoW
<1>3. Registers(here, room, ans, broom)
  BY DEF Cycle
<1>4. eat' = FALSE /\ bad' = bad /\ sid' = sid
  BY <1>2, <1>3 DEF Registers
<1>5. aw' = aw /\ w' = IF more THEN Tail(w) ELSE w
  BY <1>2 DEF Cycle
<1>6. owe' = (owe /\ ~Say(ans, broom))
  <2>1. owe' = IF Say(ans, broom) THEN FALSE ELSE owe \/ FALSE
    BY <1>2, <1>3 DEF Registers, OweNext
  <2> QED BY <1>1, <2>1
<1>7. /\ pend' = IF Merge(ans, broom) THEN pend - 1 ELSE pend
      /\ err' = IF Merge(ans, broom) THEN ErrNow(ans, broom) ELSE err
  BY <1>2, <1>3 DEF Registers
<1>8. more => left # 0 /\ merging /\ PacketId = sid
  BY <1>1 DEF More, splitting, merging, PacketId, HostInv, Merges
<1>9. left' = IF more THEN left - 1 ELSE left
  BY <1>3 DEF Registers
<1>10. left' \in Nat /\ left' <= left
  BY <1>1, <1>8, <1>9
<1>11. net' = [e \in Ids |->
         net[e] + (IF more /\ e = sid THEN 1 ELSE 0)
                - (IF Taken(ans, broom) /\ \E a \in ans : a.id = e THEN 1 ELSE 0)]
  BY <1>2, <1>8 DEF Cycle
<1>12. AddsUp(aw, left, Len(w))
  BY DEF HostInv, Beats, Rest
<1>13. w' \in Seq(BOOLEAN) /\ AddsUp(aw, left', Len(w'))
  <2>1. CASE more
    <3>1. \A k \in 1..Len(aw) : aw[k].len \in Nat
      BY HostFacts
    <3>2. Len(w) # 0 /\ AddsUp(aw, left - 1, Len(w) - 1)
      BY <1>1, <1>8, <1>12, <2>1, <3>1, AddsLess
    <3>3. w # <<>>
      BY <3>2, EmptySeq
    <3>4. Tail(w) \in Seq(BOOLEAN) /\ Len(Tail(w)) = Len(w) - 1
      BY <1>1, <3>3, HeadTailProperties
    <3> QED BY <1>5, <1>9, <2>1, <3>2, <3>4
  <2>2. CASE ~more
    BY <1>1, <1>5, <1>9, <1>12, <2>2
  <2> QED BY <2>1, <2>2
<1>14. Beats'
  BY <1>4, <1>5, <1>13 DEF Beats, Rest
<1>15. Ending'
  <2>1. ASSUME aw # <<>>, aw[1].wrap PROVE FALSE
    <3>1. 1 \in 1..Len(aw)
      BY <1>1, <2>1, EmptySeq
    <3>2. want[aw[1].id].open /\ ~want[aw[1].id].split /\ aw[1].id \in Ids
      BY <2>1, <3>1, QueuedOpen, HostFacts DEF Split
    <3>3. left = 0
      BY <3>2, Alone
    <3> QED BY <2>1, <3>3 DEF refuse, offered, splitting
  <2> QED BY <1>4, <1>5, <2>1 DEF Ending
<1> QED BY <1>2, <1>4, <1>5, <1>6, <1>7, <1>8, <1>9, <1>10, <1>11, <1>13, <1>14, <1>15
        DEF FrontMoves

(* A step that moves nothing but the burst being merged.                   *)
LEMMA BurstStep ==
  ASSUME HostInv, TypeOK', Merges', Beats', Ending', ~wrong',
         aw' = aw, ~eat, ~eat', owe' = owe, bad' = bad, sid' = sid,
         merging' => merging,
         \A e \in Ids \ Merged : want'[e] = want[e] /\ net'[e] = net[e],
         merging /\ ~merging' => want'[sid] = Idle /\ net'[sid] = 0
  PROVE  HostInv'
<1>1. sid \in Ids /\ bad \in Ids /\ Queued \subseteq Ids
  BY HostFacts
<1>2. Queued' = Queued
  BY DEF Queued
<1>3. Queued \cap Merged = {}
  BY DEF HostInv, Merges, Merged
<1>4. Waits'
  <2>1. ASSUME NEW k \in 1..Len(aw)
        PROVE  want'[aw[k].id] = Want(aw[k]) /\ net'[aw[k].id] = 0
    <3>1. want[aw[k].id] = Want(aw[k]) /\ net[aw[k].id] = 0
      BY DEF HostInv, Waits
    <3>2. aw[k].id \in Ids \ Merged
      BY <1>1, <1>3 DEF Queued
    <3> QED BY <3>1, <3>2
  <2> QED BY <2>1 DEF HostInv, Waits
<1>5. owe => bad \in Ids \ Merged
  <2>1. owe => want[bad].open /\ ~want[bad].split
    BY DEF HostInv, Fails
  <2>2. owe => ~merging
    BY <1>1, <2>1, Alone
  <2> QED BY <1>1, <2>2 DEF Merged
<1>6. Fails'
  BY <1>2, <1>5 DEF HostInv, Fails
<1>7. Failing' = Failing
  BY DEF Failing
<1>8. Others'
  <2> SUFFICES ASSUME NEW e \in Ids, e \notin Queued, e \notin Merged', e \notin Failing
               PROVE  \/ want'[e] = Idle /\ net'[e] = 0
                      \/ want'[e] = Single /\ net'[e] = 1
    BY <1>2, <1>7 DEF Others
  <2>1. CASE e \in Merged
    BY <2>1 DEF Merged
  <2>2. CASE e \notin Merged
    BY <2>2 DEF HostInv, Others
  <2> QED BY <2>1, <2>2
<1>9. merging => want[sid].open
  <2>1. merging => IsSplit(want[sid], pend, err)
    BY DEF HostInv, Merges
  <2> QED BY <2>1 DEF IsSplit
<1>10. Apart'
  <2> SUFFICES ASSUME NEW d \in Ids, NEW e \in Ids, d # e,
                      want'[d].open, want'[e].open
               PROVE  want'[d].split
    BY DEF Apart
  <2>1. CASE d \in Merged
    <3>1. merging /\ d = sid
      BY <2>1 DEF Merged
    <3>2. CASE merging'
      <4>1. IsSplit(want'[sid], pend', err')
        BY <3>2 DEF Merges
      <4> QED BY <3>1, <4>1 DEF IsSplit
    <3>3. CASE ~merging'
      BY <3>1, <3>3 DEF Idle
    <3> QED BY <3>2, <3>3
  <2>2. CASE d \notin Merged
    <3>1. want'[d] = want[d]
      BY <2>2
    <3>2. want[e].open
      BY <1>9 DEF Merged
    <3> QED BY <3>1, <3>2 DEF HostInv, Apart
  <2> QED BY <2>1, <2>2
<1> QED BY <1>4, <1>6, <1>8, <1>10 DEF HostInv


(* No answer is taken and none is said.                                    *)
LEMMA QuietStep ==
  ASSUME HostInv, NEW here \in BOOLEAN, NEW room \in BOOLEAN,
         NEW broom \in BOOLEAN, NEW ans, Answering(ans),
         Cycle(here, room, ans, broom), ~eat, ~refuse, ~First(here, room),
         ~Taken(ans, broom), ~Say(ans, broom)
  PROVE  HostInv'
<1> DEFINE counted == Counted(here, ans, broom)
<1>1. /\ ~DropW(here) /\ eat' = FALSE /\ bad' = bad /\ sid' = sid /\ aw' = aw
      /\ owe' = (owe /\ ~Say(ans, broom))
      /\ pend' = IF Merge(ans, broom) THEN pend - 1 ELSE pend
      /\ err' = IF Merge(ans, broom) THEN ErrNow(ans, broom) ELSE err
      /\ More(here, room) => merging /\ left # 0
      /\ left' = IF More(here, room) THEN left - 1 ELSE left
      /\ left' \in Nat /\ left' <= left
      /\ \A e \in Ids : net'[e] =
           net[e] + (IF More(here, room) /\ e = sid THEN 1 ELSE 0)
                  - (IF Taken(ans, broom) /\ \E a \in ans : a.id = e THEN 1 ELSE 0)
      /\ net' = [e \in Ids |-> net'[e]]
      /\ w' \in Seq(BOOLEAN) /\ Beats' /\ Ending'
  <2>1. FrontMoves(here, room, ans, broom)
    BY FrontStep
  <2> QED BY <2>1, Zenon DEF FrontMoves
<1>2. /\ aw \in Seq(Phases) /\ left \in Nat /\ pend \in Nat /\ sid \in Ids /\ bad \in Ids
      /\ owe \in BOOLEAN /\ err \in BOOLEAN /\ pend < Top /\ left < Top /\ Top \in Nat
      /\ net \in [Ids -> Nat] /\ want \in [Ids -> Wanted]
  BY HostFacts
<1>3. ~Merge(ans, broom) /\ ~ToB(ans, broom)
  BY DEF Taken
<1>4. ~DoneB(ans, broom)
  BY <1>3 DEF DoneB, Merge
<1>5. Told(ans, broom) = {}
  BY <1>3, <1>4 DEF Told
<1>6. \A e \in Ids : counted[e] = want[e]
  <2>1. CASE ans = {}
    BY <1>1, <2>1, QuietCount
  <2>2. CASE ans # {}
    <3>1. PICK a \in [id : Ids, fail : BOOLEAN] : ans = {a}
      BY <2>2 DEF Answering
    <3>2. ~DropW(here) /\ ~Taken({a}, broom)
      BY <1>1, <3>1
    <3>3. ASSUME NEW e \in Ids PROVE Counted(here, {a}, broom)[e] = want[e]
      <4>1. Counted(here, {a}, broom)[e] =
              IF Taken({a}, broom) /\ e = a.id /\ want[e].beats # 0
              THEN [want[e] EXCEPT !.beats = @ - 1, !.fail = @ \/ a.fail]
              ELSE want[e]
        BY <3>2, CountedAnswer, Zenon
      <4> QED BY <3>2, <4>1, Zenon
    <3> QED BY <3>1, <3>3
  <2> QED BY <2>1, <2>2
<1>7. ~wrong'
  <2>1. Right(counted, {})
    BY DEF Right
  <2>2. wrong' = (wrong \/ ~Right(counted, {}))
    BY <1>5 DEF Cycle
  <2> QED BY <2>1, <2>2 DEF HostInv
<1>8. want' = want
  <2>1. want' = [e \in Ids |-> counted[e]]
    BY <1>5 DEF Cycle
  <2> HIDE DEF counted
  <2> QED BY <1>2, <1>6, <2>1
<1>9. \A e \in Ids : net'[e] = IF More(here, room) /\ e = sid THEN net[e] + 1 ELSE net[e]
  <2>1. \A e \in Ids : net'[e] = net[e] + (IF More(here, room) /\ e = sid THEN 1 ELSE 0) - 0
    BY <1>1
  <2> QED BY <1>2, <2>1
<1>10. TypeOK'
  <2>1. \A e \in Ids : net'[e] \in Nat
    BY <1>2, <1>9
  <2>2. net' \in [Ids -> Nat]
    BY <1>1, <2>1
  <2>3. left' \in Count /\ pend' \in Count
    BY <1>1, <1>2, <1>3 DEF Count
  <2>4. wrong' \in BOOLEAN
    BY <1>7 DEF Cycle
  <2> QED BY <1>1, <1>2, <1>3, <1>8, <2>2, <2>3, <2>4 DEF TypeOK, Wanted
<1>11. Merges'
  <2>1. left' <= pend' /\ pend' = pend /\ err' = err
    BY <1>1, <1>2, <1>3 DEF HostInv, Merges
  <2>2. ASSUME merging
        PROVE  /\ IsSplit(want[sid], pend, err)
               /\ net[sid] + left = pend /\ sid \notin Queued
    BY <2>2 DEF HostInv, Merges
  <2>3. ASSUME merging PROVE net'[sid] + left' = pend'
    <3>1. net[sid] \in Nat /\ net[sid] + left = pend
      BY <1>2, <2>2, <2>3
    <3>2. net'[sid] = IF More(here, room) THEN net[sid] + 1 ELSE net[sid]
      BY <1>2, <1>9
    <3> QED BY <1>1, <1>2, <2>1, <3>1, <3>2
  <2>4. (merging' <=> merging) /\ Queued' = Queued
    BY <1>1, <2>1 DEF merging, Queued
  <2> QED BY <1>1, <1>8, <2>1, <2>2, <2>3, <2>4 DEF Merges
<1>12. merging' = merging
  BY <1>1, <1>3 DEF merging
<1>13. \A e \in Ids \ Merged : want'[e] = want[e] /\ net'[e] = net[e]
  BY <1>1, <1>8, <1>9 DEF Merged
<1>14. owe' = owe
  BY <1>1, <1>2
<1> QED BY <1>1, <1>7, <1>10, <1>11, <1>12, <1>13, <1>14, BurstStep

(* An answer to the burst being merged is counted, and the last is given.  *)
LEMMA MergeStep ==
  ASSUME HostInv, NEW here \in BOOLEAN, NEW room \in BOOLEAN,
         NEW broom \in BOOLEAN, NEW ans, Answering(ans),
         Cycle(here, room, ans, broom), ~eat, ~refuse, ~First(here, room),
         Merge(ans, broom)
  PROVE  HostInv'
<1> DEFINE counted == Counted(here, ans, broom)
           now == ErrNow(ans, broom)
<1>1. /\ ~DropW(here) /\ eat' = FALSE /\ bad' = bad /\ sid' = sid /\ aw' = aw
      /\ owe' = (owe /\ ~Say(ans, broom))
      /\ pend' = IF Merge(ans, broom) THEN pend - 1 ELSE pend
      /\ err' = IF Merge(ans, broom) THEN now ELSE err
      /\ More(here, room) => merging /\ left # 0
      /\ left' = IF More(here, room) THEN left - 1 ELSE left
      /\ left' \in Nat /\ left' <= left
      /\ \A e \in Ids : net'[e] =
           net[e] + (IF More(here, room) /\ e = sid THEN 1 ELSE 0)
                  - (IF Taken(ans, broom) /\ \E a \in ans : a.id = e THEN 1 ELSE 0)
      /\ net' = [e \in Ids |-> net'[e]]
      /\ w' \in Seq(BOOLEAN) /\ Beats' /\ Ending'
  <2>1. FrontMoves(here, room, ans, broom)
    BY FrontStep
  <2> QED BY <2>1, Zenon DEF FrontMoves
<1>2. /\ aw \in Seq(Phases) /\ left \in Nat /\ pend \in Nat /\ sid \in Ids /\ bad \in Ids
      /\ owe \in BOOLEAN /\ err \in BOOLEAN /\ pend < Top /\ left < Top /\ Top \in Nat
      /\ net \in [Ids -> Nat] /\ want \in [Ids -> Wanted]
  BY HostFacts
<1>3. merging /\ Mine(ans) /\ Taken(ans, broom) /\ ~ToB(ans, broom) /\ ans # {}
  BY DEF Merge, Mine, Taken, ToB
<1>4. PICK f \in BOOLEAN : ans = {[id |-> sid, fail |-> f]} /\ net[sid] # 0
  BY <1>3 DEF Answering, Mine
<1> DEFINE a == [id |-> sid, fail |-> f]
<1>5. a \in [id : Ids, fail : BOOLEAN] /\ a.id = sid /\ a.fail = f /\ ans = {a}
  BY <1>2, <1>4
<1> HIDE DEF a
<1>6. now = (err \/ f) /\ now \in BOOLEAN
  BY <1>2, <1>5 DEF ErrNow
<1>7. /\ IsSplit(want[sid], pend, err)
      /\ net[sid] + left = pend /\ pend # 0 /\ sid \notin Queued /\ net[sid] \in Nat
      /\ left <= pend
  BY <1>2, <1>3 DEF HostInv, Merges, merging
<1>8. ~owe
  <2>1. owe => want[bad].open /\ ~want[bad].split
    BY DEF HostInv, Fails
  <2> QED BY <1>2, <1>3, <2>1, Alone
<1>9. ~Say(ans, broom) /\ (DoneB(ans, broom) <=> pend = 1)
  BY <1>3, <1>8 DEF Say, DoneB, LastOne, Merge
<1>24. \A e \in Ids : counted[e] =
         IF e = sid /\ want[e].beats # 0
         THEN [want[e] EXCEPT !.beats = @ - 1, !.fail = @ \/ f] ELSE want[e]
  <2>1. ~DropW(here) /\ Taken({a}, broom)
    BY <1>1, <1>3, <1>5
  <2>2. \A e \in Ids : Counted(here, {a}, broom)[e] =
          IF Taken({a}, broom) /\ e = a.id /\ want[e].beats # 0
          THEN [want[e] EXCEPT !.beats = @ - 1, !.fail = @ \/ a.fail] ELSE want[e]
    BY <1>5, <2>1, CountedAnswer, Zenon
  <2> QED BY <1>5, <2>1, <2>2
<1> HIDE DEF counted, now
<1>10. IsSplit(counted[sid], pend - 1, now) /\ counted[sid] \in Wanted
  <2>1. want[sid].beats = pend /\ want[sid].fail = err /\ want[sid] \in Wanted
    BY <1>2, <1>7 DEF IsSplit
  <2>2. counted[sid] = [want[sid] EXCEPT !.beats = @ - 1, !.fail = @ \/ f]
    BY <1>2, <1>7, <1>24, <2>1
  <2> DEFINE g == want[sid].fail \/ f
  <2>3. g = now
    BY <1>6, <2>1
  <2>4. counted[sid] = [want[sid] EXCEPT !.beats = @ - 1, !.fail = g]
    BY <2>2
  <2> HIDE DEF g
  <2>5. pend - 1 \in 0..Top
    BY <1>2, <1>7
  <2>6. want[sid].open /\ want[sid].split
    BY <1>7 DEF IsSplit
  <2> HIDE DEF Wanted
  <2>7. /\ counted[sid].open = want[sid].open /\ counted[sid].split = want[sid].split
        /\ counted[sid].beats = pend - 1 /\ counted[sid].fail = now
        /\ counted[sid] \in Wanted
    BY <1>6, <2>1, <2>3, <2>4, <2>5 DEF Wanted
  <2> QED BY <2>6, <2>7 DEF IsSplit
<1>11. \A e \in Ids \ {sid} : counted[e] = want[e]
  BY <1>24
<1>12. Told(ans, broom) = IF pend = 1 THEN {[id |-> sid, fail |-> now]} ELSE {}
  BY <1>3, <1>9 DEF Told, now
<1>13. Right(counted, Told(ans, broom))
  <2>1. CASE pend = 1
    <3> DEFINE t == [id |-> sid, fail |-> now]
    <3>1. /\ t.id = sid /\ t.fail = now /\ Told(ans, broom) = {t}
          /\ counted[sid].open /\ counted[sid].beats = 0 /\ counted[sid].fail = now
      BY <1>6, <1>10, <1>12, <2>1 DEF IsSplit
    <3> HIDE DEF t
    <3> QED BY <3>1 DEF Right
  <2>2. CASE pend # 1
    BY <1>12, <2>2 DEF Right
  <2> QED BY <2>1, <2>2
<1>14. ~wrong'
  <2>1. wrong' = (wrong \/ ~Right(counted, Told(ans, broom)))
    BY DEF Cycle, counted
  <2> QED BY <1>13, <2>1 DEF HostInv
<1>15. /\ want' = [e \in Ids |-> want'[e]]
       /\ \A e \in Ids \ {sid} : want'[e] = want[e]
       /\ want'[sid] = IF pend = 1 THEN Idle ELSE counted[sid]
  <2>1. want' = [e \in Ids |-> IF \E t \in Told(ans, broom) : t.id = e
                                THEN Idle ELSE counted[e]]
    BY DEF Cycle, counted
  <2>2. ASSUME NEW e \in Ids
        PROVE  (\E t \in Told(ans, broom) : t.id = e) <=> pend = 1 /\ e = sid
    <3>1. CASE pend = 1
      <4> DEFINE t == [id |-> sid, fail |-> now]
      <4>1. t.id = sid /\ Told(ans, broom) = {t}
        BY <1>12, <3>1
      <4> HIDE DEF t
      <4> QED BY <3>1, <4>1
    <3>2. CASE pend # 1
      BY <1>12, <3>2
    <3> QED BY <3>1, <3>2
  <2> QED BY <1>2, <1>11, <2>1, <2>2
<1>16. /\ \A e \in Ids \ {sid} : net'[e] = net[e]
       /\ net'[sid] = IF More(here, room) THEN net[sid] ELSE net[sid] - 1
  <2>1. \A e \in Ids : (\E x \in ans : x.id = e) <=> e = sid
    BY <1>5
  <2>2. \A e \in Ids : net'[e] = net[e] + (IF More(here, room) /\ e = sid THEN 1 ELSE 0)
                                        - (IF e = sid THEN 1 ELSE 0)
    BY <1>1, <1>3, <2>1
  <2> QED BY <1>2, <2>2
<1>25. /\ pend' = pend - 1 /\ err' = now /\ left' \in Nat /\ left' <= left
       /\ left' = IF More(here, room) THEN left - 1 ELSE left
  BY <1>1
<1>17. net'[sid] \in Nat /\ net'[sid] + left' = pend'
  <2> DEFINE x == net[sid]  y == net'[sid]
  <2>1. x \in Nat \ {0} /\ x + left = pend
    BY <1>4, <1>7
  <2>2. y = IF More(here, room) THEN x ELSE x - 1
    BY <1>16
  <2> HIDE DEF x, y
  <2>3. y \in Nat /\ y + left' = pend'
    BY <1>2, <1>25, <2>1, <2>2
  <2> QED BY <2>3 DEF y
<1>18. TypeOK'
  <2>1. \A e \in Ids : net'[e] \in Nat
    BY <1>2, <1>16, <1>17
  <2>2. net' \in [Ids -> Nat]
    BY <1>1, <2>1
  <2>3. left' \in Count /\ pend' \in Count
    BY <1>2, <1>7, <1>25 DEF Count
  <2>4. wrong' \in BOOLEAN
    BY <1>14 DEF Cycle
  <2>5. want'[sid] \in Wanted
    <3>1. pend - 1 \in 0..Top /\ 0 \in 0..Top
      BY <1>2, <1>7
    <3>2. Idle \in Wanted
      BY <3>1 DEF Idle, Wanted
    <3>3. counted[sid] \in Wanted
      BY <1>10
    <3> QED BY <1>15, <3>2, <3>3
  <2>6. \A e \in Ids : want'[e] \in Wanted
    BY <1>2, <1>15, <2>5
  <2>7. want' \in [Ids -> Wanted]
    BY <1>15, <2>6
  <2> QED BY <1>1, <1>2, <1>6, <1>8, <2>2, <2>3, <2>4, <2>7 DEF TypeOK, Wanted
<1>19. merging' <=> pend # 1
  BY <1>1, <1>2, <1>7 DEF merging
<1>20. Merges'
  <2>1. left' <= pend'
    BY <1>1, <1>2, <1>17
  <2>2. ASSUME merging'
        PROVE  IsSplit(want'[sid], pend', err')
    BY <1>1, <1>10, <1>15, <1>19, <2>2
  <2>3. Queued' = Queued
    BY <1>1 DEF Queued
  <2> QED BY <1>1, <1>7, <1>17, <2>1, <2>2, <2>3 DEF Merges
<1>21. ~merging' => want'[sid] = Idle /\ net'[sid] = 0
  <2>1. pend = 1 => pend' = 0 /\ want'[sid] = Idle
    BY <1>1, <1>3, <1>15
  <2>2. pend' = 0 => net'[sid] = 0
    BY <1>17, <1>25
  <2>3. ASSUME ~merging' PROVE pend = 1
    BY <1>19, <2>3
  <2> QED BY <2>1, <2>2, <2>3
<1>22. \A e \in Ids \ Merged : want'[e] = want[e] /\ net'[e] = net[e]
  <2>1. Merged = {sid}
    BY <1>3 DEF Merged
  <2> QED BY <1>15, <1>16, <2>1
<1>23. owe' = owe
  BY <1>1, <1>2, <1>8
<1> QED BY <1>1, <1>3, <1>14, <1>18, <1>20, <1>21, <1>22, <1>23, BurstStep


-----------------------------------------------------------------------------
(* Nothing is open.                                                        *)
Cleared ==
  /\ aw = <<>> /\ w = <<>> /\ left = 0 /\ pend = 0 /\ eat = FALSE /\ owe = FALSE
  /\ sid \in Ids /\ bad \in Ids /\ err \in BOOLEAN
  /\ net = [d \in Ids |-> 0] /\ want = [d \in Ids |-> Idle] /\ wrong = FALSE

LEMMA ClearedHolds == Cleared => HostInv
<1> SUFFICES ASSUME Cleared PROVE HostInv
  OBVIOUS
<1> USE DEF Cleared
<1>1. Top \in Nat \ {0}
  BY HostBridgeAssumption
<1>2. /\ <<>> \in Seq(Phases) /\ <<>> \in Seq(BOOLEAN) /\ Len(<<>>) = 0
      /\ Len(aw) = 0 /\ Len(w) = 0
  BY EmptySeq
<1>3. Idle \in Wanted
  <2>1. 0 \in 0..Top
    BY <1>1
  <2> QED BY <2>1 DEF Idle, Wanted
<1>4. TypeOK
  <2>1. 0 \in Count
    BY <1>1 DEF Count
  <2>2. want \in [Ids -> Wanted]
    BY <1>3
  <2>3. net \in [Ids -> Nat]
    OBVIOUS
  <2> QED BY <1>2, <2>1, <2>2, <2>3 DEF TypeOK, Wanted
<1>5. Waits /\ Fails
  BY <1>2 DEF Waits, Fails
<1>6. Merges /\ Ending
  BY <1>2 DEF Merges, merging, Ending
<1>7. Others /\ Apart
  BY DEF Others, Apart, Idle
<1>8. Beats
  <2>1. Rest = 0
    BY DEF Rest
  <2> QED BY <1>2, <2>1, AddsEmpty DEF Beats
<1> QED BY <1>4, <1>5, <1>6, <1>7, <1>8 DEF HostInv

LEMMA ClearedAfter == Cleared' => HostInv'
BY ClearedHolds, PTL

(* The host is told of the only write that is open, which is done.         *)
LEMMA ToldStep ==
  ASSUME HostInv, NEW here \in BOOLEAN, NEW room \in BOOLEAN,
         NEW broom \in BOOLEAN, NEW ans, Cycle(here, room, ans, broom),
         ~eat, ~refuse, ~First(here, room), ~Merge(ans, broom),
         NEW d \in Ids, want[d].open, ~want[d].split, d \notin Queued,
         ~owe', net'[d] = 0, \A e \in Ids \ {d} : net'[e] = net[e],
         NEW f, Told(ans, broom) = {[id |-> d, fail |-> f]},
         Counted(here, ans, broom)[d].open,
         Counted(here, ans, broom)[d].beats = 0,
         Counted(here, ans, broom)[d].fail = f,
         \A e \in Ids \ {d} : Counted(here, ans, broom)[e] = want[e]
  PROVE  HostInv'
<1> DEFINE counted == Counted(here, ans, broom)
           t == [id |-> d, fail |-> f]
<1>1. FrontMoves(here, room, ans, broom)
  BY FrontStep
<1>2. /\ aw \in Seq(Phases) /\ left \in Nat /\ pend \in Nat /\ sid \in Ids /\ bad \in Ids
      /\ owe \in BOOLEAN /\ err \in BOOLEAN
      /\ net \in [Ids -> Nat] /\ want \in [Ids -> Wanted]
  BY HostFacts
<1>3. /\ \A e \in Ids \ {d} : want[e] = Idle /\ net[e] = 0
      /\ Queued \subseteq {d} /\ ~merging /\ left = 0 /\ pend = 0
      /\ Len(aw) \in {0, 1}
  BY Alone
<1>4. aw = <<>>
  <2>1. Queued = {}
    BY <1>3
  <2>2. 1 \notin 1..Len(aw)
    BY <2>1 DEF Queued
  <2>3. Len(aw) = 0
    BY <1>3, <2>2
  <2> QED BY <1>2, <2>3, EmptySeq
<1>5. /\ eat' = FALSE /\ bad' = bad /\ sid' = sid /\ aw' = aw /\ w' \in Seq(BOOLEAN)
      /\ Beats' /\ net' = [e \in Ids |-> net'[e]]
  BY <1>1, Zenon DEF FrontMoves
<1>6. pend' = 0 /\ err' = err /\ left' = 0
  BY <1>1, <1>3 DEF FrontMoves
<1>7. owe' = FALSE
  BY <1>1, <1>2 DEF FrontMoves
<1>8. w' = <<>>
  <2>1. AddsUp(<<>>, 0, Len(w'))
    BY <1>4, <1>5, <1>6 DEF Beats, Rest
  <2>2. Len(w') = 0
    BY <2>1, AddsEmpty
  <2> QED BY <1>5, <2>2, EmptySeq
<1>9. net' = [e \in Ids |-> 0]
  BY <1>3, <1>5
<1>10. t.id = d /\ t.fail = f
  OBVIOUS
<1> HIDE DEF t
<1>11. want' = [e \in Ids |-> Idle]
  <2>1. want' = [e \in Ids |-> IF \E x \in {t} : x.id = e THEN Idle ELSE counted[e]]
    BY DEF Cycle, t
  <2>2. \A e \in Ids : (IF \E x \in {t} : x.id = e THEN Idle ELSE counted[e]) = Idle
    BY <1>3, <1>10
  <2> HIDE DEF counted
  <2> QED BY <2>1, <2>2
<1>12. wrong' = FALSE
  <2>1. Right(counted, {t})
    BY <1>10 DEF Right
  <2>2. wrong' = (wrong \/ ~Right(counted, {t}))
    BY DEF Cycle, t
  <2> QED BY <2>1, <2>2 DEF HostInv
<1>13. Cleared'
  BY <1>2, <1>4, <1>5, <1>6, <1>7, <1>8, <1>9, <1>11, <1>12 DEF Cleared
<1> QED BY <1>13, ClearedAfter

(* The answer to a write of one beat passes.                               *)
LEMMA GivenStep ==
  ASSUME HostInv, NEW here \in BOOLEAN, NEW room \in BOOLEAN,
         NEW broom \in BOOLEAN, NEW ans, Answering(ans),
         Cycle(here, room, ans, broom), ~eat, ~refuse, ~First(here, room),
         ToB(ans, broom)
  PROVE  HostInv'
<1>1. FrontMoves(here, room, ans, broom)
  BY FrontStep
<1>2. /\ sid \in Ids /\ bad \in Ids /\ owe \in BOOLEAN
      /\ net \in [Ids -> Nat] /\ want \in [Ids -> Wanted]
  BY HostFacts
<1>3. ans # {} /\ ~Mine(ans) /\ Taken(ans, broom) /\ ~Merge(ans, broom)
  BY DEF ToB, Taken, Merge
<1>4. PICK d \in Ids, f \in BOOLEAN : ans = {[id |-> d, fail |-> f]} /\ net[d] # 0
  BY <1>3 DEF Answering
<1> DEFINE a == [id |-> d, fail |-> f]
<1>5. a \in [id : Ids, fail : BOOLEAN] /\ a.id = d /\ a.fail = f /\ ans = {a}
  BY <1>4
<1> HIDE DEF a
<1>6. ~(merging /\ d = sid)
  BY <1>3, <1>5 DEF Mine
<1>7. d \notin Queued \cup Merged \cup Failing /\ want[d] = Single /\ net[d] = 1
  BY <1>4, <1>6, AnswerTo
<1>8. want[d].open /\ ~want[d].split /\ want[d].beats = 1 /\ want[d].fail = FALSE
  BY <1>7 DEF Single
<1>9. ~owe
  <2>1. owe => want[bad].open /\ bad \in Failing
    BY DEF HostInv, Fails, Failing
  <2>2. \A e \in Ids \ {d} : want[e] = Idle
    BY <1>8, Alone
  <2>3. owe => bad = d
    BY <1>2, <2>1, <2>2 DEF Idle
  <2> QED BY <1>7, <2>1, <2>3
<1>10. ~owe'
  BY <1>1, <1>9 DEF FrontMoves
<1>11. ~More(here, room)
  BY <1>1, <1>8, Alone DEF FrontMoves
<1>12. \A e \in Ids : net'[e] = IF e = d THEN net[e] - 1 ELSE net[e]
  <2>1. \A e \in Ids : net'[e] = net[e] + 0 -
          (IF \E x \in ans : x.id = e THEN 1 ELSE 0)
    BY <1>1, <1>3, <1>11 DEF FrontMoves
  <2>2. \A e \in Ids : (\E x \in ans : x.id = e) <=> e = d
    BY <1>5
  <2> QED BY <1>2, <2>1, <2>2
<1>13. net'[d] = 0 /\ \A e \in Ids \ {d} : net'[e] = net[e]
  BY <1>7, <1>12
<1>14. \A e \in Ids : Counted(here, ans, broom)[e] =
         IF e = d /\ want[e].beats # 0
         THEN [want[e] EXCEPT !.beats = @ - 1, !.fail = @ \/ f] ELSE want[e]
  <2>1. ~DropW(here) /\ Taken({a}, broom)
    BY <1>1, <1>3, <1>5 DEF FrontMoves
  <2>2. \A e \in Ids : Counted(here, {a}, broom)[e] =
          IF Taken({a}, broom) /\ e = a.id /\ want[e].beats # 0
          THEN [want[e] EXCEPT !.beats = @ - 1, !.fail = @ \/ a.fail] ELSE want[e]
    BY <1>5, <2>1, CountedAnswer, Zenon
  <2> QED BY <1>5, <2>1, <2>2
<1> DEFINE c == Counted(here, ans, broom)[d]
<1>15. c.open /\ c.beats = 0 /\ c.fail = f
  <2>0. want[d].beats # 0 /\ want[d].beats - 1 = 0
    BY <1>8
  <2>1. c = [want[d] EXCEPT !.beats = @ - 1, !.fail = @ \/ f]
    BY <1>14, <2>0, Zenon
  <2> DEFINE g == want[d].fail \/ f
  <2>2. g = f
    BY <1>8
  <2>3. c = [want[d] EXCEPT !.beats = @ - 1, !.fail = g]
    BY <2>1
  <2>4. want[d] \in Wanted
    BY <1>2
  <2> HIDE DEF c, g
  <2>5. c.open = want[d].open /\ c.beats = want[d].beats - 1 /\ c.fail = g
    BY <2>3, <2>4 DEF Wanted
  <2> QED BY <1>8, <2>0, <2>2, <2>5
<1>16. \A e \in Ids \ {d} : Counted(here, ans, broom)[e] = want[e]
  BY <1>14
<1>17. Told(ans, broom) = {[id |-> d, fail |-> f]}
  BY <1>4 DEF Told
<1> QED BY <1>3, <1>7, <1>8, <1>10, <1>13, <1>15, <1>16, <1>17, ToldStep

(* A refused burst's answer is said.                                       *)
LEMMA SaidStep ==
  ASSUME HostInv, NEW here \in BOOLEAN, NEW room \in BOOLEAN,
         NEW broom \in BOOLEAN, NEW ans, Answering(ans),
         Cycle(here, room, ans, broom), ~eat, ~refuse, ~First(here, room),
         Say(ans, broom)
  PROVE  HostInv'
<1>1. FrontMoves(here, room, ans, broom)
  BY FrontStep
<1>2. /\ bad \in Ids /\ owe \in BOOLEAN /\ net \in [Ids -> Nat] /\ want \in [Ids -> Wanted]
  BY HostFacts
<1>3. owe /\ broom /\ ~ToB(ans, broom) /\ ~DoneB(ans, broom)
  BY DEF Say
<1>4. /\ want[bad].open /\ ~want[bad].split /\ want[bad].fail /\ want[bad].beats = 0
      /\ net[bad] = 0 /\ bad \notin Queued /\ bad \in Failing
  BY <1>3 DEF HostInv, Fails, Failing
<1>5. ans = {}
  BY <1>2, <1>4, AloneSilent
<1>6. ~Merge(ans, broom) /\ ~Taken(ans, broom)
  BY <1>5, NoAnswer
<1>7. ~owe'
  BY <1>1 DEF FrontMoves
<1>8. ~More(here, room)
  BY <1>1, <1>2, <1>4, Alone DEF FrontMoves
<1>9. \A e \in Ids : net'[e] = net[e]
  <2>1. \A e \in Ids : net'[e] = net[e] + 0 - 0
    BY <1>1, <1>6, <1>8 DEF FrontMoves
  <2> QED BY <1>2, <2>1
<1>10. Counted(here, ans, broom) = want
  BY <1>1, <1>5, QuietCount DEF FrontMoves
<1>11. PICK yes \in BOOLEAN : Told(ans, broom) = {[id |-> bad, fail |-> yes]} /\ yes
  BY <1>3 DEF Told
<1>12. want[bad].fail = yes
  <2>1. want[bad] \in Wanted
    BY <1>2
  <2> QED BY <1>4, <1>11, <2>1 DEF Wanted
<1>13. net'[bad] = 0 /\ \A e \in Ids \ {bad} : net'[e] = net[e]
  BY <1>2, <1>4, <1>9
<1>14. /\ Counted(here, ans, broom)[bad].open
       /\ Counted(here, ans, broom)[bad].beats = 0
       /\ Counted(here, ans, broom)[bad].fail = yes
       /\ \A e \in Ids \ {bad} : Counted(here, ans, broom)[e] = want[e]
  BY <1>4, <1>10, <1>12
<1>15. PICK d : d = bad
  OBVIOUS
<1>16. /\ d \in Ids /\ want[d].open /\ ~want[d].split /\ d \notin Queued
       /\ net'[d] = 0 /\ (\A e \in Ids \ {d} : net'[e] = net[e])
       /\ Told(ans, broom) = {[id |-> d, fail |-> yes]}
       /\ Counted(here, ans, broom)[d].open
       /\ Counted(here, ans, broom)[d].beats = 0
       /\ Counted(here, ans, broom)[d].fail = yes
       /\ \A e \in Ids \ {d} : Counted(here, ans, broom)[e] = want[e]
  BY <1>2, <1>4, <1>11, <1>13, <1>14, <1>15
<1> QED BY <1>6, <1>7, <1>16, ToldStep

LEMMA CycleStep ==
  ASSUME HostInv, Heeds, NEW here \in BOOLEAN, NEW room \in BOOLEAN,
         NEW broom \in BOOLEAN, NEW ans, Answering(ans),
         Cycle(here, room, ans, broom)
  PROVE  HostInv'
<1>1. CASE eat \/ refuse
  BY <1>1, DropStep
<1>2. CASE First(here, room)
  BY <1>2, FirstStep
<1>3. CASE ~eat /\ ~refuse /\ ~First(here, room)
  <2>1. CASE Merge(ans, broom)
    BY <1>3, <2>1, MergeStep
  <2>2. CASE ToB(ans, broom)
    BY <1>3, <2>2, GivenStep
  <2>3. CASE Say(ans, broom)
    BY <1>3, <2>3, SaidStep
  <2>4. CASE ~Merge(ans, broom) /\ ~ToB(ans, broom) /\ ~Say(ans, broom)
    BY <1>3, <2>4, QuietStep DEF Taken
  <2> QED BY <2>1, <2>2, <2>3, <2>4
<1> QED BY <1>1, <1>2, <1>3


-----------------------------------------------------------------------------
(* The beats of a burst, of which the last says so.                        *)
LEMMA Flags ==
  ASSUME NEW n \in Nat
  PROVE  /\ [k \in 1..n |-> k = n] \in Seq(BOOLEAN)
         /\ Len([k \in 1..n |-> k = n]) = n
<1> DEFINE s == [k \in 1..n |-> k = n]
<1>1. s \in [1..n -> BOOLEAN] /\ DOMAIN s = 1..n
  OBVIOUS
<1> HIDE DEF s
<1>2. s \in Seq(BOOLEAN)
  BY <1>1, SeqDef
<1>3. Len(s) \in Nat /\ DOMAIN s = 1..Len(s)
  BY <1>2, LenProperties
<1>4. 1..Len(s) = 1..n
  BY <1>1, <1>3
<1> DEFINE m == Len(s)
<1>5. m \in Nat /\ 1..m = 1..n
  BY <1>3, <1>4
<1> HIDE DEF m
<1>6. (m # 0 => m \in 1..m /\ m \in 1..n) /\ (n # 0 => n \in 1..n /\ n \in 1..m)
  BY <1>5
<1>7. m = n
  BY <1>5, <1>6
<1> QED BY <1>2, <1>7 DEF m, s

(* A write the host issues now is not open, and the network has nothing    *)
(* under its identifier.                                                   *)
LEMMA NewWrite ==
  ASSUME HostInv, NEW d \in Ids, ~want[d].open
  PROVE  net[d] = 0 /\ d \notin Queued /\ d \notin Merged /\ d \notin Failing
<1>1. d \notin Queued
  BY QueuedOpen DEF Queued
<1>2. d \notin Merged
  BY DEF Merged, HostInv, Merges, IsSplit
<1>3. d \notin Failing
  BY DEF Failing, HostInv, Fails
<1>4. want[d] # Single
  BY DEF Single
<1> QED BY <1>1, <1>2, <1>3, <1>4 DEF HostInv, Others

(* Nothing is open before the host's first write.                          *)
LEMMA NothingOpen ==
  ASSUME HostInv, \A d \in Ids : ~want[d].open
  PROVE  aw = <<>> /\ w = <<>> /\ left = 0 /\ ~merging /\ ~eat /\ ~owe
<1>1. Queued = {} /\ Merged = {} /\ Failing = {}
  BY NewWrite, HostFacts DEF Merged, Failing
<1>2. ~merging /\ ~eat /\ ~owe
  BY <1>1 DEF Merged, Failing
<1>3. left = 0
  BY <1>2, HostFacts DEF HostInv, Merges, merging
<1>4. aw = <<>>
  <2>1. 1 \notin 1..Len(aw)
    BY <1>1 DEF Queued
  <2>2. Len(aw) = 0
    BY <2>1, HostFacts
  <2> QED BY <2>2, HostFacts, EmptySeq
<1>5. w = <<>>
  <2>1. AddsUp(<<>>, 0, Len(w))
    BY <1>2, <1>3, <1>4 DEF HostInv, Beats, Rest
  <2>2. Len(w) = 0
    BY <2>1, AddsEmpty
  <2> QED BY <2>2, HostFacts, EmptySeq
<1> QED BY <1>2, <1>3, <1>4, <1>5

LEMMA OfferStep ==
  ASSUME HostInv, Heeds, NEW p \in Phases, Offer(p)
  PROVE  HostInv'
<1> DEFINE n == Len(aw)
           flags == [k \in 1..(p.len + 1) |-> k = p.len + 1]
<1>1. /\ aw \in Seq(Phases) /\ w \in Seq(BOOLEAN) /\ left \in Nat /\ sid \in Ids
      /\ bad \in Ids /\ eat \in BOOLEAN /\ owe \in BOOLEAN /\ Top \in Nat
      /\ net \in [Ids -> Nat] /\ want \in [Ids -> Wanted] /\ n \in Nat
      /\ Len(w) \in Nat /\ TypeOK
  BY HostFacts DEF HostInv
<1>2. /\ p.id \in Ids /\ p.len \in Nat /\ p.len + 1 < Top /\ p.wrap \in BOOLEAN
      /\ p.wrap => p.len > 0
  <2>1. p.id \in Ids /\ p.len \in Lens /\ p.wrap \in Wraps /\ (p.wrap => p.len > 0)
    BY DEF Phases
  <2>2. p.len \in 0..(Top - 1) /\ p.wrap \in BOOLEAN
    BY <2>1, HostBridgeAssumption
  <2> QED BY <1>1, <2>1, <2>2 DEF Heeds
<1>3. /\ ~want[p.id].open /\ aw' = Append(aw, p) /\ w' = w \o flags
      /\ want' = [want EXCEPT ![p.id] = Want(p)]
      /\ left' = left /\ sid' = sid /\ pend' = pend /\ err' = err /\ eat' = eat
      /\ owe' = owe /\ bad' = bad /\ net' = net /\ wrong' = wrong
  BY <1>2 DEF Offer, bridge, Open
<1>4. (\E d \in Ids : want[d].open) => Split(p) /\ \A d \in Ids : want[d].open => want[d].split
  BY DEF Offer, Heeds, Open
<1>5. net[p.id] = 0 /\ p.id \notin Queued /\ p.id \notin Merged /\ p.id \notin Failing
  BY <1>2, <1>3, NewWrite
<1>6. ~eat /\ ~owe
  BY <1>1, <1>4 DEF HostInv, Fails
<1>7. /\ Len(aw') = n + 1 /\ aw' \in Seq(Phases) /\ aw'[n + 1] = p
      /\ \A k \in 1..n : aw'[k] = aw[k]
  <2>1. /\ Append(aw, p) \in Seq(Phases) /\ Len(Append(aw, p)) = Len(aw) + 1
        /\ \A i \in 1..Len(aw) : Append(aw, p)[i] = aw[i]
        /\ Append(aw, p)[Len(aw) + 1] = p
    BY <1>1, AppendProperties
  <2> QED BY <1>3, <2>1
<1>8. w' \in Seq(BOOLEAN) /\ Len(w') = Len(w) + p.len + 1
  <2>1. p.len + 1 \in Nat
    BY <1>2
  <2>2. flags \in Seq(BOOLEAN) /\ Len(flags) = p.len + 1
    BY <2>1, Flags
  <2> HIDE DEF flags
  <2>3. w \o flags \in Seq(BOOLEAN) /\ Len(w \o flags) = Len(w) + Len(flags)
    BY <1>1, <2>2, ConcatProperties
  <2> QED BY <1>1, <1>2, <1>3, <2>2, <2>3
<1>9. /\ want'[p.id] = Want(p) /\ \A d \in Ids \ {p.id} : want'[d] = want[d]
      /\ want' \in [Ids -> Wanted]
  <2>1. Want(p) \in Wanted
    <3>1. Split(p) \in BOOLEAN /\ p.len + 1 \in 0..Top
      BY <1>1, <1>2 DEF Split
    <3> HIDE DEF Split
    <3> QED BY <1>2, <3>1 DEF Want, Wanted
  <2> HIDE DEF Want, Wanted
  <2> QED BY <1>1, <1>2, <1>3, <2>1
<1>10. TypeOK'
  BY <1>1, <1>3, <1>7, <1>8, <1>9 DEF TypeOK, Wanted
<1> HIDE DEF n
<1>11. Queued' = Queued \cup {p.id}
  <2>1. \A k \in 1..(n + 1) : k # n + 1 => k \in 1..n
    BY <1>1
  <2>2. n + 1 \in 1..(n + 1) /\ \A k \in 1..n : k \in 1..(n + 1)
    BY <1>1
  <2>3. Queued = {aw[k].id : k \in 1..n} /\ Queued' = {aw'[k].id : k \in 1..(n + 1)}
    BY <1>7 DEF Queued, n
  <2>4. Queued' \subseteq Queued \cup {p.id}
    BY <1>7, <2>1, <2>3
  <2>5. Queued \subseteq Queued'
    <3> SUFFICES ASSUME NEW k \in 1..n PROVE aw[k].id \in Queued'
      BY <2>3
    <3> QED BY <1>7, <2>2, <2>3
  <2>6. p.id \in Queued'
    BY <1>7, <2>2, <2>3
  <2> QED BY <2>4, <2>5, <2>6
<1>12. Waits'
  <2>1. \A k \in 1..n : aw[k].id # p.id /\ aw[k].id \in Ids
    BY <1>5, HostFacts DEF Queued, n
  <2>2. \A k \in 1..(n + 1) : k = n + 1 \/ k \in 1..n
    BY <1>1
  <2>3. \A k \in 1..n : want[aw[k].id] = Want(aw[k]) /\ net[aw[k].id] = 0
    BY DEF HostInv, Waits, n
  <2>4. ASSUME NEW k \in 1..(n + 1)
        PROVE  want'[aw'[k].id] = Want(aw'[k]) /\ net'[aw'[k].id] = 0
    <3>1. CASE k = n + 1
      BY <1>3, <1>5, <1>7, <1>9, <3>1
    <3>2. CASE k \in 1..n
      BY <1>3, <1>7, <1>9, <2>1, <2>3, <3>2
    <3> QED BY <2>2, <3>1, <3>2
  <2>5. ASSUME NEW j \in 1..(n + 1), NEW k \in 1..(n + 1), aw'[j].id = aw'[k].id
        PROVE  j = k
    <3>1. j \in 1..n /\ k \in 1..n => j = k
      BY <1>7, <2>5 DEF HostInv, Waits, n
    <3> QED BY <1>7, <2>1, <2>2, <2>5, <3>1
  <2> QED BY <1>7, <2>4, <2>5 DEF Waits
<1>13. Merges'
  <2>1. merging => sid # p.id
    BY <1>5 DEF Merged
  <2>2. merging' = merging
    BY <1>3 DEF merging
  <2>3. left <= pend /\ (merging => /\ IsSplit(want[sid], pend, err)
                                    /\ net[sid] + left = pend /\ sid \notin Queued)
    BY DEF HostInv, Merges
  <2> QED BY <1>1, <1>3, <1>9, <1>11, <2>1, <2>2, <2>3 DEF Merges
<1>14. Fails'
  BY <1>3, <1>6 DEF Fails
<1>15. Others'
  <2> SUFFICES ASSUME NEW e \in Ids, e \notin Queued', e \notin Merged', e \notin Failing'
               PROVE  \/ want'[e] = Idle /\ net'[e] = 0
                      \/ want'[e] = Single /\ net'[e] = 1
    BY DEF Others
  <2>1. e \notin Queued /\ e # p.id
    BY <1>11
  <2>2. e \notin Merged /\ e \notin Failing
    BY <1>3 DEF Merged, Failing, merging
  <2> QED BY <1>3, <1>9, <2>1, <2>2 DEF HostInv, Others
<1>16. Apart'
  <2> SUFFICES ASSUME NEW d \in Ids, NEW e \in Ids, d # e,
                      want'[d].open, want'[e].open
               PROVE  want'[d].split
    BY DEF Apart
  <2>1. CASE d = p.id
    <3>1. want[e].open
      BY <1>9, <2>1
    <3>2. Split(p)
      BY <1>4, <3>1
    <3> QED BY <1>9, <2>1, <3>2 DEF Want
  <2>2. CASE d # p.id
    <3>1. want'[d] = want[d]
      BY <1>9, <2>2
    <3> QED BY <1>4, <3>1
  <2> QED BY <2>1, <2>2
<1>17. Beats'
  <2>1. AddsUp(aw, left, Len(w))
    BY <1>6 DEF HostInv, Beats, Rest
  <2>2. AddsUp(Append(aw, p), left, Len(w) + p.len + 1)
    BY <1>1, <1>2, <2>1, AddsAppend
  <2>3. Rest' = left
    BY <1>3, <1>6 DEF Rest
  <2> QED BY <1>3, <1>8, <2>2, <2>3 DEF Beats
<1>18. Ending'
  <2> SUFFICES ASSUME aw'[1].wrap PROVE \A k \in 1..Len(w') : w'[k] = (k = Len(w'))
    BY <1>3, <1>6 DEF Ending
  <2>1. \A d \in Ids : ~want[d].open
    <3> SUFFICES ASSUME NEW d \in Ids, want[d].open PROVE FALSE
      OBVIOUS
    <3>1. Split(p) /\ \A e \in Ids : want[e].open => want[e].split
      BY <1>4
    <3>2. CASE n = 0
      <4>1. aw'[1] = p
        BY <1>7, <3>2
      <4> QED BY <3>1, <4>1 DEF Split
    <3>3. CASE n # 0
      <4>1. 1 \in 1..n
        BY <1>1, <3>3
      <4>2. aw[1].wrap
        BY <1>7, <4>1
      <4>3. want[aw[1].id].open /\ ~want[aw[1].id].split /\ aw[1].id \in Ids
        BY <4>1, <4>2, QueuedOpen, HostFacts DEF Split, n
      <4> QED BY <3>1, <4>3
    <3> QED BY <3>2, <3>3
  <2>2. w = <<>>
    BY <2>1, NothingOpen
  <2>3. p.len + 1 \in Nat
    BY <1>2
  <2>4. flags \in Seq(BOOLEAN) /\ Len(flags) = p.len + 1
    BY <2>3, Flags
  <2>5. w' = flags
    <3> HIDE DEF flags
    <3> QED BY <1>3, <2>2, <2>4, ConcatEmptySeq
  <2> QED BY <2>4, <2>5
<1> QED BY <1>3, <1>10, <1>12, <1>13, <1>14, <1>15, <1>16, <1>17, <1>18 DEF HostInv

LEMMA ResetStep ==
  ASSUME HostInv, Reset
  PROVE  HostInv'
<1>1. 0 \in Ids
  BY HostBridgeAssumption
<1>2. Cleared'
  BY <1>1 DEF Reset, Cleared, HostInv
<1> QED BY <1>2, ClearedAfter

LEMMA InitHost == Init => HostInv
<1>1. Init => Cleared
  BY HostBridgeAssumption DEF Init, Cleared
<1> QED BY <1>1, ClearedHolds

LEMMA StutterHost ==
  ASSUME HostInv, UNCHANGED vars
  PROVE  HostInv'
<1>1. /\ aw' = aw /\ w' = w /\ left' = left /\ sid' = sid /\ pend' = pend
      /\ err' = err /\ eat' = eat /\ owe' = owe /\ bad' = bad /\ net' = net
      /\ want' = want /\ wrong' = wrong
  BY DEF vars, bridge
<1>2. /\ Queued' = Queued /\ Merged' = Merged /\ Failing' = Failing /\ Rest' = Rest
      /\ merging' = merging
  BY <1>1 DEF Queued, Merged, Failing, Rest, merging
<1>3. /\ TypeOK' = TypeOK /\ Waits' = Waits /\ Merges' = Merges /\ Fails' = Fails
      /\ Others' = Others /\ Apart' = Apart /\ Beats' = Beats /\ Ending' = Ending
  BY <1>1, <1>2, Zenon DEF TypeOK, Waits, Merges, Fails, Others, Apart, Beats, Ending
<1> QED BY <1>1, <1>3 DEF HostInv

LEMMA NextHost == HostInv /\ Heeds /\ [Next]_vars => HostInv'
<1> SUFFICES ASSUME HostInv, Heeds, [Next]_vars PROVE HostInv'
  OBVIOUS
<1>1. CASE AnyCycle
  <2>1. PICK here \in BOOLEAN, room \in BOOLEAN, broom \in BOOLEAN,
             ans \in {{}} \cup {{a} : a \in Answers} : Cycle(here, room, ans, broom)
    BY <1>1 DEF AnyCycle
  <2>2. Answering(ans)
    <3>1. \A d \in Ids : net[d] > 0 => net[d] # 0
      BY HostFacts
    <3> QED BY <3>1 DEF Answering, Answers
  <2> QED BY <2>1, <2>2, CycleStep
<1>2. CASE \E p \in Phases : Offer(p)
  BY <1>2, OfferStep
<1>3. CASE Reset
  BY <1>3, ResetStep
<1>4. CASE UNCHANGED vars
  BY <1>4, StutterHost
<1> QED BY <1>1, <1>2, <1>3, <1>4 DEF Next

-----------------------------------------------------------------------------
(* The bridge on its own: whatever answers the network gives to the        *)
(* packets it has, the host is told of each write once, when the last of   *)
(* its beats has been answered or eaten, and with an error exactly if one  *)
(* of them was one or the write was refused.                               *)
THEOREM HostAnswersRight == Heeds => (Spec => []AnswersRight)
<1> SUFFICES ASSUME Heeds PROVE Spec => []AnswersRight
  OBVIOUS
<1>1. HostInv /\ [Next]_vars => HostInv'
  BY NextHost
<1>2. HostInv => AnswersRight
  BY DEF HostInv, AnswersRight
<1> QED BY <1>1, <1>2, InitHost, PTL DEF Spec
-----------------------------------------------------------------------------
(* How many of a channel's entries are in a set, as one comes in or goes.  *)
Bit(x) == IF x THEN 1 ELSE 0
Hits(c, S) == Cardinality({k \in DOMAIN c : c[k] \in S})

LEMMA HitsNat ==
  ASSUME NEW T, NEW c \in Seq(T), NEW S
  PROVE  /\ Hits(c, S) \in Nat
         /\ \A k \in 1..Len(c) : c[k] \in S => Hits(c, S) # 0
<1> DEFINE D == {k \in DOMAIN c : c[k] \in S}
<1>1. Len(c) \in Nat /\ DOMAIN c = 1..Len(c)
  BY LenProperties
<1>2. IsFiniteSet(1..Len(c))
  BY <1>1, FS_Interval
<1>3. IsFiniteSet(D)
  BY <1>1, <1>2, FS_Subset
<1>4. Cardinality(D) \in Nat /\ (Cardinality(D) = 0 <=> D = {})
  BY <1>3, FS_CardinalityType, FS_EmptySet
<1> QED BY <1>1, <1>4 DEF Hits

LEMMA HitsEmpty ==
  ASSUME NEW S
  PROVE  Hits(<<>>, S) = 0
<1>1. {k \in DOMAIN <<>> : <<>>[k] \in S} = {}
  OBVIOUS
<1> QED BY <1>1, FS_EmptySet DEF Hits

LEMMA HitsAppend ==
  ASSUME NEW T, NEW c \in Seq(T), NEW e \in T, NEW S
  PROVE  Hits(Append(c, e), S) = Hits(c, S) + Bit(e \in S)
<1> DEFINE n == Len(c)  m == Append(c, e)
           D == {k \in 1..n : c[k] \in S}
           F == {k \in 1..(n + 1) : m[k] \in S}
<1>1. n \in Nat /\ DOMAIN c = 1..n
  BY LenProperties
<1>2. /\ m \in Seq(T) /\ Len(m) = n + 1 /\ m[n + 1] = e
      /\ \A k \in 1..n : m[k] = c[k]
  BY AppendProperties
<1>3. DOMAIN m = 1..(n + 1)
  BY <1>2, LenProperties
<1>4. IsFiniteSet(D)
  <2>1. IsFiniteSet(1..n) /\ D \subseteq 1..n
    BY <1>1, FS_Interval
  <2> QED BY <2>1, FS_Subset
<1>5. Cardinality(D) \in Nat
  BY <1>4, FS_CardinalityType
<1> HIDE DEF n, m
<1>6. n + 1 \notin D /\ 1..(n + 1) = (1..n) \cup {n + 1}
  BY <1>1
<1>7. F = IF e \in S THEN D \cup {n + 1} ELSE D
  BY <1>2, <1>6
<1>8. Cardinality(F) = Cardinality(D) + Bit(e \in S)
  <2>1. CASE e \in S
    <3>1. F = D \cup {n + 1}
      BY <1>7, <2>1
    <3> HIDE DEF D, F
    <3>2. Cardinality(F) = Cardinality(D) + 1
      BY <1>4, <1>6, <3>1, FS_AddElement
    <3> QED BY <2>1, <3>2 DEF Bit
  <2>2. CASE e \notin S
    <3>1. F = D
      BY <1>7, <2>2
    <3> HIDE DEF D, F
    <3> QED BY <1>5, <2>2, <3>1 DEF Bit
  <2> QED BY <2>1, <2>2
<1> QED BY <1>1, <1>3, <1>8 DEF Hits, m

LEMMA AppendShort ==
  ASSUME NEW a, NEW e
  PROVE  /\ Append(<<>>, a) = <<a>> /\ Append(<<a>>, e) = <<a, e>>
         /\ Tail(<<a>>) = <<>> /\ Tail(<<a, e>>) = <<e>>
         /\ Head(<<a>>) = a /\ Head(<<a, e>>) = a
<1>1. Append(<<>>, a) = <<a>>
  <2> DEFINE s == Append(<<>>, a)
  <2>1. s \in Seq({a}) /\ Len(s) = 1 /\ s[1] = a
    OBVIOUS
  <2> HIDE DEF s
  <2>2. s = <<s[1]>>
    BY <2>1, OneElement, Zenon
  <2> QED BY <2>1, <2>2 DEF s
<1>2. Append(<<a>>, e) = <<a, e>>
  <2> DEFINE s == Append(<<a>>, e)
  <2>1. s \in Seq({a, e}) /\ Len(s) = 2 /\ s[1] = a /\ s[2] = e
    OBVIOUS
  <2> HIDE DEF s
  <2>2. s = <<s[1], s[2]>>
    BY <2>1, TwoElements, Zenon
  <2> QED BY <2>1, <2>2 DEF s
<1>3. Tail(<<a>>) = <<>>
  <2>1. <<a>> \in Seq({a}) /\ Len(<<a>>) = 1
    OBVIOUS
  <2>2. Tail(<<a>>) \in Seq({a}) /\ Len(Tail(<<a>>)) = 0
    BY <2>1, HeadTailProperties
  <2> QED BY <2>2, EmptySeq
<1>4. Tail(<<a, e>>) = <<e>>
  <2> DEFINE c == <<a, e>>  s == Tail(c)
  <2>1. c \in Seq({a, e}) /\ Len(c) = 2 /\ c[2] = e /\ c # <<>>
    OBVIOUS
  <2> HIDE DEF c
  <2>2. s \in Seq({a, e}) /\ Len(s) = 1 /\ s[1] = c[1 + 1]
    BY <2>1, HeadTailProperties
  <2> HIDE DEF s
  <2>3. s = <<s[1]>>
    BY <2>2, OneElement, Zenon
  <2> QED BY <2>1, <2>2, <2>3 DEF s, c
<1> QED BY <1>1, <1>2, <1>3, <1>4

LEMMA HitsTail ==
  ASSUME NEW T, NEW c \in Seq(T), c # <<>>, Len(c) <= 2, NEW S
  PROVE  Hits(c, S) = Hits(Tail(c), S) + Bit(Head(c) \in S)
<1>1. Len(c) \in {1, 2} /\ c[1] \in T
  <2>1. Len(c) \in Nat \ {0}
    BY EmptySeq
  <2>2. 1 \in 1..Len(c)
    BY <2>1
  <2>3. c[1] \in T
    BY <2>2, ElementOfSeq
  <2> DEFINE n == Len(c)
  <2>4. n \in Nat \ {0} /\ n <= 2
    BY <2>1
  <2> HIDE DEF n
  <2>5. n \in {1, 2}
    BY <2>4
  <2> QED BY <2>3, <2>5 DEF n
<1>2. \A x \in T : Hits(<<x>>, S) = Bit(x \in S)
  <2> SUFFICES ASSUME NEW x \in T PROVE Hits(<<x>>, S) = Bit(x \in S)
    OBVIOUS
  <2>1. <<x>> = Append(<<>>, x) /\ <<>> \in Seq(T)
    BY AppendShort
  <2>2. Hits(<<x>>, S) = Hits(<<>>, S) + Bit(x \in S)
    BY <2>1, HitsAppend
  <2> QED BY <2>2, HitsEmpty DEF Bit
<1>3. CASE Len(c) = 1
  <2>1. c = <<c[1]>>
    BY <1>3, OneElement
  <2>2. Tail(c) = <<>> /\ Head(c) = c[1]
    BY <2>1, AppendShort, Zenon
  <2>3. Hits(c, S) = Bit(c[1] \in S)
    BY <1>1, <1>2, <2>1
  <2>4. Hits(Tail(c), S) = 0
    BY <2>2, HitsEmpty
  <2>5. Head(c) = c[1]
    BY <2>2
  <2> QED BY <2>3, <2>4, <2>5 DEF Bit
<1>4. CASE Len(c) = 2
  <2>1. c = <<c[1], c[2]>>
    BY <1>4, TwoElements
  <2> DEFINE x == c[1]  y == c[2]
  <2>2. x \in T /\ y \in T
    <3>1. 1 \in 1..Len(c) /\ 2 \in 1..Len(c)
      BY <1>4
    <3> QED BY <3>1, ElementOfSeq
  <2>3. c = <<x, y>>
    BY <2>1
  <2> HIDE DEF x, y
  <2>4. Tail(c) = <<y>> /\ Head(c) = x /\ c = Append(<<x>>, y)
    BY <2>3, AppendShort, Zenon
  <2>8. <<x>> \in Seq(T)
    BY <2>2
  <2>9. Hits(Append(<<x>>, y), S) = Hits(<<x>>, S) + Bit(y \in S)
    BY <2>2, <2>8, HitsAppend
  <2>5. Hits(c, S) = Hits(<<x>>, S) + Bit(y \in S)
    BY <2>4, <2>9
  <2>6. Hits(c, S) = Bit(x \in S) + Bit(y \in S)
    BY <1>2, <2>2, <2>5
  <2>7. Hits(Tail(c), S) = Bit(y \in S)
    BY <1>2, <2>2, <2>4
  <2> QED BY <2>4, <2>6, <2>7 DEF Bit
<1> QED BY <1>1, <1>3, <1>4

LEMMA HitsSame ==
  ASSUME NEW T, NEW c \in Seq(T), NEW S, NEW R,
         \A k \in 1..Len(c) : c[k] \in S <=> c[k] \in R
  PROVE  Hits(c, S) = Hits(c, R)
<1>1. DOMAIN c = 1..Len(c)
  BY LenProperties
<1>2. {k \in DOMAIN c : c[k] \in S} = {k \in DOMAIN c : c[k] \in R}
  BY <1>1
<1> QED BY <1>2 DEF Hits

-----------------------------------------------------------------------------
(* The requests and the answers that are one node's under one identifier,  *)
(* and the local identifiers that lead back to both.                       *)
Requests == [node : Nodes, id : Ids, read : BOOLEAN, beats : 1..2]
Locals == [id : P!Local, last : BOOLEAN, fail : BOOLEAN]
Replies == [node : Nodes, id : Ids, read : BOOLEAN, last : BOOLEAN, fail : BOOLEAN]

Asked(n, i, d) == {p \in Requests : p.node = n /\ p.id = i /\ p.read = d}
Twice(n, i, d) == {p \in Asked(n, i, d) : p.beats = 2}
Led(n, i) == {a \in Locals : from[a.id] = n /\ oid[a.id] = i}
Holds(n, i, d, m) ==
  {l \in P!Local : from[l] = n /\ oid[l] = i /\ mem[l].read = d /\ mem[l].beats >= m}
Replied(n, i, d) == {p \in Replies : p.node = n /\ p.id = i /\ p.read = d}

Entering(n, i, d) ==
  Hits(req, Asked(n, i, d)) + Hits(req, Twice(n, i, d))
    + Cardinality(Holds(n, i, d, 1)) + Cardinality(Holds(n, i, d, 2))
Leaving(n, i, d) == Hits(IF d THEN r ELSE b, Led(n, i)) + Hits(rsp, Replied(n, i, d))

LEMMA ExitFacts ==
  ASSUME ExitTypeOK
  PROVE  /\ req \in Seq(Requests) /\ b \in Seq(Locals) /\ r \in Seq(Locals)
         /\ rsp \in Seq(Replies)
         /\ Len(req) <= 2 /\ Len(b) <= 2 /\ Len(r) <= 2 /\ Len(rsp) <= 2
         /\ Len(req) \in Nat /\ Len(b) \in Nat /\ Len(r) \in Nat /\ Len(rsp) \in Nat
         /\ from \in [P!Local -> Nodes] /\ oid \in [P!Local -> Ids]
         /\ turn \in P!Local /\ busy \subseteq P!Local
         /\ mem \in [P!Local -> Access] /\ asks \in BOOLEAN /\ reading \in 0..2
         /\ \A k \in 1..Len(req) : req[k] \in Requests
         /\ \A k \in 1..Len(b) : b[k] \in Locals /\ b[k].id \in P!Local
         /\ \A k \in 1..Len(r) : r[k] \in Locals /\ r[k].id \in P!Local
         /\ \A k \in 1..Len(rsp) : rsp[k] \in Replies
         /\ \A l \in P!Local : mem[l].read \in BOOLEAN /\ mem[l].beats \in 0..2
         /\ IsFiniteSet(P!Local) /\ TypeOK
<1>1. /\ req \in Seq(Requests) /\ b \in Seq(Locals) /\ r \in Seq(Locals)
      /\ rsp \in Seq(Replies)
      /\ Len(req) <= 2 /\ Len(b) <= 2 /\ Len(r) <= 2 /\ Len(rsp) <= 2
      /\ from \in [P!Local -> Nodes] /\ oid \in [P!Local -> Ids]
      /\ turn \in P!Local /\ busy \subseteq P!Local
      /\ mem \in [P!Local -> Access] /\ asks \in BOOLEAN /\ reading \in 0..2
      /\ TypeOK
  BY DEF ExitTypeOK, Requests, Locals, Replies
<1>2. Len(req) \in Nat /\ Len(b) \in Nat /\ Len(r) \in Nat /\ Len(rsp) \in Nat
  BY <1>1, LenProperties
<1>3. /\ \A k \in 1..Len(req) : req[k] \in Requests
      /\ \A k \in 1..Len(b) : b[k] \in Locals /\ b[k].id \in P!Local
      /\ \A k \in 1..Len(r) : r[k] \in Locals /\ r[k].id \in P!Local
      /\ \A k \in 1..Len(rsp) : rsp[k] \in Replies
  <2>1. \A a \in Locals : a.id \in P!Local
    BY DEF Locals
  <2> QED BY <1>1, <2>1, ElementOfSeq
<1>4. \A l \in P!Local : mem[l].read \in BOOLEAN /\ mem[l].beats \in 0..2
  BY <1>1 DEF Access
<1>5. IsFiniteSet(P!Local)
  BY NocExitAssumption, FS_Interval DEF P!Local
<1> QED BY <1>1, <1>2, <1>3, <1>4, <1>5

LEMMA HoldsNat ==
  ASSUME ExitTypeOK, NEW n, NEW i, NEW d, NEW m
  PROVE  IsFiniteSet(Holds(n, i, d, m)) /\ Cardinality(Holds(n, i, d, m)) \in Nat
<1>1. IsFiniteSet(P!Local) /\ Holds(n, i, d, m) \subseteq P!Local
  BY ExitFacts DEF Holds
<1>2. IsFiniteSet(Holds(n, i, d, m))
  BY <1>1, FS_Subset
<1> QED BY <1>2, FS_CardinalityType

LEMMA WayParts ==
  ExitTypeOK =>
    \A n \in Nodes, i \in Ids, d \in BOOLEAN :
      /\ OnTheWay(n, i, d) = Entering(n, i, d) + Leaving(n, i, d)
      /\ Entering(n, i, d) \in Nat /\ Leaving(n, i, d) \in Nat
<1> SUFFICES ASSUME ExitTypeOK, NEW n \in Nodes, NEW i \in Ids, NEW d \in BOOLEAN
             PROVE  /\ OnTheWay(n, i, d) = Entering(n, i, d) + Leaving(n, i, d)
                    /\ Entering(n, i, d) \in Nat /\ Leaving(n, i, d) \in Nat
  OBVIOUS
<1> DEFINE q1 == Cardinality({k \in DOMAIN req :
                   req[k].node = n /\ req[k].id = i /\ req[k].read = d})
           q2 == Cardinality({k \in {j \in DOMAIN req :
                   req[j].node = n /\ req[j].id = i /\ req[j].read = d} :
                     req[k].beats = 2})
           c == IF d THEN r ELSE b
           q3 == Cardinality({k \in DOMAIN c : from[c[k].id] = n /\ oid[c[k].id] = i})
           held == {l \in P!Local : (from[l] = n /\ oid[l] = i) /\ mem[l].read = d}
           q4 == Cardinality({l \in held : mem[l].beats >= 1})
           q5 == Cardinality({l \in held : mem[l].beats = 2})
           q6 == Cardinality({k \in DOMAIN rsp :
                   rsp[k].node = n /\ rsp[k].id = i /\ rsp[k].read = d})
<1>1. OnTheWay(n, i, d) = q1 + q2 + (q3 + q4 + q5) + q6
  BY DEF OnTheWay
<1>2. /\ req \in Seq(Requests) /\ c \in Seq(Locals) /\ rsp \in Seq(Replies)
      /\ DOMAIN req = 1..Len(req) /\ DOMAIN c = 1..Len(c) /\ DOMAIN rsp = 1..Len(rsp)
  BY ExitFacts, LenProperties
<1>3. q1 = Hits(req, Asked(n, i, d))
  <2>1. \A k \in DOMAIN req : req[k] \in Requests
    BY <1>2, ExitFacts
  <2>2. {k \in DOMAIN req : req[k].node = n /\ req[k].id = i /\ req[k].read = d}
        = {k \in DOMAIN req : req[k] \in Asked(n, i, d)}
    BY <2>1 DEF Asked
  <2> QED BY <2>2 DEF Hits
<1>4. q2 = Hits(req, Twice(n, i, d))
  <2>1. \A k \in DOMAIN req : req[k] \in Requests
    BY <1>2, ExitFacts
  <2>2. {k \in {j \in DOMAIN req :
            req[j].node = n /\ req[j].id = i /\ req[j].read = d} : req[k].beats = 2}
        = {k \in DOMAIN req : req[k] \in Twice(n, i, d)}
    BY <2>1 DEF Asked, Twice
  <2> QED BY <2>2 DEF Hits
<1>5. q3 = Hits(c, Led(n, i))
  <2>1. \A k \in DOMAIN c : c[k] \in Locals
    BY <1>2, ExitFacts
  <2> HIDE DEF c
  <2>2. {k \in DOMAIN c : from[c[k].id] = n /\ oid[c[k].id] = i}
        = {k \in DOMAIN c : c[k] \in Led(n, i)}
    BY <2>1 DEF Led
  <2> QED BY <2>2 DEF Hits
<1>6. q4 = Cardinality(Holds(n, i, d, 1)) /\ q5 = Cardinality(Holds(n, i, d, 2))
  <2>1. {l \in held : mem[l].beats >= 1} = Holds(n, i, d, 1)
    BY DEF Holds
  <2>2. \A l \in P!Local : mem[l].beats = 2 <=> mem[l].beats >= 2
    BY ExitFacts
  <2>3. {l \in held : mem[l].beats = 2} = Holds(n, i, d, 2)
    BY <2>2 DEF Holds
  <2> QED BY <2>1, <2>3
<1>7. q6 = Hits(rsp, Replied(n, i, d))
  <2>1. \A k \in DOMAIN rsp : rsp[k] \in Replies
    BY <1>2, ExitFacts
  <2>2. {k \in DOMAIN rsp : rsp[k].node = n /\ rsp[k].id = i /\ rsp[k].read = d}
        = {k \in DOMAIN rsp : rsp[k] \in Replied(n, i, d)}
    BY <2>1 DEF Replied
  <2> QED BY <2>2 DEF Hits
<1>8. q1 \in Nat /\ q2 \in Nat /\ q3 \in Nat /\ q4 \in Nat /\ q5 \in Nat /\ q6 \in Nat
  <2> HIDE DEF q1, q2, q3, q4, q5, q6, c
  <2> QED BY <1>2, <1>3, <1>4, <1>5, <1>6, <1>7, HitsNat, HoldsNat
<1>9. Entering(n, i, d) = q1 + q2 + q4 + q5 /\ Leaving(n, i, d) = q3 + q6
  <2> HIDE DEF q1, q2, q3, q4, q5, q6
  <2> QED BY <1>3, <1>4, <1>5, <1>6, <1>7 DEF Entering, Leaving
<1> HIDE DEF q1, q2, q3, q4, q5, q6
<1> QED BY <1>1, <1>8, <1>9

LEMMA WayPartsNext ==
  ExitTypeOK' =>
    (\A n \in Nodes, i \in Ids, d \in BOOLEAN :
      /\ OnTheWay(n, i, d) = Entering(n, i, d) + Leaving(n, i, d)
      /\ Entering(n, i, d) \in Nat /\ Leaving(n, i, d) \in Nat)'
BY WayParts, PTL

(* What comes in at an edge, if anything does, and what goes.              *)
LEMMA Put ==
  ASSUME NEW T, NEW c \in Seq(T), Len(c) \in Nat, NEW x \in BOOLEAN, NEW e, x => e \in T
  PROVE  /\ c \o Item(x, e) \in Seq(T)
         /\ Len(c \o Item(x, e)) = Len(c) + Bit(x)
         /\ \A k \in 1..Len(c) : (c \o Item(x, e))[k] = c[k]
         /\ x => (c \o Item(x, e))[Len(c) + 1] = e
         /\ \A S : Hits(c \o Item(x, e), S) = Hits(c, S) + Bit(x /\ e \in S)
<1>1. CASE x
  <2>1. c \o Item(x, e) = Append(c, e) /\ e \in T
    BY <1>1, AppendIsConcat DEF Item
  <2>2. /\ Append(c, e) \in Seq(T) /\ Len(Append(c, e)) = Len(c) + 1
        /\ \A k \in 1..Len(c) : Append(c, e)[k] = c[k]
        /\ Append(c, e)[Len(c) + 1] = e
    BY <2>1, AppendProperties
  <2>3. \A S : Hits(Append(c, e), S) = Hits(c, S) + Bit(e \in S)
    BY <2>1, HitsAppend
  <2>4. Bit(x) = 1
    BY <1>1 DEF Bit
  <2>5. \A S : Bit(x /\ e \in S) = Bit(e \in S)
    BY <1>1
  <2> QED BY <2>1, <2>2, <2>3, <2>4, <2>5
<1>2. CASE ~x
  <2>1. c \o Item(x, e) = c
    BY <1>2, ConcatEmptySeq DEF Item
  <2>2. Bit(x) = 0 /\ \A S : Bit(x /\ e \in S) = 0
    BY <1>2 DEF Bit
  <2>3. \A S : Hits(c, S) \in Nat
    BY HitsNat
  <2> QED BY <1>2, <2>1, <2>2, <2>3
<1> QED BY <1>1, <1>2

Taking(c, x) == IF x THEN Tail(c) ELSE c

LEMMA Take ==
  ASSUME NEW T, NEW c \in Seq(T), Len(c) \in Nat, Len(c) <= 2,
         NEW x \in BOOLEAN, x => c # <<>>
  PROVE  /\ Taking(c, x) \in Seq(T)
         /\ Len(Taking(c, x)) = Len(c) - Bit(x) /\ Bit(x) <= Len(c)
         /\ \A k \in 1..Len(Taking(c, x)) :
              Taking(c, x)[k] = c[k + Bit(x)] /\ k + Bit(x) \in 1..Len(c)
         /\ \A S : Hits(c, S) = Hits(Taking(c, x), S) + Bit(x /\ c[1] \in S)
         /\ x => 1 \in 1..Len(c) /\ Head(c) = c[1]
<1> DEFINE n == Len(c)  t == Taking(c, x)
<1>1. CASE x
  <2>1. t = Tail(c) /\ Bit(x) = 1 /\ c # <<>>
    BY <1>1 DEF Taking, Bit
  <2>2. /\ Tail(c) \in Seq(T) /\ Len(Tail(c)) = n - 1
        /\ \A k \in 1..Len(Tail(c)) : Tail(c)[k] = c[k + 1]
        /\ Head(c) = c[1]
    BY <2>1, HeadTailProperties
  <2>3. n \in Nat \ {0}
    BY <2>1, EmptySeq
  <2>4. \A S : Hits(c, S) = Hits(Tail(c), S) + Bit(Head(c) \in S)
    BY <2>1, HitsTail
  <2>5. \A S : Bit(x /\ c[1] \in S) = Bit(c[1] \in S)
    BY <1>1
  <2>6. \A S : Hits(c, S) = Hits(t, S) + Bit(x /\ c[1] \in S)
    BY <2>1, <2>2, <2>4, <2>5
  <2>7. t \in Seq(T) /\ Len(t) = n - 1 /\ \A k \in 1..(n - 1) : t[k] = c[k + 1]
    BY <2>1, <2>2
  <2> HIDE DEF t, n
  <2>8. \A k \in 1..(n - 1) : k + 1 \in 1..n
    BY <2>3
  <2>9. 1 \in 1..n /\ Head(c) = c[1] /\ 1 <= n
    BY <2>2, <2>3
  <2> QED BY <2>1, <2>6, <2>7, <2>8, <2>9 DEF t, n
<1>2. CASE ~x
  <2>1. t = c /\ Bit(x) = 0
    BY <1>2 DEF Taking, Bit
  <2>2. \A S : Bit(x /\ c[1] \in S) = 0
    BY <1>2 DEF Bit
  <2>3. \A S : Hits(c, S) \in Nat
    BY HitsNat
  <2>4. \A S : Hits(c, S) = Hits(t, S) + Bit(x /\ c[1] \in S)
    BY <2>1, <2>2, <2>3
  <2>5. \A k \in 1..n : k + 0 = k
    OBVIOUS
  <2> HIDE DEF t
  <2> QED BY <1>2, <2>1, <2>4, <2>5 DEF t
<1> QED BY <1>1, <1>2

-----------------------------------------------------------------------------
(* What a node waits for under an identifier.                              *)
Due(n, i, d) ==
  IF n = 0 THEN IF d THEN 0 ELSE net[i]
  ELSE IF d /\ i = 0 /\ ~asks THEN reading ELSE 0

Balance ==
  \A n \in Nodes, i \in Ids, d \in BOOLEAN :
    Entering(n, i, d) + Leaving(n, i, d) = Due(n, i, d)

LEMMA KeptIsBalance == ExitTypeOK => (PacketsKept <=> Balance)
<1> SUFFICES ASSUME ExitTypeOK PROVE PacketsKept <=> Balance
  OBVIOUS
<1>1. Balance <=> \A n \in Nodes, i \in Ids, d \in BOOLEAN :
                    OnTheWay(n, i, d) = Due(n, i, d)
  BY WayParts DEF Balance
<1>2. \A i \in Ids : /\ Due(0, i, FALSE) = net[i] /\ Due(0, i, TRUE) = 0
                     /\ Due(1, i, FALSE) = 0
                     /\ Due(1, i, TRUE) = IF i = 0 /\ ~asks THEN reading ELSE 0
  BY DEF Due
<1>3. (\A n \in Nodes, i \in Ids, d \in BOOLEAN : OnTheWay(n, i, d) = Due(n, i, d))
      <=> \A i \in Ids : /\ OnTheWay(0, i, FALSE) = Due(0, i, FALSE)
                         /\ OnTheWay(0, i, TRUE) = Due(0, i, TRUE)
                         /\ OnTheWay(1, i, FALSE) = Due(1, i, FALSE)
                         /\ OnTheWay(1, i, TRUE) = Due(1, i, TRUE)
  <2>1. 0 \in Nodes /\ 1 \in Nodes /\ \A n \in Nodes : n = 0 \/ n = 1
    BY DEF Nodes
  <2> QED BY <2>1
<1> QED BY <1>1, <1>2, <1>3 DEF PacketsKept

LEMMA KeptIsBalanceNext == ExitTypeOK' => (PacketsKept' <=> Balance')
BY KeptIsBalance, PTL

(* What is on the way is somebody's.                                       *)
LEMMA OnTheWayIsDue ==
  ASSUME ExitTypeOK, Balance, NEW n \in Nodes, NEW i \in Ids, NEW d \in BOOLEAN
  PROVE  /\ \A k \in 1..Len(req) : req[k] \in Asked(n, i, d) => Due(n, i, d) # 0
         /\ \A k \in 1..Len(rsp) : rsp[k] \in Replied(n, i, d) => Due(n, i, d) # 0
         /\ \A k \in 1..Len(r) : d /\ r[k] \in Led(n, i) => Due(n, i, d) # 0
         /\ \A l \in Holds(n, i, d, 1) : Due(n, i, d) # 0
<1> DEFINE c == IF d THEN r ELSE b
           q1 == Hits(req, Asked(n, i, d))
           q2 == Hits(req, Twice(n, i, d))
           q3 == Cardinality(Holds(n, i, d, 1))
           q4 == Cardinality(Holds(n, i, d, 2))
           q5 == Hits(c, Led(n, i))
           q6 == Hits(rsp, Replied(n, i, d))
<1>1. req \in Seq(Requests) /\ c \in Seq(Locals) /\ rsp \in Seq(Replies)
  BY ExitFacts
<1>2. q1 \in Nat /\ q2 \in Nat /\ q5 \in Nat /\ q6 \in Nat
  <2> HIDE DEF c
  <2> QED BY <1>1, HitsNat
<1>3. q3 \in Nat /\ q4 \in Nat
  BY HoldsNat
<1>4. (q1 + q2 + q3 + q4) + (q5 + q6) = Due(n, i, d)
  BY DEF Balance, Entering, Leaving
<1>5. \A k \in 1..Len(req) : req[k] \in Asked(n, i, d) => q1 # 0
  BY <1>1, HitsNat
<1>6. \A k \in 1..Len(rsp) : rsp[k] \in Replied(n, i, d) => q6 # 0
  BY <1>1, HitsNat
<1>7. \A k \in 1..Len(c) : c[k] \in Led(n, i) => q5 # 0
  <2> HIDE DEF c
  <2> QED BY <1>1, HitsNat
<1>8. \A l \in Holds(n, i, d, 1) : q3 # 0
  <2>1. IsFiniteSet(Holds(n, i, d, 1))
    BY HoldsNat
  <2> QED BY <2>1, FS_EmptySet
<1>9. q1 # 0 \/ q3 # 0 \/ q5 # 0 \/ q6 # 0 => Due(n, i, d) # 0
  <2> HIDE DEF q1, q2, q3, q4, q5, q6
  <2> QED BY <1>2, <1>3, <1>4
<1>10. \A k \in 1..Len(r) : d /\ r[k] \in Led(n, i) => q5 # 0
  BY <1>7
<1> HIDE DEF q1, q2, q3, q4, q5, q6
<1> QED BY <1>5, <1>6, <1>8, <1>9, <1>10

(* The reader's packets are reads and the host's are not.                  *)
LEMMA Whose ==
  ASSUME ExitTypeOK, Balance
  PROVE  /\ \A k \in 1..Len(rsp) :
              /\ rsp[k].node = 0 => ~rsp[k].read /\ net[rsp[k].id] # 0
              /\ rsp[k].node = 1 =>
                   rsp[k].read /\ rsp[k].id = 0 /\ ~asks /\ reading # 0
         /\ asks =>
              /\ \A k \in 1..Len(req) : ~req[k].read
              /\ \A k \in 1..Len(rsp) : ~rsp[k].read
              /\ \A l \in P!Local : mem[l].read => mem[l].beats = 0
              /\ r = <<>>
<1>1. ASSUME NEW k \in 1..Len(rsp)
      PROVE  /\ rsp[k].node \in Nodes /\ rsp[k].id \in Ids /\ rsp[k].read \in BOOLEAN
             /\ Due(rsp[k].node, rsp[k].id, rsp[k].read) # 0
  <2>1. rsp[k] \in Replies
    BY ExitFacts
  <2>2. rsp[k].node \in Nodes /\ rsp[k].id \in Ids /\ rsp[k].read \in BOOLEAN
    BY <2>1 DEF Replies
  <2>3. PICK n \in Nodes, i \in Ids, d \in BOOLEAN :
          n = rsp[k].node /\ i = rsp[k].id /\ d = rsp[k].read
    BY <2>2
  <2>4. rsp[k] \in Replied(n, i, d)
    BY <2>1, <2>3 DEF Replied
  <2>5. Due(n, i, d) # 0
    BY <2>4, OnTheWayIsDue
  <2> QED BY <2>2, <2>3, <2>5
<1>2. ASSUME NEW k \in 1..Len(rsp)
      PROVE  /\ rsp[k].node = 0 => ~rsp[k].read /\ net[rsp[k].id] # 0
             /\ rsp[k].node = 1 =>
                  rsp[k].read /\ rsp[k].id = 0 /\ ~asks /\ reading # 0
             /\ asks => ~rsp[k].read
  BY <1>1 DEF Due, Nodes
<1>3. ASSUME asks, NEW k \in 1..Len(req) PROVE ~req[k].read
  <2>1. req[k] \in Requests
    BY ExitFacts
  <2>2. req[k].node \in Nodes /\ req[k].id \in Ids /\ req[k].read \in BOOLEAN
    BY <2>1 DEF Requests
  <2>3. PICK n \in Nodes, i \in Ids, d \in BOOLEAN :
          n = req[k].node /\ i = req[k].id /\ d = req[k].read
    BY <2>2
  <2>4. req[k] \in Asked(n, i, d)
    BY <2>1, <2>3 DEF Asked
  <2>5. Due(n, i, d) # 0
    BY <2>4, OnTheWayIsDue
  <2> QED BY <1>3, <2>3, <2>5 DEF Due
<1>4. ASSUME asks, NEW l \in P!Local, mem[l].read PROVE mem[l].beats = 0
  <2>1. from[l] \in Nodes /\ oid[l] \in Ids /\ mem[l].beats \in 0..2
    BY ExitFacts
  <2>2. PICK n \in Nodes, i \in Ids, d \in BOOLEAN :
          n = from[l] /\ i = oid[l] /\ d = mem[l].read
    BY <2>1, ExitFacts
  <2>3. mem[l].beats # 0 => l \in Holds(n, i, d, 1)
    BY <2>1, <2>2 DEF Holds
  <2>4. l \in Holds(n, i, d, 1) => Due(n, i, d) # 0
    BY OnTheWayIsDue
  <2> QED BY <1>4, <2>2, <2>3, <2>4 DEF Due
<1>5. ASSUME asks, r # <<>> PROVE FALSE
  <2>1. 1 \in 1..Len(r)
    BY <1>5, ExitFacts, EmptySeq
  <2>2. r[1] \in Locals /\ r[1].id \in P!Local
    BY <2>1, ExitFacts
  <2>3. from[r[1].id] \in Nodes /\ oid[r[1].id] \in Ids
    BY <2>2, ExitFacts
  <2>4. PICK n \in Nodes, i \in Ids : n = from[r[1].id] /\ i = oid[r[1].id]
    BY <2>3
  <2>5. r[1] \in Led(n, i)
    BY <2>2, <2>4 DEF Led
  <2>6. Due(n, i, TRUE) # 0
    BY <2>1, <2>5, OnTheWayIsDue
  <2> QED BY <1>5, <2>6 DEF Due
<1> QED BY <1>2, <1>3, <1>4, <1>5

-----------------------------------------------------------------------------
(* A cycle of the peripheral's bridge: what goes in, and what goes home.   *)
PerMoves(x, gb, gr, a, home) ==
  /\ x \in BOOLEAN /\ gb \in BOOLEAN /\ gr \in BOOLEAN /\ ~(gb /\ gr)
  /\ x => req # <<>> /\ turn \notin busy /\ req[1] \in Requests /\ 1 \in 1..Len(req)
  /\ gb => b # <<>> /\ a = b[1] /\ 1 \in 1..Len(b) /\ b[1] \in Locals
  /\ gr => r # <<>> /\ a = r[1] /\ 1 \in 1..Len(r) /\ r[1] \in Locals
  /\ gb \/ gr => /\ Len(rsp) < 2 /\ a \in Locals /\ a.id \in busy /\ home \in Replies
                 /\ home.node = from[a.id] /\ home.id = oid[a.id]
                 /\ home.read = gr /\ home.last = a.last
  /\ req' = Taking(req, x) /\ b' = Taking(b, gb) /\ r' = Taking(r, gr)
  /\ rsp' = rsp \o Item(gb \/ gr, home)
  /\ from' = IF x THEN [from EXCEPT ![turn] = req[1].node] ELSE from
  /\ oid' = IF x THEN [oid EXCEPT ![turn] = req[1].id] ELSE oid
  /\ mem' = IF x THEN [mem EXCEPT ![turn] = [read |-> req[1].read, beats |-> req[1].beats]]
            ELSE mem
  /\ busy' = (busy \cup (IF x THEN {turn} ELSE {}))
               \ (IF gb \/ (gr /\ a.last) THEN {a.id} ELSE {})
  /\ turn' \in P!Local
  /\ UNCHANGED <<vars, asks, reading>>

LEMMA ModRange ==
  ASSUME NEW k \in Nat, NEW m \in Nat \ {0}
  PROVE  k % m \in 0..(m - 1)
  OBVIOUS

LEMMA PerParts ==
  ASSUME ExitTypeOK, Held, NEW room \in BOOLEAN, PerCycle(room)
  PROVE  PerMoves(P!Taken(room), P!GoB, P!GoR, P!Answer, P!Home)
<1> DEFINE x == P!Taken(room)  gb == P!GoB  gr == P!GoR
           a == P!Answer  home == P!Home
<1>1. /\ req \in Seq(Requests) /\ b \in Seq(Locals) /\ r \in Seq(Locals)
      /\ Len(rsp) \in Nat /\ turn \in P!Local
      /\ from \in [P!Local -> Nodes] /\ oid \in [P!Local -> Ids]
  BY ExitFacts
<1>2. /\ x \in BOOLEAN /\ gb \in BOOLEAN /\ gr \in BOOLEAN /\ ~(gb /\ gr)
      /\ x => req # <<>> /\ turn \notin busy
      /\ gb => b # <<>> /\ Len(rsp) < 2 /\ a = Head(b)
      /\ gr => r # <<>> /\ Len(rsp) < 2 /\ a = Head(r)
  BY DEF P!Taken, P!GoB, P!GoR, P!Offered, P!Room, P!free, P!Answer
<1>3. x => req[1] \in Requests /\ 1 \in 1..Len(req) /\ Head(req) = req[1]
  <2>1. req # <<>> => Head(req) = req[1] /\ 1 \in 1..Len(req)
    BY <1>1, EmptySeq, HeadTailProperties
  <2> QED BY <1>2, <2>1, ExitFacts
<1>4. gb => /\ a = b[1] /\ 1 \in 1..Len(b) /\ b[1] \in Locals /\ b[1].id \in busy
  <2>1. b # <<>> => Head(b) = b[1] /\ 1 \in 1..Len(b)
    BY <1>1, EmptySeq, HeadTailProperties
  <2> QED BY <1>2, <2>1, ExitFacts DEF Held
<1>5. gr => /\ a = r[1] /\ 1 \in 1..Len(r) /\ r[1] \in Locals /\ r[1].id \in busy
  <2>1. r # <<>> => Head(r) = r[1] /\ 1 \in 1..Len(r)
    BY <1>1, EmptySeq, HeadTailProperties
  <2> QED BY <1>2, <2>1, ExitFacts DEF Held
<1>6. gb \/ gr => /\ Len(rsp) < 2 /\ a \in Locals /\ a.id \in busy /\ home \in Replies
                  /\ home.node = from[a.id] /\ home.id = oid[a.id]
                  /\ home.read = gr /\ home.last = a.last
  <2> SUFFICES ASSUME gb \/ gr
               PROVE  /\ Len(rsp) < 2 /\ a \in Locals /\ a.id \in busy /\ home \in Replies
                      /\ home.node = from[a.id] /\ home.id = oid[a.id]
                      /\ home.read = gr /\ home.last = a.last
    OBVIOUS
  <2>1. Len(rsp) < 2 /\ a \in Locals /\ a.id \in busy
    BY <1>2, <1>4, <1>5
  <2>2. a.id \in P!Local /\ a.last \in BOOLEAN /\ a.fail \in BOOLEAN
    BY <2>1 DEF Locals
  <2>3. from[a.id] \in Nodes /\ oid[a.id] \in Ids
    BY <1>1, <2>2
  <2>4. home = [node |-> from[a.id], id |-> oid[a.id], read |-> ~gb,
                last |-> a.last, fail |-> a.fail]
    BY DEF P!Home
  <2> HIDE DEF a, home, gb, gr
  <2>5. (~gb) = gr /\ (~gb) \in BOOLEAN
    BY <1>2
  <2>6. home \in Replies
    BY <2>2, <2>3, <2>4, <2>5 DEF Replies
  <2>7. /\ home.node = from[a.id] /\ home.id = oid[a.id]
        /\ home.read = (~gb) /\ home.last = a.last
    BY <2>2, <2>4, <2>5
  <2> QED BY <2>1, <2>5, <2>6, <2>7
<1>7. P!Cycle(room) /\ UNCHANGED <<vars, asks, reading>>
  BY DEF PerCycle
<1>8. /\ req' = Taking(req, x) /\ b' = Taking(b, gb) /\ r' = Taking(r, gr)
      /\ rsp' = rsp \o Item(gb \/ gr, home)
  <2>1. req' = Taking(req, x)
    BY <1>7 DEF P!Cycle, Taking
  <2>2. b' = Taking(b, gb) \o <<>> /\ r' = Taking(r, gr) \o <<>>
    BY <1>7 DEF P!Cycle, P!Edge, Taking
  <2>3. Taking(b, gb) \in Seq(Locals) /\ Taking(r, gr) \in Seq(Locals)
    <3> HIDE DEF gb, gr
    <3> QED BY <1>1, <1>2, HeadTailProperties DEF Taking
  <2>4. rsp' = rsp \o Item(gb \/ gr, home)
    BY <1>7 DEF P!Cycle, P!Item, Item
  <2> QED BY <2>1, <2>2, <2>3, <2>4, ConcatEmptySeq
<1>9. /\ from' = IF x THEN [from EXCEPT ![turn] = req[1].node] ELSE from
      /\ oid' = IF x THEN [oid EXCEPT ![turn] = req[1].id] ELSE oid
  BY <1>3, <1>7 DEF P!Cycle
<1>10. mem' = IF x THEN [mem EXCEPT ![turn] = [read |-> req[1].read, beats |-> req[1].beats]]
              ELSE mem
  BY <1>3 DEF PerCycle
<1>11. busy' = (busy \cup (IF x THEN {turn} ELSE {}))
                 \ (IF gb \/ (gr /\ a.last) THEN {a.id} ELSE {})
  BY <1>2, <1>7 DEF P!Cycle, P!Ends
<1>12. turn' \in P!Local
  <2>1. turn \in Nat /\ IDS \in Nat \ {0}
    BY <1>1, NocExitAssumption DEF P!Local
  <2>2. (turn + 1) % IDS \in 0..(IDS - 1)
    BY <2>1, ModRange
  <2>3. turn' = IF x THEN (turn + 1) % IDS ELSE turn
    BY <1>7 DEF P!Cycle
  <2> HIDE DEF x
  <2> QED BY <1>1, <2>2, <2>3 DEF P!Local
<1> HIDE DEF x, gb, gr, a, home
<1>13. PerMoves(x, gb, gr, a, home)
  BY <1>2, <1>3, <1>4, <1>5, <1>6, <1>7, <1>8, <1>9, <1>10, <1>11, <1>12 DEF PerMoves
<1> QED BY <1>13 DEF x, gb, gr, a, home

LEMMA SameVars ==
  ASSUME UNCHANGED vars
  PROVE  /\ TypeOK' = TypeOK /\ net' = net /\ HostInv' = HostInv
<1>1. /\ aw' = aw /\ w' = w /\ left' = left /\ sid' = sid /\ pend' = pend
      /\ err' = err /\ eat' = eat /\ owe' = owe /\ bad' = bad /\ net' = net
      /\ want' = want /\ wrong' = wrong
  BY DEF vars, bridge
<1>2. /\ Queued' = Queued /\ Merged' = Merged /\ Failing' = Failing /\ Rest' = Rest
      /\ merging' = merging
  BY <1>1 DEF Queued, Merged, Failing, Rest, merging
<1>3. /\ TypeOK' = TypeOK /\ Waits' = Waits /\ Merges' = Merges /\ Fails' = Fails
      /\ Others' = Others /\ Apart' = Apart /\ Beats' = Beats /\ Ending' = Ending
  BY <1>1, <1>2, Zenon DEF TypeOK, Waits, Merges, Fails, Others, Apart, Beats, Ending
<1> QED BY <1>1, <1>3 DEF HostInv

(* ExitTypeOK, in the sets of these proofs.                                *)
Shape ==
  /\ TypeOK
  /\ req \in Seq(Requests) /\ b \in Seq(Locals) /\ r \in Seq(Locals)
  /\ rsp \in Seq(Replies)
  /\ Len(req) <= 2 /\ Len(b) <= 2 /\ Len(r) <= 2 /\ Len(rsp) <= 2
  /\ from \in [P!Local -> Nodes] /\ oid \in [P!Local -> Ids]
  /\ turn \in P!Local /\ busy \subseteq P!Local
  /\ mem \in [P!Local -> Access] /\ asks \in BOOLEAN /\ reading \in 0..2

LEMMA ShapeIsType == Shape => ExitTypeOK
BY DEF Shape, ExitTypeOK, Requests, Locals, Replies

LEMMA ShapeIsTypeNext == Shape' => ExitTypeOK'
BY ShapeIsType, PTL

LEMMA PerType ==
  ASSUME ExitTypeOK, NEW x, NEW gb, NEW gr, NEW a, NEW home,
         PerMoves(x, gb, gr, a, home)
  PROVE  ExitTypeOK'
<1>1. /\ req \in Seq(Requests) /\ b \in Seq(Locals) /\ r \in Seq(Locals)
      /\ rsp \in Seq(Replies)
      /\ Len(req) <= 2 /\ Len(b) <= 2 /\ Len(r) <= 2 /\ Len(rsp) <= 2
      /\ Len(req) \in Nat /\ Len(b) \in Nat /\ Len(r) \in Nat /\ Len(rsp) \in Nat
      /\ from \in [P!Local -> Nodes] /\ oid \in [P!Local -> Ids]
      /\ turn \in P!Local /\ busy \subseteq P!Local
      /\ mem \in [P!Local -> Access] /\ asks \in BOOLEAN /\ reading \in 0..2
      /\ TypeOK
  BY ExitFacts
<1>2. /\ x \in BOOLEAN /\ gb \in BOOLEAN /\ gr \in BOOLEAN
      /\ x => req # <<>> /\ req[1] \in Requests
      /\ gb => b # <<>>
      /\ gr => r # <<>>
      /\ gb \/ gr => Len(rsp) < 2 /\ home \in Replies
      /\ req' = Taking(req, x) /\ b' = Taking(b, gb) /\ r' = Taking(r, gr)
      /\ rsp' = rsp \o Item(gb \/ gr, home)
  BY DEF PerMoves
<1>3. req' \in Seq(Requests) /\ Len(req') <= 2
  <2>1. Len(req') = Len(req) - Bit(x) /\ req' \in Seq(Requests)
    BY <1>1, <1>2, Take
  <2> QED BY <1>1, <2>1 DEF Bit
<1>4. b' \in Seq(Locals) /\ Len(b') <= 2
  <2>1. Len(b') = Len(b) - Bit(gb) /\ b' \in Seq(Locals)
    BY <1>1, <1>2, Take
  <2> QED BY <1>1, <2>1 DEF Bit
<1>5. r' \in Seq(Locals) /\ Len(r') <= 2
  <2>1. Len(r') = Len(r) - Bit(gr) /\ r' \in Seq(Locals)
    BY <1>1, <1>2, Take
  <2> QED BY <1>1, <2>1 DEF Bit
<1>6. rsp' \in Seq(Replies) /\ Len(rsp') <= 2
  <2> DEFINE y == gb \/ gr
  <2>1. y \in BOOLEAN /\ (y => home \in Replies /\ Len(rsp) < 2) /\ rsp' = rsp \o Item(y, home)
    BY <1>2
  <2> HIDE DEF y
  <2>2. Len(rsp') = Len(rsp) + Bit(y) /\ rsp' \in Seq(Replies)
    BY <1>1, <2>1, Put
  <2> QED BY <1>1, <2>1, <2>2 DEF Bit
<1>7. /\ from' \in [P!Local -> Nodes] /\ oid' \in [P!Local -> Ids]
      /\ mem' \in [P!Local -> Access]
  <2>1. /\ from' = IF x THEN [from EXCEPT ![turn] = req[1].node] ELSE from
        /\ oid' = IF x THEN [oid EXCEPT ![turn] = req[1].id] ELSE oid
        /\ mem' = IF x THEN [mem EXCEPT ![turn] =
                               [read |-> req[1].read, beats |-> req[1].beats]]
                  ELSE mem
    BY DEF PerMoves
  <2>2. x => /\ req[1].node \in Nodes /\ req[1].id \in Ids
             /\ req[1].read \in BOOLEAN /\ req[1].beats \in 0..2
    BY <1>2 DEF Requests
  <2>3. x => [read |-> req[1].read, beats |-> req[1].beats] \in Access
    BY <2>2 DEF Access
  <2> QED BY <1>1, <2>1, <2>2, <2>3
<1>8. turn' \in P!Local /\ busy' \subseteq P!Local
  BY <1>1 DEF PerMoves
<1>9. TypeOK' /\ asks' = asks /\ reading' = reading
  BY <1>1, SameVars DEF PerMoves
<1>10. Shape'
  BY <1>1, <1>3, <1>4, <1>5, <1>6, <1>7, <1>8, <1>9 DEF Shape
<1> QED BY <1>10, ShapeIsTypeNext

(* It keeps the balance: a request that goes in is with the peripheral     *)
(* under an identifier that led nowhere, and an answer goes home where its *)
(* identifier leads.                                                       *)
LEMMA PerIn ==
  ASSUME ExitTypeOK, Held, NEW x, NEW gb, NEW gr, NEW a, NEW home,
         PerMoves(x, gb, gr, a, home),
         NEW n \in Nodes, NEW i \in Ids, NEW d \in BOOLEAN
  PROVE  Entering(n, i, d)' = Entering(n, i, d)
<1> DEFINE p == req[1]
           q1 == Hits(req, Asked(n, i, d))  q2 == Hits(req, Twice(n, i, d))
           h1 == Holds(n, i, d, 1)          h2 == Holds(n, i, d, 2)
           s1 == x /\ p \in Asked(n, i, d)  s2 == x /\ p \in Twice(n, i, d)
<1>1. /\ req \in Seq(Requests) /\ Len(req) \in Nat /\ Len(req) <= 2
      /\ from \in [P!Local -> Nodes] /\ oid \in [P!Local -> Ids]
      /\ mem \in [P!Local -> Access] /\ turn \in P!Local
  BY ExitFacts
<1>2. /\ x \in BOOLEAN
      /\ x => req # <<>> /\ turn \notin busy /\ p \in Requests
      /\ req' = Taking(req, x)
      /\ from' = IF x THEN [from EXCEPT ![turn] = p.node] ELSE from
      /\ oid' = IF x THEN [oid EXCEPT ![turn] = p.id] ELSE oid
      /\ mem' = IF x THEN [mem EXCEPT ![turn] = [read |-> p.read, beats |-> p.beats]]
                ELSE mem
  BY DEF PerMoves
<1>3. q1 = q1' + Bit(s1) /\ q2 = q2' + Bit(s2)
  <2>1. \A S : Hits(req, S) = Hits(req', S) + Bit(x /\ req[1] \in S)
    BY <1>1, <1>2, Take
  <2>2. Asked(n, i, d)' = Asked(n, i, d) /\ Twice(n, i, d)' = Twice(n, i, d)
    BY DEF Asked, Twice
  <2> QED BY <2>1, <2>2
<1>4. x => mem[turn].beats = 0
  BY <1>1, <1>2 DEF Held
<1>5. ASSUME NEW m \in 1..2
      PROVE  Holds(n, i, d, m)' =
               IF x /\ p \in Asked(n, i, d) /\ p.beats >= m
               THEN Holds(n, i, d, m) \cup {turn} ELSE Holds(n, i, d, m)
  <2>1. CASE x
    <3>1. /\ from'[turn] = p.node /\ oid'[turn] = p.id
          /\ mem'[turn].read = p.read /\ mem'[turn].beats = p.beats
      BY <1>1, <1>2, <2>1
    <3>2. \A l \in P!Local \ {turn} :
            from'[l] = from[l] /\ oid'[l] = oid[l] /\ mem'[l] = mem[l]
      BY <1>1, <1>2, <2>1
    <3>3. turn \notin Holds(n, i, d, m)
      BY <1>4, <2>1 DEF Holds
    <3>4. turn \in Holds(n, i, d, m)' <=> p \in Asked(n, i, d) /\ p.beats >= m
      BY <1>1, <1>2, <2>1, <3>1 DEF Holds, Asked
    <3>5. \A l \in P!Local \ {turn} : l \in Holds(n, i, d, m)' <=> l \in Holds(n, i, d, m)
      BY <3>2 DEF Holds
    <3>6. Holds(n, i, d, m)' \subseteq P!Local /\ Holds(n, i, d, m) \subseteq P!Local
      BY DEF Holds
    <3> QED BY <2>1, <3>3, <3>4, <3>5, <3>6
  <2>2. CASE ~x
    BY <1>2, <2>2 DEF Holds
  <2> QED BY <1>2, <2>1, <2>2
<1>6. h1' = IF s1 THEN h1 \cup {turn} ELSE h1
  <2>1. x => p.beats >= 1
    BY <1>2 DEF Requests
  <2> QED BY <1>5, <2>1
<1>7. h2' = IF s2 THEN h2 \cup {turn} ELSE h2
  <2>1. x => (p.beats >= 2 <=> p.beats = 2)
    BY <1>2 DEF Requests
  <2>2. s2 <=> x /\ p \in Asked(n, i, d) /\ p.beats >= 2
    BY <2>1 DEF Twice
  <2> QED BY <1>5, <2>2
<1>8. x => turn \notin h1 /\ turn \notin h2
  BY <1>4 DEF Holds
<1>9. IsFiniteSet(h1) /\ IsFiniteSet(h2) /\ Cardinality(h1) \in Nat /\ Cardinality(h2) \in Nat
  BY HoldsNat
<1>10. q1' \in Nat /\ q2' \in Nat
  <2>1. req' \in Seq(Requests)
    BY <1>1, <1>2, Take
  <2> QED BY <2>1, HitsNat
<1> DEFINE c1 == Cardinality(h1)  c2 == Cardinality(h2)
<1> HIDE DEF q1, q2, h1, h2, s1, s2
<1>11. c1' = c1 + Bit(s1)
  <2>1. s1 => x
    BY DEF s1
  <2>2. CASE s1
    BY <1>6, <1>8, <1>9, <2>1, <2>2, FS_AddElement DEF Bit
  <2>3. CASE ~s1
    BY <1>6, <1>9, <2>3 DEF Bit
  <2> QED BY <2>2, <2>3
<1>12. c2' = c2 + Bit(s2)
  <2>1. s2 => x
    BY DEF s2
  <2>2. CASE s2
    BY <1>7, <1>8, <1>9, <2>1, <2>2, FS_AddElement DEF Bit
  <2>3. CASE ~s2
    BY <1>7, <1>9, <2>3 DEF Bit
  <2> QED BY <2>2, <2>3
<1>13. c1 \in Nat /\ c2 \in Nat /\ Bit(s1) \in Nat /\ Bit(s2) \in Nat
  BY <1>9 DEF Bit
<1> HIDE DEF c1, c2
<1>14. q1' + q2' + c1' + c2' = q1 + q2 + c1 + c2
  BY <1>3, <1>10, <1>11, <1>12, <1>13
<1> QED BY <1>14 DEF Entering, q1, q2, c1, c2, h1, h2

LEMMA PerOut ==
  ASSUME ExitTypeOK, Held, NEW x, NEW gb, NEW gr, NEW a, NEW home,
         PerMoves(x, gb, gr, a, home),
         NEW n \in Nodes, NEW i \in Ids, NEW d \in BOOLEAN
  PROVE  Leaving(n, i, d)' = Leaving(n, i, d)
<1> DEFINE c == IF d THEN r ELSE b
           go == IF d THEN gr ELSE gb
           q == Hits(c, Led(n, i))  h == Hits(rsp, Replied(n, i, d))
           y == gb \/ gr
<1>1. /\ b \in Seq(Locals) /\ r \in Seq(Locals) /\ rsp \in Seq(Replies)
      /\ Len(rsp) \in Nat /\ from \in [P!Local -> Nodes] /\ oid \in [P!Local -> Ids]
      /\ Len(b) \in Nat /\ Len(r) \in Nat /\ Len(b) <= 2 /\ Len(r) <= 2
  BY ExitFacts
<1>2. /\ x \in BOOLEAN /\ gb \in BOOLEAN /\ gr \in BOOLEAN /\ ~(gb /\ gr)
      /\ x => turn \notin busy
      /\ gb => b # <<>> /\ a = b[1]
      /\ gr => r # <<>> /\ a = r[1]
      /\ y => /\ a \in Locals /\ home \in Replies
              /\ home.node = from[a.id] /\ home.id = oid[a.id] /\ home.read = gr
      /\ b' = Taking(b, gb) /\ r' = Taking(r, gr) /\ rsp' = rsp \o Item(y, home)
      /\ from' = IF x THEN [from EXCEPT ![turn] = req[1].node] ELSE from
      /\ oid' = IF x THEN [oid EXCEPT ![turn] = req[1].id] ELSE oid
  BY DEF PerMoves
<1>3. /\ c \in Seq(Locals) /\ Len(c) \in Nat /\ Len(c) <= 2 /\ go \in BOOLEAN
      /\ go => c # <<>> /\ a = c[1] /\ y
      /\ c' = Taking(c, go)
      /\ \A k \in 1..Len(c) : c[k].id \in busy
  BY <1>1, <1>2 DEF Held
<1> HIDE DEF c, go
<1>4. /\ c' \in Seq(Locals)
      /\ \A k \in 1..Len(c') : c'[k] = c[k + Bit(go)] /\ k + Bit(go) \in 1..Len(c)
      /\ \A S : Hits(c, S) = Hits(c', S) + Bit(go /\ c[1] \in S)
  BY <1>3, Take
<1>5. Hits(c', Led(n, i)') = Hits(c', Led(n, i))
  <2>1. ASSUME NEW k \in 1..Len(c') PROVE c'[k] \in Led(n, i)' <=> c'[k] \in Led(n, i)
    <3>1. c'[k].id \in busy
      BY <1>3, <1>4
    <3>2. from'[c'[k].id] = from[c'[k].id] /\ oid'[c'[k].id] = oid[c'[k].id]
      <4>1. c'[k] \in Locals
        BY <1>4, ElementOfSeq
      <4>2. c'[k].id \in P!Local
        BY <4>1 DEF Locals
      <4> QED BY <1>1, <1>2, <3>1, <4>2
    <3> QED BY <3>2 DEF Led
  <2> QED BY <1>4, <2>1, HitsSame
<1>6. q = q' + Bit(go /\ a \in Led(n, i))
  <2>1. Hits(c, Led(n, i)) = Hits(c', Led(n, i)) + Bit(go /\ c[1] \in Led(n, i))
    BY <1>4
  <2>2. Bit(go /\ c[1] \in Led(n, i)) = Bit(go /\ a \in Led(n, i))
    BY <1>3 DEF Bit
  <2> QED BY <1>5, <2>1, <2>2
<1>7. h' = h + Bit(y /\ home \in Replied(n, i, d))
  <2>1. \A S : Hits(rsp', S) = Hits(rsp, S) + Bit(y /\ home \in S)
    <3>1. y \in BOOLEAN
      BY <1>2
    <3> HIDE DEF y
    <3> QED BY <1>1, <1>2, <3>1, Put
  <2>2. Replied(n, i, d)' = Replied(n, i, d)
    BY DEF Replied
  <2> QED BY <2>1, <2>2
<1>8. (y /\ home \in Replied(n, i, d)) <=> (go /\ a \in Led(n, i))
  <2>1. CASE y
    <3>1. home \in Replied(n, i, d) <=> a \in Led(n, i) /\ gr = d
      BY <1>2, <2>1 DEF Replied, Led
    <3>2. (gr = d) <=> go
      BY <1>2, <2>1 DEF go
    <3> QED BY <2>1, <3>1, <3>2
  <2>2. CASE ~y
    BY <1>3, <2>2
  <2> QED BY <2>1, <2>2
<1>9. q' \in Nat /\ h \in Nat
  BY <1>1, <1>4, HitsNat
<1>10. Bit(y /\ home \in Replied(n, i, d)) = Bit(go /\ a \in Led(n, i))
       /\ Bit(go /\ a \in Led(n, i)) \in Nat
  BY <1>8 DEF Bit
<1> DEFINE z == Bit(go /\ a \in Led(n, i))
<1>11. q = q' + z /\ h' = h + z /\ z \in Nat
  BY <1>6, <1>7, <1>10
<1> HIDE DEF q, h, z
<1>12. q' + h' = q + h
  BY <1>9, <1>11
<1> QED BY <1>12 DEF Leaving, q, h, c

(* It gives out an identifier nobody has, and takes one back after its     *)
(* last answer.                                                            *)
LEMMA PerHeld ==
  ASSUME ExitTypeOK, Held, NEW x, NEW gb, NEW gr, NEW a, NEW home,
         PerMoves(x, gb, gr, a, home)
  PROVE  Held'
<1>1. /\ req \in Seq(Requests) /\ b \in Seq(Locals) /\ r \in Seq(Locals)
      /\ Len(req) <= 2 /\ Len(b) <= 2 /\ Len(r) <= 2
      /\ Len(req) \in Nat /\ Len(b) \in Nat /\ Len(r) \in Nat
      /\ turn \in P!Local /\ busy \subseteq P!Local /\ mem \in [P!Local -> Access]
  BY ExitFacts
<1>2. /\ x \in BOOLEAN /\ gb \in BOOLEAN /\ gr \in BOOLEAN /\ ~(gb /\ gr)
      /\ x => /\ req # <<>> /\ turn \notin busy
              /\ req[1] \in Requests /\ 1 \in 1..Len(req)
      /\ gb => b # <<>> /\ a = b[1] /\ 1 \in 1..Len(b)
      /\ gr => r # <<>> /\ a = r[1] /\ 1 \in 1..Len(r)
      /\ gb \/ gr => a.id \in busy
      /\ req' = Taking(req, x) /\ b' = Taking(b, gb) /\ r' = Taking(r, gr)
      /\ mem' = IF x THEN [mem EXCEPT ![turn] =
                             [read |-> req[1].read, beats |-> req[1].beats]]
                ELSE mem
      /\ busy' = (busy \cup (IF x THEN {turn} ELSE {}))
                   \ (IF gb \/ (gr /\ a.last) THEN {a.id} ELSE {})
  BY DEF PerMoves
<1>3. /\ \A l \in P!Local : mem[l].beats # 0 => l \in busy
      /\ \A l \in P!Local : ~mem[l].read => mem[l].beats <= 1
      /\ \A k \in 1..Len(req) : ~req[k].read => req[k].beats = 1
      /\ \A k \in 1..Len(b) :
           b[k].id \in busy /\ ~mem[b[k].id].read /\ mem[b[k].id].beats = 0
      /\ \A k \in 1..Len(r) :
           r[k].id \in busy /\ mem[r[k].id].read /\ (r[k].last => mem[r[k].id].beats = 0)
      /\ \A j, k \in 1..Len(b) : b[j].id = b[k].id => j = k
      /\ \A j, k \in 1..Len(r) : j < k /\ r[j].id = r[k].id => ~r[j].last
  BY DEF Held
<1>4. PICK s \in 0..1, t \in 0..1, u \in 0..1 :
        /\ \A k \in 1..Len(req') : req'[k] = req[k + s] /\ k + s \in 1..Len(req)
        /\ \A k \in 1..Len(b') : b'[k] = b[k + t] /\ k + t \in 1..Len(b)
        /\ \A k \in 1..Len(r') : r'[k] = r[k + u] /\ k + u \in 1..Len(r)
        /\ (gb => t = 1) /\ (gr => u = 1)
        /\ Len(b') \in Nat /\ Len(r') \in Nat
  <2>1. /\ b' \in Seq(Locals) /\ r' \in Seq(Locals)
        /\ \A k \in 1..Len(req') : req'[k] = req[k + Bit(x)] /\ k + Bit(x) \in 1..Len(req)
        /\ \A k \in 1..Len(b') : b'[k] = b[k + Bit(gb)] /\ k + Bit(gb) \in 1..Len(b)
        /\ \A k \in 1..Len(r') : r'[k] = r[k + Bit(gr)] /\ k + Bit(gr) \in 1..Len(r)
    <3>1. \A k \in 1..Len(req') : req'[k] = req[k + Bit(x)] /\ k + Bit(x) \in 1..Len(req)
      BY <1>1, <1>2, Take
    <3>2. /\ b' \in Seq(Locals)
          /\ \A k \in 1..Len(b') : b'[k] = b[k + Bit(gb)] /\ k + Bit(gb) \in 1..Len(b)
      <4>1. gb \in BOOLEAN /\ (gb => b # <<>>) /\ b' = Taking(b, gb)
        BY <1>2
      <4> QED BY <1>1, <4>1, Take
    <3>3. /\ r' \in Seq(Locals)
          /\ \A k \in 1..Len(r') : r'[k] = r[k + Bit(gr)] /\ k + Bit(gr) \in 1..Len(r)
      <4>1. gr \in BOOLEAN /\ (gr => r # <<>>) /\ r' = Taking(r, gr)
        BY <1>2
      <4> QED BY <1>1, <4>1, Take
    <3> QED BY <3>1, <3>2, <3>3
  <2>2. Len(b') \in Nat /\ Len(r') \in Nat
    BY <2>1, LenProperties
  <2>3. /\ Bit(x) \in 0..1 /\ Bit(gb) \in 0..1 /\ Bit(gr) \in 0..1
        /\ (gb => Bit(gb) = 1) /\ (gr => Bit(gr) = 1)
    BY <1>2 DEF Bit
  <2>4. PICK s \in 0..1, t \in 0..1, u \in 0..1 : s = Bit(x) /\ t = Bit(gb) /\ u = Bit(gr)
    BY <2>3
  <2>5. /\ \A k \in 1..Len(req') : req'[k] = req[k + s] /\ k + s \in 1..Len(req)
        /\ \A k \in 1..Len(b') : b'[k] = b[k + t] /\ k + t \in 1..Len(b)
        /\ \A k \in 1..Len(r') : r'[k] = r[k + u] /\ k + u \in 1..Len(r)
        /\ (gb => t = 1) /\ (gr => u = 1)
    BY <2>1, <2>3, <2>4
  <2> QED BY <2>2, <2>5
<1>5. /\ \A l \in P!Local : l # turn \/ ~x => mem'[l] = mem[l]
      /\ x => mem'[turn].read = req[1].read /\ mem'[turn].beats = req[1].beats
  BY <1>1, <1>2
(* The identifier taken back is nobody's any more. *)
<1> DEFINE ends == gb \/ (gr /\ a.last)
<1>7. ends => mem[a.id].beats = 0
  BY <1>2, <1>3
<1>8. ASSUME NEW k \in 1..Len(b') PROVE ends => b'[k].id # a.id
  <2>1. PICK j \in 1..Len(b) : j = k + t /\ b'[k] = b[j]
    BY <1>4
  <2>2. CASE gb
    <3>1. j # 1
      BY <1>4, <2>1, <2>2
    <3> QED BY <1>2, <1>3, <2>1, <2>2, <3>1
  <2>3. CASE gr
    BY <1>2, <1>3, <2>1, <2>3
  <2> QED BY <2>2, <2>3
<1>9. ASSUME NEW k \in 1..Len(r') PROVE ends => r'[k].id # a.id
  <2>1. PICK j \in 1..Len(r) : j = k + u /\ r'[k] = r[j]
    BY <1>4
  <2>2. CASE gb
    BY <1>2, <1>3, <2>1, <2>2
  <2>3. CASE gr /\ a.last
    <3>1. 1 < j
      BY <1>4, <2>1, <2>3
    <3> QED BY <1>2, <1>3, <2>1, <2>3, <3>1
  <2> QED BY <2>2, <2>3
<1>10. /\ \A l : (x /\ l = turn) \/ l \in busy => l \in busy' \/ (ends /\ l = a.id)
       /\ x => ~(ends /\ turn = a.id)
       /\ x => turn \notin busy
  <2>1. ends => a.id \in busy
    BY <1>2
  <2>2. x => turn \notin busy
    BY <1>2
  <2>3. busy' = (busy \cup (IF x THEN {turn} ELSE {})) \ (IF ends THEN {a.id} ELSE {})
    BY <1>2
  <2> HIDE DEF ends
  <2> QED BY <2>1, <2>2, <2>3
<1> HIDE DEF ends
<1>11. \A l \in P!Local : mem'[l].beats # 0 => l \in busy'
  BY <1>3, <1>5, <1>7, <1>10
<1>12. \A l \in P!Local : ~mem'[l].read => mem'[l].beats <= 1
  <2>1. x => (~req[1].read => req[1].beats <= 1)
    BY <1>2, <1>3
  <2> QED BY <1>3, <1>5, <2>1
<1>13. \A k \in 1..Len(req') : ~req'[k].read => req'[k].beats = 1
  BY <1>3, <1>4
<1>14. ASSUME NEW k \in 1..Len(b')
       PROVE  b'[k].id \in busy' /\ ~mem'[b'[k].id].read /\ mem'[b'[k].id].beats = 0
  <2>1. PICK j \in 1..Len(b) : b'[k] = b[j]
    BY <1>4
  <2>2. b'[k].id \in busy /\ ~mem[b'[k].id].read /\ mem[b'[k].id].beats = 0
    BY <1>3, <2>1
  <2>3. mem'[b'[k].id] = mem[b'[k].id]
    BY <1>1, <1>5, <1>10, <2>2
  <2> QED BY <1>8, <1>10, <2>2, <2>3
<1>15. ASSUME NEW k \in 1..Len(r')
       PROVE  /\ r'[k].id \in busy' /\ mem'[r'[k].id].read
              /\ r'[k].last => mem'[r'[k].id].beats = 0
  <2>1. PICK j \in 1..Len(r) : r'[k] = r[j]
    BY <1>4
  <2>2. /\ r'[k].id \in busy /\ mem[r'[k].id].read
        /\ r'[k].last => mem[r'[k].id].beats = 0
    BY <1>3, <2>1
  <2>3. mem'[r'[k].id] = mem[r'[k].id]
    BY <1>1, <1>5, <1>10, <2>2
  <2> QED BY <1>9, <1>10, <2>2, <2>3
<1>16. \A j, k \in 1..Len(b') : b'[j].id = b'[k].id => j = k
  <2> SUFFICES ASSUME NEW j \in 1..Len(b'), NEW k \in 1..Len(b'), b'[j].id = b'[k].id
               PROVE  j = k
    OBVIOUS
  <2>1. j + t = k + t
    BY <1>3, <1>4
  <2>2. j \in Int /\ k \in Int
    OBVIOUS
  <2> QED BY <1>4, <2>1, <2>2
<1>17. \A j, k \in 1..Len(r') : j < k /\ r'[j].id = r'[k].id => ~r'[j].last
  <2> SUFFICES ASSUME NEW j \in 1..Len(r'), NEW k \in 1..Len(r'),
                      j < k, r'[j].id = r'[k].id
               PROVE  ~r'[j].last
    OBVIOUS
  <2>1. j + u < k + u
    BY <1>4
  <2> QED BY <1>3, <1>4, <2>1
<1> QED BY <1>11, <1>12, <1>13, <1>14, <1>15, <1>16, <1>17 DEF Held

LEMMA Shifted ==
  ASSUME NEW T, NEW c \in Seq(T), Len(c) \in Nat, Len(c) <= 2,
         NEW x \in BOOLEAN, x => c # <<>>
  PROVE  \E t \in 0..1 :
           /\ x => t = 1
           /\ Len(Taking(c, x)) \in Nat /\ Len(Taking(c, x)) = Len(c) - t
           /\ \A k \in 1..Len(Taking(c, x)) :
                Taking(c, x)[k] = c[k + t] /\ k + t \in 1..Len(c)
<1>1. /\ Taking(c, x) \in Seq(T)
      /\ Len(Taking(c, x)) = Len(c) - Bit(x)
      /\ \A k \in 1..Len(Taking(c, x)) :
           Taking(c, x)[k] = c[k + Bit(x)] /\ k + Bit(x) \in 1..Len(c)
  BY Take
<1>2. Len(Taking(c, x)) \in Nat
  BY <1>1, LenProperties
<1>3. Bit(x) \in 0..1 /\ (x => Bit(x) = 1)
  BY DEF Bit
<1>4. PICK t \in 0..1 : t = Bit(x)
  BY <1>3
<1>5. (x => t = 1) /\ Len(Taking(c, x)) = Len(c) - t
  BY <1>1, <1>3, <1>4
<1>6. \A k \in 1..Len(Taking(c, x)) :
        Taking(c, x)[k] = c[k + t] /\ k + t \in 1..Len(c)
  BY <1>1, <1>4
<1> QED BY <1>2, <1>5, <1>6

LEMMA Grown ==
  ASSUME NEW T, NEW c \in Seq(T), Len(c) \in Nat, NEW x \in BOOLEAN, NEW e, x => e \in T
  PROVE  /\ Len(c \o Item(x, e)) \in Nat
         /\ \A k \in 1..Len(c \o Item(x, e)) :
              \/ k \in 1..Len(c) /\ (c \o Item(x, e))[k] = c[k]
              \/ x /\ k = Len(c) + 1 /\ (c \o Item(x, e))[k] = e
<1> DEFINE s == c \o Item(x, e)  n == Len(c)
<1>1. /\ s \in Seq(T) /\ Len(s) = n + Bit(x)
      /\ \A k \in 1..n : s[k] = c[k]
      /\ x => s[n + 1] = e
  <2>1. CASE x
    <3>1. s = Append(c, e) /\ e \in T
      BY <2>1, AppendIsConcat DEF Item
    <3>2. /\ s \in Seq(T) /\ Len(s) = n + 1
          /\ \A k \in 1..n : s[k] = c[k]
          /\ s[n + 1] = e
      BY <3>1, AppendProperties
    <3> QED BY <2>1, <3>2 DEF Bit
  <2>2. CASE ~x
    <3>1. s = c
      BY <2>2, ConcatEmptySeq DEF Item
    <3> QED BY <2>2, <3>1 DEF Bit
  <2> QED BY <2>1, <2>2
<1>2. Len(s) \in Nat /\ n \in Nat
  BY <1>1, LenProperties
<1> HIDE DEF s, n
<1>3. \A k \in 1..Len(s) : k \in 1..n \/ (x /\ k = n + 1)
  <2>1. CASE x
    <3>1. Len(s) = n + 1
      BY <1>1, <2>1 DEF Bit
    <3> QED BY <1>2, <2>1, <3>1
  <2>2. CASE ~x
    <3>1. Len(s) = n
      BY <1>1, <1>2, <2>2 DEF Bit
    <3> QED BY <1>2, <3>1
  <2> QED BY <2>1, <2>2
<1>4. \A k \in 1..Len(s) : (k \in 1..n /\ s[k] = c[k]) \/ (x /\ k = n + 1 /\ s[k] = e)
  BY <1>1, <1>3
<1> QED BY <1>2, <1>4 DEF s, n

(* The read moves on: to the peripheral only while nothing else of it is   *)
(* anywhere, and home beat by beat, the last one last.                     *)
LEMMA PerRead ==
  ASSUME ExitTypeOK, OneRead, NEW x, NEW gb, NEW gr, NEW a, NEW home,
         PerMoves(x, gb, gr, a, home)
  PROVE  OneRead'
<1>1. /\ req \in Seq(Requests) /\ r \in Seq(Locals) /\ rsp \in Seq(Replies)
      /\ Len(req) <= 2 /\ Len(r) <= 2
      /\ Len(req) \in Nat /\ Len(r) \in Nat /\ Len(rsp) \in Nat
      /\ turn \in P!Local /\ mem \in [P!Local -> Access]
  BY ExitFacts
<1>2. /\ x \in BOOLEAN /\ gb \in BOOLEAN /\ gr \in BOOLEAN
      /\ x => req # <<>> /\ req[1] \in Requests /\ 1 \in 1..Len(req)
      /\ gr => r # <<>> /\ a = r[1] /\ 1 \in 1..Len(r)
      /\ gb \/ gr => home \in Replies /\ home.read = gr /\ home.last = a.last
      /\ req' = Taking(req, x) /\ r' = Taking(r, gr) /\ rsp' = rsp \o Item(gb \/ gr, home)
      /\ mem' = IF x THEN [mem EXCEPT ![turn] =
                             [read |-> req[1].read, beats |-> req[1].beats]]
                ELSE mem
      /\ asks' = asks /\ reading' = reading
  BY DEF PerMoves
<1>3. PICK s \in 0..1 :
        /\ x => s = 1
        /\ Len(req') \in Nat
        /\ \A k \in 1..Len(req') : req'[k] = req[k + s] /\ k + s \in 1..Len(req)
  <2>1. x \in BOOLEAN /\ (x => req # <<>>) /\ req' = Taking(req, x)
    BY <1>2
  <2> QED BY <1>1, <2>1, Shifted
<1>4. PICK t \in 0..1 :
        /\ gr => t = 1
        /\ Len(r') \in Nat /\ Len(r') = Len(r) - t
        /\ \A k \in 1..Len(r') : r'[k] = r[k + t] /\ k + t \in 1..Len(r)
  <2>1. gr \in BOOLEAN /\ (gr => r # <<>>) /\ r' = Taking(r, gr)
    BY <1>2
  <2> QED BY <1>1, <2>1, Shifted
<1>5. /\ Len(rsp') \in Nat
      /\ \A k \in 1..Len(rsp') :
           \/ k \in 1..Len(rsp) /\ rsp'[k] = rsp[k]
           \/ k = Len(rsp) + 1 /\ rsp'[k] = home /\ (home.read => gr) /\ home.last = a.last
  <2> DEFINE y == gb \/ gr
  <2>1. /\ y \in BOOLEAN /\ (y => home \in Replies) /\ rsp' = rsp \o Item(y, home)
        /\ (y => (home.read => gr) /\ home.last = a.last)
    BY <1>2
  <2> HIDE DEF y
  <2>2. /\ Len(rsp') \in Nat
        /\ \A k \in 1..Len(rsp') :
             \/ k \in 1..Len(rsp) /\ rsp'[k] = rsp[k]
             \/ y /\ k = Len(rsp) + 1 /\ rsp'[k] = home
    BY <1>1, <2>1, Grown
  <2> QED BY <2>1, <2>2
<1>6. /\ \A l \in P!Local : l # turn \/ ~x => mem'[l] = mem[l]
      /\ x => mem'[turn].read = req[1].read /\ mem'[turn].beats = req[1].beats
  BY <1>1, <1>2
<1>7. /\ \A k \in 1..Len(req) : req[k].read =>
           /\ \A j \in 1..Len(req) : req[j].read => j = k
           /\ \A l \in P!Local : mem[l].read => mem[l].beats = 0
           /\ r = <<>>
           /\ \A j \in 1..Len(rsp) : ~rsp[j].read
      /\ \A l \in P!Local : mem[l].read /\ mem[l].beats # 0 =>
           /\ \A m \in P!Local : mem[m].read /\ mem[m].beats # 0 => m = l
           /\ \A j \in 1..Len(r) : ~r[j].last
           /\ \A j \in 1..Len(rsp) : rsp[j].read => ~rsp[j].last
      /\ \A j, k \in 1..Len(r) : j < k => ~r[j].last
      /\ r # <<>> => \A j \in 1..Len(rsp) : rsp[j].read => ~rsp[j].last
      /\ \A j, k \in 1..Len(rsp) : j < k /\ rsp[j].read /\ rsp[k].read => ~rsp[j].last
  BY DEF OneRead
<1>8. r = <<>> => r' = <<>> /\ ~gr
  BY <1>2 DEF Taking
<1>9. asks' => reading' # 0
  BY <1>2 DEF OneRead
<1>10. ASSUME NEW k \in 1..Len(req'), req'[k].read
       PROVE  /\ \A j \in 1..Len(req') : req'[j].read => j = k
              /\ \A l \in P!Local : mem'[l].read => mem'[l].beats = 0
              /\ r' = <<>>
              /\ \A j \in 1..Len(rsp') : ~rsp'[j].read
  <2>1. PICK i \in 1..Len(req) : i = k + s /\ req[i].read
    BY <1>3, <1>10
  <2>2. \A j \in 1..Len(req') : req'[j].read => j = k
    <3>1. \A j \in 1..Len(req') : req'[j].read => j + s = k + s
      BY <1>3, <1>7, <2>1
    <3> QED BY <1>3, <3>1
  <2>3. x => ~req[1].read
    <3>1. x => i # 1
      BY <1>3, <2>1
    <3> QED BY <1>2, <1>7, <2>1, <3>1
  <2>4. \A l \in P!Local : mem'[l].read => mem'[l].beats = 0
    BY <1>6, <1>7, <2>1, <2>3
  <2> QED BY <1>5, <1>7, <1>8, <2>1, <2>2, <2>4
<1>11. ASSUME NEW l \in P!Local, mem'[l].read /\ mem'[l].beats # 0
       PROVE  /\ \A m \in P!Local : mem'[m].read /\ mem'[m].beats # 0 => m = l
              /\ \A j \in 1..Len(r') : ~r'[j].last
              /\ \A j \in 1..Len(rsp') : rsp'[j].read => ~rsp'[j].last
  <2>1. CASE x /\ l = turn
    <3>1. /\ \A m \in P!Local : mem[m].read => mem[m].beats = 0
          /\ r = <<>>
          /\ \A j \in 1..Len(rsp) : ~rsp[j].read
      BY <1>2, <1>6, <1>7, <1>11, <2>1
    <3>2. \A m \in P!Local : mem'[m].read /\ mem'[m].beats # 0 => m = l
      BY <1>6, <2>1, <3>1
    <3>3. \A j \in 1..Len(r') : ~r'[j].last
      BY <1>8, <3>1
    <3>4. \A j \in 1..Len(rsp') : rsp'[j].read => ~rsp'[j].last
      BY <1>5, <1>8, <3>1
    <3> QED BY <3>2, <3>3, <3>4
  <2>2. CASE ~(x /\ l = turn)
    <3>1. mem[l].read /\ mem[l].beats # 0
      BY <1>6, <1>11, <2>2
    <3>2. /\ \A m \in P!Local : mem[m].read /\ mem[m].beats # 0 => m = l
          /\ \A j \in 1..Len(r) : ~r[j].last
          /\ \A j \in 1..Len(rsp) : rsp[j].read => ~rsp[j].last
      BY <1>7, <3>1
    <3>3. x => ~req[1].read
      BY <1>2, <1>7, <3>1
    <3>4. \A m \in P!Local : mem'[m].read /\ mem'[m].beats # 0 => m = l
      BY <1>6, <3>2, <3>3
    <3>5. \A j \in 1..Len(r') : ~r'[j].last
      BY <1>4, <3>2
    <3>6. gr => ~a.last
      BY <1>2, <3>2
    <3>7. \A j \in 1..Len(rsp') : rsp'[j].read => ~rsp'[j].last
      BY <1>5, <3>2, <3>6
    <3> QED BY <3>4, <3>5, <3>7
  <2> QED BY <2>1, <2>2
<1>12. \A j, k \in 1..Len(r') : j < k => ~r'[j].last
  <2> SUFFICES ASSUME NEW j \in 1..Len(r'), NEW k \in 1..Len(r'), j < k PROVE ~r'[j].last
    OBVIOUS
  <2>1. j + t < k + t
    BY <1>4
  <2> QED BY <1>4, <1>7, <2>1
<1>13. r' # <<>> => \A j \in 1..Len(rsp') : rsp'[j].read => ~rsp'[j].last
  <2> SUFFICES ASSUME r' # <<>> PROVE \A j \in 1..Len(rsp') : rsp'[j].read => ~rsp'[j].last
    OBVIOUS
  <2>1. \A j \in 1..Len(rsp) : rsp[j].read => ~rsp[j].last
    BY <1>7, <1>8
  <2>2. gr => ~a.last
    <3> SUFFICES ASSUME gr PROVE ~a.last
      OBVIOUS
    <3>1. Len(r') # 0
      <4>1. r' \in Seq(Locals)
        BY <1>1, <1>2, HeadTailProperties DEF Taking
      <4> QED BY <4>1, EmptySeq
    <3>2. 2 \in 1..Len(r) /\ 1 \in 1..Len(r)
      BY <1>1, <1>4, <3>1
    <3> QED BY <1>2, <1>7, <3>2
  <2> QED BY <1>5, <2>1, <2>2
<1>14. \A j, k \in 1..Len(rsp') : j < k /\ rsp'[j].read /\ rsp'[k].read => ~rsp'[j].last
  <2> SUFFICES ASSUME NEW j \in 1..Len(rsp'), NEW k \in 1..Len(rsp'), j < k,
                      rsp'[j].read, rsp'[k].read
               PROVE  ~rsp'[j].last
    OBVIOUS
  <2>1. j \in 1..Len(rsp) /\ rsp'[j] = rsp[j]
    <3>1. k <= Len(rsp) + 1 /\ k \in Int /\ j \in Int
      BY <1>1, <1>5
    <3>2. j # Len(rsp) + 1
      BY <1>1, <3>1
    <3> QED BY <1>5, <3>2
  <2>2. CASE k \in 1..Len(rsp) /\ rsp'[k] = rsp[k]
    BY <1>7, <2>1, <2>2
  <2>3. CASE gr
    BY <1>2, <1>7, <2>1, <2>3
  <2> QED BY <1>5, <2>2, <2>3
<1> QED BY <1>9, <1>10, <1>11, <1>12, <1>13, <1>14 DEF OneRead

LEMMA PerStep ==
  ASSUME ExitInv, NEW room \in BOOLEAN, PerCycle(room)
  PROVE  ExitInv'
<1>1. ExitTypeOK /\ HostInv /\ Held /\ OneRead /\ Balance
  BY KeptIsBalance DEF ExitInv
<1>2. PICK x, gb, gr, a, home : PerMoves(x, gb, gr, a, home)
  <2>1. PerMoves(P!Taken(room), P!GoB, P!GoR, P!Answer, P!Home)
    BY <1>1, PerParts
  <2> QED BY <2>1
<1>3. ExitTypeOK' /\ Held' /\ OneRead'
  BY <1>1, <1>2, PerType, PerHeld, PerRead
<1>4. UNCHANGED <<vars, asks, reading>>
  BY DEF PerCycle
<1>5. HostInv' /\ net' = net
  BY <1>1, <1>4, SameVars
<1>6. Balance'
  <2> SUFFICES ASSUME NEW n \in Nodes, NEW i \in Ids, NEW d \in BOOLEAN
               PROVE  Entering(n, i, d)' + Leaving(n, i, d)' = Due(n, i, d)'
    BY DEF Balance
  <2>1. Entering(n, i, d)' = Entering(n, i, d)
    BY <1>1, <1>2, PerIn
  <2>2. Leaving(n, i, d)' = Leaving(n, i, d)
    BY <1>1, <1>2, PerOut
  <2>3. Due(n, i, d)' = Due(n, i, d)
    BY <1>4, <1>5 DEF Due
  <2> QED BY <1>1, <2>1, <2>2, <2>3 DEF Balance
<1>7. PacketsKept'
  BY <1>3, <1>6, KeptIsBalanceNext
<1> QED BY <1>3, <1>5, <1>7 DEF ExitInv

-----------------------------------------------------------------------------
(* The peripheral answers a beat.                                          *)
ServeMoves(l, beat) ==
  /\ l \in P!Local /\ mem[l].beats \in 1..2 /\ mem[l].read \in BOOLEAN
  /\ beat \in Locals /\ beat.id = l /\ (beat.last => mem[l].beats = 1)
  /\ mem[l].read => Len(r) < 2
  /\ ~mem[l].read => Len(b) < 2
  /\ b' = b \o Item(~mem[l].read, beat) /\ r' = r \o Item(mem[l].read, beat)
  /\ mem' \in [P!Local -> Access]
  /\ \A m \in P!Local : m # l => mem'[m] = mem[m]
  /\ mem'[l].read = mem[l].read /\ mem'[l].beats = mem[l].beats - 1
  /\ UNCHANGED <<vars, req, from, oid, turn, busy, rsp, asks, reading>>

LEMMA ServeParts ==
  ASSUME ExitTypeOK, NEW l \in P!Local, NEW fail \in BOOLEAN, Serve(l, fail)
  PROVE  ServeMoves(l, [id |-> l, last |-> mem[l].beats = 1, fail |-> fail])
<1> DEFINE beat == [id |-> l, last |-> mem[l].beats = 1, fail |-> fail]
           read == mem[l].read
<1>1. /\ b \in Seq(Locals) /\ r \in Seq(Locals) /\ mem \in [P!Local -> Access]
      /\ mem[l].beats \in 0..2 /\ read \in BOOLEAN
  BY ExitFacts
<1>2. mem[l].beats \in 1..2
  BY <1>1 DEF Serve
<1>3. beat \in Locals
  BY DEF Locals
<1>4. beat.id = l /\ (beat.last => mem[l].beats = 1)
  OBVIOUS
<1> HIDE DEF beat
<1>5. /\ read => Len(r) < 2 /\ r' = Append(r, beat) /\ b' = b
      /\ ~read => Len(b) < 2 /\ b' = Append(b, beat) /\ r' = r
  BY DEF Serve, Room, beat
<1>6. b' = b \o Item(~read, beat) /\ r' = r \o Item(read, beat)
  <2>1. /\ Append(b, beat) = b \o <<beat>> /\ Append(r, beat) = r \o <<beat>>
        /\ b \o <<>> = b /\ r \o <<>> = r
    BY <1>1, <1>3, AppendIsConcat, ConcatEmptySeq
  <2> QED BY <1>5, <2>1 DEF Item
<1>7. mem' = [mem EXCEPT ![l].beats = @ - 1]
  BY DEF Serve
<1>8. /\ mem' \in [P!Local -> Access]
      /\ \A m \in P!Local : m # l => mem'[m] = mem[m]
      /\ mem'[l].read = mem[l].read /\ mem'[l].beats = mem[l].beats - 1
  <2>1. mem[l] \in Access
    BY <1>1
  <2>2. [mem[l] EXCEPT !.beats = @ - 1] \in Access
    BY <1>2, <2>1 DEF Access
  <2> QED BY <1>1, <1>7, <2>1, <2>2 DEF Access
<1>9. UNCHANGED <<vars, req, from, oid, turn, busy, rsp, asks, reading>>
  BY DEF Serve
<1> QED BY <1>1, <1>2, <1>3, <1>4, <1>5, <1>6, <1>8, <1>9 DEF ServeMoves, beat

LEMMA ServeType ==
  ASSUME ExitTypeOK, NEW l, NEW beat, ServeMoves(l, beat)
  PROVE  ExitTypeOK'
<1>1. Shape /\ Len(b) \in Nat /\ Len(r) \in Nat
  BY ExitFacts DEF Shape
<1>2. b' \in Seq(Locals) /\ Len(b') <= 2
  <2>1. PICK y \in BOOLEAN : y = ~mem[l].read
    OBVIOUS
  <2>2. b' = b \o Item(y, beat) /\ (y => Len(b) < 2) /\ beat \in Locals
    BY <2>1 DEF ServeMoves
  <2>3. Len(b') = Len(b) + Bit(y) /\ b' \in Seq(Locals)
    BY <1>1, <2>2, Put DEF Shape
  <2> QED BY <1>1, <2>2, <2>3 DEF Bit, Shape
<1>3. r' \in Seq(Locals) /\ Len(r') <= 2
  <2>1. PICK y \in BOOLEAN : y = mem[l].read
    BY DEF ServeMoves
  <2>2. r' = r \o Item(y, beat) /\ (y => Len(r) < 2) /\ beat \in Locals
    BY <2>1 DEF ServeMoves
  <2>3. Len(r') = Len(r) + Bit(y) /\ r' \in Seq(Locals)
    BY <1>1, <2>2, Put DEF Shape
  <2> QED BY <1>1, <2>2, <2>3 DEF Bit, Shape
<1>4. TypeOK'
  BY <1>1, SameVars DEF ServeMoves, Shape
<1>5. Shape'
  BY <1>1, <1>2, <1>3, <1>4 DEF Shape, ServeMoves
<1> QED BY <1>5, ShapeIsTypeNext

LEMMA ServeEntries ==
  ASSUME ExitTypeOK, NEW l, NEW beat, ServeMoves(l, beat)
  PROVE  /\ Len(b) \in Nat /\ Len(r) \in Nat /\ Len(b') \in Nat /\ Len(r') \in Nat
         /\ \A k \in 1..Len(b') :
              \/ k \in 1..Len(b) /\ b'[k] = b[k]
              \/ ~mem[l].read /\ k = Len(b) + 1 /\ b'[k] = beat
         /\ \A k \in 1..Len(r') :
              \/ k \in 1..Len(r) /\ r'[k] = r[k]
              \/ mem[l].read /\ k = Len(r) + 1 /\ r'[k] = beat
         /\ ~mem[l].read => r' = r
<1>1. b \in Seq(Locals) /\ r \in Seq(Locals) /\ Len(b) \in Nat /\ Len(r) \in Nat
  BY ExitFacts
<1>2. PICK y \in BOOLEAN, z \in BOOLEAN : y = ~mem[l].read /\ z = mem[l].read
  BY DEF ServeMoves
<1>3. b' = b \o Item(y, beat) /\ r' = r \o Item(z, beat) /\ beat \in Locals
  BY <1>2 DEF ServeMoves
<1>4. /\ Len(b') \in Nat
      /\ \A k \in 1..Len(b') : \/ k \in 1..Len(b) /\ b'[k] = b[k]
                               \/ y /\ k = Len(b) + 1 /\ b'[k] = beat
  BY <1>1, <1>3, Grown
<1>5. /\ Len(r') \in Nat
      /\ \A k \in 1..Len(r') : \/ k \in 1..Len(r) /\ r'[k] = r[k]
                               \/ z /\ k = Len(r) + 1 /\ r'[k] = beat
  BY <1>1, <1>3, Grown
<1>6. ~z => r' = r
  BY <1>1, <1>3, ConcatEmptySeq DEF Item
<1> QED BY <1>1, <1>2, <1>4, <1>5, <1>6

LEMMA ServeHeld ==
  ASSUME ExitTypeOK, Held, NEW l, NEW beat, ServeMoves(l, beat)
  PROVE  Held'
<1>1. /\ l \in P!Local /\ mem[l].beats \in 1..2
      /\ beat.id = l /\ (beat.last => mem[l].beats = 1)
      /\ \A m \in P!Local : m # l => mem'[m] = mem[m]
      /\ mem'[l].read = mem[l].read /\ mem'[l].beats = mem[l].beats - 1
      /\ req' = req /\ busy' = busy /\ busy \subseteq P!Local
  BY ExitFacts DEF ServeMoves
<1>2. \A m \in P!Local : mem[m].beats \in 0..2
  BY ExitFacts
<1>3. /\ Len(b) \in Nat /\ Len(r) \in Nat /\ Len(b') \in Nat /\ Len(r') \in Nat
      /\ \A k \in 1..Len(b') :
           \/ k \in 1..Len(b) /\ b'[k] = b[k]
           \/ ~mem[l].read /\ k = Len(b) + 1 /\ b'[k] = beat
      /\ \A k \in 1..Len(r') :
           \/ k \in 1..Len(r) /\ r'[k] = r[k]
           \/ mem[l].read /\ k = Len(r) + 1 /\ r'[k] = beat
  BY ServeEntries
<1>4. /\ \A m \in P!Local : mem[m].beats # 0 => m \in busy
      /\ \A m \in P!Local : ~mem[m].read => mem[m].beats <= 1
      /\ \A k \in 1..Len(req) : ~req[k].read => req[k].beats = 1
      /\ \A k \in 1..Len(b) :
           b[k].id \in busy /\ ~mem[b[k].id].read /\ mem[b[k].id].beats = 0
      /\ \A k \in 1..Len(r) :
           r[k].id \in busy /\ mem[r[k].id].read /\ (r[k].last => mem[r[k].id].beats = 0)
      /\ \A j, k \in 1..Len(b) : b[j].id = b[k].id => j = k
      /\ \A j, k \in 1..Len(r) : j < k /\ r[j].id = r[k].id => ~r[j].last
  BY DEF Held
<1>5. /\ \A k \in 1..Len(b) : b[k].id # l
      /\ \A k \in 1..Len(r) : r[k].last => r[k].id # l
  BY <1>1, <1>4
<1>6. \A m \in P!Local : mem'[m].beats # 0 => m \in busy'
  BY <1>1, <1>2, <1>4
<1>7. \A m \in P!Local : ~mem'[m].read => mem'[m].beats <= 1
  BY <1>1, <1>2, <1>4
<1>8. \A k \in 1..Len(req') : ~req'[k].read => req'[k].beats = 1
  BY <1>1, <1>4
<1>9. ASSUME NEW k \in 1..Len(b')
      PROVE  b'[k].id \in busy' /\ ~mem'[b'[k].id].read /\ mem'[b'[k].id].beats = 0
  <2>1. CASE k \in 1..Len(b) /\ b'[k] = b[k]
    <3>1. b[k].id \in P!Local /\ b[k].id # l
      BY <1>1, <1>4, <1>5, <2>1
    <3> QED BY <1>1, <1>4, <2>1, <3>1
  <2>2. CASE ~mem[l].read /\ b'[k] = beat
    BY <1>1, <1>4, <2>2
  <2> QED BY <1>3, <2>1, <2>2
<1>10. ASSUME NEW k \in 1..Len(r')
       PROVE  /\ r'[k].id \in busy' /\ mem'[r'[k].id].read
              /\ r'[k].last => mem'[r'[k].id].beats = 0
  <2>1. CASE k \in 1..Len(r) /\ r'[k] = r[k]
    <3>1. PICK m \in P!Local : m = r[k].id
      BY <1>1, <1>4, <2>1
    <3>2. m \in busy /\ mem[m].read /\ (r[k].last => m # l /\ mem[m].beats = 0)
      BY <1>4, <1>5, <2>1, <3>1
    <3>3. mem'[m].read /\ (m # l => mem'[m].beats = mem[m].beats)
      BY <1>1, <3>2
    <3>4. r'[k].id = m /\ r'[k].id \in busy'
      BY <1>1, <2>1, <3>1, <3>2
    <3>5. r'[k].last => mem'[m].beats = 0
      BY <2>1, <3>2, <3>3
    <3> QED BY <3>3, <3>4, <3>5
  <2>2. CASE mem[l].read /\ r'[k] = beat
    <3>1. r'[k].id = l /\ l \in busy'
      BY <1>1, <1>4, <2>2
    <3>2. mem'[l].read
      BY <1>1, <2>2
    <3>3. r'[k].last => mem'[l].beats = 0
      BY <1>1, <2>2
    <3> QED BY <3>1, <3>2, <3>3
  <2> QED BY <1>3, <2>1, <2>2
<1>11. \A j, k \in 1..Len(b') : b'[j].id = b'[k].id => j = k
  BY <1>1, <1>3, <1>4, <1>5
<1>12. \A j, k \in 1..Len(r') : j < k /\ r'[j].id = r'[k].id => ~r'[j].last
  <2> SUFFICES ASSUME NEW j \in 1..Len(r'), NEW k \in 1..Len(r'), j < k,
                      r'[j].id = r'[k].id
               PROVE  ~r'[j].last
    OBVIOUS
  <2>1. j \in 1..Len(r) /\ r'[j] = r[j]
    <3>1. k <= Len(r) + 1 /\ k \in Int /\ j \in Int
      BY <1>3
    <3> QED BY <1>3, <3>1
  <2>2. CASE k \in 1..Len(r) /\ r'[k] = r[k]
    BY <1>4, <2>1, <2>2
  <2>3. CASE r'[k] = beat
    BY <1>1, <1>5, <2>1, <2>3
  <2> QED BY <1>3, <2>2, <2>3
<1> QED BY <1>6, <1>7, <1>8, <1>9, <1>10, <1>11, <1>12 DEF Held

LEMMA ServeRead ==
  ASSUME ExitTypeOK, OneRead, NEW l, NEW beat, ServeMoves(l, beat)
  PROVE  OneRead'
<1>1. /\ l \in P!Local /\ mem[l].beats \in 1..2
      /\ (beat.last => mem[l].beats = 1)
      /\ \A m \in P!Local : m # l => mem'[m] = mem[m]
      /\ mem'[l].read = mem[l].read /\ mem'[l].beats = mem[l].beats - 1
      /\ req' = req /\ rsp' = rsp /\ asks' = asks /\ reading' = reading
  BY DEF ServeMoves
<1>2. /\ Len(r) \in Nat /\ Len(r') \in Nat
      /\ \A k \in 1..Len(r') :
           \/ k \in 1..Len(r) /\ r'[k] = r[k]
           \/ mem[l].read /\ k = Len(r) + 1 /\ r'[k] = beat
      /\ ~mem[l].read => r' = r
  BY ServeEntries
<1>3. \A m \in P!Local : mem'[m].read /\ mem'[m].beats # 0 =>
        /\ mem[m].read /\ mem[m].beats # 0
        /\ m = l => mem[l].beats # 1
  <2> SUFFICES ASSUME NEW m \in P!Local, mem'[m].read, mem'[m].beats # 0
               PROVE  /\ mem[m].read /\ mem[m].beats # 0
                      /\ m = l => mem[l].beats # 1
    OBVIOUS
  <2>1. CASE m = l
    <3>1. mem[m].read
      BY <1>1, <2>1
    <3> QED BY <1>1, <2>1, <3>1
  <2>2. CASE m # l
    BY <1>1, <2>2
  <2> QED BY <2>1, <2>2
<1>4. /\ \A k \in 1..Len(req) : req[k].read =>
           /\ \A j \in 1..Len(req) : req[j].read => j = k
           /\ \A m \in P!Local : mem[m].read => mem[m].beats = 0
           /\ r = <<>>
           /\ \A j \in 1..Len(rsp) : ~rsp[j].read
      /\ \A k \in P!Local : mem[k].read /\ mem[k].beats # 0 =>
           /\ \A m \in P!Local : mem[m].read /\ mem[m].beats # 0 => m = k
           /\ \A j \in 1..Len(r) : ~r[j].last
           /\ \A j \in 1..Len(rsp) : rsp[j].read => ~rsp[j].last
      /\ \A j, k \in 1..Len(r) : j < k => ~r[j].last
      /\ r # <<>> => \A j \in 1..Len(rsp) : rsp[j].read => ~rsp[j].last
      /\ \A j, k \in 1..Len(rsp) : j < k /\ rsp[j].read /\ rsp[k].read => ~rsp[j].last
  BY DEF OneRead
<1>5. mem[l].read =>
        /\ \A j \in 1..Len(r) : ~r[j].last
        /\ \A j \in 1..Len(rsp) : rsp[j].read => ~rsp[j].last
  BY <1>1, <1>4
<1>6. asks' => reading' # 0
  BY <1>1 DEF OneRead
<1>7. ASSUME NEW k \in 1..Len(req'), req'[k].read
      PROVE  /\ \A j \in 1..Len(req') : req'[j].read => j = k
             /\ \A m \in P!Local : mem'[m].read => mem'[m].beats = 0
             /\ r' = <<>>
             /\ \A j \in 1..Len(rsp') : ~rsp'[j].read
  <2>1. /\ \A j \in 1..Len(req) : req[j].read => j = k
        /\ \A m \in P!Local : mem[m].read => mem[m].beats = 0
        /\ r = <<>>
        /\ \A j \in 1..Len(rsp) : ~rsp[j].read
    BY <1>1, <1>4, <1>7
  <2>2. ~mem[l].read
    BY <1>1, <2>1
  <2> QED BY <1>1, <1>2, <1>3, <2>1, <2>2
<1>8. ASSUME NEW k \in P!Local, mem'[k].read /\ mem'[k].beats # 0
      PROVE  /\ \A m \in P!Local : mem'[m].read /\ mem'[m].beats # 0 => m = k
             /\ \A j \in 1..Len(r') : ~r'[j].last
             /\ \A j \in 1..Len(rsp') : rsp'[j].read => ~rsp'[j].last
  <2>1. mem[k].read /\ mem[k].beats # 0 /\ (k = l => mem[l].beats # 1)
    BY <1>3, <1>8
  <2>2. /\ \A m \in P!Local : mem[m].read /\ mem[m].beats # 0 => m = k
        /\ \A j \in 1..Len(r) : ~r[j].last
        /\ \A j \in 1..Len(rsp) : rsp[j].read => ~rsp[j].last
    BY <1>4, <2>1
  <2>3. \A m \in P!Local : mem'[m].read /\ mem'[m].beats # 0 => m = k
    BY <1>3, <2>2
  <2>4. mem[l].read => ~beat.last
    BY <1>1, <2>1, <2>2
  <2>5. \A j \in 1..Len(r') : ~r'[j].last
    BY <1>2, <2>2, <2>4
  <2> QED BY <1>1, <2>2, <2>3, <2>5
<1>9. \A j, k \in 1..Len(r') : j < k => ~r'[j].last
  <2> SUFFICES ASSUME NEW j \in 1..Len(r'), NEW k \in 1..Len(r'), j < k
               PROVE  ~r'[j].last
    OBVIOUS
  <2>1. j \in 1..Len(r) /\ r'[j] = r[j]
    <3>1. k <= Len(r) + 1 /\ k \in Int /\ j \in Int
      BY <1>2
    <3> QED BY <1>2, <3>1
  <2> QED BY <1>2, <1>4, <1>5, <2>1
<1>10. r' # <<>> => \A j \in 1..Len(rsp') : rsp'[j].read => ~rsp'[j].last
  BY <1>1, <1>2, <1>4, <1>5
<1>11. \A j, k \in 1..Len(rsp') : j < k /\ rsp'[j].read /\ rsp'[k].read => ~rsp'[j].last
  BY <1>1, <1>4
<1> QED BY <1>6, <1>7, <1>8, <1>9, <1>10, <1>11 DEF OneRead

(* What it had to answer for a node is now an answer that leads there.     *)
LEMMA ServeBalance ==
  ASSUME ExitTypeOK, NEW l, NEW beat, ServeMoves(l, beat),
         NEW n \in Nodes, NEW i \in Ids, NEW d \in BOOLEAN
  PROVE  Entering(n, i, d)' + Leaving(n, i, d)' = Entering(n, i, d) + Leaving(n, i, d)
<1> DEFINE led == from[l] = n /\ oid[l] = i
           same == mem[l].read = d
           p1 == led /\ same /\ mem[l].beats = 1
           p2 == led /\ same /\ mem[l].beats = 2
           go == IF d THEN mem[l].read ELSE ~mem[l].read
           c == IF d THEN r ELSE b
           q1 == Hits(req, Asked(n, i, d))  q2 == Hits(req, Twice(n, i, d))
           h1 == Holds(n, i, d, 1)          h2 == Holds(n, i, d, 2)
           c1 == Cardinality(h1)            c2 == Cardinality(h2)
           o1 == Hits(c, Led(n, i))         o2 == Hits(rsp, Replied(n, i, d))
<1>1. /\ l \in P!Local /\ mem[l].beats \in 1..2 /\ mem[l].read \in BOOLEAN
      /\ beat \in Locals /\ beat.id = l
      /\ b' = b \o Item(~mem[l].read, beat) /\ r' = r \o Item(mem[l].read, beat)
      /\ \A m \in P!Local : m # l => mem'[m] = mem[m]
      /\ mem'[l].read = mem[l].read /\ mem'[l].beats = mem[l].beats - 1
      /\ req' = req /\ from' = from /\ oid' = oid /\ rsp' = rsp
  BY DEF ServeMoves
<1>2. /\ b \in Seq(Locals) /\ r \in Seq(Locals) /\ Len(b) \in Nat /\ Len(r) \in Nat
      /\ req \in Seq(Requests) /\ rsp \in Seq(Replies)
  BY ExitFacts
<1>3. q1' = q1 /\ q2' = q2 /\ o2' = o2
  BY <1>1 DEF Asked, Twice, Replied
<1>4. h1 = IF p1 THEN h1' \cup {l} ELSE h1'
  <2>1. l \in h1 <=> led /\ same
    BY <1>1 DEF Holds
  <2>2. l \in h1' <=> led /\ same /\ mem[l].beats = 2
    BY <1>1 DEF Holds
  <2>3. \A m : m # l => (m \in h1' <=> m \in h1)
    BY <1>1 DEF Holds
  <2>4. l \in h1 <=> p1 \/ l \in h1'
    BY <1>1, <2>1, <2>2
  <2> HIDE DEF h1, p1
  <2>5. p1 => \A m : m \in h1 <=> m \in h1' \cup {l}
    BY <2>3, <2>4
  <2>6. ~p1 => \A m : m \in h1 <=> m \in h1'
    BY <2>3, <2>4
  <2> QED BY <2>5, <2>6
<1>5. h2 = IF p2 THEN h2' \cup {l} ELSE h2'
  <2>1. l \in h2 <=> led /\ same /\ mem[l].beats = 2
    BY <1>1 DEF Holds
  <2>2. l \notin h2'
    BY <1>1 DEF Holds
  <2>3. \A m : m # l => (m \in h2' <=> m \in h2)
    BY <1>1 DEF Holds
  <2>4. l \in h2 <=> p2 \/ l \in h2'
    BY <1>1, <2>1, <2>2
  <2> HIDE DEF h2, p2
  <2>5. p2 => \A m : m \in h2 <=> m \in h2' \cup {l}
    BY <2>3, <2>4
  <2>6. ~p2 => \A m : m \in h2 <=> m \in h2'
    BY <2>3, <2>4
  <2> QED BY <2>5, <2>6
<1>6. (p1 => l \notin h1') /\ (p2 => l \notin h2')
  <2>1. p1 => ~(mem'[l].beats >= 1)
    BY <1>1
  <2>2. ~(mem'[l].beats >= 2)
    BY <1>1
  <2> QED BY <2>1, <2>2 DEF Holds
<1>7. /\ IsFiniteSet(h1) /\ IsFiniteSet(h2) /\ c1 \in Nat /\ c2 \in Nat
  BY HoldsNat
<1>8. IsFiniteSet(h1') /\ IsFiniteSet(h2')
  <2>1. h1' \subseteq h1 /\ h2' \subseteq h2
    BY <1>4, <1>5
  <2> QED BY <1>7, <2>1, FS_Subset
<1>9. c1' \in Nat /\ c2' \in Nat
  BY <1>8, FS_CardinalityType
<1>10. go \in BOOLEAN /\ c' = c \o Item(go, beat) /\ c \in Seq(Locals) /\ Len(c) \in Nat
  BY <1>1, <1>2
<1>11. o1' = o1 + Bit(go /\ beat \in Led(n, i))
  <2>1. Led(n, i)' = Led(n, i)
    BY <1>1 DEF Led
  <2> HIDE DEF go, c
  <2>2. \A S : Hits(c', S) = Hits(c, S) + Bit(go /\ beat \in S)
    BY <1>1, <1>10, Put
  <2> QED BY <2>1, <2>2
<1>12. (go /\ beat \in Led(n, i)) <=> (p1 \/ p2)
  <2>1. beat \in Led(n, i) <=> led
    BY <1>1 DEF Led
  <2>2. go <=> same
    BY <1>1
  <2>3. mem[l].beats = 1 \/ mem[l].beats = 2
    BY <1>1
  <2> HIDE DEF go, led, same
  <2> QED BY <2>1, <2>2, <2>3
<1>13. o1 \in Nat /\ o2 \in Nat /\ q1 \in Nat /\ q2 \in Nat
  <2> HIDE DEF c
  <2> QED BY <1>2, <1>10, HitsNat
<1>14. ~(p1 /\ p2)
  OBVIOUS
<1> HIDE DEF q1, q2, h1, h2, o1, o2, p1, p2, go, c
<1>15. c1 = c1' + Bit(p1)
  <2>1. CASE p1
    BY <1>4, <1>6, <1>8, <1>9, <2>1, FS_AddElement DEF Bit
  <2>2. CASE ~p1
    BY <1>4, <1>9, <2>2 DEF Bit
  <2> QED BY <2>1, <2>2
<1>16. c2 = c2' + Bit(p2)
  <2>1. CASE p2
    BY <1>5, <1>6, <1>8, <1>9, <2>1, FS_AddElement DEF Bit
  <2>2. CASE ~p2
    BY <1>5, <1>9, <2>2 DEF Bit
  <2> QED BY <2>1, <2>2
<1>17. Bit(go /\ beat \in Led(n, i)) = Bit(p1) + Bit(p2) /\ Bit(p1) \in Nat /\ Bit(p2) \in Nat
  BY <1>12, <1>14 DEF Bit
<1> HIDE DEF c1, c2
<1>18. o1' = o1 + (Bit(p1) + Bit(p2))
  BY <1>11, <1>17
<1>19. (q1' + q2' + c1' + c2') + (o1' + o2') = (q1 + q2 + c1 + c2) + (o1 + o2)
  BY <1>3, <1>7, <1>9, <1>13, <1>15, <1>16, <1>17, <1>18
<1> QED BY <1>19 DEF Entering, Leaving, q1, q2, c1, c2, h1, h2, o1, o2, c

LEMMA ServeStep ==
  ASSUME ExitInv, NEW l \in P!Local, NEW fail \in BOOLEAN, Serve(l, fail)
  PROVE  ExitInv'
<1>1. ExitTypeOK /\ HostInv /\ Held /\ OneRead /\ Balance
  BY KeptIsBalance DEF ExitInv
<1>2. PICK beat : ServeMoves(l, beat)
  <2>1. ServeMoves(l, [id |-> l, last |-> mem[l].beats = 1, fail |-> fail])
    BY <1>1, ServeParts
  <2> QED BY <2>1
<1>3. ExitTypeOK' /\ Held' /\ OneRead'
  BY <1>1, <1>2, ServeType, ServeHeld, ServeRead
<1>4. UNCHANGED <<vars, asks, reading>>
  BY <1>2 DEF ServeMoves
<1>5. HostInv' /\ net' = net
  BY <1>1, <1>4, SameVars
<1>6. Balance'
  <2> SUFFICES ASSUME NEW n \in Nodes, NEW i \in Ids, NEW d \in BOOLEAN
               PROVE  Entering(n, i, d)' + Leaving(n, i, d)' = Due(n, i, d)'
    BY DEF Balance
  <2>1. Entering(n, i, d)' + Leaving(n, i, d)' = Entering(n, i, d) + Leaving(n, i, d)
    BY <1>1, <1>2, ServeBalance
  <2>2. Due(n, i, d)' = Due(n, i, d)
    BY <1>4, <1>5 DEF Due
  <2> QED BY <1>1, <2>1, <2>2 DEF Balance
<1>7. PacketsKept'
  BY <1>3, <1>6, KeptIsBalanceNext
<1> QED BY <1>3, <1>5, <1>7 DEF ExitInv

-----------------------------------------------------------------------------
(* A cycle of the host's bridge: a write packet goes in, and an answer to  *)
(* one is taken.                                                           *)
HostMoves(go, p, took) ==
  /\ go \in BOOLEAN /\ took \in BOOLEAN
  /\ go => /\ p \in Requests /\ p.node = 0 /\ ~p.read /\ p.beats = 1
           /\ Len(req) < 2
  /\ took => rsp # <<>> /\ rsp[1].node = 0 /\ 1 \in 1..Len(rsp)
  /\ req' = req \o Item(go, p) /\ rsp' = Taking(rsp, took)
  /\ net' = [d \in Ids |-> net[d] + (IF go /\ d = p.id THEN 1 ELSE 0)
                             - (IF took /\ rsp[1].id = d THEN 1 ELSE 0)]
  /\ UNCHANGED <<from, oid, turn, busy, b, r, mem, asks, reading>>

LEMMA HostAnswers ==
  ASSUME ExitTypeOK, Balance, NEW ans \in {{}, Arrived}
  PROVE  /\ Answering(ans)
         /\ ans # {} => /\ rsp # <<>> /\ rsp[1].node = 0 /\ 1 \in 1..Len(rsp)
                        /\ \A d : (\E a \in ans : a.id = d) <=> rsp[1].id = d
<1>1. rsp \in Seq(Replies)
  BY ExitFacts
<1>2. CASE ans = {}
  BY <1>2 DEF Answering
<1>3. CASE ans # {}
  <2>1. /\ rsp # <<>> /\ Head(rsp).node = 0
        /\ ans = {[id |-> Head(rsp).id, fail |-> Head(rsp).fail]}
    BY <1>3 DEF Arrived, Offered
  <2>2. Head(rsp) = rsp[1] /\ 1 \in 1..Len(rsp)
    BY <1>1, <2>1, EmptySeq, HeadTailProperties
  <2>3. rsp[1].id \in Ids /\ rsp[1].fail \in BOOLEAN
    <3>1. rsp[1] \in Replies
      BY <2>2, ExitFacts
    <3> QED BY <3>1 DEF Replies
  <2>4. net[rsp[1].id] # 0
    BY <2>1, <2>2, Whose
  <2>5. PICK i \in Ids, f \in BOOLEAN : i = rsp[1].id /\ f = rsp[1].fail
    BY <2>3
  <2>6. ans = {[id |-> i, fail |-> f]}
    BY <2>1, <2>2, <2>5
  <2>7. Answering(ans)
    BY <2>4, <2>5, <2>6 DEF Answering
  <2>8. \A d : (\E a \in ans : a.id = d) <=> rsp[1].id = d
    BY <2>5, <2>6
  <2> QED BY <2>1, <2>2, <2>7, <2>8
<1> QED BY <1>2, <1>3

LEMMA HostParts ==
  ASSUME ExitTypeOK, HostInv, Balance, NEW here \in BOOLEAN, NEW broom \in BOOLEAN,
         NEW ans \in {{}, Arrived}, HostCycle(here, ans, broom)
  PROVE  \E go, p, took : HostMoves(go, p, took)
<1> DEFINE room == Room(req)
<1>1. Cycle(here, room, ans, broom)
  BY DEF HostCycle
<1>2. PICK go \in BOOLEAN : go <=> GoW(here, room)
  OBVIOUS
<1>3. PICK took \in BOOLEAN : took <=> Taken(ans, broom)
  OBVIOUS
<1>4. PICK p : p = Request(0, PacketId, FALSE, 1)
  OBVIOUS
<1>5. go => /\ p \in Requests /\ p.node = 0 /\ ~p.read /\ p.beats = 1
            /\ Len(req) < 2
  <2> SUFFICES ASSUME go PROVE PacketId \in Ids /\ Len(req) < 2
    BY <1>4 DEF Request, Requests, Nodes
  <2>1. room /\ (splitting \/ offered)
    BY <1>2 DEF GoW, First, More
  <2>2. offered => aw[1].id \in Ids
    <3>1. aw # <<>> => 1 \in 1..Len(aw)
      BY HostFacts, EmptySeq
    <3> QED BY <3>1, HostFacts DEF offered
  <2>3. PacketId \in Ids
    BY <2>1, <2>2, HostFacts DEF PacketId
  <2> QED BY <2>1, <2>3 DEF Room
<1>6. /\ took => rsp # <<>> /\ rsp[1].node = 0 /\ 1 \in 1..Len(rsp)
      /\ \A d : (took /\ \E a \in ans : a.id = d) <=> (took /\ rsp[1].id = d)
  <2>1. took => ans # {}
    BY <1>3 DEF Taken, ToB, Merge, Mine
  <2> QED BY <2>1, HostAnswers
<1>7. req' = req \o Item(go, p) /\ rsp' = Taking(rsp, took)
  <2>1. /\ req' = req \o Item(GoW(here, room), Request(0, PacketId, FALSE, 1))
        /\ rsp' = IF Taken(ans, broom) THEN Tail(rsp) ELSE rsp
    BY DEF HostCycle
  <2> HIDE DEF room
  <2>2. Item(GoW(here, room), Request(0, PacketId, FALSE, 1)) = Item(go, p)
    BY <1>2, <1>4 DEF Item
  <2>3. Taking(rsp, took) = IF Taken(ans, broom) THEN Tail(rsp) ELSE rsp
    BY <1>3 DEF Taking
  <2> QED BY <2>1, <2>2, <2>3
<1>8. net' = [d \in Ids |-> net[d] + (IF go /\ d = p.id THEN 1 ELSE 0)
                              - (IF took /\ rsp[1].id = d THEN 1 ELSE 0)]
  <2>1. net' = [d \in Ids |->
          net[d] + (IF GoW(here, room) /\ d = PacketId THEN 1 ELSE 0)
                 - (IF Taken(ans, broom) /\ \E a \in ans : a.id = d THEN 1 ELSE 0)]
    BY <1>1 DEF Cycle
  <2> HIDE DEF room
  <2>2. ASSUME NEW d \in Ids
        PROVE  /\ (IF GoW(here, room) /\ d = PacketId THEN 1 ELSE 0)
                    = (IF go /\ d = p.id THEN 1 ELSE 0)
               /\ (IF Taken(ans, broom) /\ \E a \in ans : a.id = d THEN 1 ELSE 0)
                    = (IF took /\ rsp[1].id = d THEN 1 ELSE 0)
    <3>1. p.id = PacketId
      BY <1>4 DEF Request
    <3> QED BY <1>2, <1>3, <1>6, <3>1
  <2> QED BY <2>1, <2>2
<1>9. UNCHANGED <<from, oid, turn, busy, b, r, mem, asks, reading>>
  BY DEF HostCycle
<1>10. HostMoves(go, p, took)
  BY <1>5, <1>6, <1>7, <1>8, <1>9 DEF HostMoves
<1> QED BY <1>10

LEMMA HostType ==
  ASSUME ExitTypeOK, HostInv', NEW go, NEW p, NEW took, HostMoves(go, p, took)
  PROVE  ExitTypeOK'
<1>1. Shape /\ Len(req) \in Nat /\ Len(rsp) \in Nat
  BY ExitFacts DEF Shape
<1>2. req' \in Seq(Requests) /\ Len(req') <= 2
  <2>1. /\ go \in BOOLEAN /\ (go => p \in Requests /\ Len(req) < 2)
        /\ req' = req \o Item(go, p)
    BY DEF HostMoves
  <2>2. Len(req') = Len(req) + Bit(go) /\ req' \in Seq(Requests)
    BY <1>1, <2>1, Put DEF Shape
  <2> QED BY <1>1, <2>1, <2>2 DEF Bit, Shape
<1>3. rsp' \in Seq(Replies) /\ Len(rsp') <= 2
  <2>1. took \in BOOLEAN /\ (took => rsp # <<>>) /\ rsp' = Taking(rsp, took)
    BY DEF HostMoves
  <2>2. Len(rsp') = Len(rsp) - Bit(took) /\ rsp' \in Seq(Replies)
    BY <1>1, <2>1, Take DEF Shape
  <2> QED BY <1>1, <2>1, <2>2 DEF Bit, Shape
<1>4. TypeOK'
  BY DEF HostInv
<1>5. Shape'
  BY <1>1, <1>2, <1>3, <1>4 DEF Shape, HostMoves
<1> QED BY <1>5, ShapeIsTypeNext

LEMMA HostEntries ==
  ASSUME ExitTypeOK, NEW go, NEW p, NEW took, HostMoves(go, p, took)
  PROVE  /\ \A k \in 1..Len(req') :
              \/ k \in 1..Len(req) /\ req'[k] = req[k]
              \/ ~req'[k].read /\ req'[k].beats = 1
         /\ \E t \in 0..1 :
              /\ Len(rsp') \in Nat
              /\ \A k \in 1..Len(rsp') : rsp'[k] = rsp[k + t] /\ k + t \in 1..Len(rsp)
<1>1. /\ req \in Seq(Requests) /\ Len(req) \in Nat
      /\ rsp \in Seq(Replies) /\ Len(rsp) \in Nat /\ Len(rsp) <= 2
  BY ExitFacts
<1>2. /\ go \in BOOLEAN /\ (go => p \in Requests)
      /\ req' = req \o Item(go, p)
  BY DEF HostMoves
<1>3. \A k \in 1..Len(req') :
        \/ k \in 1..Len(req) /\ req'[k] = req[k]
        \/ go /\ k = Len(req) + 1 /\ req'[k] = p
  BY <1>1, <1>2, Grown
<1>4. go => ~p.read /\ p.beats = 1
  BY DEF HostMoves
<1>5. took \in BOOLEAN /\ (took => rsp # <<>>) /\ rsp' = Taking(rsp, took)
  BY DEF HostMoves
<1>6. \E t \in 0..1 :
        /\ Len(rsp') \in Nat
        /\ \A k \in 1..Len(rsp') : rsp'[k] = rsp[k + t] /\ k + t \in 1..Len(rsp)
  BY <1>1, <1>5, Shifted
<1> QED BY <1>3, <1>4, <1>6

LEMMA HostHeld ==
  ASSUME ExitTypeOK, Held, NEW go, NEW p, NEW took, HostMoves(go, p, took)
  PROVE  Held'
<1>1. busy' = busy /\ mem' = mem /\ b' = b /\ r' = r
  BY DEF HostMoves
<1>2. \A k \in 1..Len(req') : ~req'[k].read => req'[k].beats = 1
  <2>1. \A k \in 1..Len(req') : \/ k \in 1..Len(req) /\ req'[k] = req[k]
                                \/ ~req'[k].read /\ req'[k].beats = 1
    BY HostEntries
  <2> QED BY <2>1 DEF Held
<1> QED BY <1>1, <1>2 DEF Held

LEMMA HostRead ==
  ASSUME ExitTypeOK, OneRead, NEW go, NEW p, NEW took, HostMoves(go, p, took)
  PROVE  OneRead'
<1>1. mem' = mem /\ r' = r /\ asks' = asks /\ reading' = reading
  BY DEF HostMoves
<1>2. \A k \in 1..Len(req') : req'[k].read => k \in 1..Len(req) /\ req'[k] = req[k]
  BY HostEntries
<1>3. PICK t \in 0..1 :
        /\ Len(rsp') \in Nat
        /\ \A k \in 1..Len(rsp') : rsp'[k] = rsp[k + t] /\ k + t \in 1..Len(rsp)
  BY HostEntries
<1>4. /\ \A k \in 1..Len(req) : req[k].read =>
           /\ \A j \in 1..Len(req) : req[j].read => j = k
           /\ \A m \in P!Local : mem[m].read => mem[m].beats = 0
           /\ r = <<>>
           /\ \A j \in 1..Len(rsp) : ~rsp[j].read
      /\ \A k \in P!Local : mem[k].read /\ mem[k].beats # 0 =>
           /\ \A m \in P!Local : mem[m].read /\ mem[m].beats # 0 => m = k
           /\ \A j \in 1..Len(r) : ~r[j].last
           /\ \A j \in 1..Len(rsp) : rsp[j].read => ~rsp[j].last
      /\ \A j, k \in 1..Len(r) : j < k => ~r[j].last
      /\ r # <<>> => \A j \in 1..Len(rsp) : rsp[j].read => ~rsp[j].last
      /\ \A j, k \in 1..Len(rsp) : j < k /\ rsp[j].read /\ rsp[k].read => ~rsp[j].last
  BY DEF OneRead
<1>5. asks' => reading' # 0
  BY <1>1 DEF OneRead
<1>6. ASSUME NEW k \in 1..Len(req'), req'[k].read
      PROVE  /\ \A j \in 1..Len(req') : req'[j].read => j = k
             /\ \A m \in P!Local : mem'[m].read => mem'[m].beats = 0
             /\ r' = <<>>
             /\ \A j \in 1..Len(rsp') : ~rsp'[j].read
  <2>1. k \in 1..Len(req) /\ req[k].read
    BY <1>2, <1>6
  <2>2. \A j \in 1..Len(req') : req'[j].read => j = k
    BY <1>2, <1>4, <2>1
  <2>3. \A j \in 1..Len(rsp') : ~rsp'[j].read
    BY <1>3, <1>4, <2>1
  <2> QED BY <1>1, <1>4, <2>1, <2>2, <2>3
<1>7. ASSUME NEW k \in P!Local, mem'[k].read /\ mem'[k].beats # 0
      PROVE  /\ \A m \in P!Local : mem'[m].read /\ mem'[m].beats # 0 => m = k
             /\ \A j \in 1..Len(r') : ~r'[j].last
             /\ \A j \in 1..Len(rsp') : rsp'[j].read => ~rsp'[j].last
  <2>1. \A j \in 1..Len(rsp) : rsp[j].read => ~rsp[j].last
    BY <1>1, <1>4, <1>7
  <2>2. \A j \in 1..Len(rsp') : rsp'[j].read => ~rsp'[j].last
    BY <1>3, <2>1
  <2> QED BY <1>1, <1>4, <1>7, <2>2
<1>8. \A j, k \in 1..Len(r') : j < k => ~r'[j].last
  BY <1>1, <1>4
<1>9. r' # <<>> => \A j \in 1..Len(rsp') : rsp'[j].read => ~rsp'[j].last
  BY <1>1, <1>3, <1>4
<1>10. \A j, k \in 1..Len(rsp') : j < k /\ rsp'[j].read /\ rsp'[k].read => ~rsp'[j].last
  <2> SUFFICES ASSUME NEW j \in 1..Len(rsp'), NEW k \in 1..Len(rsp'), j < k,
                      rsp'[j].read, rsp'[k].read
               PROVE  ~rsp'[j].last
    OBVIOUS
  <2>1. j + t < k + t
    BY <1>3
  <2> QED BY <1>3, <1>4, <2>1
<1> QED BY <1>5, <1>6, <1>7, <1>8, <1>9, <1>10 DEF OneRead

(* A packet the network has is one more on the way for the host, and an    *)
(* answer it takes one less.                                               *)
LEMMA HostBalance ==
  ASSUME ExitTypeOK, Balance, NEW go, NEW p, NEW took, HostMoves(go, p, took),
         NEW n \in Nodes, NEW i \in Ids, NEW d \in BOOLEAN
  PROVE  Entering(n, i, d)' + Leaving(n, i, d)' = Due(n, i, d)'
<1> DEFINE q1 == Hits(req, Asked(n, i, d))  q2 == Hits(req, Twice(n, i, d))
           c1 == Cardinality(Holds(n, i, d, 1))
           c2 == Cardinality(Holds(n, i, d, 2))
           o1 == Hits(IF d THEN r ELSE b, Led(n, i))
           o2 == Hits(rsp, Replied(n, i, d))
           in == go /\ n = 0 /\ ~d /\ p.id = i
           out == took /\ n = 0 /\ ~d /\ rsp[1].id = i
<1>1. /\ req \in Seq(Requests) /\ Len(req) \in Nat
      /\ rsp \in Seq(Replies) /\ Len(rsp) \in Nat /\ Len(rsp) <= 2
      /\ b \in Seq(Locals) /\ r \in Seq(Locals)
  BY ExitFacts
<1>2. /\ go \in BOOLEAN /\ took \in BOOLEAN
      /\ go => p \in Requests /\ p.node = 0 /\ ~p.read /\ p.beats = 1
      /\ took => rsp # <<>> /\ rsp[1].node = 0 /\ 1 \in 1..Len(rsp)
      /\ req' = req \o Item(go, p) /\ rsp' = Taking(rsp, took)
      /\ net' = [e \in Ids |-> net[e] + (IF go /\ e = p.id THEN 1 ELSE 0)
                                 - (IF took /\ rsp[1].id = e THEN 1 ELSE 0)]
      /\ from' = from /\ oid' = oid /\ mem' = mem /\ b' = b /\ r' = r
      /\ asks' = asks /\ reading' = reading
  BY DEF HostMoves
<1>3. q1' = q1 + Bit(in) /\ q2' = q2
  <2>1. go \in BOOLEAN /\ (go => p \in Requests) /\ req' = req \o Item(go, p)
    BY <1>2
  <2>2. \A S : Hits(req', S) = Hits(req, S) + Bit(go /\ p \in S)
    BY <1>1, <2>1, Put
  <2>3. Asked(n, i, d)' = Asked(n, i, d) /\ Twice(n, i, d)' = Twice(n, i, d)
    BY DEF Asked, Twice
  <2>4. (go /\ p \in Asked(n, i, d)) <=> in
    <3>1. go => p \in Requests /\ p.node = 0 /\ p.read = FALSE
      BY <1>2 DEF Requests
    <3>2. go => (p \in Asked(n, i, d) <=> 0 = n /\ p.id = i /\ FALSE = d)
      BY <3>1 DEF Asked
    <3> QED BY <3>2
  <2>5. ~(go /\ p \in Twice(n, i, d))
    BY <1>2 DEF Twice
  <2>6. Hits(req, Twice(n, i, d)) \in Nat
    BY <1>1, HitsNat
  <2>7. Bit(go /\ p \in Asked(n, i, d)) = Bit(in) /\ Bit(go /\ p \in Twice(n, i, d)) = 0
    BY <2>4, <2>5 DEF Bit
  <2> QED BY <2>2, <2>3, <2>6, <2>7
<1>4. o2 = o2' + Bit(out)
  <2>1. took \in BOOLEAN /\ (took => rsp # <<>>) /\ rsp' = Taking(rsp, took)
    BY <1>2
  <2>2. \A S : Hits(rsp, S) = Hits(rsp', S) + Bit(took /\ rsp[1] \in S)
    BY <1>1, <2>1, Take
  <2>3. Replied(n, i, d)' = Replied(n, i, d)
    BY DEF Replied
  <2>4. (took /\ rsp[1] \in Replied(n, i, d)) <=> out
    <3>1. took => rsp[1] \in Replies /\ rsp[1].node = 0 /\ ~rsp[1].read
      BY <1>2, ExitFacts, Whose
    <3>2. took => rsp[1].read = FALSE
      BY <3>1 DEF Replies
    <3>3. took => (rsp[1] \in Replied(n, i, d) <=> 0 = n /\ rsp[1].id = i /\ FALSE = d)
      BY <3>1, <3>2 DEF Replied
    <3> QED BY <3>3
  <2>5. Bit(took /\ rsp[1] \in Replied(n, i, d)) = Bit(out)
    BY <2>4 DEF Bit
  <2> QED BY <2>2, <2>3, <2>5
<1>5. c1' = c1 /\ c2' = c2 /\ o1' = o1
  BY <1>2 DEF Holds, Led
<1>6. /\ q1 \in Nat /\ q2 \in Nat /\ c1 \in Nat /\ c2 \in Nat /\ o1 \in Nat /\ o2 \in Nat
  <2>1. q1 \in Nat /\ q2 \in Nat /\ o2 \in Nat
    BY <1>1, HitsNat
  <2>2. c1 \in Nat /\ c2 \in Nat
    BY HoldsNat
  <2>3. o1 \in Nat
    <3> DEFINE c == IF d THEN r ELSE b
    <3>1. c \in Seq(Locals)
      BY <1>1
    <3> HIDE DEF c
    <3>2. Hits(c, Led(n, i)) \in Nat
      BY <3>1, HitsNat
    <3> QED BY <3>2 DEF c
  <2> QED BY <2>1, <2>2, <2>3
<1>7. o2' \in Nat
  <2>1. took \in BOOLEAN /\ (took => rsp # <<>>) /\ rsp' = Taking(rsp, took)
    BY <1>2
  <2>2. rsp' \in Seq(Replies)
    BY <1>1, <2>1, Take
  <2> QED BY <2>2, HitsNat
<1>8. Due(n, i, d)' = Due(n, i, d) + Bit(in) - Bit(out) /\ Due(n, i, d) \in Nat
  <2>1. net[i] \in Nat /\ reading \in Nat
    <3>1. TypeOK /\ reading \in 0..2
      BY ExitFacts
    <3> QED BY <3>1 DEF TypeOK
  <2>2. net'[i] = net[i] + Bit(go /\ p.id = i) - Bit(took /\ rsp[1].id = i)
    BY <1>2 DEF Bit
  <2>3. CASE n = 0 /\ ~d
    <3>1. Bit(in) = Bit(go /\ p.id = i) /\ Bit(out) = Bit(took /\ rsp[1].id = i)
      BY <2>3 DEF Bit
    <3>2. Due(n, i, d) = net[i] /\ Due(n, i, d)' = net'[i]
      BY <2>3 DEF Due
    <3> QED BY <2>1, <2>2, <3>1, <3>2
  <2>4. CASE ~(n = 0 /\ ~d)
    <3>1. Bit(in) = 0 /\ Bit(out) = 0
      BY <2>4 DEF Bit
    <3>2. Due(n, i, d)' = Due(n, i, d) /\ Due(n, i, d) \in Nat
      BY <1>2, <2>1, <2>4 DEF Due
    <3> QED BY <3>1, <3>2
  <2> QED BY <2>3, <2>4
<1>9. Bit(in) \in Nat /\ Bit(out) \in Nat
  BY DEF Bit
<1>10. Entering(n, i, d)' = Entering(n, i, d) + Bit(in) /\ Entering(n, i, d) \in Nat
  <2>1. q1' = q1 + Bit(in) /\ q2' = q2 /\ c1' = c1 /\ c2' = c2
    BY <1>3, <1>5
  <2>2. Entering(n, i, d) = q1 + q2 + c1 + c2
    BY DEF Entering
  <2>3. Entering(n, i, d)' = q1' + q2' + c1' + c2'
    BY DEF Entering
  <2> HIDE DEF q1, q2, c1, c2, in
  <2> QED BY <1>6, <1>9, <2>1, <2>2, <2>3
<1>11. Leaving(n, i, d) = Leaving(n, i, d)' + Bit(out) /\ Leaving(n, i, d)' \in Nat
  <2>1. o1' = o1 /\ o2 = o2' + Bit(out)
    BY <1>4, <1>5
  <2>2. Leaving(n, i, d) = o1 + o2
    BY DEF Leaving
  <2>3. Leaving(n, i, d)' = o1' + o2'
    BY DEF Leaving
  <2>4. PICK u \in Nat, v \in Nat, y \in Nat : u = o1 /\ v = o2' /\ y = Bit(out)
    BY <1>6, <1>7, <1>9
  <2>5. Leaving(n, i, d) = u + (v + y) /\ Leaving(n, i, d)' = u + v
    BY <2>1, <2>2, <2>3, <2>4
  <2>6. u + (v + y) = (u + v) + y
    OBVIOUS
  <2> QED BY <2>4, <2>5, <2>6
<1>12. Entering(n, i, d) + Leaving(n, i, d) = Due(n, i, d)
  BY DEF Balance
<1>13. PICK x \in Nat, y \in Nat, e \in Nat, l \in Nat, due \in Nat :
         /\ x = Bit(in) /\ y = Bit(out) /\ e = Entering(n, i, d)
         /\ l = Leaving(n, i, d)' /\ due = Due(n, i, d)
  BY <1>8, <1>9, <1>10, <1>11
<1>14. e + (l + y) = due
  BY <1>11, <1>12, <1>13
<1>15. (e + x) + l = (due + x) - y
  BY <1>14
<1> QED BY <1>8, <1>10, <1>13, <1>15

LEMMA HostStep ==
  ASSUME ExitInv, Heeds, NEW here \in BOOLEAN, NEW broom \in BOOLEAN,
         NEW ans \in {{}, Arrived}, HostCycle(here, ans, broom)
  PROVE  ExitInv'
<1>1. ExitTypeOK /\ HostInv /\ Held /\ OneRead /\ Balance
  BY KeptIsBalance DEF ExitInv
<1>2. HostInv'
  <2>1. Answering(ans)
    BY <1>1, HostAnswers
  <2>2. PICK room : room = Room(req)
    OBVIOUS
  <2>3. room \in BOOLEAN
    BY <2>2 DEF Room
  <2>4. Cycle(here, room, ans, broom)
    BY <2>2 DEF HostCycle
  <2> QED BY <1>1, <2>1, <2>3, <2>4, CycleStep
<1>3. PICK go, p, took : HostMoves(go, p, took)
  BY <1>1, HostParts
<1>4. ExitTypeOK' /\ Held' /\ OneRead'
  BY <1>1, <1>2, <1>3, HostType, HostHeld, HostRead
<1>5. Balance'
  <2> SUFFICES ASSUME NEW n \in Nodes, NEW i \in Ids, NEW d \in BOOLEAN
               PROVE  Entering(n, i, d)' + Leaving(n, i, d)' = Due(n, i, d)'
    BY DEF Balance
  <2> QED BY <1>1, <1>3, HostBalance
<1>6. PacketsKept'
  BY <1>4, <1>5, KeptIsBalanceNext
<1> QED BY <1>2, <1>4, <1>6 DEF ExitInv

-----------------------------------------------------------------------------
(* The host offers a write, or nothing happens.                            *)
LEMMA StillExit ==
  ASSUME ExitInv, HostInv', net' = net, UNCHANGED <<exit, mem, asks, reading>>
  PROVE  ExitInv'
<1>1. ExitTypeOK /\ Held /\ OneRead /\ Balance /\ Shape
  <2>1. ExitTypeOK
    BY DEF ExitInv
  <2> QED BY <2>1, KeptIsBalance, ExitFacts DEF ExitInv, Shape
<1>2. /\ req' = req /\ from' = from /\ oid' = oid /\ turn' = turn /\ busy' = busy
      /\ b' = b /\ r' = r /\ rsp' = rsp /\ mem' = mem /\ asks' = asks
      /\ reading' = reading
  BY DEF exit
<1>3. ExitTypeOK'
  <2>1. TypeOK'
    BY DEF HostInv
  <2>2. Shape'
    BY <1>1, <1>2, <2>1 DEF Shape
  <2> QED BY <2>2, ShapeIsTypeNext
<1>4. Held' /\ OneRead'
  BY <1>1, <1>2 DEF Held, OneRead
<1>5. Balance'
  <2> SUFFICES ASSUME NEW n \in Nodes, NEW i \in Ids, NEW d \in BOOLEAN
               PROVE  Entering(n, i, d)' + Leaving(n, i, d)' = Due(n, i, d)'
    BY DEF Balance
  <2>1. Entering(n, i, d)' = Entering(n, i, d)
    BY <1>2 DEF Entering, Asked, Twice, Holds
  <2>2. Leaving(n, i, d)' = Leaving(n, i, d)
    BY <1>2 DEF Leaving, Led, Replied
  <2>3. Due(n, i, d)' = Due(n, i, d)
    BY <1>2 DEF Due
  <2> QED BY <1>1, <2>1, <2>2, <2>3 DEF Balance
<1>6. PacketsKept'
  BY <1>3, <1>5, KeptIsBalanceNext
<1> QED BY <1>3, <1>4, <1>6 DEF ExitInv

LEMMA HostOffersStep ==
  ASSUME ExitInv, Heeds, NEW p \in Phases, HostOffers(p)
  PROVE  ExitInv'
<1>1. HostInv'
  BY OfferStep DEF ExitInv, HostOffers
<1>2. net' = net /\ UNCHANGED <<exit, mem, asks, reading>>
  BY DEF HostOffers, Offer
<1> QED BY <1>1, <1>2, StillExit

-----------------------------------------------------------------------------
(* Nothing is on the way.                                                  *)
Emptied ==
  /\ HostInv /\ net = [d \in Ids |-> 0]
  /\ req = <<>> /\ b = <<>> /\ r = <<>> /\ rsp = <<>>
  /\ from \in [P!Local -> Nodes] /\ oid \in [P!Local -> Ids]
  /\ turn = 0 /\ busy = {} /\ mem = [l \in P!Local |-> Served]
  /\ asks = FALSE /\ reading = 0

LEMMA EmptiedHolds == Emptied => ExitInv
<1> SUFFICES ASSUME Emptied PROVE ExitInv
  OBVIOUS
<1> USE DEF Emptied
<1>1. Served \in Access
  BY DEF Served, Access
<1>2. 0 \in P!Local
  BY NocExitAssumption DEF P!Local
<1>3. \A l \in P!Local : mem[l].beats = 0
  BY DEF Served
<1>4. /\ <<>> \in Seq(Requests) /\ <<>> \in Seq(Locals) /\ <<>> \in Seq(Replies)
      /\ Len(req) = 0 /\ Len(b) = 0 /\ Len(r) = 0 /\ Len(rsp) = 0
  BY EmptySeq
<1>5. ExitTypeOK
  <2>1. TypeOK
    BY DEF HostInv
  <2>2. Shape
    BY <1>1, <1>2, <1>4, <2>1 DEF Shape
  <2> QED BY <2>2, ShapeIsType
<1>6. Held
  <2>1. \A l \in P!Local : mem[l].beats # 0 => l \in busy
    BY <1>3
  <2>2. \A l \in P!Local : ~mem[l].read => mem[l].beats <= 1
    BY <1>3
  <2> QED BY <1>4, <2>1, <2>2 DEF Held
<1>7. OneRead
  BY <1>3, <1>4 DEF OneRead
<1>8. Balance
  <2> SUFFICES ASSUME NEW n \in Nodes, NEW i \in Ids, NEW d \in BOOLEAN
               PROVE  Entering(n, i, d) + Leaving(n, i, d) = Due(n, i, d)
    BY DEF Balance
  <2>1. Hits(req, Asked(n, i, d)) = 0 /\ Hits(req, Twice(n, i, d)) = 0
        /\ Hits(rsp, Replied(n, i, d)) = 0 /\ Hits(IF d THEN r ELSE b, Led(n, i)) = 0
    BY HitsEmpty
  <2>2. Holds(n, i, d, 1) = {} /\ Holds(n, i, d, 2) = {}
    BY <1>3 DEF Holds
  <2>3. Cardinality(Holds(n, i, d, 1)) = 0 /\ Cardinality(Holds(n, i, d, 2)) = 0
    BY <2>2, FS_EmptySet
  <2>4. Due(n, i, d) = 0
    BY DEF Due
  <2> QED BY <2>1, <2>3, <2>4 DEF Entering, Leaving
<1>9. PacketsKept
  BY <1>5, <1>8, KeptIsBalance
<1> QED BY <1>5, <1>6, <1>7, <1>9 DEF ExitInv

LEMMA EmptiedAfter == Emptied' => ExitInv'
BY EmptiedHolds, PTL

LEMMA InitExit == ExitInit => ExitInv
<1> SUFFICES ASSUME ExitInit PROVE ExitInv
  OBVIOUS
<1>1. HostInv /\ net = [d \in Ids |-> 0]
  BY InitHost DEF ExitInit, Init
<1>2. /\ from \in [P!Local -> Nodes] /\ oid \in [P!Local -> Ids]
  BY HostBridgeAssumption DEF ExitInit, P!Init, Nodes
<1>3. Emptied
  BY <1>1, <1>2 DEF Emptied, ExitInit, P!Init
<1> QED BY <1>3, EmptiedHolds

LEMMA ExitResetStep ==
  ASSUME ExitInv, ExitReset
  PROVE  ExitInv'
<1>1. HostInv'
  BY ResetStep DEF ExitInv, ExitReset
<1>2. from \in [P!Local -> Nodes] /\ oid \in [P!Local -> Ids]
  BY DEF ExitInv, ExitTypeOK
<1>3. Emptied'
  BY <1>1, <1>2 DEF Emptied, ExitReset, Reset, P!Reset
<1> QED BY <1>3, EmptiedAfter

-----------------------------------------------------------------------------
(* The reader asks for one read at a time.                                 *)
LEMMA AsksStep ==
  ASSUME ExitInv, NEW n \in Reads, ReaderAsks(n)
  PROVE  ExitInv'
<1>1. ExitTypeOK /\ HostInv /\ Held /\ OneRead /\ Balance
  BY KeptIsBalance DEF ExitInv
<1>2. Shape
  BY <1>1, ExitFacts DEF Shape
<1>3. /\ req' = req /\ from' = from /\ oid' = oid /\ turn' = turn /\ busy' = busy
      /\ b' = b /\ r' = r /\ rsp' = rsp /\ mem' = mem
      /\ reading = 0 /\ asks' = TRUE /\ reading' = n
      /\ UNCHANGED vars
  BY DEF ReaderAsks, exit
<1>4. n \in 1..2
  BY NocExitAssumption
<1>5. HostInv' /\ TypeOK' /\ net' = net
  BY <1>1, <1>3, SameVars DEF HostInv
<1>6. ExitTypeOK'
  <2>1. Shape'
    BY <1>2, <1>3, <1>4, <1>5 DEF Shape
  <2> QED BY <2>1, ShapeIsTypeNext
<1>7. Held'
  BY <1>1, <1>3 DEF Held
<1>8. OneRead'
  <2>1. asks' => reading' # 0
    BY <1>3, <1>4
  <2> QED BY <1>1, <1>3, <2>1 DEF OneRead
<1>9. Balance'
  <2> SUFFICES ASSUME NEW k \in Nodes, NEW i \in Ids, NEW d \in BOOLEAN
               PROVE  Entering(k, i, d)' + Leaving(k, i, d)' = Due(k, i, d)'
    BY DEF Balance
  <2>1. Entering(k, i, d)' = Entering(k, i, d)
    BY <1>3 DEF Entering, Asked, Twice, Holds
  <2>2. Leaving(k, i, d)' = Leaving(k, i, d)
    BY <1>3 DEF Leaving, Led, Replied
  <2>3. Due(k, i, d)' = Due(k, i, d)
    BY <1>3, <1>5 DEF Due
  <2> QED BY <1>1, <2>1, <2>2, <2>3 DEF Balance
<1>10. PacketsKept'
  BY <1>6, <1>9, KeptIsBalanceNext
<1> QED BY <1>5, <1>6, <1>7, <1>8, <1>10 DEF ExitInv

(* Its read goes in when nothing of the one before is left.                *)
LEMMA LeavesStep ==
  ASSUME ExitInv, ReaderLeaves
  PROVE  ExitInv'
<1>1. ExitTypeOK /\ HostInv /\ Held /\ OneRead /\ Balance
  BY KeptIsBalance DEF ExitInv
<1>2. Shape /\ Len(req) \in Nat
  BY <1>1, ExitFacts DEF Shape
<1>3. PICK p : p = Request(1, 0, TRUE, reading)
  OBVIOUS
<1>4. /\ asks /\ Len(req) < 2 /\ req' = Append(req, p) /\ asks' = FALSE
      /\ from' = from /\ oid' = oid /\ turn' = turn /\ busy' = busy
      /\ b' = b /\ r' = r /\ rsp' = rsp /\ mem' = mem /\ reading' = reading
      /\ UNCHANGED vars
  BY <1>3 DEF ReaderLeaves, Room
<1>5. reading \in 1..2
  BY <1>1, <1>2, <1>4 DEF OneRead, Shape
<1>6. p \in Requests /\ p.node = 1 /\ p.id = 0 /\ p.read = TRUE /\ p.beats = reading
  BY <1>3, <1>5, HostBridgeAssumption DEF Request, Requests, Nodes
<1>7. HostInv' /\ TypeOK' /\ net' = net
  BY <1>1, <1>4, SameVars DEF HostInv
<1>8. /\ req' \in Seq(Requests) /\ Len(req') = Len(req) + 1
      /\ \A k \in 1..Len(req) : req'[k] = req[k]
      /\ req'[Len(req) + 1] = p
  <2>1. req \in Seq(Requests)
    BY <1>2 DEF Shape
  <2>2. /\ Append(req, p) \in Seq(Requests) /\ Len(Append(req, p)) = Len(req) + 1
        /\ \A k \in 1..Len(req) : Append(req, p)[k] = req[k]
        /\ Append(req, p)[Len(req) + 1] = p
    <3>1. p \in Requests
      BY <1>6
    <3> QED BY <2>1, <3>1, AppendProperties
  <2> QED BY <1>4, <2>2
<1>9. ExitTypeOK'
  <2>1. Len(req') <= 2
    BY <1>2, <1>4, <1>8
  <2>2. asks' \in BOOLEAN
    BY <1>4
  <2>3. Shape'
    BY <1>2, <1>4, <1>7, <1>8, <2>1, <2>2 DEF Shape
  <2> QED BY <2>3, ShapeIsTypeNext
<1>10. \A k \in 1..Len(req') : \/ k \in 1..Len(req) /\ req'[k] = req[k]
                               \/ k = Len(req) + 1 /\ req'[k] = p
  BY <1>2, <1>8
<1>11. Held'
  <2>1. \A k \in 1..Len(req') : ~req'[k].read => req'[k].beats = 1
    BY <1>1, <1>6, <1>10 DEF Held
  <2> QED BY <1>1, <1>4, <2>1 DEF Held
<1>12. /\ \A k \in 1..Len(req) : ~req[k].read
       /\ \A k \in 1..Len(rsp) : ~rsp[k].read
       /\ \A l \in P!Local : mem[l].read => mem[l].beats = 0
       /\ r = <<>>
  BY <1>1, <1>4, Whose
<1>13. OneRead'
  <2>1. \A k \in 1..Len(req') : req'[k].read =>
          /\ \A j \in 1..Len(req') : req'[j].read => j = k
          /\ \A l \in P!Local : mem'[l].read => mem'[l].beats = 0
          /\ r' = <<>>
          /\ \A j \in 1..Len(rsp') : ~rsp'[j].read
    <3>1. \A k \in 1..Len(req') : req'[k].read => k = Len(req) + 1
      BY <1>10, <1>12
    <3> QED BY <1>4, <1>12, <3>1
  <2>2. ~asks'
    BY <1>4
  <2> QED BY <1>1, <1>4, <2>1, <2>2 DEF OneRead
<1>14. Balance'
  <2> SUFFICES ASSUME NEW n \in Nodes, NEW i \in Ids, NEW d \in BOOLEAN
               PROVE  Entering(n, i, d)' + Leaving(n, i, d)' = Due(n, i, d)'
    BY DEF Balance
  <2> DEFINE its == n = 1 /\ i = 0 /\ d
             q1 == Hits(req, Asked(n, i, d))  q2 == Hits(req, Twice(n, i, d))
             c1 == Cardinality(Holds(n, i, d, 1))
             c2 == Cardinality(Holds(n, i, d, 2))
  <2>1. req \in Seq(Requests)
    BY <1>2 DEF Shape
  <2>2. \A S : Hits(req', S) = Hits(req, S) + Bit(p \in S)
    BY <1>4, <1>6, <2>1, HitsAppend
  <2>3. Asked(n, i, d)' = Asked(n, i, d) /\ Twice(n, i, d)' = Twice(n, i, d)
    BY DEF Asked, Twice
  <2>4. (p \in Asked(n, i, d) <=> its) /\ (p \in Twice(n, i, d) <=> its /\ reading = 2)
    BY <1>6 DEF Asked, Twice
  <2>5. q1' = q1 + Bit(its) /\ q2' = q2 + Bit(its /\ reading = 2)
    <3>1. Bit(p \in Asked(n, i, d)) = Bit(its)
          /\ Bit(p \in Twice(n, i, d)) = Bit(its /\ reading = 2)
      BY <2>4 DEF Bit
    <3> QED BY <2>2, <2>3, <3>1
  <2>6. c1' = c1 /\ c2' = c2
    BY <1>4 DEF Holds
  <2>7. q1 \in Nat /\ q2 \in Nat /\ c1 \in Nat /\ c2 \in Nat
    BY <1>1, <2>1, HitsNat, HoldsNat
  <2>8. Leaving(n, i, d)' = Leaving(n, i, d) /\ Leaving(n, i, d) \in Nat
    <3>1. Leaving(n, i, d)' = Leaving(n, i, d)
      BY <1>4 DEF Leaving, Led, Replied
    <3> QED BY <1>1, <3>1, WayParts
  <2>9. Entering(n, i, d) = q1 + q2 + c1 + c2 /\ Entering(n, i, d)' = q1' + q2' + c1' + c2'
    BY DEF Entering
  <2>10. Entering(n, i, d) + Leaving(n, i, d) = Due(n, i, d)
    BY <1>1 DEF Balance
  <2> HIDE DEF q1, q2, c1, c2
  <2>11. CASE its
    <3>1. Due(n, i, d) = 0 /\ Due(n, i, d)' = reading
      BY <1>4, <2>11 DEF Due
    <3>2. Bit(its) + Bit(its /\ reading = 2) = reading
      BY <1>5, <2>11 DEF Bit
    <3>3. PICK x \in Nat, y \in Nat : x = Bit(its) /\ y = Bit(its /\ reading = 2)
      BY DEF Bit
    <3>4. Entering(n, i, d)' = (q1 + x) + (q2 + y) + c1 + c2
      BY <2>5, <2>6, <2>9, <3>3
    <3>5. PICK l \in Nat, k1 \in Nat, k2 \in Nat, k3 \in Nat, k4 \in Nat :
            l = Leaving(n, i, d) /\ k1 = q1 /\ k2 = q2 /\ k3 = c1 /\ k4 = c2
      BY <2>7, <2>8
    <3>6. k1 + k2 + k3 + k4 + l = 0
      BY <2>9, <2>10, <3>1, <3>5
    <3>7. k1 = 0 /\ k2 = 0 /\ k3 = 0 /\ k4 = 0 /\ l = 0
      BY <3>6
    <3>8. q1 = 0 /\ q2 = 0 /\ c1 = 0 /\ c2 = 0 /\ Leaving(n, i, d) = 0
      BY <3>5, <3>7
    <3>9. Entering(n, i, d)' = reading
      BY <3>2, <3>3, <3>4, <3>8
    <3> QED BY <1>5, <2>8, <3>1, <3>8, <3>9
  <2>12. CASE ~its
    <3>1. Due(n, i, d)' = Due(n, i, d)
      BY <1>4, <1>7, <2>12 DEF Due, Nodes
    <3>2. Bit(its) = 0 /\ Bit(its /\ reading = 2) = 0
      BY <2>12 DEF Bit
    <3>3. Entering(n, i, d)' = Entering(n, i, d)
      BY <2>5, <2>6, <2>7, <2>9, <3>2
    <3> QED BY <2>8, <2>10, <3>1, <3>3
  <2> QED BY <2>11, <2>12
<1>15. PacketsKept'
  BY <1>9, <1>14, KeptIsBalanceNext
<1> QED BY <1>7, <1>9, <1>11, <1>13, <1>15 DEF ExitInv

LEMMA HitsNone ==
  ASSUME NEW T, NEW c \in Seq(T), NEW S, \A k \in 1..Len(c) : c[k] \notin S
  PROVE  Hits(c, S) = 0
<1>1. DOMAIN c = 1..Len(c)
  BY LenProperties
<1>2. {k \in DOMAIN c : c[k] \in S} = {}
  BY <1>1
<1> QED BY <1>2, FS_EmptySet DEF Hits

(* The last beat of a read is the only one left of it.                     *)
LEMMA LastIsOne ==
  ASSUME ExitTypeOK, Balance, OneRead, rsp # <<>>, rsp[1].node = 1, rsp[1].last
  PROVE  reading = 1
<1>1. /\ req \in Seq(Requests) /\ r \in Seq(Locals) /\ rsp \in Seq(Replies)
      /\ Len(rsp) \in Nat /\ Len(rsp) <= 2
      /\ \A l \in P!Local : mem[l].beats \in 0..2
  BY ExitFacts
<1>2. 1 \in 1..Len(rsp)
  BY <1>1, EmptySeq
<1>3. rsp[1].read /\ rsp[1].id = 0 /\ ~asks
  BY <1>2, Whose
<1>4. /\ \A k \in 1..Len(req) : ~req[k].read
      /\ \A l \in P!Local : mem[l].read => mem[l].beats = 0
      /\ r = <<>>
      /\ \A k \in 1..Len(rsp) : 1 < k => ~rsp[k].read
  BY <1>2, <1>3 DEF OneRead
<1>5. PICK n \in Nodes, i \in Ids, d \in BOOLEAN : n = 1 /\ i = 0 /\ d
  <2>1. 1 \in Nodes /\ 0 \in Ids
    BY HostBridgeAssumption DEF Nodes
  <2>2. \E d \in BOOLEAN : d
    OBVIOUS
  <2> QED BY <2>1, <2>2
<1>6. Hits(req, Asked(n, i, d)) = 0 /\ Hits(req, Twice(n, i, d)) = 0
  <2>1. \A k \in 1..Len(req) : req[k] \notin Asked(n, i, d) /\ req[k] \notin Twice(n, i, d)
    BY <1>4, <1>5 DEF Asked, Twice
  <2> QED BY <1>1, <2>1, HitsNone
<1>7. Holds(n, i, d, 1) = {} /\ Holds(n, i, d, 2) = {}
  <2> SUFFICES ASSUME NEW l \in P!Local, mem[l].read = d
               PROVE  ~(mem[l].beats >= 1) /\ ~(mem[l].beats >= 2)
    BY DEF Holds
  <2>1. mem[l].read
    BY <1>5
  <2> QED BY <1>4, <2>1
<1>8. Cardinality(Holds(n, i, d, 1)) = 0 /\ Cardinality(Holds(n, i, d, 2)) = 0
  BY <1>7, FS_EmptySet
<1>9. Hits(IF d THEN r ELSE b, Led(n, i)) = 0
  BY <1>4, <1>5, HitsEmpty
<1>10. Hits(rsp, Replied(n, i, d)) = 1
  <2>1. /\ Tail(rsp) \in Seq(Replies) /\ Len(Tail(rsp)) = Len(rsp) - 1
        /\ \A k \in 1..Len(Tail(rsp)) : Tail(rsp)[k] = rsp[k + 1]
        /\ Head(rsp) = rsp[1]
    BY <1>1, HeadTailProperties
  <2>2. \A k \in 1..Len(Tail(rsp)) : Tail(rsp)[k] \notin Replied(n, i, d)
    <3> SUFFICES ASSUME NEW k \in 1..(Len(rsp) - 1)
                 PROVE  rsp[k + 1] \notin Replied(n, i, d)
      BY <2>1
    <3>1. k + 1 \in 1..Len(rsp) /\ 1 < k + 1
      BY <1>1
    <3>2. ~rsp[k + 1].read
      BY <1>4, <3>1
    <3> QED BY <1>5, <3>2 DEF Replied
  <2>3. Hits(Tail(rsp), Replied(n, i, d)) = 0
    BY <2>1, <2>2, HitsNone
  <2>4. Head(rsp) \in Replied(n, i, d)
    <3>1. rsp[1] \in Replies
      BY <1>2, ExitFacts
    <3>2. rsp[1].read = TRUE
      BY <1>3, <3>1 DEF Replies
    <3> QED BY <1>3, <1>5, <2>1, <3>1, <3>2 DEF Replied
  <2>5. Hits(rsp, Replied(n, i, d)) =
          Hits(Tail(rsp), Replied(n, i, d)) + Bit(Head(rsp) \in Replied(n, i, d))
    BY <1>1, HitsTail
  <2>6. Bit(Head(rsp) \in Replied(n, i, d)) = 1
    BY <2>4 DEF Bit
  <2> QED BY <2>3, <2>5, <2>6
<1>11. Entering(n, i, d) = 0 /\ Leaving(n, i, d) = 1
  <2>1. Entering(n, i, d) = 0 + 0 + 0 + 0
    BY <1>6, <1>8, Zenon DEF Entering
  <2>2. Leaving(n, i, d) = 0 + 1
    BY <1>9, <1>10, Zenon DEF Leaving
  <2> QED BY <2>1, <2>2
<1>12. Due(n, i, d) = reading
  BY <1>3, <1>5 DEF Due
<1>13. reading \in Nat /\ Entering(n, i, d) + Leaving(n, i, d) = Due(n, i, d)
  BY ExitFacts DEF Balance
<1>14. 0 + 1 = reading
  BY <1>11, <1>12, <1>13, Zenon
<1> QED BY <1>13, <1>14

LEMMA TakesStep ==
  ASSUME ExitInv, ReaderTakes
  PROVE  ExitInv'
<1>1. ExitTypeOK /\ HostInv /\ Held /\ OneRead /\ Balance
  BY KeptIsBalance DEF ExitInv
<1>2. /\ Shape /\ rsp \in Seq(Replies) /\ Len(rsp) \in Nat /\ Len(rsp) <= 2
      /\ reading \in 0..2
  BY <1>1, ExitFacts DEF Shape
<1>3. rsp # <<>> /\ Head(rsp).node = 1 /\ rsp' = Taking(rsp, TRUE)
  BY DEF ReaderTakes, Offered, Taking
<1>4. Head(rsp) = rsp[1] /\ 1 \in 1..Len(rsp)
  BY <1>2, <1>3, EmptySeq, HeadTailProperties
<1>5. rsp[1].node = 1 /\ rsp[1].read /\ rsp[1].id = 0 /\ ~asks /\ reading # 0
  BY <1>1, <1>3, <1>4, Whose
<1>6. /\ req' = req /\ from' = from /\ oid' = oid /\ turn' = turn /\ busy' = busy
      /\ b' = b /\ r' = r /\ mem' = mem /\ asks' = asks
      /\ UNCHANGED vars
  BY DEF ReaderTakes
<1>7. reading' = reading - 1
  <2>1. reading' = IF rsp[1].last THEN 0 ELSE reading - 1
    BY <1>4 DEF ReaderTakes
  <2>2. rsp[1].last => reading = 1
    BY <1>1, <1>3, <1>5, LastIsOne
  <2> QED BY <2>1, <2>2
<1>8. HostInv' /\ TypeOK' /\ net' = net
  BY <1>1, <1>6, SameVars DEF HostInv
<1>9. PICK t \in 0..1 :
        /\ Len(rsp') \in Nat /\ Len(rsp') = Len(rsp) - t
        /\ \A k \in 1..Len(rsp') : rsp'[k] = rsp[k + t] /\ k + t \in 1..Len(rsp)
  BY <1>2, <1>3, Shifted
<1>10. rsp' \in Seq(Replies) /\ \A S : Hits(rsp, S) = Hits(rsp', S) + Bit(rsp[1] \in S)
  <2>1. rsp' = Tail(rsp)
    BY DEF ReaderTakes
  <2> QED BY <1>2, <1>3, <1>4, <2>1, HitsTail, HeadTailProperties
<1>11. ExitTypeOK'
  <2>1. Len(rsp') <= 2 /\ reading' \in 0..2
    BY <1>2, <1>5, <1>7, <1>9
  <2>2. Shape'
    BY <1>2, <1>6, <1>8, <1>10, <2>1 DEF Shape
  <2> QED BY <2>2, ShapeIsTypeNext
<1>12. Held'
  BY <1>1, <1>6 DEF Held
<1>13. OneRead'
  <2>1. /\ \A k \in 1..Len(req) : req[k].read =>
             /\ \A j \in 1..Len(req) : req[j].read => j = k
             /\ \A m \in P!Local : mem[m].read => mem[m].beats = 0
             /\ r = <<>>
             /\ \A j \in 1..Len(rsp') : ~rsp'[j].read
        /\ \A k \in P!Local : mem[k].read /\ mem[k].beats # 0 =>
             /\ \A m \in P!Local : mem[m].read /\ mem[m].beats # 0 => m = k
             /\ \A j \in 1..Len(r) : ~r[j].last
             /\ \A j \in 1..Len(rsp') : rsp'[j].read => ~rsp'[j].last
        /\ \A j, k \in 1..Len(r) : j < k => ~r[j].last
        /\ r # <<>> => \A j \in 1..Len(rsp') : rsp'[j].read => ~rsp'[j].last
    BY <1>1, <1>9 DEF OneRead
  <2>2. \A j, k \in 1..Len(rsp') : j < k /\ rsp'[j].read /\ rsp'[k].read => ~rsp'[j].last
    <3> SUFFICES ASSUME NEW j \in 1..Len(rsp'), NEW k \in 1..Len(rsp'), j < k,
                        rsp'[j].read, rsp'[k].read
                 PROVE  ~rsp'[j].last
      OBVIOUS
    <3>1. j + t < k + t
      BY <1>9
    <3> QED BY <1>1, <1>9, <3>1 DEF OneRead
  <2>3. ~asks'
    BY <1>5, <1>6
  <2> QED BY <1>6, <2>1, <2>2, <2>3 DEF OneRead
<1>14. Balance'
  <2> SUFFICES ASSUME NEW n \in Nodes, NEW i \in Ids, NEW d \in BOOLEAN
               PROVE  Entering(n, i, d)' + Leaving(n, i, d)' = Due(n, i, d)'
    BY DEF Balance
  <2> DEFINE its == n = 1 /\ i = 0 /\ d
             o1 == Hits(IF d THEN r ELSE b, Led(n, i))
             o2 == Hits(rsp, Replied(n, i, d))
  <2>1. Entering(n, i, d)' = Entering(n, i, d) /\ Entering(n, i, d) \in Nat
    <3>1. Entering(n, i, d)' = Entering(n, i, d)
      BY <1>6 DEF Entering, Asked, Twice, Holds
    <3> QED BY <1>1, <3>1, WayParts
  <2>2. o1' = o1 /\ o2 = o2' + Bit(its)
    <3>1. Replied(n, i, d)' = Replied(n, i, d) /\ Led(n, i)' = Led(n, i)
      BY <1>6 DEF Replied, Led
    <3>2. rsp[1] \in Replies /\ rsp[1].read = TRUE
      <4>1. rsp[1] \in Replies
        BY <1>1, <1>4, ExitFacts
      <4> QED BY <1>5, <4>1 DEF Replies
    <3>3. rsp[1] \in Replied(n, i, d) <=> its
      BY <1>5, <3>2 DEF Replied
    <3>4. Bit(rsp[1] \in Replied(n, i, d)) = Bit(its)
      BY <3>3 DEF Bit
    <3>5. Hits(rsp, Replied(n, i, d)) =
            Hits(rsp', Replied(n, i, d)) + Bit(rsp[1] \in Replied(n, i, d))
      BY <1>10
    <3> QED BY <1>6, <3>1, <3>4, <3>5
  <2>3. o1 \in Nat /\ o2' \in Nat
    <3>1. o2' \in Nat
      BY <1>10, HitsNat
    <3> DEFINE c == IF d THEN r ELSE b
    <3>2. c \in Seq(Locals)
      BY <1>2 DEF Shape
    <3> HIDE DEF c
    <3>3. Hits(c, Led(n, i)) \in Nat
      BY <3>2, HitsNat
    <3> QED BY <3>1, <3>3 DEF c
  <2>4. Leaving(n, i, d) = o1 + o2 /\ Leaving(n, i, d)' = o1' + o2'
    BY DEF Leaving
  <2>5. Entering(n, i, d) + Leaving(n, i, d) = Due(n, i, d)
    BY <1>1 DEF Balance
  <2>6. Due(n, i, d) = Due(n, i, d)' + Bit(its)
    <3>1. reading' \in Nat /\ net[i] \in Nat
      <4>1. net \in [Ids -> Nat]
        BY <1>2 DEF Shape, TypeOK
      <4> QED BY <1>2, <1>5, <1>7, <4>1
    <3>2. CASE its
      BY <1>2, <1>5, <1>6, <1>7, <3>1, <3>2 DEF Due, Bit
    <3>3. CASE ~its
      BY <1>5, <1>6, <1>8, <3>1, <3>3 DEF Due, Bit, Nodes
    <3> QED BY <3>2, <3>3
  <2>7. Due(n, i, d)' \in Nat
    <3>1. reading' \in Nat /\ net \in [Ids -> Nat]
      BY <1>2, <1>5, <1>7 DEF Shape, TypeOK
    <3> QED BY <1>8, <3>1 DEF Due
  <2> HIDE DEF o1, o2, its
  <2>8. PICK e \in Nat, u \in Nat, v \in Nat, x \in Nat, due \in Nat :
          /\ e = Entering(n, i, d) /\ u = o1 /\ v = o2' /\ x = Bit(its)
          /\ due = Due(n, i, d)'
    BY <2>1, <2>3, <2>7 DEF Bit
  <2>9. e + (u + (v + x)) = due + x
    BY <2>2, <2>4, <2>5, <2>6, <2>8
  <2>10. e + (u + v) = due
    BY <2>9
  <2> QED BY <2>1, <2>2, <2>4, <2>8, <2>10
<1>15. PacketsKept'
  BY <1>11, <1>14, KeptIsBalanceNext
<1> QED BY <1>8, <1>11, <1>12, <1>13, <1>15 DEF ExitInv

-----------------------------------------------------------------------------
LEMMA NextExit == ExitInv /\ Heeds /\ [ExitNext]_all => ExitInv'
<1> SUFFICES ASSUME ExitInv, Heeds, [ExitNext]_all PROVE ExitInv'
  OBVIOUS
<1>1. CASE \E p \in Phases : HostOffers(p)
  BY <1>1, HostOffersStep
<1>2. CASE \E here, broom \in BOOLEAN, ans \in {{}, Arrived} : HostCycle(here, ans, broom)
  BY <1>2, HostStep
<1>3. CASE \E n \in Reads : ReaderAsks(n)
  BY <1>3, AsksStep
<1>4. CASE ReaderLeaves
  BY <1>4, LeavesStep
<1>5. CASE ReaderTakes
  BY <1>5, TakesStep
<1>6. CASE \E room \in BOOLEAN : PerCycle(room)
  BY <1>6, PerStep
<1>7. CASE \E l \in P!Local, fail \in BOOLEAN : Serve(l, fail)
  BY <1>7, ServeStep
<1>8. CASE ExitReset
  BY <1>8, ExitResetStep
<1>9. CASE UNCHANGED all
  <2>1. UNCHANGED vars /\ UNCHANGED <<exit, mem, asks, reading>>
    BY <1>9 DEF all
  <2>2. HostInv' /\ net' = net
    BY <2>1, SameVars DEF ExitInv
  <2> QED BY <2>1, <2>2, StillExit
<1> QED BY <1>1, <1>2, <1>3, <1>4, <1>5, <1>6, <1>7, <1>8, <1>9 DEF ExitNext

-----------------------------------------------------------------------------
(* The channels of the exit hold at most two transactions, and the         *)
(* peripheral is asked for at most two beats.                              *)
THEOREM NocExitType == Heeds => (ExitSpec => []ExitTypeOK)
<1> SUFFICES ASSUME Heeds PROVE ExitSpec => []ExitTypeOK
  OBVIOUS
<1>1. ExitInv /\ [ExitNext]_all => ExitInv'
  BY NextExit
<1>2. ExitInv => ExitTypeOK
  BY DEF ExitInv
<1> QED BY <1>1, <1>2, InitExit, PTL DEF ExitSpec

(* With the network and the peripheral's bridge in between, and a reader   *)
(* at it too, the host is still told of each of its writes once, when it   *)
(* is done, and of an error exactly if there was one.                      *)
THEOREM NocExitAnswersRight == Heeds => (ExitSpec => []AnswersRight)
<1> SUFFICES ASSUME Heeds PROVE ExitSpec => []AnswersRight
  OBVIOUS
<1>1. ExitInv /\ [ExitNext]_all => ExitInv'
  BY NextExit
<1>2. ExitInv => AnswersRight
  BY DEF ExitInv, HostInv, AnswersRight
<1> QED BY <1>1, <1>2, InitExit, PTL DEF ExitSpec

(* What a node waits for is on the way, once, and led back to it: the      *)
(* local identifiers never mix two nodes up, whatever is dropped or slow.  *)
THEOREM NocExitPacketsKept == Heeds => (ExitSpec => []PacketsKept)
<1> SUFFICES ASSUME Heeds PROVE ExitSpec => []PacketsKept
  OBVIOUS
<1>1. ExitInv /\ [ExitNext]_all => ExitInv'
  BY NextExit
<1>2. ExitInv => PacketsKept
  BY DEF ExitInv
<1> QED BY <1>1, <1>2, InitExit, PTL DEF ExitSpec

-----------------------------------------------------------------------------
(* A local identifier that is given out comes back: whatever holds it will *)
(* end in an answer that frees it.                                         *)
Returning(l) ==
  \/ mem[l].beats # 0
  \/ \E k \in 1..Len(b) : b[k].id = l
  \/ \E k \in 1..Len(r) : r[k].id = l /\ r[k].last

NoneLost == \A l \in busy : Returning(l)

LEMMA PerReturns ==
  ASSUME ExitTypeOK, NoneLost, NEW x, NEW gb, NEW gr, NEW a, NEW home,
         PerMoves(x, gb, gr, a, home)
  PROVE  NoneLost'
<1>1. /\ req \in Seq(Requests) /\ b \in Seq(Locals) /\ r \in Seq(Locals)
      /\ Len(b) <= 2 /\ Len(r) <= 2 /\ Len(b) \in Nat /\ Len(r) \in Nat
      /\ turn \in P!Local /\ busy \subseteq P!Local /\ mem \in [P!Local -> Access]
  BY ExitFacts
<1>2. /\ x \in BOOLEAN /\ gb \in BOOLEAN /\ gr \in BOOLEAN
      /\ x => req[1] \in Requests
      /\ gb => b # <<>> /\ a = b[1]
      /\ gr => r # <<>> /\ a = r[1]
      /\ b' = Taking(b, gb) /\ r' = Taking(r, gr)
      /\ mem' = IF x THEN [mem EXCEPT ![turn] =
                             [read |-> req[1].read, beats |-> req[1].beats]]
                ELSE mem
      /\ busy' = (busy \cup (IF x THEN {turn} ELSE {}))
                   \ (IF gb \/ (gr /\ a.last) THEN {a.id} ELSE {})
  BY DEF PerMoves
<1>3. /\ Len(b') = Len(b) - Bit(gb) /\ Len(r') = Len(r) - Bit(gr)
      /\ \A k \in 1..Len(b') : b'[k] = b[k + Bit(gb)] /\ k + Bit(gb) \in 1..Len(b)
      /\ \A k \in 1..Len(r') : r'[k] = r[k + Bit(gr)] /\ k + Bit(gr) \in 1..Len(r)
  <2>1. /\ Len(b') = Len(b) - Bit(gb)
        /\ \A k \in 1..Len(b') : b'[k] = b[k + Bit(gb)] /\ k + Bit(gb) \in 1..Len(b)
    BY <1>1, <1>2, Take
  <2>2. /\ Len(r') = Len(r) - Bit(gr)
        /\ \A k \in 1..Len(r') : r'[k] = r[k + Bit(gr)] /\ k + Bit(gr) \in 1..Len(r)
    BY <1>1, <1>2, Take
  <2> QED BY <2>1, <2>2
<1> SUFFICES ASSUME NEW l \in busy', ~(mem'[l].beats # 0)
             PROVE  \/ \E k \in 1..Len(b') : b'[k].id = l
                    \/ \E k \in 1..Len(r') : r'[k].id = l /\ r'[k].last
  BY DEF NoneLost, Returning
<1>4. (x => l # turn) /\ l \in busy /\ (gb \/ (gr /\ a.last) => a.id # l)
  <2>1. x => req[1].beats \in 1..2
    BY <1>2 DEF Requests
  <2>2. x => mem'[turn].beats = req[1].beats
    BY <1>1, <1>2
  <2>3. x => l # turn
    BY <2>1, <2>2
  <2> QED BY <1>2, <2>3
<1>5. mem'[l].beats = mem[l].beats
  BY <1>1, <1>2, <1>4
<1>6. \/ \E k \in 1..Len(b) : b[k].id = l
      \/ \E k \in 1..Len(r) : r[k].id = l /\ r[k].last
  BY <1>4, <1>5 DEF NoneLost, Returning
<1>7. CASE \E k \in 1..Len(b) : b[k].id = l
  <2>1. PICK k \in 1..Len(b) : b[k].id = l
    BY <1>7
  <2>2. gb => k # 1
    BY <1>2, <1>4, <2>1
  <2>3. k - Bit(gb) \in 1..Len(b') /\ (k - Bit(gb)) + Bit(gb) = k
    BY <1>1, <1>2, <1>3, <2>2 DEF Bit
  <2>4. b'[k - Bit(gb)] = b[(k - Bit(gb)) + Bit(gb)]
    BY <1>3, <2>3
  <2> QED BY <2>1, <2>3, <2>4
<1>8. CASE \E k \in 1..Len(r) : r[k].id = l /\ r[k].last
  <2>1. PICK k \in 1..Len(r) : r[k].id = l /\ r[k].last
    BY <1>8
  <2>2. gr => k # 1
    BY <1>2, <1>4, <2>1
  <2>3. k - Bit(gr) \in 1..Len(r') /\ (k - Bit(gr)) + Bit(gr) = k
    BY <1>1, <1>2, <1>3, <2>2 DEF Bit
  <2>4. r'[k - Bit(gr)] = r[(k - Bit(gr)) + Bit(gr)]
    BY <1>3, <2>3
  <2> QED BY <2>1, <2>3, <2>4
<1> QED BY <1>6, <1>7, <1>8

LEMMA ServeReturns ==
  ASSUME ExitTypeOK, NoneLost, NEW l \in P!Local, NEW fail \in BOOLEAN, Serve(l, fail)
  PROVE  NoneLost'
<1> DEFINE beat == [id |-> l, last |-> mem[l].beats = 1, fail |-> fail]
<1>1. /\ b \in Seq(Locals) /\ r \in Seq(Locals) /\ Len(b) \in Nat /\ Len(r) \in Nat
      /\ busy \subseteq P!Local
  BY ExitFacts
<1>2. /\ mem[l].beats \in 1..2 /\ beat \in Locals /\ beat.id = l
      /\ beat.last = (mem[l].beats = 1)
      /\ \A m \in P!Local : m # l => mem'[m] = mem[m]
      /\ mem'[l].beats = mem[l].beats - 1
      /\ busy' = busy
  <2>1. ServeMoves(l, beat)
    BY ServeParts
  <2>2. beat.id = l /\ beat.last = (mem[l].beats = 1)
    OBVIOUS
  <2> HIDE DEF beat
  <2> QED BY <2>1, <2>2 DEF ServeMoves
<1>3. \/ b' = b /\ r' = Append(r, beat)
      \/ b' = Append(b, beat) /\ r' = r
  BY DEF Serve
<1> HIDE DEF beat
<1>4. /\ \A k \in 1..Len(b) : k \in 1..Len(b') /\ b'[k] = b[k]
      /\ \A k \in 1..Len(r) : k \in 1..Len(r') /\ r'[k] = r[k]
      /\ \/ \E k \in 1..Len(b') : b'[k] = beat
         \/ \E k \in 1..Len(r') : r'[k] = beat
  <2>1. CASE b' = b /\ r' = Append(r, beat)
    <3>1. /\ Len(r') = Len(r) + 1 /\ r'[Len(r) + 1] = beat
          /\ \A k \in 1..Len(r) : r'[k] = r[k]
      BY <1>1, <1>2, <2>1, AppendProperties
    <3>2. Len(r) + 1 \in 1..Len(r') /\ \A k \in 1..Len(r) : k \in 1..Len(r')
      BY <1>1, <3>1
    <3> QED BY <2>1, <3>1, <3>2
  <2>2. CASE b' = Append(b, beat) /\ r' = r
    <3>1. /\ Len(b') = Len(b) + 1 /\ b'[Len(b) + 1] = beat
          /\ \A k \in 1..Len(b) : b'[k] = b[k]
      BY <1>1, <1>2, <2>2, AppendProperties
    <3>2. Len(b) + 1 \in 1..Len(b') /\ \A k \in 1..Len(b) : k \in 1..Len(b')
      BY <1>1, <3>1
    <3> QED BY <2>2, <3>1, <3>2
  <2> QED BY <1>3, <2>1, <2>2
<1>5. SUFFICES ASSUME NEW m \in busy' PROVE Returning(m)'
  BY DEF NoneLost
<1> SUFFICES ASSUME mem'[m].beats = 0
             PROVE  \/ \E k \in 1..Len(b') : b'[k].id = m
                    \/ \E k \in 1..Len(r') : r'[k].id = m /\ r'[k].last
  BY DEF Returning
<1>8. m \in busy
  BY <1>2, <1>5
<1>6. CASE m = l
  <2>1. mem[l].beats = 1
    BY <1>2, <1>6
  <2>2. beat.last /\ beat.id = m
    BY <1>2, <1>6, <2>1
  <2> QED BY <1>4, <2>2
<1>7. CASE m # l
  <2>1. mem[m].beats = 0
    BY <1>1, <1>2, <1>7, <1>8
  <2>2. \/ \E k \in 1..Len(b) : b[k].id = m
        \/ \E k \in 1..Len(r) : r[k].id = m /\ r[k].last
    BY <1>8, <2>1 DEF NoneLost, Returning
  <2> QED BY <1>4, <2>2
<1> QED BY <1>6, <1>7

(* No local identifier leaks: one that is given out is held by a request   *)
(* the peripheral has yet to serve or by an answer that frees it, however  *)
(* the answers of reads and writes interleave (busy).                      *)
THEOREM NocExitNoneLost == Heeds => (ExitSpec => []NoneLost)
<1> SUFFICES ASSUME Heeds PROVE ExitSpec => []NoneLost
  OBVIOUS
<1>1. ExitInit => NoneLost
  BY DEF ExitInit, P!Init, NoneLost
<1>2. ExitInv /\ NoneLost /\ [ExitNext]_all => NoneLost'
  <2> SUFFICES ASSUME ExitInv, NoneLost, [ExitNext]_all PROVE NoneLost'
    OBVIOUS
  <2>1. ExitTypeOK /\ Held
    BY DEF ExitInv
  <2>2. CASE \E room \in BOOLEAN : PerCycle(room)
    <3>1. PICK room \in BOOLEAN : PerCycle(room)
      BY <2>2
    <3>2. PerMoves(P!Taken(room), P!GoB, P!GoR, P!Answer, P!Home)
      BY <2>1, <3>1, PerParts
    <3> QED BY <2>1, <3>2, PerReturns
  <2>3. CASE \E l \in P!Local, fail \in BOOLEAN : Serve(l, fail)
    BY <2>1, <2>3, ServeReturns
  <2>4. CASE ExitReset
    BY <2>4 DEF ExitReset, P!Reset, NoneLost
  <2>5. CASE UNCHANGED <<busy, mem, b, r>>
    BY <2>5 DEF NoneLost, Returning
  <2>6. \/ \E p \in Phases : HostOffers(p)
        \/ \E here, broom \in BOOLEAN, ans \in {{}, Arrived} : HostCycle(here, ans, broom)
        \/ \E n \in Reads : ReaderAsks(n)
        \/ ReaderLeaves \/ ReaderTakes \/ UNCHANGED all
        => UNCHANGED <<busy, mem, b, r>>
    BY DEF HostOffers, HostCycle, ReaderAsks, ReaderLeaves, ReaderTakes, exit, all
  <2> QED BY <2>2, <2>3, <2>4, <2>5, <2>6 DEF ExitNext
<1>3. ExitInv /\ [ExitNext]_all => ExitInv'
  BY NextExit
<1> QED BY <1>1, <1>2, <1>3, InitExit, PTL DEF ExitSpec

-----------------------------------------------------------------------------
(* Something that is waited for can take its next step: each disjunct is   *)
(* what one of the fair actions of ExitSpec asks for, a far side that has  *)
(* room included.                                                          *)
Moves ==
  \/ w # <<>> /\ (GoW(TRUE, Room(req)) \/ DropW(TRUE))
  \/ owe \/ refuse
  \/ Arrived # {}
  \/ asks /\ Room(req)
  \/ Offered(rsp) /\ Head(rsp).node = 1
  \/ P!Taken(TRUE) \/ P!GoB \/ P!GoR
  \/ \E l \in P!Local :
       mem[l].beats # 0 /\ (IF mem[l].read THEN Room(r) ELSE Room(b))

NeverStuck == Open # {} \/ reading # 0 => Moves

LEMMA NoMove ==
  ASSUME ~Moves
  PROVE  /\ w # <<>> => ~GoW(TRUE, Room(req)) /\ ~DropW(TRUE)
         /\ ~owe /\ ~refuse
         /\ Arrived = {}
         /\ ~(asks /\ Room(req))
         /\ ~(Offered(rsp) /\ Head(rsp).node = 1)
         /\ ~P!Taken(TRUE) /\ ~P!GoB /\ ~P!GoR
         /\ \A l \in P!Local : mem[l].beats = 0
              \/ ~(IF mem[l].read THEN Room(r) ELSE Room(b))
BY Zenon DEF Moves

LEMMA RoomEmpty == Room(<<>>)
<1>1. Len(<<>>) = 0
  OBVIOUS
<1> QED BY <1>1 DEF Room

(* Behind an empty way home nothing is left of what was asked.             *)
LEMMA AllHome ==
  ASSUME ExitInv, NoneLost, ~Moves
  PROVE  /\ req = <<>> /\ reading = 0
         /\ \A d \in Ids : net[d] = 0
<1>1. /\ ExitTypeOK /\ Balance
      /\ \A l \in P!Local : mem[l].beats \in 0..2
      /\ \A k \in 1..Len(rsp) : rsp[k] \in Replies
      /\ rsp \in Seq(Replies) /\ b \in Seq(Locals) /\ r \in Seq(Locals)
      /\ req \in Seq(Requests)
      /\ Len(req) \in Nat /\ asks \in BOOLEAN
      /\ turn \in P!Local /\ busy \subseteq P!Local
  BY ExitFacts, KeptIsBalance DEF ExitInv
<1>2. rsp = <<>>
  <2> SUFFICES ASSUME rsp # <<>> PROVE FALSE
    OBVIOUS
  <2>1. Len(rsp) \in Nat /\ Len(rsp) # 0 /\ Head(rsp) = rsp[1]
    BY <1>1
  <2>2. rsp[1].node \in Nodes
    BY <1>1, <2>1 DEF Replies
  <2>3. rsp[1].node \in {0, 1}
    BY <2>2 DEF Nodes
  <2>4. Head(rsp).node = 0 => Arrived # {}
    BY DEF Arrived, Offered
  <2> QED BY <2>1, <2>3, <2>4, NoMove DEF Offered
<1>3. b = <<>> /\ r = <<>>
  <2>1. ~P!GoB /\ ~P!GoR /\ Room(rsp)
    BY <1>2, NoMove, RoomEmpty
  <2>2. b = <<>>
    BY <2>1 DEF P!GoB, P!Offered, P!Room, Room
  <2> QED BY <2>1, <2>2 DEF P!GoR, P!Offered, P!Room, Room
<1>4. \A l \in P!Local : mem[l].beats = 0
  BY <1>3, NoMove, RoomEmpty
<1>5. busy = {}
  <2>1. 1..Len(b) = {} /\ 1..Len(r) = {}
    BY <1>3
  <2> QED BY <1>1, <1>4, <2>1 DEF NoneLost, Returning
<1>6. req = <<>>
  <2>1. ~P!Taken(TRUE)
    BY NoMove
  <2> QED BY <1>5, <2>1 DEF P!Taken, P!free, P!Offered
<1>7. ~asks
  BY <1>6, NoMove, RoomEmpty
<1>8. \A n \in Nodes, i \in Ids, d \in BOOLEAN : Due(n, i, d) = 0
  <2> SUFFICES ASSUME NEW n \in Nodes, NEW i \in Ids, NEW d \in BOOLEAN
               PROVE  Due(n, i, d) = 0
    OBVIOUS
  <2>1. \A S : Hits(<<>>, S) = 0
    BY HitsEmpty
  <2>2. Leaving(n, i, d) = 0
    BY <1>2, <1>3, <2>1 DEF Leaving
  <2>3. Holds(n, i, d, 1) = {} /\ Holds(n, i, d, 2) = {}
    BY <1>4 DEF Holds
  <2>4. Entering(n, i, d) = 0
    <3>1. Cardinality({}) = 0
      BY FS_EmptySet
    <3>2. Hits(req, Asked(n, i, d)) = 0 /\ Hits(req, Twice(n, i, d)) = 0
      BY <1>6, <2>1
    <3>3. Cardinality(Holds(n, i, d, 1)) = 0 /\ Cardinality(Holds(n, i, d, 2)) = 0
      BY <2>3, <3>1
    <3> QED BY <3>2, <3>3 DEF Entering
  <2> QED BY <1>1, <2>2, <2>4 DEF Balance
<1>9. 0 \in Nodes /\ 1 \in Nodes /\ 0 \in Ids /\ TRUE \in BOOLEAN /\ FALSE \in BOOLEAN
  BY HostBridgeAssumption DEF Nodes
<1>10. reading = 0
  <2>1. Due(1, 0, TRUE) = 0
    BY <1>8, <1>9
  <2> QED BY <1>7, <2>1 DEF Due
<1>11. \A d \in Ids : net[d] = 0
  <2> SUFFICES ASSUME NEW d \in Ids PROVE net[d] = 0
    OBVIOUS
  <2>1. Due(0, d, FALSE) = 0
    BY <1>8, <1>9
  <2> QED BY <2>1 DEF Due
<1> QED BY <1>6, <1>10, <1>11

(* And the bridge that has every answer has nothing open.                  *)
LEMMA AllTold ==
  ASSUME HostInv, req = <<>>, \A d \in Ids : net[d] = 0, ~Moves
  PROVE  Open = {}
<1>1. /\ aw \in Seq(Phases) /\ w \in Seq(BOOLEAN) /\ left \in Nat /\ sid \in Ids
      /\ pend \in Nat /\ Len(w) \in Nat /\ Len(aw) \in Nat
      /\ eat \in BOOLEAN /\ owe \in BOOLEAN
      /\ \A k \in 1..Len(aw) : aw[k].len \in Nat
  BY HostFacts
<1>2. Room(req) /\ ~owe /\ ~refuse
      /\ (w # <<>> => ~GoW(TRUE, Room(req)) /\ ~DropW(TRUE))
  BY NoMove, RoomEmpty
<1>3. ~eat
  <2> SUFFICES ASSUME eat PROVE FALSE
    OBVIOUS
  <2>1. Len(w) = want[Refused].beats /\ want[Refused].beats \in Nat \ {0}
    BY DropState
  <2>2. w # <<>>
    BY <2>1
  <2> QED BY <1>2, <2>2 DEF DropW
<1>4. left = 0
  <2> SUFFICES ASSUME left # 0 PROVE FALSE
    OBVIOUS
  <2>1. AddsUp(aw, left, Len(w)) /\ left \in Nat \ {0}
    BY <1>1, <1>3 DEF HostInv, Beats, Rest
  <2>2. Len(w) # 0
    BY <1>1, <2>1, AddsLess
  <2>3. w # <<>>
    BY <2>2
  <2> QED BY <1>2, <2>3 DEF GoW, More, splitting
<1>5. pend = 0
  <2>1. merging => net[sid] + left = pend
    BY DEF HostInv, Merges
  <2> QED BY <1>1, <1>4, <2>1 DEF merging
<1>6. aw = <<>>
  <2> SUFFICES ASSUME aw # <<>> PROVE FALSE
    OBVIOUS
  <2>1. AddsUp(aw, 0, Len(w))
    BY <1>3, <1>4 DEF HostInv, Beats, Rest
  <2>2. Len(w) # 0
    BY <1>1, <2>1, AddsTail
  <2>3. w # <<>>
    BY <2>2
  <2> QED BY <1>2, <1>3, <1>4, <1>5, <2>3 DEF GoW, First, splitting, offered, merging
<1>7. Queued = {} /\ Merged = {} /\ Failing = {}
  <2>1. 1..Len(aw) = {}
    BY <1>6
  <2> QED BY <1>2, <1>3, <1>5, <2>1 DEF Queued, Merged, Failing, merging
<1>8. \A d \in Ids : want[d] = Idle
  <2>1. \A d \in Ids \ (Queued \cup Merged \cup Failing) :
          (want[d] = Idle /\ net[d] = 0) \/ (want[d] = Single /\ net[d] = 1)
    BY DEF HostInv, Others
  <2> QED BY <1>7, <2>1
<1> QED BY <1>8 DEF Open, Idle

LEMMA StuckNever ==
  ASSUME ExitInv, NoneLost
  PROVE  NeverStuck
<1> SUFFICES ASSUME ~Moves PROVE Open = {} /\ reading = 0
  BY DEF NeverStuck
<1> QED BY AllHome, AllTold DEF ExitInv

(* The exit cannot deadlock: while the host has a write open or the reader *)
(* waits, one of the bridges, the peripheral or whoever asked can take the *)
(* next step with it, whatever fills the channels between them; a write's  *)
(* answers going first, and identifiers given out strictly in turn, close  *)
(* no circle of waiting.                                                   *)
THEOREM NocExitNeverStuck == Heeds => (ExitSpec => []NeverStuck)
<1> SUFFICES ASSUME Heeds PROVE ExitSpec => []NeverStuck
  OBVIOUS
<1>1. ExitInv /\ [ExitNext]_all => ExitInv'
  BY NextExit
<1>2. ExitInv /\ NoneLost => NeverStuck
  BY StuckNever
<1>3. ExitSpec => []NoneLost
  BY NocExitNoneLost
<1> QED BY <1>1, <1>2, <1>3, InitExit, PTL DEF ExitSpec
=============================================================================
