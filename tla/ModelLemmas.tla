---------------------------- MODULE ModelLemmas ----------------------------
(***************************************************************************)
(* Lemmas the proofs about several components use: least numbers,          *)
(* remainders, and the short sequences of the channels' buffers.           *)
(***************************************************************************)
EXTENDS Naturals, Sequences, SequenceTheorems, WellFoundedInduction, TLAPS

(* A set of numbers has a least one.  The library's theorem on well-founded *)
(* sets gives it.                                                          *)
Less == {p \in Nat \X Nat : p[1] < p[2]}

LEMMA LeastNatural ==
  ASSUME NEW S \in SUBSET Nat, S # {}
  PROVE  \E m \in S : \A k \in S : m <= k
<1>1. Less = OpToRel(<, Nat)
  BY Zenon DEF Less, OpToRel
<1>2. IsWellFoundedOn(Less, Nat)
  BY <1>1, NatLessThanWellFounded, Zenon
<1>3. PICK m \in S : \A k \in S : ~(<<k, m>> \in Less)
  BY <1>2, WFMin, Zenon
<1>4. ASSUME NEW k \in S PROVE m <= k
  <2>1. m \in Nat /\ k \in Nat /\ <<k, m>> \in Nat \X Nat
    OBVIOUS
  <2>2. ~(<<k, m>> \in Less)
    BY <1>3
  <2>3. ~(k < m)
    BY <2>1, <2>2 DEF Less
  <2> QED BY <2>1, <2>3
<1> QED BY <1>4

(* A remainder that does not wrap.                                         *)
LEMMA NoWrap ==
  ASSUME NEW a \in Nat, NEW m \in Nat, a < m
  PROVE  a % m = a /\ (a + m) % m = a
  OBVIOUS

-----------------------------------------------------------------------------
(* Sequences of none, one or two elements: what a channel's buffer is as a *)
(* queue, at an edge at which one comes in, one goes out, both or neither. *)
LEMMA AloneInSeq ==
  ASSUME NEW S, NEW s \in Seq(S), Len(s) <= 1, s # <<>>
  PROVE  Len(s) = 1 /\ DOMAIN s = 1..1
<1>1. Len(s) \in Nat \ {0} /\ DOMAIN s = 1..Len(s)
  BY EmptySeq, LenProperties
<1> QED BY <1>1

LEMMA OneTuple ==
  ASSUME NEW s, NEW e, s = <<e>>
  PROVE  s # <<>> /\ Len(s) = 1 /\ s[1] = e
  OBVIOUS

LEMMA OneElement ==
  ASSUME NEW S, NEW s \in Seq(S), Len(s) = 1
  PROVE  s = <<s[1]>>
  OBVIOUS

LEMMA TwoElements ==
  ASSUME NEW S, NEW s \in Seq(S), Len(s) = 2
  PROVE  s = <<s[1], s[2]>>
  OBVIOUS

LEMMA ConcatShort ==
  ASSUME NEW a, NEW b
  PROVE  /\ <<>> \o <<>> = <<>> /\ <<>> \o <<a>> = <<a>>
         /\ <<a>> \o <<>> = <<a>> /\ <<a, b>> \o <<>> = <<a, b>>
         /\ <<a>> \o <<b>> = <<a, b>>
<1> DEFINE s == <<a>> \o <<b>>
<1>1. Len(s) = 2 /\ s[1] = a /\ s[2] = b /\ s \in Seq({a, b})
  OBVIOUS
<1>2. s = <<a, b>>
  <2> HIDE DEF s
  <2>1. s = <<s[1], s[2]>>
    BY <1>1, TwoElements, Zenon
  <2> QED BY <1>1, <2>1
<1>3. /\ <<>> \o <<>> = <<>> /\ <<>> \o <<a>> = <<a>>
      /\ <<a>> \o <<>> = <<a>> /\ <<a, b>> \o <<>> = <<a, b>>
  OBVIOUS
<1> QED BY <1>2, <1>3

LEMMA SubSeqShort ==
  ASSUME NEW a, NEW b
  PROVE  /\ SubSeq(<<>>, 1, 0) = <<>>
         /\ SubSeq(<<a>>, 1, 1) = <<a>> /\ SubSeq(<<a>>, 2, 1) = <<>>
         /\ SubSeq(<<a, b>>, 1, 2) = <<a, b>>
         /\ SubSeq(<<a, b>>, 2, 2) = <<b>>
<1>1. SubSeq(<<>>, 1, 0) = <<>> /\ SubSeq(<<a>>, 2, 1) = <<>>
  OBVIOUS
<1>2. SubSeq(<<a>>, 1, 1) = <<a>>
  <2> DEFINE s == SubSeq(<<a>>, 1, 1)
  <2>1. Len(s) = 1 /\ s[1] = a /\ s \in Seq({a})
    OBVIOUS
  <2> HIDE DEF s
  <2>2. s = <<s[1]>>
    BY <2>1, OneElement, Zenon
  <2> QED BY <2>1, <2>2 DEF s
<1>3. SubSeq(<<a, b>>, 1, 2) = <<a, b>>
  <2> DEFINE s == SubSeq(<<a, b>>, 1, 2)
  <2>1. Len(s) = 2 /\ s[1] = a /\ s[2] = b /\ s \in Seq({a, b})
    OBVIOUS
  <2> HIDE DEF s
  <2>2. s = <<s[1], s[2]>>
    BY <2>1, TwoElements, Zenon
  <2> QED BY <2>1, <2>2 DEF s
<1>4. SubSeq(<<a, b>>, 2, 2) = <<b>>
  <2> DEFINE s == SubSeq(<<a, b>>, 2, 2)
  <2>1. Len(s) = 1 /\ s[1] = b /\ s \in Seq({a, b})
    OBVIOUS
  <2> HIDE DEF s
  <2>2. s = <<s[1]>>
    BY <2>1, OneElement, Zenon
  <2> QED BY <2>1, <2>2 DEF s
<1> QED BY <1>1, <1>2, <1>3, <1>4

-----------------------------------------------------------------------------
(* b holds the transactions after number r up to number s, at most two.    *)
Numbered(b, r, s) ==
  \/ s = r /\ b = <<>>
  \/ s = r + 1 /\ b = <<r + 1>>
  \/ s = r + 2 /\ b = <<r + 1, r + 2>>

(* b2 is what is left of b, with a behind it, when out went out in front.  *)
Moved(b, a, out, b2) ==
  /\ out <= Len(b \o a)
  /\ b2 = SubSeq(b \o a, out + 1, Len(b \o a))
  /\ Len(b2) <= 2

LEMMA NumberedAll ==
  ASSUME NEW r \in Nat, NEW s \in Nat, NEW b, Numbered(b, r, s)
  PROVE  0 <= Len(b) /\ Len(b) <= 2 /\ b = SubSeq(b, 1, Len(b))
<1>1. CASE b = <<>>
  BY <1>1, SubSeqShort
<1>2. CASE b = <<r + 1>>
  <2>1. Len(<<r + 1>>) = 1
    OBVIOUS
  <2> QED BY <1>2, <2>1, SubSeqShort
<1>3. CASE b = <<r + 1, r + 2>>
  <2>1. Len(<<r + 1, r + 2>>) = 2
    OBVIOUS
  <2> QED BY <1>3, <2>1, SubSeqShort
<1> QED BY <1>1, <1>2, <1>3 DEF Numbered

(* What an edge makes of such a queue: up to one number comes in behind,   *)
(* up to one goes out in front, and the rest is numbered again.            *)
LEMMA NumberedMove ==
  ASSUME NEW r \in Nat, NEW s \in Nat, NEW b, Numbered(b, r, s),
         NEW in \in {0, 1}, NEW out \in {0, 1},
         in = 1 => s # r + 2,
         NEW a, a = IF in = 1 THEN <<s + 1>> ELSE <<>>,
         NEW b2, Numbered(b2, r + out, s + in)
  PROVE  Moved(b, a, out, b2)
<1> DEFINE all == b \o a
<1>1. Numbered(all, r, s + in)
  <2>1. CASE in = 0
    <3>1. a = <<>> /\ s + in = s
      BY <2>1
    <3>2. all = b
      BY <3>1, ConcatShort DEF Numbered
    <3> QED BY <3>1, <3>2
  <2>2. CASE in = 1 /\ s = r
    <3>1. b = <<>> /\ a = <<r + 1>>
      BY <2>2 DEF Numbered
    <3>2. all = <<r + 1>>
      BY <3>1, ConcatShort
    <3> HIDE DEF all
    <3> QED BY <2>2, <3>2 DEF Numbered
  <2>3. CASE in = 1 /\ s = r + 1
    <3>1. b = <<r + 1>> /\ a = <<r + 2>> /\ s + in = r + 2
      BY <2>3 DEF Numbered
    <3>2. all = <<r + 1, r + 2>>
      BY <3>1, ConcatShort
    <3> HIDE DEF all
    <3> QED BY <3>1, <3>2 DEF Numbered
  <2> QED BY <2>1, <2>2, <2>3 DEF Numbered
<1> HIDE DEF all
<1>2. out <= Len(all) /\ b2 = SubSeq(all, out + 1, Len(all)) /\ Len(b2) <= 2
  <2>1. s + in \in Nat /\ out \in Nat /\ r + out \in Nat
    OBVIOUS
  <2>2. 0 <= Len(all) /\ Len(all) <= 2 /\ all = SubSeq(all, 1, Len(all))
    BY <1>1, <2>1, NumberedAll
  <2>3. Len(b2) <= 2
    BY <2>1, NumberedAll
  <2>4. CASE out = 0
    <3>1. b2 = all
      BY <1>1, <2>4 DEF Numbered
    <3>2. out + 1 = 1
      BY <2>4
    <3> QED BY <2>2, <2>4, <3>1, <3>2
  <2>5. CASE out = 1 /\ s + in = r + 1
    <3>1. all = <<r + 1>> /\ b2 = <<>> /\ out + 1 = 2
      BY <1>1, <2>5 DEF Numbered
    <3>2. Len(all) = 1
      BY <3>1
    <3>3. SubSeq(all, 2, 1) = <<>>
      BY <3>1, SubSeqShort
    <3> QED BY <2>3, <2>5, <3>1, <3>2, <3>3
  <2>6. CASE out = 1 /\ s + in = r + 2
    <3>1. all = <<r + 1, r + 2>> /\ b2 = <<r + 2>> /\ out + 1 = 2
      BY <1>1, <2>6 DEF Numbered
    <3>2. Len(all) = 2
      BY <3>1
    <3>3. SubSeq(all, 2, 2) = <<r + 2>>
      BY <3>1, SubSeqShort
    <3> QED BY <2>3, <2>6, <3>1, <3>2, <3>3
  <2> QED BY <1>1, <2>4, <2>5, <2>6 DEF Numbered
<1> QED BY <1>2 DEF all, Moved

-----------------------------------------------------------------------------
(* Sequences of any length: the numbers after r, up to s.                  *)
Numbers(r, s) == [i \in 1..(s - r) |-> r + i]

LEMMA NumbersParts ==
  ASSUME NEW r \in Nat, NEW s \in Nat, r <= s
  PROVE  /\ Numbers(r, s) \in Seq(Nat) /\ Len(Numbers(r, s)) = s - r
         /\ \A i \in 1..(s - r) : Numbers(r, s)[i] = r + i
         /\ r = s => Numbers(r, s) = <<>>
         /\ r # s => Numbers(r, s) # <<>>
<1> DEFINE n == s - r  t == Numbers(r, s)
<1>1. n \in Nat /\ \A i \in 1..n : r + i \in Nat
  OBVIOUS
<1>2. t = [i \in 1..n |-> r + i]
  BY DEF Numbers
<1> HIDE DEF n, t
<1>3. t \in [1..n -> Nat]
  BY <1>1, <1>2
<1>4. t \in Seq(Nat) /\ Len(t) = n
  BY <1>1, <1>3, SeqDef, LenProperties
<1>5. \A i \in 1..n : t[i] = r + i
  BY <1>2
<1>6. n = 0 <=> t = <<>>
  BY <1>1, <1>4, EmptySeq
<1>7. n = 0 <=> r = s
  BY DEF n
<1> QED BY <1>4, <1>5, <1>6, <1>7 DEF n, t

LEMMA NumbersAre ==
  ASSUME NEW r \in Nat, NEW s \in Nat, r <= s, NEW t \in Seq(Nat),
         Len(t) = s - r, \A i \in 1..(s - r) : t[i] = r + i
  PROVE  t = Numbers(r, s)
<1>1. /\ Numbers(r, s) \in Seq(Nat) /\ Len(Numbers(r, s)) = s - r
      /\ \A i \in 1..(s - r) : Numbers(r, s)[i] = r + i
  BY NumbersParts
<1> HIDE DEF Numbers
<1>2. \A i \in 1..Len(t) : t[i] = Numbers(r, s)[i]
  BY <1>1
<1> QED BY <1>1, <1>2, SeqEqual

LEMMA NumbersOne ==
  ASSUME NEW r \in Nat
  PROVE  Numbers(r, r + 1) = <<r + 1>> /\ Numbers(r, r) = <<>>
<1> DEFINE t == <<r + 1>>
<1>1. t \in Seq(Nat) /\ Len(t) = 1 /\ t[1] = r + 1
  OBVIOUS
<1> HIDE DEF t
<1>2. r + 1 \in Nat /\ r <= r + 1 /\ (r + 1) - r = 1
  OBVIOUS
<1>3. \A i \in 1..1 : t[i] = r + i
  BY <1>1
<1>4. t = Numbers(r, r + 1)
  BY <1>1, <1>2, <1>3, NumbersAre
<1> QED BY <1>4, NumbersParts DEF t

LEMMA NumbersConcat ==
  ASSUME NEW r \in Nat, NEW s \in Nat, NEW u \in Nat, r <= s, s <= u
  PROVE  Numbers(r, s) \o Numbers(s, u) = Numbers(r, u)
<1> DEFINE a == Numbers(r, s)  b == Numbers(s, u)
<1>1. /\ a \in Seq(Nat) /\ Len(a) = s - r /\ \A i \in 1..(s - r) : a[i] = r + i
      /\ b \in Seq(Nat) /\ Len(b) = u - s /\ \A i \in 1..(u - s) : b[i] = s + i
  BY NumbersParts
<1> HIDE DEF a, b
<1>2. /\ a \o b \in Seq(Nat) /\ Len(a \o b) = Len(a) + Len(b)
      /\ \A i \in 1..(Len(a) + Len(b)) :
           (a \o b)[i] = IF i <= Len(a) THEN a[i] ELSE b[i - Len(a)]
  BY <1>1, ConcatProperties
<1>3. Len(a \o b) = u - r
  BY <1>1, <1>2
<1>4. ASSUME NEW i \in 1..(u - r) PROVE (a \o b)[i] = r + i
  <2>1. i \in 1..(Len(a) + Len(b)) /\ Len(a) = s - r
    BY <1>1
  <2>2. CASE i <= s - r
    BY <1>1, <1>2, <2>1, <2>2
  <2>3. CASE i > s - r
    <3>1. i - Len(a) \in 1..(u - s) /\ s + (i - Len(a)) = r + i
      BY <2>1, <2>3
    <3>2. (a \o b)[i] = b[i - Len(a)]
      BY <1>2, <2>1, <2>3
    <3> QED BY <1>1, <3>1, <3>2
  <2>4. i <= s - r \/ i > s - r
    OBVIOUS
  <2> QED BY <2>2, <2>3, <2>4, Zenon
<1>5. a \o b = Numbers(r, u)
  <2> DEFINE t == a \o b
  <2>1. r <= u /\ t \in Seq(Nat) /\ Len(t) = u - r /\ \A i \in 1..(u - r) : t[i] = r + i
    BY <1>2, <1>3, <1>4
  <2> HIDE DEF t
  <2> QED BY <2>1, NumbersAre DEF t
<1> QED BY <1>5 DEF a, b

LEMMA NumbersTail ==
  ASSUME NEW r \in Nat, NEW s \in Nat, r < s
  PROVE  Head(Numbers(r, s)) = r + 1 /\ Tail(Numbers(r, s)) = Numbers(r + 1, s)
<1> DEFINE a == Numbers(r, s)
<1>1. /\ a \in Seq(Nat) /\ Len(a) = s - r /\ a # <<>>
      /\ \A i \in 1..(s - r) : a[i] = r + i
  BY NumbersParts
<1> HIDE DEF a
<1>2. /\ Tail(a) \in Seq(Nat) /\ Len(Tail(a)) = Len(a) - 1
      /\ \A i \in 1..Len(Tail(a)) : Tail(a)[i] = a[i + 1]
  BY <1>1, HeadTailProperties
<1>3. Len(Tail(a)) = s - (r + 1) /\ r + 1 <= s /\ r + 1 \in Nat
  BY <1>1, <1>2
<1>4. ASSUME NEW i \in 1..(s - (r + 1)) PROVE Tail(a)[i] = (r + 1) + i
  <2>1. i \in 1..Len(Tail(a)) /\ i + 1 \in 1..(s - r) /\ r + (i + 1) = (r + 1) + i
    BY <1>3
  <2> QED BY <1>1, <1>2, <2>1
<1>5. Tail(a) = Numbers(r + 1, s)
  BY <1>2, <1>3, <1>4, NumbersAre
<1>6. Head(a) = r + 1
  <2>1. Head(a) = a[1] /\ 1 \in 1..(s - r)
    BY <1>1
  <2> QED BY <1>1, <2>1
<1> QED BY <1>5, <1>6 DEF a

LEMMA NumbersFrom ==
  ASSUME NEW r \in Nat, NEW s \in Nat, NEW k \in Nat, r + k <= s
  PROVE  SubSeq(Numbers(r, s), k + 1, s - r) = Numbers(r + k, s)
<1> DEFINE a == Numbers(r, s)  n == s - r  b == SubSeq(a, k + 1, n)
<1>1. /\ a \in Seq(Nat) /\ Len(a) = n /\ \A i \in 1..n : a[i] = r + i
      /\ n \in Nat /\ k <= n
  BY NumbersParts
<1>2. s - (r + k) = n - k /\ r + k \in Nat
  OBVIOUS
<1> HIDE DEF a, n
<1>3. \A i \in (k + 1)..n : a[i] \in Nat
  BY <1>1
<1>4. /\ b \in Seq(Nat) /\ Len(b) = IF k + 1 <= n THEN n - (k + 1) + 1 ELSE 0
      /\ \A i \in 1..(n - (k + 1) + 1) : b[i] = a[(k + 1) + i - 1]
  <2>1. k + 1 \in Int /\ n \in Int
    BY <1>1
  <2> QED BY <1>3, <2>1, SubSeqProperties
<1>5. Len(b) = n - k
  BY <1>1, <1>4
<1>6. ASSUME NEW i \in 1..(n - k) PROVE b[i] = (r + k) + i
  <2>1. i \in 1..(n - (k + 1) + 1) /\ (k + 1) + i - 1 = k + i /\ k + i \in 1..n
    BY <1>1
  <2>2. b[i] = a[k + i] /\ a[k + i] = r + (k + i)
    BY <1>1, <1>4, <2>1
  <2>3. r + (k + i) = (r + k) + i
    BY <1>1
  <2> QED BY <2>2, <2>3
<1> HIDE DEF b
<1>7. b = Numbers(r + k, s)
  BY <1>2, <1>4, <1>5, <1>6, NumbersAre
<1> QED BY <1>7 DEF a, b, n

(* A queue of numbers as up to one leaves it and up to one comes in.       *)
LEMMA NumbersEdge ==
  ASSUME NEW r \in Nat, NEW s \in Nat, r <= s,
         NEW took \in BOOLEAN, took => r < s,
         NEW really \in BOOLEAN
  PROVE  (IF took THEN Tail(Numbers(r, s)) ELSE Numbers(r, s))
           \o (IF really THEN <<s + 1>> ELSE <<>>)
         = Numbers(IF took THEN r + 1 ELSE r, IF really THEN s + 1 ELSE s)
<1> DEFINE a == IF took THEN r + 1 ELSE r
           b == IF really THEN s + 1 ELSE s
           kept == IF took THEN Tail(Numbers(r, s)) ELSE Numbers(r, s)
           more == IF really THEN <<s + 1>> ELSE <<>>
<1>1. a \in Nat /\ b \in Nat /\ a <= s /\ s <= b
  OBVIOUS
<1>2. kept = Numbers(a, s)
  BY NumbersTail
<1>3. more = Numbers(s, b)
  BY NumbersOne
<1> HIDE DEF a, b, kept, more
<1>4. kept \o more = Numbers(a, b)
  BY <1>1, <1>2, <1>3, NumbersConcat
<1> QED BY <1>4 DEF a, b, kept, more
=============================================================================
