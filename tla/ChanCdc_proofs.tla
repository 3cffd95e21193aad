---------------------------- MODULE ChanCdc_proofs ----------------------------
(***************************************************************************)
(* Proofs about ChanCdc, for every width of an address and every bound on  *)
(* what is sent.                                                           *)
(*                                                                         *)
(* First numbers and their bits: two pointers with one Gray code are one   *)
(* pointer; a step changes one bit, the wrap included, so that a pointer   *)
(* caught mid-change is the old one or the new one; and the code of a      *)
(* pointer a lap away differs in the top two bits alone.  Then the circle  *)
(* of pointers, in which the invariant puts those of the two sides and     *)
(* those that their flops hold.                                            *)
(***************************************************************************)
EXTENDS ChanCdc, ModelLemmas

(* The bits of n from the i-th on, as a number.                            *)
From(n, i) == n \div 2 ^ i

LEMMA Quotient ==
  ASSUME NEW n \in Nat, NEW m \in Nat \ {0}, NEW q \in Nat, NEW r \in Nat,
         r < m, n = q * m + r
  PROVE  n \div m = q
<1> DEFINE p == n \div m
<1>1. p \in Nat /\ p * m <= n /\ n < p * m + m
  OBVIOUS
<1> HIDE DEF p
<1>2. p \in Nat /\ q \in Nat /\ m \in Nat /\ q * m \in Nat /\ p * m \in Nat
  BY <1>1
<1>3. ~(p < q)
  <2> SUFFICES ASSUME p < q PROVE FALSE
    OBVIOUS
  <2>1. PICK k \in Nat : q = p + 1 + k
    <3>1. q - p - 1 \in Nat /\ q = p + 1 + (q - p - 1)
      BY <1>2
    <3> QED BY <3>1
  <2>2. q * m = p * m + m + k * m /\ k * m \in Nat
    BY <1>2, <2>1
  <2> QED BY <1>1, <1>2, <2>2
<1>4. ~(q < p)
  <2> SUFFICES ASSUME q < p PROVE FALSE
    OBVIOUS
  <2>1. PICK k \in Nat : p = q + 1 + k
    <3>1. p - q - 1 \in Nat /\ p = q + 1 + (p - q - 1)
      BY <1>2
    <3> QED BY <3>1
  <2>2. p * m = q * m + m + k * m /\ k * m \in Nat
    BY <1>2, <2>1
  <2> QED BY <1>1, <1>2, <2>2
<1>5. p = q
  BY <1>2, <1>3, <1>4
<1> QED BY <1>5 DEF p

LEMMA HalfOf ==
  ASSUME NEW n \in Nat, NEW m \in Nat \ {0}
  PROVE  n \div (2 * m) = (n \div m) \div 2
<1> DEFINE q == n \div m  r == n - q * m  h == q \div 2  s == q % 2
<1>1. q \in Nat /\ r \in Nat /\ r < m /\ n = q * m + r
  OBVIOUS
<1> HIDE DEF q, r
<1>2. h \in Nat /\ s \in 0..1 /\ q = 2 * h + s
  BY <1>1
<1> HIDE DEF h, s
<1>3. q * m = h * (2 * m) + s * m
  BY <1>2
<1>4. s * m + r \in Nat /\ s * m + r < 2 * m
  <2>1. CASE s = 0
    BY <1>1, <2>1
  <2>2. CASE s = 1
    BY <1>1, <2>2
  <2> QED BY <1>2, <2>1, <2>2
<1>5. s * m \in Nat /\ h * (2 * m) \in Nat
  BY <1>2
<1>6. n = h * (2 * m) + (s * m + r)
  BY <1>1, <1>3, <1>5
<1>7. n \div (2 * m) = h
  BY <1>2, <1>4, <1>6, Quotient
<1> QED BY <1>7 DEF h, q

LEMMA FromParts ==
  ASSUME NEW n \in Nat
  PROVE  /\ From(n, 0) = n
         /\ \A i \in 0..PW : From(n, i) \in Nat
         /\ \A i \in 0..AW : From(n, i + 1) = From(n, i) \div 2
         /\ n < 2 * D => From(n, PW) = 0
         /\ n < D => From(n, AW) = 0
<1>1. AW \in Nat /\ PW = AW + 1
  BY ChanCdcAssumption DEF PW
<1>2. 2 ^ PW = 2 * D /\ D \in Nat \ {0}
  <2>1. AW \in 0..AW
    BY <1>1
  <2> QED BY <1>1, <2>1, PowerAssumption DEF D
<1>3. From(n, 0) = n
  BY PowerAssumption DEF From
<1>4. ASSUME NEW i \in 0..PW PROVE From(n, i) \in Nat
  <2>1. 2 ^ i \in Nat \ {0}
    <3>1. i \in 0..AW \/ i = PW
      BY <1>1
    <3> QED BY <1>2, <3>1, PowerAssumption
  <2> QED BY <2>1 DEF From
<1>5. ASSUME NEW i \in 0..AW PROVE From(n, i + 1) = From(n, i) \div 2
  <2>1. 2 ^ i \in Nat \ {0} /\ 2 ^ (i + 1) = 2 * 2 ^ i
    BY PowerAssumption
  <2> QED BY <2>1, HalfOf DEF From
<1>6. n < 2 * D => From(n, PW) = 0
  BY <1>2 DEF From
<1>7. n < D => From(n, AW) = 0
  BY <1>2 DEF From, D
<1> QED BY <1>3, <1>4, <1>5, <1>6, <1>7

LEMMA WidthParts ==
  /\ AW \in Nat \ {0} /\ PW = AW + 1 /\ D \in Nat \ {0}
  /\ 2 ^ AW = D /\ 2 ^ PW = 2 * D
  /\ Bits = 0..AW /\ Pointers = {p \in Nat : p < 2 * D}
<1>1. AW \in 0..AW
  BY ChanCdcAssumption
<1>2. D \in Nat \ {0} /\ 2 ^ PW = 2 * D
  BY <1>1, PowerAssumption DEF D, PW
<1> QED BY <1>2, ChanCdcAssumption DEF PW, D, Bits, Pointers

(* Two numbers alike from a bit on are alike from any later bit.           *)
LEMMA AlikeFrom ==
  ASSUME NEW a \in Nat, NEW b \in Nat, NEW i \in 0..PW, From(a, i) = From(b, i),
         NEW j \in i..PW
  PROVE  From(a, j) = From(b, j)
<1> DEFINE S == {k \in i..PW : From(a, k) # From(b, k)}
<1>1. CASE S = {}
  BY <1>1
<1>2. CASE S # {}
  <2>1. AW \in Nat /\ PW = AW + 1
    BY WidthParts
  <2>2. S \in SUBSET Nat
    BY <2>1
  <2>3. PICK m \in S : \A k \in S : m <= k
    BY <1>2, <2>2, LeastNatural
  <2>4. m \in Nat /\ m # i /\ m \in i..PW
    BY <2>1, <2>3
  <2>5. m - 1 \in i..PW /\ m - 1 \in 0..AW /\ (m - 1) + 1 = m /\ m - 1 \notin S
    BY <2>1, <2>3, <2>4
  <2>6. From(a, m - 1) = From(b, m - 1)
    BY <2>5
  <2>7. From(a, m) = From(b, m)
    BY <2>5, <2>6, FromParts
  <2> QED BY <2>3, <2>7
<1> QED BY <1>1, <1>2

(* No two pointers have one code.                                          *)
LEMMA GrayInjective ==
  ASSUME NEW a \in Pointers, NEW b \in Pointers, Gray(a) = Gray(b)
  PROVE  a = b
<1> DEFINE S == {j \in 0..PW : From(a, PW - j) # From(b, PW - j)}
<1>1. AW \in Nat /\ PW = AW + 1 /\ a \in Nat /\ b \in Nat /\ a < 2 * D /\ b < 2 * D
  BY WidthParts
<1>2. CASE S = {}
  <2>1. PW \in 0..PW /\ PW - PW = 0
    BY <1>1
  <2>2. From(a, PW - PW) = From(b, PW - PW)
    BY <1>2, <2>1
  <2> QED BY <1>1, <2>1, <2>2, FromParts
<1>3. CASE S # {}
  <2>1. S \in SUBSET Nat
    BY <1>1
  <2>2. PICK m \in S : \A k \in S : m <= k
    BY <1>3, <2>1, LeastNatural
  <2>3. From(a, PW) = 0 /\ From(b, PW) = 0
    BY <1>1, FromParts
  <2>4. m \in 0..PW /\ m # 0
    <3>1. PW - 0 = PW
      BY <1>1
    <3> QED BY <2>2, <2>3, <3>1
  <2>5. PICK i : i = PW - m
    OBVIOUS
  <2>6. i \in 0..AW /\ i + 1 = PW - (m - 1) /\ m - 1 \in 0..PW /\ m - 1 \notin S
    BY <1>1, <2>2, <2>4, <2>5
  <2>7. From(a, i + 1) = From(b, i + 1)
    BY <2>6
  <2>8. Bit(a, i + 1) = Bit(b, i + 1)
    BY <2>7 DEF Bit, From
  <2>9. (Bit(a, i) # Bit(a, i + 1)) = (Bit(b, i) # Bit(b, i + 1))
    <3>1. i \in Bits
      BY <2>6, WidthParts
    <3>2. Gray(a)[i] = Gray(b)[i]
      OBVIOUS
    <3> QED BY <3>1, <3>2 DEF Gray
  <2>10. Bit(a, i) <=> Bit(b, i)
    BY <2>8, <2>9 DEF Bit
  <2>11. From(a, i) % 2 = 1 <=> From(b, i) % 2 = 1
    BY <2>10 DEF Bit, From
  <2>12. /\ From(a, i) \in Nat /\ From(b, i) \in Nat
         /\ From(a, i + 1) = From(a, i) \div 2 /\ From(b, i + 1) = From(b, i) \div 2
    <3>1. i \in 0..PW
      BY <1>1, <2>6
    <3> QED BY <1>1, <2>6, <3>1, FromParts
  <2>13. From(a, i) = From(b, i)
    BY <2>7, <2>11, <2>12
  <2> QED BY <2>2, <2>5, <2>13
<1> QED BY <1>2, <1>3

(* Counting one on changes one bit of the code.                            *)
Apart(f, g, k) == \A i \in Bits \ {k} : f[i] = g[i]

LEMMA NextApart ==
  ASSUME NEW p \in Pointers, p + 1 < 2 * D
  PROVE  \E k \in Bits : Apart(Gray(p), Gray(p + 1), k)
<1> DEFINE S == {i \in 0..PW : From(p + 1, i) = From(p, i)}
<1>1. /\ AW \in Nat /\ PW = AW + 1 /\ Bits = 0..AW
      /\ p \in Nat /\ p + 1 \in Nat /\ p < 2 * D
  BY WidthParts
<1>2. /\ From(p, 0) = p /\ From(p + 1, 0) = p + 1
      /\ From(p, PW) = 0 /\ From(p + 1, PW) = 0
  BY <1>1, FromParts
<1>3. \A i \in 0..PW : From(p, i) \in Nat /\ From(p + 1, i) \in Nat
  BY <1>1, FromParts
<1>4. \A i \in 0..AW : /\ From(p, i + 1) = From(p, i) \div 2
                       /\ From(p + 1, i + 1) = From(p + 1, i) \div 2
  BY <1>1, FromParts
<1>5. S \in SUBSET Nat /\ S # {}
  <2>1. PW \in S
    BY <1>1, <1>2
  <2> QED BY <1>1, <2>1
<1>6. PICK m \in S : \A k \in S : m <= k
  BY <1>5, LeastNatural
<1>7. m \in 1..PW /\ From(p + 1, m) = From(p, m)
  BY <1>1, <1>2, <1>6
<1>8. ASSUME NEW i \in 0..(m - 1) PROVE From(p + 1, i) = From(p, i) + 1
  <2> DEFINE W == {k \in 0..(m - 1) : From(p + 1, k) # From(p, k) + 1}
  <2>1. CASE W = {}
    BY <2>1
  <2>2. CASE W # {}
    <3>1. W \in SUBSET Nat
      BY <1>1, <1>7
    <3>2. PICK l \in W : \A k \in W : l <= k
      BY <2>2, <3>1, LeastNatural
    <3>3. l \in 1..(m - 1)
      BY <1>2, <1>7, <3>2
    <3>4. PICK j : j = l - 1
      OBVIOUS
    <3>5. j \in 0..(m - 1) /\ j \notin W /\ j \in 0..AW /\ j \in 0..PW /\ j + 1 = l
      BY <1>1, <1>7, <3>2, <3>3, <3>4
    <3>6. From(p + 1, j) = From(p, j) + 1
      BY <3>5
    <3>7. From(p + 1, l) = From(p + 1, j) \div 2 /\ From(p, l) = From(p, j) \div 2
      BY <1>4, <3>5
    <3>8. From(p + 1, l) = From(p, l) \/ From(p + 1, l) = From(p, l) + 1
      BY <1>3, <3>5, <3>6, <3>7
    <3>9. l \notin S
      BY <1>6, <1>7, <3>3
    <3>10. l \in 0..PW
      BY <1>1, <1>7, <3>3
    <3> QED BY <3>2, <3>8, <3>9, <3>10
  <2> QED BY <2>1, <2>2
<1>9. PICK k : k = m - 1
  OBVIOUS
<1>10. k \in Bits
  BY <1>1, <1>7, <1>9
<1>11. ASSUME NEW i \in Bits \ {k} PROVE Gray(p)[i] = Gray(p + 1)[i]
  <2>1. i \in 0..AW /\ i \in 0..PW /\ i + 1 \in 0..PW
    BY <1>1
  <2>2. CASE i < k
    <3>1. i \in 0..(m - 1) /\ i + 1 \in 0..(m - 1)
      BY <1>1, <1>7, <1>9, <2>1, <2>2
    <3>2. From(p + 1, i) = From(p, i) + 1 /\ From(p + 1, i + 1) = From(p, i + 1) + 1
      BY <1>8, <3>1
    <3>3. /\ From(p, i) % 2 = 1 <=> ~(From(p + 1, i) % 2 = 1)
          /\ From(p, i + 1) % 2 = 1 <=> ~(From(p + 1, i + 1) % 2 = 1)
      BY <1>3, <2>1, <3>2
    <3>4. (Bit(p, i) <=> ~Bit(p + 1, i)) /\ (Bit(p, i + 1) <=> ~Bit(p + 1, i + 1))
      BY <3>3 DEF Bit, From
    <3> QED BY <3>4 DEF Gray, Bit
  <2>3. CASE i > k
    <3>1. i \in m..PW /\ i + 1 \in m..PW /\ m \in 0..PW
      BY <1>1, <1>7, <1>9, <2>1, <2>3
    <3>2. From(p, i) = From(p + 1, i) /\ From(p, i + 1) = From(p + 1, i + 1)
      BY <1>1, <1>7, <3>1, AlikeFrom
    <3>3. (Bit(p, i) = Bit(p + 1, i)) /\ (Bit(p, i + 1) = Bit(p + 1, i + 1))
      BY <3>2 DEF Bit, From
    <3> QED BY <3>3 DEF Gray
  <2> QED BY <1>1, <1>7, <1>9, <2>1, <2>2, <2>3
<1> QED BY <1>10, <1>11 DEF Apart

(* And so does coming round.                                               *)
LEMMA LastParts ==
  \A i \in 0..PW : 2 ^ (PW - i) \in Nat \ {0} /\ From(2 * D - 1, i) = 2 ^ (PW - i) - 1
<1> DEFINE n == 2 * D - 1
           S == {i \in 0..PW : From(n, i) # 2 ^ (PW - i) - 1}
<1>1. /\ AW \in Nat /\ PW = AW + 1 /\ n \in Nat /\ 2 ^ PW = 2 * D /\ D \in Nat \ {0}
  BY WidthParts
<1>2. \A i \in 0..AW : 2 ^ (AW - i) \in Nat \ {0} /\ 2 ^ (PW - i) = 2 * 2 ^ (AW - i)
  <2> SUFFICES ASSUME NEW i \in 0..AW
      PROVE 2 ^ (AW - i) \in Nat \ {0} /\ 2 ^ (PW - i) = 2 * 2 ^ (AW - i)
    OBVIOUS
  <2>1. AW - i \in 0..AW /\ (AW - i) + 1 = PW - i
    BY <1>1
  <2> QED BY <2>1, PowerAssumption
<1>3. ASSUME NEW i \in 0..PW PROVE 2 ^ (PW - i) \in Nat \ {0}
  <2>1. CASE i \in 0..AW
    <3>1. PICK x : x = 2 ^ (AW - i)
      OBVIOUS
    <3>2. x \in Nat \ {0} /\ 2 ^ (PW - i) = 2 * x
      BY <1>2, <2>1, <3>1
    <3> QED BY <3>2
  <2>2. CASE i = PW
    <3>1. PW - i = 0
      BY <1>1, <2>2
    <3>2. 2 ^ (PW - i) = 1
      BY <3>1, PowerAssumption
    <3> QED BY <3>2
  <2> QED BY <1>1, <2>1, <2>2
<1>4. CASE S = {}
  BY <1>3, <1>4
<1>5. CASE S # {}
  <2>1. S \in SUBSET Nat
    BY <1>1
  <2>2. PICK m \in S : \A k \in S : m <= k
    BY <1>5, <2>1, LeastNatural
  <2>3. m # 0
    <3>1. From(n, 0) = n /\ PW - 0 = PW
      BY <1>1, FromParts
    <3> QED BY <1>1, <2>2, <3>1
  <2>4. PICK j : j = m - 1
    OBVIOUS
  <2>5. j \in 0..AW /\ j + 1 = m /\ j \in 0..PW /\ PW - m = AW - j /\ j \notin S
    BY <1>1, <2>2, <2>3, <2>4
  <2>6. PICK x : x = 2 ^ (AW - j)
    OBVIOUS
  <2>7. x \in Nat \ {0} /\ 2 ^ (PW - j) = 2 * x /\ 2 ^ (PW - m) = x
    BY <1>2, <2>5, <2>6
  <2>8. From(n, j) = 2 * x - 1
    BY <2>5, <2>7
  <2>9. From(n, m) = From(n, j) \div 2
    BY <1>1, <2>5, FromParts
  <2>10. From(n, m) = x - 1
    BY <2>7, <2>8, <2>9
  <2> QED BY <2>2, <2>7, <2>10
<1> QED BY <1>4, <1>5

LEMMA WrapApart == Apart(Gray(2 * D - 1), Gray(0), AW)
<1>1. /\ AW \in Nat /\ PW = AW + 1 /\ Bits = 0..AW /\ 2 * D - 1 \in Nat
  BY WidthParts
<1> SUFFICES ASSUME NEW i \in Bits \ {AW} PROVE Gray(2 * D - 1)[i] = Gray(0)[i]
  BY DEF Apart
<1>2. /\ i \in 0..PW /\ i + 1 \in 0..PW /\ i + 1 \in 0..AW /\ i \in 0..AW
      /\ PW - (i + 1) = AW - i /\ AW - (i + 1) \in 0..AW /\ AW - i \in 0..AW
      /\ (AW - (i + 1)) + 1 = AW - i /\ (AW - i) + 1 = PW - i
  BY <1>1
<1>3. PICK x : x = 2 ^ (AW - (i + 1))
  OBVIOUS
<1>4. x \in Nat \ {0} /\ 2 ^ (AW - i) = 2 * x /\ 2 ^ (PW - i) = 2 * (2 * x)
  BY <1>2, <1>3, PowerAssumption
<1>5. From(2 * D - 1, i) = 2 * (2 * x) - 1 /\ From(2 * D - 1, i + 1) = 2 * x - 1
  BY <1>2, <1>4, LastParts
<1>6. From(0, i) = 0 /\ From(0, i + 1) = 0
  <2>1. 2 ^ i \in Nat \ {0} /\ 2 ^ (i + 1) \in Nat \ {0}
    BY <1>2, PowerAssumption
  <2> QED BY <2>1 DEF From
<1>7. /\ From(2 * D - 1, i) % 2 = 1 /\ From(2 * D - 1, i + 1) % 2 = 1
      /\ ~(From(0, i) % 2 = 1) /\ ~(From(0, i + 1) % 2 = 1)
  BY <1>4, <1>5, <1>6
<1>8. Bit(2 * D - 1, i) /\ Bit(2 * D - 1, i + 1) /\ ~Bit(0, i) /\ ~Bit(0, i + 1)
  BY <1>7 DEF Bit, From
<1> QED BY <1>8 DEF Gray, Bit

(* Plus1 is one slot on along the circle of pointers.                      *)
LEMMA Plus1Parts ==
  ASSUME NEW p \in Pointers
  PROVE  /\ Plus1(p) \in Pointers
         /\ p + 1 < 2 * D => Plus1(p) = p + 1
         /\ p + 1 = 2 * D => Plus1(p) = 0
<1>1. p \in Nat /\ p < 2 * D /\ D \in Nat \ {0}
  BY WidthParts
<1>2. p + 1 < 2 * D => Plus1(p) = p + 1
  BY <1>1, NoWrap DEF Plus1
<1>3. p + 1 = 2 * D => Plus1(p) = 0
  <2> SUFFICES ASSUME p + 1 = 2 * D PROVE Plus1(p) = 0
    OBVIOUS
  <2>1. (0 + 2 * D) % (2 * D) = 0
    BY <1>1, NoWrap
  <2> QED BY <1>1, <2>1 DEF Plus1
<1> QED BY <1>1, <1>2, <1>3, WidthParts

LEMMA GrayApart ==
  ASSUME NEW p \in Pointers
  PROVE  \E k \in Bits : Apart(Gray(p), Gray(Plus1(p)), k)
<1>1. /\ AW \in Bits /\ p \in Nat /\ p < 2 * D /\ D \in Nat \ {0}
  BY WidthParts
<1>2. CASE p + 1 < 2 * D
  BY <1>2, NextApart, Plus1Parts
<1>3. CASE p + 1 = 2 * D
  <2>1. p = 2 * D - 1
    BY <1>1, <1>3
  <2> QED BY <1>1, <1>3, <2>1, WrapApart, Plus1Parts
<1> QED BY <1>1, <1>2, <1>3

LEMMA GrayIsBits == \A n : Gray(n) \in [Bits -> BOOLEAN]
  BY DEF Gray, Bit

(* What the Gray code is for: caught mid-change, a pointer is the old one  *)
(* or the new one.                                                         *)
LEMMA SampleOldOrNew ==
  ASSUME NEW p \in Pointers, NEW s \in Samples(Gray(p), Gray(Plus1(p)))
  PROVE  s = Gray(p) \/ s = Gray(Plus1(p))
<1> DEFINE f == Gray(p)  g == Gray(Plus1(p))
<1>1. /\ s \in [Bits -> BOOLEAN] /\ f \in [Bits -> BOOLEAN] /\ g \in [Bits -> BOOLEAN]
      /\ \A i \in Bits : s[i] \in {f[i], g[i]}
  BY GrayIsBits DEF Samples
<1>2. PICK k \in Bits : \A i \in Bits \ {k} : f[i] = g[i]
  BY GrayApart DEF Apart
<1> HIDE DEF f, g
<1>3. CASE s[k] = f[k]
  <2>1. \A i \in Bits : s[i] = f[i]
    BY <1>1, <1>2, <1>3
  <2>2. s = f
    BY <1>1, <2>1
  <2> QED BY <2>2 DEF f
<1>4. CASE s[k] = g[k]
  <2>1. \A i \in Bits : s[i] = g[i]
    BY <1>1, <1>2, <1>4
  <2>2. s = g
    BY <1>1, <2>1
  <2> QED BY <2>2 DEF g
<1> QED BY <1>1, <1>3, <1>4

(* A flop that samples what stands still catches it.                       *)
LEMMA SampleStill ==
  ASSUME NEW n, NEW s \in Samples(Gray(n), Gray(n))
  PROVE  s = Gray(n)
<1>1. /\ s \in [Bits -> BOOLEAN] /\ Gray(n) \in [Bits -> BOOLEAN]
      /\ \A i \in Bits : s[i] = Gray(n)[i]
  BY GrayIsBits DEF Samples
<1> QED BY <1>1

(* full compares two codes bit by bit: it says one lap apart.              *)
Opposite(f, g) ==
  /\ \A i \in Bits \ {PW - 1, PW - 2} : f[i] = g[i]
  /\ f[PW - 1] # g[PW - 1]
  /\ f[PW - 2] # g[PW - 2]

(* The bits of a pointer of the second lap.                                *)
LEMMA LapFrom ==
  ASSUME NEW p \in Nat, p < D
  PROVE  \A i \in 0..AW : /\ 2 ^ (AW - i) \in Nat \ {0}
                          /\ From(p + D, i) = From(p, i) + 2 ^ (AW - i)
<1> DEFINE n == p + D
           S == {i \in 0..AW : From(n, i) # From(p, i) + 2 ^ (AW - i)}
<1>1. AW \in Nat /\ PW = AW + 1 /\ n \in Nat /\ 2 ^ AW = D /\ D \in Nat \ {0}
  BY WidthParts
<1>2. \A i \in 0..AW : 2 ^ (AW - i) \in Nat \ {0}
  <2> SUFFICES ASSUME NEW i \in 0..AW PROVE 2 ^ (AW - i) \in Nat \ {0}
    OBVIOUS
  <2>1. AW - i \in 0..AW
    BY <1>1
  <2> QED BY <2>1, PowerAssumption
<1>3. CASE S = {}
  BY <1>2, <1>3
<1>4. CASE S # {}
  <2>1. S \in SUBSET Nat
    BY <1>1
  <2>2. PICK m \in S : \A k \in S : m <= k
    BY <1>4, <2>1, LeastNatural
  <2>3. m # 0
    <3>1. From(n, 0) = n /\ From(p, 0) = p /\ AW - 0 = AW
      BY <1>1, FromParts
    <3> QED BY <1>1, <2>2, <3>1
  <2>4. PICK j : j = m - 1
    OBVIOUS
  <2>5. /\ j \in 0..AW /\ j + 1 = m /\ j \in 0..PW /\ AW - m \in 0..AW
        /\ (AW - m) + 1 = AW - j /\ j \notin S
    BY <1>1, <2>2, <2>3, <2>4
  <2>6. PICK x : x = 2 ^ (AW - m)
    OBVIOUS
  <2>7. x \in Nat \ {0} /\ 2 ^ (AW - j) = 2 * x
    BY <2>5, <2>6, PowerAssumption
  <2>8. From(n, j) = From(p, j) + 2 * x /\ From(p, j) \in Nat
    BY <2>5, <2>7, FromParts
  <2>9. From(n, m) = From(n, j) \div 2 /\ From(p, m) = From(p, j) \div 2
    BY <1>1, <2>5, FromParts
  <2>10. From(n, m) = From(p, m) + x
    BY <2>7, <2>8, <2>9
  <2> QED BY <2>2, <2>6, <2>10
<1> QED BY <1>3, <1>4

LEMMA LapOpposite ==
  ASSUME NEW p \in Nat, p < D
  PROVE  Opposite(Gray(p + D), Gray(p))
<1>1. /\ AW \in Nat \ {0} /\ PW = AW + 1 /\ Bits = 0..AW /\ D \in Nat \ {0}
      /\ p + D \in Nat /\ p + D < 2 * D /\ p < 2 * D
  BY WidthParts
<1>2. From(p, PW) = 0 /\ From(p + D, PW) = 0
  BY <1>1, FromParts
<1>3. ASSUME NEW i \in 0..(AW - 1) PROVE Bit(p + D, i) <=> Bit(p, i)
  <2>1. AW - (i + 1) \in 0..AW /\ (AW - (i + 1)) + 1 = AW - i /\ i \in 0..AW /\ i \in 0..PW
    BY <1>1
  <2>2. PICK x : x = 2 ^ (AW - (i + 1))
    OBVIOUS
  <2>3. x \in Nat \ {0} /\ 2 ^ (AW - i) = 2 * x
    BY <2>1, <2>2, PowerAssumption
  <2>4. From(p + D, i) = From(p, i) + 2 * x /\ From(p, i) \in Nat
    BY <2>1, <2>3, LapFrom, FromParts
  <2>5. From(p + D, i) % 2 = From(p, i) % 2
    BY <2>3, <2>4
  <2> QED BY <2>5 DEF Bit, From
<1>4. Bit(p + D, AW) /\ ~Bit(p, AW)
  <2>1. AW \in 0..AW /\ AW - AW = 0
    BY <1>1
  <2>2. From(p + D, AW) = From(p, AW) + 2 ^ 0 /\ 2 ^ 0 = 1
    BY <2>1, LapFrom, PowerAssumption
  <2>3. From(p, AW) = 0
    BY FromParts
  <2>4. From(p + D, AW) = 1
    BY <2>2, <2>3
  <2>5. From(p + D, AW) % 2 = 1 /\ ~(From(p, AW) % 2 = 1)
    BY <2>3, <2>4
  <2> QED BY <2>5 DEF Bit, From
<1>5. ~Bit(p + D, AW + 1) /\ ~Bit(p, AW + 1)
  <2>1. ~(From(p + D, AW + 1) % 2 = 1) /\ ~(From(p, AW + 1) % 2 = 1)
    BY <1>1, <1>2
  <2> QED BY <2>1 DEF Bit, From
<1>6. PW - 1 = AW /\ PW - 2 = AW - 1 /\ AW \in Bits /\ AW - 1 \in Bits /\ (AW - 1) + 1 = AW
  BY <1>1
<1>7. ASSUME NEW i \in Bits \ {AW, AW - 1} PROVE Gray(p + D)[i] = Gray(p)[i]
  <2>1. i \in 0..(AW - 1) /\ i + 1 \in 0..(AW - 1)
    BY <1>1
  <2>2. (Bit(p + D, i) <=> Bit(p, i)) /\ (Bit(p + D, i + 1) <=> Bit(p, i + 1))
    BY <1>3, <2>1
  <2> QED BY <2>2 DEF Gray, Bit
<1>8. Gray(p + D)[AW] # Gray(p)[AW]
  BY <1>4, <1>5, <1>6 DEF Gray, Bit
<1>9. Gray(p + D)[AW - 1] # Gray(p)[AW - 1]
  <2>1. AW - 1 \in 0..(AW - 1)
    BY <1>1
  <2>2. Bit(p + D, AW - 1) <=> Bit(p, AW - 1)
    BY <1>3, <2>1
  <2> QED BY <1>4, <1>6, <2>2 DEF Gray, Bit
<1> QED BY <1>6, <1>7, <1>8, <1>9 DEF Opposite

LEMMA OppositeOne ==
  ASSUME NEW f \in [Bits -> BOOLEAN], NEW g \in [Bits -> BOOLEAN],
         NEW h \in [Bits -> BOOLEAN], Opposite(f, h), Opposite(g, h)
  PROVE  f = g
<1>1. PW - 1 \in Bits /\ PW - 2 \in Bits
  BY WidthParts
<1>2. ASSUME NEW i \in Bits PROVE f[i] = g[i]
  <2>1. CASE i \notin {PW - 1, PW - 2}
    BY <2>1 DEF Opposite
  <2>2. CASE i = PW - 1
    <3>1. f[i] # h[i] /\ g[i] # h[i]
      BY <2>2 DEF Opposite
    <3>2. f[i] \in BOOLEAN /\ g[i] \in BOOLEAN /\ h[i] \in BOOLEAN
      OBVIOUS
    <3> QED BY <3>1, <3>2
  <2>3. CASE i = PW - 2
    <3>1. f[i] # h[i] /\ g[i] # h[i]
      BY <2>3 DEF Opposite
    <3>2. f[i] \in BOOLEAN /\ g[i] \in BOOLEAN /\ h[i] \in BOOLEAN
      OBVIOUS
    <3> QED BY <3>1, <3>2
  <2> QED BY <2>1, <2>2, <2>3
<1> QED BY <1>2

(* The pointer i steps after a pointer z.                                  *)
At(z, i) == IF z + i < 2 * D THEN z + i ELSE z + i - 2 * D

LEMMA OppositeIsLap ==
  ASSUME NEW a \in Pointers, NEW b \in Pointers
  PROVE  Opposite(Gray(a), Gray(b)) <=> a = At(b, D)
<1>1. a \in Nat /\ a < 2 * D /\ b \in Nat /\ b < 2 * D /\ D \in Nat \ {0}
  BY WidthParts
<1>2. PICK c : c = At(b, D)
  OBVIOUS
<1>3. Opposite(Gray(c), Gray(b)) /\ c \in Pointers
  <2>1. CASE b < D
    <3>1. c = b + D
      BY <1>1, <1>2, <2>1 DEF At
    <3> QED BY <1>1, <2>1, <3>1, LapOpposite, WidthParts
  <2>2. CASE ~(b < D)
    <3>1. c \in Nat /\ c < D /\ b = c + D /\ c < 2 * D
      BY <1>1, <1>2, <2>2 DEF At
    <3>2. Opposite(Gray(b), Gray(c))
      BY <3>1, LapOpposite
    <3>3. Opposite(Gray(c), Gray(b))
      BY <3>2 DEF Opposite
    <3> QED BY <3>1, <3>3, WidthParts
  <2> QED BY <2>1, <2>2
<1>4. Opposite(Gray(a), Gray(b)) => a = c
  <2> SUFFICES ASSUME Opposite(Gray(a), Gray(b)) PROVE a = c
    OBVIOUS
  <2>1. Gray(a) = Gray(c)
    BY <1>3, GrayIsBits, OppositeOne
  <2> QED BY <1>3, <2>1, GrayInjective
<1> QED BY <1>2, <1>3, <1>4

-----------------------------------------------------------------------------
(* The circle of pointers, and the slots of the memory under it.           *)
LEMMA AtParts ==
  ASSUME NEW z \in Pointers
  PROVE  /\ At(z, 0) = z
         /\ \A i \in 0..(2 * D) : At(z, i) \in Pointers
         /\ \A i \in 0..D : Plus1(At(z, i)) = At(z, i + 1)
         /\ \A i, j \in 0..D : At(At(z, i), j) = At(z, i + j)
         /\ \A i, j \in 0..D : At(z, i) = At(z, j) => i = j
<1>1. z \in Nat /\ z < 2 * D /\ D \in Nat \ {0}
  BY WidthParts
<1>2. At(z, 0) = z
  BY <1>1 DEF At
<1>3. ASSUME NEW i \in 0..(2 * D) PROVE At(z, i) \in Pointers
  <2>1. At(z, i) \in Nat /\ At(z, i) < 2 * D
    BY <1>1 DEF At
  <2> QED BY <2>1, WidthParts
<1>4. ASSUME NEW i \in 0..D PROVE Plus1(At(z, i)) = At(z, i + 1)
  <2>1. At(z, i) \in Pointers
    BY <1>1, <1>3
  <2>2. PICK p : p = At(z, i)
    OBVIOUS
  <2>3. p \in Nat /\ p < 2 * D
    BY <2>1, <2>2, WidthParts
  <2>4. CASE p + 1 < 2 * D
    <3>1. At(z, i + 1) = p + 1
      BY <1>1, <2>2, <2>4 DEF At
    <3> QED BY <2>1, <2>2, <2>4, <3>1, Plus1Parts
  <2>5. CASE p + 1 = 2 * D
    <3>1. At(z, i + 1) = 0
      BY <1>1, <2>2, <2>5 DEF At
    <3> QED BY <2>1, <2>2, <2>5, <3>1, Plus1Parts
  <2> QED BY <1>1, <2>3, <2>4, <2>5
<1>5. \A i, j \in 0..D : At(z, i) = At(z, j) => i = j
  BY <1>1 DEF At
<1>6. \A i, j \in 0..D : At(At(z, i), j) = At(z, i + j)
  BY <1>1 DEF At
<1> QED BY <1>2, <1>3, <1>4, <1>5, <1>6

LEMMA SlotParts ==
  ASSUME NEW p \in Pointers
  PROVE  /\ p % D \in 0..(D - 1)
         /\ p % D = IF p < D THEN p ELSE p - D
<1>1. p \in Nat /\ p < 2 * D /\ D \in Nat \ {0}
  BY WidthParts
<1>2. p < D => p % D = p
  BY <1>1, NoWrap
<1>3. ~(p < D) => p % D = p - D
  <2> SUFFICES ASSUME ~(p < D) PROVE p % D = p - D
    OBVIOUS
  <2>1. PICK q \in Nat : q = p - D
    BY <1>1
  <2>2. q < D /\ p = q + D
    BY <1>1, <2>1
  <2> QED BY <1>1, <2>1, <2>2, NoWrap
<1> QED BY <1>1, <1>2, <1>3

(* Two words less than a lap apart lie in different slots.                 *)
LEMMA SlotsDiffer ==
  ASSUME NEW z \in Pointers, NEW i \in 0..D, NEW j \in 0..D, i < j, j - i < D
  PROVE  At(z, i) % D # At(z, j) % D
<1>1. z \in Nat /\ z < 2 * D /\ D \in Nat \ {0}
  BY WidthParts
<1>2. At(z, i) \in Pointers /\ At(z, j) \in Pointers
  BY <1>1, AtParts
<1>3. PICK a, b : a = At(z, i) /\ b = At(z, j)
  OBVIOUS
<1>4. /\ a % D = IF a < D THEN a ELSE a - D
      /\ b % D = IF b < D THEN b ELSE b - D
  BY <1>2, <1>3, SlotParts
<1>5. /\ a = IF z + i < 2 * D THEN z + i ELSE z + i - 2 * D
      /\ b = IF z + j < 2 * D THEN z + j ELSE z + j - 2 * D
  BY <1>3 DEF At
<1>6. PICK sa, sb : sa = a % D /\ sb = b % D
  OBVIOUS
<1>7. sa # sb
  BY <1>1, <1>4, <1>5, <1>6
<1> QED BY <1>3, <1>6, <1>7

(* The distance between two pointers.                                      *)
LEMMA MinusAt ==
  ASSUME NEW z \in Pointers, NEW i \in 0..D, NEW j \in 0..D, j <= i
  PROVE  Minus(At(z, i), At(z, j)) = i - j
<1>1. z \in Nat /\ z < 2 * D /\ D \in Nat \ {0}
  BY WidthParts
<1>2. PICK a, b : a = At(z, i) /\ b = At(z, j)
  OBVIOUS
<1>3. /\ a = IF z + i < 2 * D THEN z + i ELSE z + i - 2 * D
      /\ b = IF z + j < 2 * D THEN z + j ELSE z + j - 2 * D
  BY <1>2 DEF At
<1>4. PICK k : k = i - j
  OBVIOUS
<1>5. k \in Nat /\ k < 2 * D
  BY <1>1, <1>4
<1>6. a + 2 * D - b = k \/ a + 2 * D - b = k + 2 * D
  BY <1>1, <1>3, <1>4
<1>7. (a + 2 * D - b) % (2 * D) = k
  <2>1. 2 * D \in Nat
    BY <1>1
  <2>2. k % (2 * D) = k /\ (k + 2 * D) % (2 * D) = k
    BY <1>5, <2>1, NoWrap
  <2> QED BY <1>6, <2>2, Zenon
<1> QED BY <1>2, <1>4, <1>7 DEF Minus

-----------------------------------------------------------------------------
(* The invariant.  Going round from the pointer the writer decides on, one *)
(* meets in this order: the one behind it in the writer's flops, the       *)
(* reader's own, the one the reader decides on, the one behind that, and   *)
(* the writer's own, all within a lap.                                     *)
Placed(z, a, r, b, c, w) ==
  /\ z \in Pointers
  /\ {a, r, b, c, w} \subseteq 0..D
  /\ a <= r /\ r <= b /\ b <= c /\ c <= w
  /\ rgray_w2 = Gray(z) /\ rgray_w1 = Gray(At(z, a)) /\ rbin = At(z, r)
  /\ wgray_r2 = Gray(At(z, b)) /\ wgray_r1 = Gray(At(z, c)) /\ wbin = At(z, w)

(* Between the two sides' own pointers lie n words, and these and the      *)
(* channels at the ends hold the numbers between rcvd and sent.            *)
Words(n) ==
  \A i \in 0..(n - 1) : mem[At(rbin, i) % D] = rcvd + Len(outq) + i + 1

Ends(n) ==
  /\ Len(outq) \in 0..2 /\ Len(inq) \in 0..2
  /\ rcvd + Len(outq) + n + Len(inq) = sent
  /\ outq = Numbers(rcvd, rcvd + Len(outq))
  /\ inq = Numbers(rcvd + Len(outq) + n, sent)

Carries ==
  \E z \in Pointers, a, r, b, c, w \in 0..D :
    Placed(z, a, r, b, c, w) /\ Words(w - r) /\ Ends(w - r)

(* In a reset, what the clocks that had an edge have cleared.              *)
WriteZero ==
  wbin = 0 /\ wgray = Gray(0) /\ rgray_w1 = Gray(0) /\ rgray_w2 = Gray(0) /\ inq = <<>>

ReadZero ==
  rbin = 0 /\ rgray = Gray(0) /\ wgray_r1 = Gray(0) /\ wgray_r2 = Gray(0) /\ outq = <<>>

Clearing ==
  rst => /\ "w" \in cleared => WriteZero
         /\ "r" \in cleared => ReadZero
         /\ ~Standing => rcvd = sent

Inv == TypeOK /\ Clearing /\ (Standing => Carries)

(* What the two sides make of their pointers.                              *)
LEMMA PlacedParts ==
  ASSUME TypeOK, NEW z, NEW a, NEW r, NEW b, NEW c, NEW w, Placed(z, a, r, b, c, w)
  PROVE  /\ D \in Nat \ {0} /\ z \in Pointers /\ rbin \in Pointers /\ wbin \in Pointers
         /\ a \in Nat /\ r \in Nat /\ b \in Nat /\ c \in Nat /\ w \in Nat
         /\ a <= r /\ r <= b /\ b <= c /\ c <= w /\ w <= D
         /\ full <=> w = D
         /\ empty <=> r = b
         /\ Count = w - r
         /\ wbin = At(rbin, w - r)
<1>1. /\ D \in Nat \ {0} /\ z \in Pointers /\ rbin \in Pointers /\ wbin \in Pointers
      /\ a \in Nat /\ r \in Nat /\ b \in Nat /\ c \in Nat /\ w \in Nat
      /\ a <= r /\ r <= b /\ b <= c /\ c <= w /\ w <= D
  BY WidthParts DEF Placed, TypeOK
<1>2. /\ wgray = Gray(At(z, w)) /\ rgray_w2 = Gray(z) /\ rgray = Gray(At(z, r))
      /\ wgray_r2 = Gray(At(z, b)) /\ rbin = At(z, r) /\ wbin = At(z, w)
  BY DEF Placed, TypeOK
<1>3. /\ \A i \in 0..(2 * D) : At(z, i) \in Pointers
      /\ \A i, j \in 0..D : At(z, i) = At(z, j) => i = j
      /\ \A i, j \in 0..D : At(At(z, i), j) = At(z, i + j)
  BY <1>1, AtParts
<1>4. full <=> w = D
  <2>1. full <=> Opposite(wgray, rgray_w2)
    BY DEF full, Opposite
  <2>2. w \in 0..D /\ D \in 0..D /\ At(z, w) \in Pointers
    BY <1>1, <1>3
  <2>3. full <=> At(z, w) = At(z, D)
    BY <1>1, <1>2, <2>1, <2>2, OppositeIsLap
  <2> QED BY <1>3, <2>2, <2>3
<1>5. empty <=> r = b
  <2>1. r \in 0..D /\ b \in 0..D /\ At(z, r) \in Pointers /\ At(z, b) \in Pointers
    BY <1>1, <1>3
  <2>2. empty <=> Gray(At(z, r)) = Gray(At(z, b))
    BY <1>2 DEF empty
  <2>3. empty <=> At(z, r) = At(z, b)
    BY <2>1, <2>2, GrayInjective
  <2> QED BY <1>3, <2>1, <2>3
<1>6. Count = w - r
  <2>1. w \in 0..D /\ r \in 0..D /\ r <= w
    BY <1>1
  <2> QED BY <1>1, <1>2, <2>1, MinusAt DEF Count
<1>7. wbin = At(rbin, w - r)
  <2>1. r \in 0..D /\ w - r \in 0..D /\ r + (w - r) = w
    BY <1>1
  <2>2. At(At(z, r), w - r) = At(z, r + (w - r))
    BY <1>3, <2>1
  <2> QED BY <1>2, <2>1, <2>2
<1> QED BY <1>1, <1>4, <1>5, <1>6, <1>7

(* Both sides at their first values.                                       *)
LEMMA ZeroCarries == WriteZero /\ ReadZero /\ rcvd = sent /\ sent \in Nat => Carries
<1> SUFFICES ASSUME WriteZero, ReadZero, rcvd = sent, sent \in Nat PROVE Carries
  OBVIOUS
<1>1. D \in Nat \ {0} /\ 0 \in Pointers /\ 0 \in 0..D /\ 0 - 0 = 0
  BY WidthParts
<1>2. At(0, 0) = 0
  BY <1>1, AtParts
<1>3. Placed(0, 0, 0, 0, 0, 0)
  <2>1. {0, 0, 0, 0, 0} \subseteq 0..D
    BY <1>1
  <2> QED BY <1>1, <1>2, <2>1 DEF Placed, WriteZero, ReadZero
<1>4. Words(0)
  BY DEF Words
<1>5. Ends(0)
  <2>1. Len(outq) = 0 /\ Len(inq) = 0 /\ outq = <<>> /\ inq = <<>>
    BY DEF WriteZero, ReadZero
  <2>2. Numbers(sent, sent) = <<>>
    BY NumbersOne
  <2>3. rcvd + Len(outq) = sent /\ rcvd + Len(outq) + 0 = sent
    BY <2>1
  <2> QED BY <2>1, <2>2, <2>3 DEF Ends
<1>6. Placed(0, 0, 0, 0, 0, 0) /\ Words(0 - 0) /\ Ends(0 - 0)
  BY <1>1, <1>3, <1>4, <1>5
<1> QED BY <1>1, <1>6 DEF Carries

LEMMA InitInv == Init => Inv
<1> SUFFICES ASSUME Init PROVE Inv
  OBVIOUS
<1>1. D \in Nat \ {0} /\ 0 \in Pointers
  BY WidthParts
<1>2. WriteZero /\ ReadZero /\ rcvd = sent /\ sent \in Nat /\ cleared = {}
  BY DEF Init, WriteZero, ReadZero
<1>3. Carries
  BY <1>2, ZeroCarries
<1>4. TypeOK
  <2>1. mem \in [0..(D - 1) -> Nat] /\ rst \in BOOLEAN
    BY <1>1 DEF Init
  <2>2. inq \in Seq(Nat) /\ outq \in Seq(Nat)
    BY EmptySeq DEF Init
  <2>3. Gray(0) \in [Bits -> BOOLEAN]
    BY GrayIsBits
  <2>4. {wgray, rgray_w1, rgray_w2, rgray, wgray_r1, wgray_r2} \subseteq [Bits -> BOOLEAN]
    BY <2>3 DEF Init
  <2> QED BY <1>1, <2>1, <2>2, <2>4 DEF Init, TypeOK
<1>5. Clearing
  BY <1>2 DEF Clearing, Standing
<1> QED BY <1>3, <1>4, <1>5 DEF Inv

-----------------------------------------------------------------------------
(* An instant of a reset.                                                  *)
LEMMA ResetInv ==
  ASSUME Inv, NEW edges \in (SUBSET Clocks) \ {{}}, NEW send \in BOOLEAN,
         NEW take \in BOOLEAN, Instant(edges, send, take), rst
  PROVE  Inv'
<1> USE DEF Clocks
<1>1. /\ "w" \notin edges => UNCHANGED <<mem, wside>>
      /\ "w" \in edges => WriteClear
      /\ "r" \notin edges => UNCHANGED rside
      /\ "r" \in edges => ReadClear
      /\ sent' = sent + (IF send THEN 1 ELSE 0)
      /\ rcvd' = sent'
      /\ \/ rst' = TRUE /\ cleared' = cleared \cup edges
         \/ rst' = FALSE /\ cleared \cup edges = Clocks /\ cleared' = {}
  BY DEF Instant
<1>2. TypeOK /\ Clearing
  BY DEF Inv
<1>3. sent' \in Nat /\ rcvd' \in Nat
  BY <1>1, <1>2 DEF TypeOK
<1>4. "w" \in cleared \cup edges => WriteZero'
  <2>1. CASE "w" \in edges
    BY <1>1, <2>1 DEF WriteClear, WriteZero
  <2>2. CASE "w" \notin edges
    <3>1. UNCHANGED <<wbin, wgray, rgray_w1, rgray_w2, inq>>
      BY <1>1, <2>2 DEF wside
    <3> QED BY <1>2, <2>2, <3>1 DEF Clearing, WriteZero
  <2> QED BY <2>1, <2>2
<1>5. "r" \in cleared \cup edges => ReadZero'
  <2>1. CASE "r" \in edges
    BY <1>1, <2>1 DEF ReadClear, ReadZero
  <2>2. CASE "r" \notin edges
    <3>1. UNCHANGED <<rbin, rgray, wgray_r1, wgray_r2, outq>>
      BY <1>1, <2>2 DEF rside
    <3> QED BY <1>2, <2>2, <3>1 DEF Clearing, ReadZero
  <2> QED BY <2>1, <2>2
<1>6. TypeOK'
  <2>1. Gray(0) \in [Bits -> BOOLEAN] /\ <<>> \in Seq(Nat) /\ 0 \in Pointers
    BY GrayIsBits, EmptySeq, WidthParts
  <2>2. /\ mem' \in [0..(D - 1) -> Nat] /\ wbin' \in Pointers
        /\ wgray' \in [Bits -> BOOLEAN] /\ rgray_w1' \in [Bits -> BOOLEAN]
        /\ rgray_w2' \in [Bits -> BOOLEAN] /\ wgray' = Gray(wbin') /\ inq' \in Seq(Nat)
    <3>1. CASE "w" \in edges
      BY <1>1, <1>2, <2>1, <3>1 DEF WriteClear, TypeOK
    <3>2. CASE "w" \notin edges
      BY <1>1, <1>2, <3>2 DEF wside, TypeOK
    <3> QED BY <3>1, <3>2
  <2>3. /\ rbin' \in Pointers
        /\ rgray' \in [Bits -> BOOLEAN] /\ wgray_r1' \in [Bits -> BOOLEAN]
        /\ wgray_r2' \in [Bits -> BOOLEAN] /\ rgray' = Gray(rbin') /\ outq' \in Seq(Nat)
    <3>1. CASE "r" \in edges
      BY <1>1, <1>2, <2>1, <3>1 DEF ReadClear, TypeOK
    <3>2. CASE "r" \notin edges
      BY <1>1, <1>2, <3>2 DEF rside, TypeOK
    <3> QED BY <3>1, <3>2
  <2>4. rst' \in BOOLEAN /\ cleared' \subseteq Clocks
    BY <1>1, <1>2 DEF TypeOK
  <2>5. {wgray', rgray_w1', rgray_w2', rgray', wgray_r1', wgray_r2'} \subseteq [Bits -> BOOLEAN]
    BY <2>2, <2>3
  <2>6. Gray(wbin)' = Gray(wbin') /\ Gray(rbin)' = Gray(rbin')
    BY DEF Gray, Bit
  <2> QED BY <1>3, <2>2, <2>3, <2>4, <2>5, <2>6 DEF TypeOK
<1>7. CASE rst' = TRUE /\ cleared' = cleared \cup edges
  <2>1. ~Standing'
    BY <1>7 DEF Standing
  <2>2. Clearing'
    BY <1>1, <1>4, <1>5, <1>7 DEF Clearing
  <2> QED BY <1>6, <2>1, <2>2 DEF Inv
<1>8. CASE rst' = FALSE /\ cleared \cup edges = Clocks
  <2>1. WriteZero' /\ ReadZero' /\ rcvd' = sent'
    BY <1>1, <1>4, <1>5, <1>8
  <2>2. Carries'
    <3>1. (WriteZero /\ ReadZero /\ rcvd = sent /\ sent \in Nat)'
      BY <1>3, <2>1
    <3> QED BY <3>1, ZeroCarries, PTL
  <2>3. Clearing'
    BY <1>8 DEF Clearing
  <2> QED BY <1>6, <2>2, <2>3 DEF Inv
<1> QED BY <1>1, <1>7, <1>8

-----------------------------------------------------------------------------
(* An instant without a reset.  Whether a word goes in and whether one     *)
(* comes out say what both sides do.                                       *)
Puts(edges) == "w" \in edges /\ push
Gets(edges) == "r" \in edges /\ pop
One(x) == IF x THEN 1 ELSE 0

LEMMA InstantParts ==
  ASSUME TypeOK, NEW edges \in (SUBSET Clocks) \ {{}}, NEW send \in BOOLEAN,
         NEW take \in BOOLEAN, Instant(edges, send, take), ~rst,
         NEW puts, puts = Puts(edges), NEW gets, gets = Gets(edges)
  PROVE  /\ puts \in BOOLEAN /\ gets \in BOOLEAN
         /\ mem' = IF puts THEN [mem EXCEPT ![wbin % D] = Head(inq)] ELSE mem
         /\ wbin' = IF puts THEN Plus1(wbin) ELSE wbin
         /\ wgray' = IF puts THEN Gray(Plus1(wbin)) ELSE wgray
         /\ rbin' = IF gets THEN Plus1(rbin) ELSE rbin
         /\ rgray' = IF gets THEN Gray(Plus1(rbin)) ELSE rgray
         /\ IF "w" \in edges
            THEN /\ rgray_w1' \in Samples(rgray, rgray') /\ rgray_w2' = rgray_w1
                 /\ inq' = Edge(inq, puts, Item(send, sent + 1))
            ELSE UNCHANGED <<rgray_w1, rgray_w2, inq>> /\ ~send /\ ~puts
         /\ IF "r" \in edges
            THEN /\ wgray_r1' \in Samples(wgray, wgray') /\ wgray_r2' = wgray_r1
                 /\ outq' = Edge(outq, take, Item(gets, mem[rbin % D]))
            ELSE UNCHANGED <<wgray_r1, wgray_r2, outq>> /\ ~take /\ ~gets
         /\ sent' = sent + One(send) /\ rcvd' = rcvd + One(take)
         /\ rst' \in BOOLEAN /\ cleared' = {}
         /\ send => Room(inq)
         /\ take => Offered(outq)
<1>1. puts \in BOOLEAN /\ gets \in BOOLEAN
  BY DEF Puts, Gets, push, pop
<1>2. /\ sent' = sent + One(send) /\ rcvd' = rcvd + One(take)
      /\ rst' \in BOOLEAN /\ cleared' = {}
      /\ send => "w" \in edges /\ Room(inq)
      /\ take => "r" \in edges /\ Offered(outq)
      /\ "w" \notin edges => UNCHANGED <<mem, wside>>
      /\ "w" \in edges => WriteEdge(send) /\ WriteSync
      /\ "r" \notin edges => UNCHANGED rside
      /\ "r" \in edges => ReadEdge(take) /\ ReadSync
  BY DEF Instant, One
<1>3. /\ mem' = IF puts THEN [mem EXCEPT ![wbin % D] = Head(inq)] ELSE mem
      /\ wbin' = IF puts THEN Plus1(wbin) ELSE wbin
      /\ wgray' = IF puts THEN Gray(Plus1(wbin)) ELSE wgray
      /\ IF "w" \in edges
         THEN /\ rgray_w1' \in Samples(rgray, rgray') /\ rgray_w2' = rgray_w1
              /\ inq' = Edge(inq, puts, Item(send, sent + 1))
         ELSE UNCHANGED <<rgray_w1, rgray_w2, inq>> /\ ~send /\ ~puts
  <2>1. CASE "w" \in edges
    <3>1. puts = push
      BY <2>1 DEF Puts, push
    <3> QED BY <1>2, <2>1, <3>1 DEF WriteEdge, WriteSync
  <2>2. CASE "w" \notin edges
    <3>1. ~puts
      BY <2>2 DEF Puts
    <3> QED BY <1>2, <2>2, <3>1 DEF wside
  <2> QED BY <2>1, <2>2
<1>4. /\ rbin' = IF gets THEN Plus1(rbin) ELSE rbin
      /\ rgray' = IF gets THEN Gray(Plus1(rbin)) ELSE rgray
      /\ IF "r" \in edges
         THEN /\ wgray_r1' \in Samples(wgray, wgray') /\ wgray_r2' = wgray_r1
              /\ outq' = Edge(outq, take, Item(gets, mem[rbin % D]))
         ELSE UNCHANGED <<wgray_r1, wgray_r2, outq>> /\ ~take /\ ~gets
  <2>1. CASE "r" \in edges
    <3>1. gets = pop
      BY <2>1 DEF Gets, pop
    <3> QED BY <1>2, <2>1, <3>1 DEF ReadEdge, ReadSync
  <2>2. CASE "r" \notin edges
    <3>1. ~gets
      BY <2>2 DEF Gets
    <3> QED BY <1>2, <2>2, <3>1 DEF rside
  <2> QED BY <2>1, <2>2
<1> QED BY <1>1, <1>2, <1>3, <1>4

(* What a flop catches of a pointer k steps after z that may take a step.  *)
LEMMA SampleMoves ==
  ASSUME NEW z \in Pointers, NEW k \in 0..D, NEW moves \in BOOLEAN,
         NEW s \in Samples(Gray(At(z, k)),
                           IF moves THEN Gray(Plus1(At(z, k))) ELSE Gray(At(z, k)))
  PROVE  \E x \in k..(k + One(moves)) : s = Gray(At(z, x))
<1>1. D \in Nat \ {0} /\ At(z, k) \in Pointers /\ Plus1(At(z, k)) = At(z, k + 1)
  <2>1. D \in Nat \ {0} /\ k \in 0..(2 * D)
    BY WidthParts
  <2> QED BY <2>1, AtParts
<1>2. CASE moves
  <2>1. s = Gray(At(z, k)) \/ s = Gray(At(z, k + 1))
    BY <1>1, <1>2, SampleOldOrNew
  <2>2. k \in k..(k + One(moves)) /\ k + 1 \in k..(k + One(moves))
    BY <1>1, <1>2 DEF One
  <2> QED BY <2>1, <2>2
<1>3. CASE ~moves
  <2>1. s = Gray(At(z, k))
    BY <1>3, SampleStill
  <2>2. k \in k..(k + One(moves))
    BY <1>1, <1>3 DEF One
  <2> QED BY <2>1, <2>2
<1> QED BY <1>2, <1>3

(* The pointers come to lie in their order, the two sides' own n apart.    *)
PlacedNext(n) ==
  \E z \in Pointers, a, r, b, c, w \in 0..D : Placed(z, a, r, b, c, w)' /\ w - r = n

(* They do at every instant, whatever the flops catch.                     *)
LEMMA PlacedStep ==
  ASSUME TypeOK, NEW z, NEW a, NEW r, NEW b, NEW c, NEW w, Placed(z, a, r, b, c, w),
         NEW edges \in (SUBSET Clocks) \ {{}}, NEW send \in BOOLEAN,
         NEW take \in BOOLEAN, Instant(edges, send, take), ~rst,
         NEW puts, puts = Puts(edges), NEW gets, gets = Gets(edges)
  PROVE  /\ puts => w < D
         /\ gets => r < w
         /\ PlacedNext(((w - r) + One(puts)) - One(gets))
<1>1. /\ D \in Nat \ {0} /\ z \in Pointers
      /\ a \in Nat /\ r \in Nat /\ b \in Nat /\ c \in Nat /\ w \in Nat
      /\ a <= r /\ r <= b /\ b <= c /\ c <= w /\ w <= D
      /\ full <=> w = D
      /\ empty <=> r = b
  BY PlacedParts
<1>2. /\ rgray = Gray(At(z, r)) /\ wgray = Gray(At(z, w))
      /\ rgray_w2 = Gray(z) /\ rgray_w1 = Gray(At(z, a)) /\ rbin = At(z, r)
      /\ wgray_r2 = Gray(At(z, b)) /\ wgray_r1 = Gray(At(z, c)) /\ wbin = At(z, w)
  BY DEF Placed, TypeOK
<1>3. /\ puts \in BOOLEAN /\ gets \in BOOLEAN
      /\ wbin' = IF puts THEN Plus1(wbin) ELSE wbin
      /\ wgray' = IF puts THEN Gray(Plus1(wbin)) ELSE wgray
      /\ rbin' = IF gets THEN Plus1(rbin) ELSE rbin
      /\ rgray' = IF gets THEN Gray(Plus1(rbin)) ELSE rgray
      /\ IF "w" \in edges
         THEN rgray_w1' \in Samples(rgray, rgray') /\ rgray_w2' = rgray_w1
         ELSE UNCHANGED <<rgray_w1, rgray_w2>> /\ ~puts
      /\ IF "r" \in edges
         THEN wgray_r1' \in Samples(wgray, wgray') /\ wgray_r2' = wgray_r1
         ELSE UNCHANGED <<wgray_r1, wgray_r2>> /\ ~gets
  BY InstantParts
<1>4. (puts => w < D) /\ (gets => r < b)
  <2>1. (puts => ~full) /\ (gets => ~empty)
    BY DEF Puts, Gets, push, pop
  <2> QED BY <1>1, <2>1
<1>5. PICK rr, ww : rr = r + One(gets) /\ ww = w + One(puts)
  OBVIOUS
<1>6. /\ rr \in Nat /\ ww \in Nat /\ r <= rr /\ rr <= b /\ w <= ww /\ ww <= D
      /\ r + One(gets) = rr /\ w + One(puts) = ww
      /\ (gets => rr = r + 1) /\ (~gets => rr = r)
      /\ (puts => ww = w + 1) /\ (~puts => ww = w)
  BY <1>1, <1>3, <1>4, <1>5 DEF One
<1>7. rbin' = At(z, rr) /\ wbin' = At(z, ww)
  <2>1. r \in 0..D /\ w \in 0..D
    BY <1>1
  <2>2. Plus1(At(z, r)) = At(z, r + 1) /\ Plus1(At(z, w)) = At(z, w + 1)
    BY <1>1, <2>1, AtParts
  <2> QED BY <1>2, <1>3, <1>6, <2>2
<1>8. PICK s : s = IF "w" \in edges THEN a ELSE 0
  OBVIOUS
<1>9. PICK x \in Nat : rgray_w1' = Gray(At(z, x)) /\ s <= x /\ x <= rr
  <2>1. CASE "w" \in edges
    <3>1. r \in 0..D /\ rgray_w1' \in Samples(rgray, rgray')
      BY <1>1, <1>3, <2>1
    <3>2. rgray' = IF gets THEN Gray(Plus1(At(z, r))) ELSE Gray(At(z, r))
      BY <1>2, <1>3
    <3>3. PICK x \in r..(r + One(gets)) : rgray_w1' = Gray(At(z, x))
      BY <1>1, <1>2, <1>3, <3>1, <3>2, SampleMoves
    <3> QED BY <1>1, <1>6, <1>8, <2>1, <3>3
  <2>2. CASE "w" \notin edges
    BY <1>1, <1>2, <1>3, <1>6, <1>8, <2>2
  <2> QED BY <2>1, <2>2
<1>10. PICK bb : bb = IF "r" \in edges THEN c ELSE b
  OBVIOUS
<1>11. /\ bb \in Nat /\ rr <= bb /\ bb <= w /\ wgray_r2' = Gray(At(z, bb))
  BY <1>1, <1>2, <1>3, <1>6, <1>10
<1>12. PICK y \in Nat : wgray_r1' = Gray(At(z, y)) /\ bb <= y /\ y <= ww
  <2>1. CASE "r" \in edges
    <3>1. w \in 0..D /\ wgray_r1' \in Samples(wgray, wgray')
      BY <1>1, <1>3, <2>1
    <3>2. wgray' = IF puts THEN Gray(Plus1(At(z, w))) ELSE Gray(At(z, w))
      BY <1>2, <1>3
    <3>3. PICK y \in w..(w + One(puts)) : wgray_r1' = Gray(At(z, y))
      BY <1>1, <1>2, <1>3, <3>1, <3>2, SampleMoves
    <3> QED BY <1>1, <1>6, <1>11, <3>3
  <2>2. CASE "r" \notin edges
    BY <1>1, <1>2, <1>3, <1>6, <1>10, <2>2
  <2> QED BY <2>1, <2>2
<1>13. s \in Nat /\ s <= D /\ rgray_w2' = Gray(At(z, s))
  <2>1. At(z, 0) = z
    BY <1>1, AtParts
  <2> QED BY <1>1, <1>2, <1>3, <1>8, <2>1
<1>14. PICK z2 : z2 = At(z, s)
  OBVIOUS
<1>15. z2 \in Pointers /\ \A k \in s..D : At(z2, k - s) = At(z, k)
  <2>1. s \in 0..D /\ s \in 0..(2 * D)
    BY <1>1, <1>13
  <2>2. ASSUME NEW k \in s..D PROVE At(z2, k - s) = At(z, k)
    <3>1. k - s \in 0..D /\ s + (k - s) = k
      BY <1>1, <1>13
    <3>2. At(At(z, s), k - s) = At(z, s + (k - s))
      BY <1>1, <2>1, <3>1, AtParts
    <3> QED BY <1>14, <3>1, <3>2
  <2>3. At(z, s) \in Pointers
    BY <1>1, <2>1, AtParts
  <2> QED BY <1>14, <2>2, <2>3
<1>16. /\ x \in s..D /\ rr \in s..D /\ bb \in s..D /\ y \in s..D /\ ww \in s..D
       /\ x - s \in 0..D /\ rr - s \in 0..D /\ bb - s \in 0..D /\ y - s \in 0..D
       /\ ww - s \in 0..D
       /\ x - s <= rr - s /\ rr - s <= bb - s /\ bb - s <= y - s /\ y - s <= ww - s
       /\ (ww - s) - (rr - s) = ww - rr
  BY <1>1, <1>6, <1>9, <1>11, <1>12, <1>13
<1>17. /\ rgray_w2' = Gray(z2) /\ rgray_w1' = Gray(At(z2, x - s))
       /\ rbin' = At(z2, rr - s) /\ wgray_r2' = Gray(At(z2, bb - s))
       /\ wgray_r1' = Gray(At(z2, y - s)) /\ wbin' = At(z2, ww - s)
  BY <1>7, <1>9, <1>11, <1>12, <1>13, <1>14, <1>15, <1>16
<1>18. PICK a2, r2, b2, c2, w2 : /\ a2 = x - s /\ r2 = rr - s /\ b2 = bb - s
                                 /\ c2 = y - s /\ w2 = ww - s
  OBVIOUS
<1>19. Placed(z2, a2, r2, b2, c2, w2)'
  <2>1. {a2, r2, b2, c2, w2} \subseteq 0..D
    BY <1>16, <1>18
  <2>2. a2 <= r2 /\ r2 <= b2 /\ b2 <= c2 /\ c2 <= w2
    BY <1>16, <1>18
  <2>3. /\ rgray_w2' = Gray(z2) /\ rgray_w1' = Gray(At(z2, a2)) /\ rbin' = At(z2, r2)
        /\ wgray_r2' = Gray(At(z2, b2)) /\ wgray_r1' = Gray(At(z2, c2))
        /\ wbin' = At(z2, w2)
    BY <1>17, <1>18
  <2>4. \A k : At(z2, k)' = At(z2, k) /\ Gray(k)' = Gray(k)
    BY DEF At, Gray, Bit
  <2> QED BY <1>15, <2>1, <2>2, <2>3, <2>4 DEF Placed
<1>20. w2 - r2 = ((w - r) + One(puts)) - One(gets)
  <2>1. w2 - r2 = ww - rr
    BY <1>16, <1>18
  <2>2. One(puts) \in Nat /\ One(gets) \in Nat
    BY DEF One
  <2>3. ww - rr = ((w - r) + One(puts)) - One(gets)
    BY <1>1, <1>6, <2>2
  <2> QED BY <2>1, <2>3
<1>21. a2 \in 0..D /\ r2 \in 0..D /\ b2 \in 0..D /\ c2 \in 0..D /\ w2 \in 0..D
  BY <1>16, <1>18
<1>22. gets => r < w
  BY <1>1, <1>4
<1>23. PlacedNext(((w - r) + One(puts)) - One(gets))
  BY <1>15, <1>19, <1>20, <1>21 DEF PlacedNext
<1> QED BY <1>4, <1>22, <1>23

-----------------------------------------------------------------------------
(* A channel at an end, as an edge leaves it.                              *)
LEMMA EdgeNumbers ==
  ASSUME NEW r \in Nat, NEW s \in Nat, r <= s, NEW took \in BOOLEAN, took => r < s,
         NEW really \in BOOLEAN,
         NEW r2, r2 = IF took THEN r + 1 ELSE r,
         NEW s2, s2 = IF really THEN s + 1 ELSE s
  PROVE  Edge(Numbers(r, s), took, Item(really, s + 1)) = Numbers(r2, s2)
<1>1. (IF took THEN Tail(Numbers(r, s)) ELSE Numbers(r, s))
        \o (IF really THEN <<s + 1>> ELSE <<>>)
      = Numbers(IF took THEN r + 1 ELSE r, IF really THEN s + 1 ELSE s)
  BY NumbersEdge
<1> QED BY <1>1 DEF Edge, Item

(* What the words and the channels come to hold: n words before, m after.  *)
LEMMA InstantWords ==
  ASSUME TypeOK, TypeOK', NEW n \in 0..D, Words(n), Ends(n), wbin = At(rbin, n),
         NEW edges \in (SUBSET Clocks) \ {{}}, NEW send \in BOOLEAN,
         NEW take \in BOOLEAN, Instant(edges, send, take), ~rst,
         NEW puts, puts = Puts(edges), NEW gets, gets = Gets(edges),
         puts => n < D, gets => n # 0,
         NEW m, m = (n + One(puts)) - One(gets)
  PROVE  Words(m)' /\ Ends(m)'
<1> DEFINE r == rcvd  o == rcvd + Len(outq)  e == o + n  s == sent
           r2 == IF take THEN r + 1 ELSE r
           o2 == IF gets THEN o + 1 ELSE o
           e2 == IF puts THEN e + 1 ELSE e
           s2 == IF send THEN s + 1 ELSE s
<1>1. /\ puts \in BOOLEAN /\ gets \in BOOLEAN
      /\ mem' = IF puts THEN [mem EXCEPT ![wbin % D] = Head(inq)] ELSE mem
      /\ rbin' = IF gets THEN Plus1(rbin) ELSE rbin
      /\ IF "w" \in edges THEN inq' = Edge(inq, puts, Item(send, sent + 1))
         ELSE inq' = inq /\ ~send /\ ~puts
      /\ IF "r" \in edges THEN outq' = Edge(outq, take, Item(gets, mem[rbin % D]))
         ELSE outq' = outq /\ ~take /\ ~gets
      /\ sent' = sent + One(send) /\ rcvd' = rcvd + One(take)
      /\ send => Len(inq) < 2
      /\ take => outq # <<>>
  BY InstantParts DEF Room, Offered
<1>2. /\ r \in Nat /\ Len(outq) \in 0..2 /\ n \in Nat /\ Len(inq) \in 0..2 /\ s \in Nat
      /\ o \in Nat /\ e \in Nat /\ s = e + Len(inq)
      /\ outq = Numbers(r, o) /\ inq = Numbers(e, s)
      /\ r <= o /\ o <= e /\ e <= s
  <2>1. r \in Nat /\ s \in Nat /\ n \in Nat
    BY WidthParts DEF TypeOK
  <2>2. /\ Len(outq) \in 0..2 /\ Len(inq) \in 0..2
        /\ s = e + Len(inq) /\ outq = Numbers(r, o) /\ inq = Numbers(e, s)
    BY DEF Ends
  <2> QED BY <2>1, <2>2
<1>3. sent' = s2 /\ rcvd' = r2
  <2>1. (send => sent' = s + 1) /\ (~send => sent' = s)
    BY <1>1, <1>2 DEF One
  <2>2. (take => rcvd' = r + 1) /\ (~take => rcvd' = r)
    BY <1>1, <1>2 DEF One
  <2> QED BY <2>1, <2>2
<1>4. (gets => Len(outq) < 2) /\ (puts => inq # <<>>)
  BY DEF Puts, Gets, pop, push, Room, Offered
<1>5. D \in Nat \ {0} /\ rbin \in Pointers /\ rbin' \in Pointers /\ wbin \in Pointers
  BY WidthParts DEF TypeOK
<1>6. \A i \in 0..(n - 1) : mem[At(rbin, i) % D] = o + i + 1
  BY DEF Words
<1>7. mem \in [0..(D - 1) -> Nat] /\ wbin % D \in 0..(D - 1)
  BY <1>5, SlotParts DEF TypeOK
<1>8. /\ At(rbin, 0) = rbin
      /\ \A i \in 0..(2 * D) : At(rbin, i) \in Pointers
      /\ \A i \in 0..D : Plus1(At(rbin, i)) = At(rbin, i + 1)
      /\ \A i, j \in 0..D : At(At(rbin, i), j) = At(rbin, i + j)
  BY <1>5, AtParts
<1>9. \A i : At(rbin, i)' = At(rbin', i)
  BY DEF At
<1>10. m \in Nat /\ n + One(puts) = m + One(gets)
  BY <1>1, <1>2 DEF One
<1> HIDE DEF r, o, e, s
<1>11. (take => r < o) /\ (puts => e < s /\ Head(inq) = e + 1)
  <2>1. r = o => outq = <<>>
    BY <1>2, NumbersParts
  <2>2. e = s => inq = <<>>
    BY <1>2, NumbersParts
  <2>3. e < s => Head(inq) = e + 1
    BY <1>2, NumbersTail
  <2> QED BY <1>1, <1>2, <1>4, <2>1, <2>2, <2>3
<1>12. gets => mem[rbin % D] = o + 1
  <2> SUFFICES ASSUME gets PROVE mem[rbin % D] = o + 1
    OBVIOUS
  <2>1. 0 \in 0..(n - 1)
    BY <1>2
  <2>2. mem[At(rbin, 0) % D] = o + 0 + 1
    BY <1>6, <2>1
  <2> QED BY <1>2, <1>8, <2>2
<1>13. inq' = Numbers(e2, s2)
  <2>1. CASE "w" \in edges
    <3>1. inq' = Edge(inq, puts, Item(send, s + 1))
      BY <1>1, <2>1 DEF s
    <3>2. /\ e \in Nat /\ s \in Nat /\ e <= s /\ (puts => e < s)
          /\ puts \in BOOLEAN /\ send \in BOOLEAN
      BY <1>1, <1>2, <1>11
    <3> HIDE DEF e2, s2
    <3>3. e2 = (IF puts THEN e + 1 ELSE e) /\ s2 = (IF send THEN s + 1 ELSE s)
      BY DEF e2, s2
    <3>4. Edge(Numbers(e, s), puts, Item(send, s + 1)) = Numbers(e2, s2)
      BY <3>2, <3>3, EdgeNumbers
    <3> QED BY <1>2, <3>1, <3>4
  <2>2. CASE "w" \notin edges
    <3>1. e2 = e /\ s2 = s /\ inq' = inq
      BY <1>1, <2>2
    <3> HIDE DEF e2, s2
    <3> QED BY <1>2, <3>1
  <2> QED BY <2>1, <2>2
<1>14. outq' = Numbers(r2, o2)
  <2>1. CASE "r" \in edges
    <3>1. outq' = Edge(outq, take, Item(gets, o + 1))
      BY <1>1, <1>12, <2>1 DEF Item
    <3>2. /\ r \in Nat /\ o \in Nat /\ r <= o /\ (take => r < o)
          /\ take \in BOOLEAN /\ gets \in BOOLEAN
      BY <1>1, <1>2, <1>11
    <3> HIDE DEF r2, o2
    <3>3. r2 = (IF take THEN r + 1 ELSE r) /\ o2 = (IF gets THEN o + 1 ELSE o)
      BY DEF r2, o2
    <3>4. Edge(Numbers(r, o), take, Item(gets, o + 1)) = Numbers(r2, o2)
      BY <3>2, <3>3, EdgeNumbers
    <3> QED BY <1>2, <3>1, <3>4
  <2>2. CASE "r" \notin edges
    <3>1. r2 = r /\ o2 = o /\ outq' = outq
      BY <1>1, <2>2
    <3> HIDE DEF r2, o2
    <3> QED BY <1>2, <3>1
  <2> QED BY <2>1, <2>2
<1>15. /\ r2 \in Nat /\ o2 \in Nat /\ e2 \in Nat /\ s2 \in Nat
       /\ r2 <= o2 /\ o2 <= e2 /\ e2 <= s2
       /\ o2 - r2 \in 0..2 /\ s2 - e2 \in 0..2 /\ e2 = o2 + m
  <2> DEFINE a == Len(outq)  b == Len(inq)
  <2>1. /\ r \in Nat /\ a \in 0..2 /\ b \in 0..2 /\ n \in Nat
        /\ o = r + a /\ e = o + n /\ s = e + b
        /\ gets \in BOOLEAN /\ puts \in BOOLEAN
        /\ (gets => n # 0 /\ a < 2) /\ (send => b < 2)
        /\ (take => r < o) /\ (puts => e < s)
    BY <1>1, <1>2, <1>4, <1>11 DEF r, o, e
  <2> HIDE DEF a, b
  <2>2. (gets => o2 = o + 1) /\ (~gets => o2 = o) /\ (puts => e2 = e + 1) /\ (~puts => e2 = e)
    OBVIOUS
  <2>3. (take => r2 = r + 1) /\ (~take => r2 = r) /\ (send => s2 = s + 1) /\ (~send => s2 = s)
    OBVIOUS
  <2>4. (gets => One(gets) = 1) /\ (~gets => One(gets) = 0)
        /\ (puts => One(puts) = 1) /\ (~puts => One(puts) = 0)
    BY DEF One
  <2> HIDE DEF r2, o2, e2, s2
  <2>5. e2 = o2 + m /\ o2 \in Nat /\ e2 \in Nat /\ o2 <= e2
    BY <1>10, <2>1, <2>2, <2>4
  <2>6. r2 \in Nat /\ r2 <= o2 /\ o2 - r2 \in 0..2
    <3>1. CASE take
      BY <2>1, <2>2, <2>3, <3>1
    <3>2. CASE ~take
      BY <2>1, <2>2, <2>3, <3>2
    <3> QED BY <3>1, <3>2
  <2>7. s2 \in Nat /\ e2 <= s2 /\ s2 - e2 \in 0..2
    <3>1. CASE send
      BY <2>1, <2>2, <2>3, <3>1
    <3>2. CASE ~send
      BY <2>1, <2>2, <2>3, <3>2
    <3> QED BY <3>1, <3>2
  <2> QED BY <2>5, <2>6, <2>7
<1> HIDE DEF r2, o2, e2, s2
<1>16. Len(outq') = o2 - r2 /\ Len(inq') = s2 - e2
  BY <1>13, <1>14, <1>15, NumbersParts
<1>17. rcvd' + Len(outq') = o2 /\ rcvd' + Len(outq') + m = e2 /\ sent' = s2 /\ rcvd' = r2
  BY <1>3, <1>15, <1>16
<1>18. Ends(m)'
  <2>1. Len(outq') \in 0..2 /\ Len(inq') \in 0..2
    BY <1>15, <1>16
  <2>2. rcvd' + Len(outq') + m + Len(inq') = sent'
    BY <1>15, <1>16, <1>17
  <2>3. /\ outq' = Numbers(rcvd', rcvd' + Len(outq'))
        /\ inq' = Numbers(rcvd' + Len(outq') + m, sent')
    BY <1>13, <1>14, <1>17
  <2> QED BY <2>1, <2>2, <2>3 DEF Ends
<1>19. ASSUME NEW i \in 0..(m - 1)
       PROVE  mem'[At(rbin', i) % D] = o2 + i + 1
  <2> DEFINE j == i + One(gets)
  <2>1. j \in Nat /\ j <= n /\ j \in 0..D /\ i \in 0..D /\ (~puts => j < n)
    BY <1>1, <1>2, <1>5, <1>10 DEF One
  <2>2. At(rbin', i) = At(rbin, j)
    <3>1. CASE gets
      <4>1. 0 \in 0..D /\ 1 \in 0..D /\ 0 + 1 = 1 /\ 1 + i = i + 1 /\ One(gets) = 1
        BY <1>5, <2>1, <3>1 DEF One
      <4>2. rbin' = At(rbin, 1)
        BY <1>1, <1>8, <3>1, <4>1
      <4> QED BY <1>8, <2>1, <4>1, <4>2
    <3>2. CASE ~gets
      BY <1>1, <2>1, <3>2 DEF One
    <3> QED BY <3>1, <3>2
  <2>3. o2 + i = o + j
    BY <1>1, <1>2 DEF o2, One
  <2> HIDE DEF j
  <2>4. At(rbin, j) \in Pointers /\ At(rbin, j) % D \in 0..(D - 1)
    <3>1. j \in 0..(2 * D)
      BY <1>5, <2>1
    <3>2. At(rbin, j) \in Pointers
      BY <1>8, <3>1
    <3> QED BY <3>2, SlotParts
  <2>5. CASE j = n
    <3>1. puts /\ At(rbin, j) = wbin
      BY <1>1, <1>2, <2>1, <2>5
    <3>2. mem'[wbin % D] = e + 1
      BY <1>1, <1>7, <1>11, <3>1
    <3>3. e = o + j
      BY <2>5 DEF e
    <3> QED BY <2>2, <2>3, <3>1, <3>2, <3>3
  <2>6. CASE j # n
    <3>1. j \in 0..(n - 1) /\ j < n
      BY <1>2, <2>1, <2>6
    <3>2. mem[At(rbin, j) % D] = o + j + 1
      BY <1>6, <3>1
    <3>3. puts => At(rbin, j) % D # wbin % D
      <4> SUFFICES ASSUME puts PROVE At(rbin, j) % D # wbin % D
        OBVIOUS
      <4>1. n - j < D
        BY <1>2, <1>5, <2>1
      <4> QED BY <1>5, <2>1, <3>1, <4>1, SlotsDiffer
    <3>4. mem'[At(rbin, j) % D] = mem[At(rbin, j) % D]
      BY <1>1, <1>7, <2>4, <3>3
    <3> QED BY <2>2, <2>3, <3>2, <3>4
  <2> QED BY <2>5, <2>6
<1>20. Words(m)'
  <2>1. D' = D
    BY DEF D
  <2> QED BY <1>9, <1>17, <1>19, <2>1 DEF Words
<1> QED BY <1>18, <1>20

-----------------------------------------------------------------------------
LEMMA EdgeInSeq ==
  ASSUME NEW c \in Seq(Nat), NEW took \in BOOLEAN, took => c # <<>>,
         NEW really \in BOOLEAN, NEW x \in Nat
  PROVE  Edge(c, took, Item(really, x)) \in Seq(Nat)
<1>1. (IF took THEN Tail(c) ELSE c) \in Seq(Nat)
  BY HeadTailProperties
<1>2. Item(really, x) \in Seq(Nat)
  BY EmptySeq DEF Item
<1> QED BY <1>1, <1>2, ConcatProperties DEF Edge

(* An instant without a reset leaves the registers in their ranges.        *)
LEMMA InstantType ==
  ASSUME TypeOK, NEW edges \in (SUBSET Clocks) \ {{}}, NEW send \in BOOLEAN,
         NEW take \in BOOLEAN, Instant(edges, send, take), ~rst
  PROVE  TypeOK'
<1>1. PICK puts, gets : puts = Puts(edges) /\ gets = Gets(edges)
  OBVIOUS
<1>2. /\ puts \in BOOLEAN /\ gets \in BOOLEAN
      /\ mem' = IF puts THEN [mem EXCEPT ![wbin % D] = Head(inq)] ELSE mem
      /\ wbin' = IF puts THEN Plus1(wbin) ELSE wbin
      /\ wgray' = IF puts THEN Gray(Plus1(wbin)) ELSE wgray
      /\ rbin' = IF gets THEN Plus1(rbin) ELSE rbin
      /\ rgray' = IF gets THEN Gray(Plus1(rbin)) ELSE rgray
      /\ IF "w" \in edges
         THEN /\ rgray_w1' \in Samples(rgray, rgray') /\ rgray_w2' = rgray_w1
              /\ inq' = Edge(inq, puts, Item(send, sent + 1))
         ELSE UNCHANGED <<rgray_w1, rgray_w2, inq>>
      /\ IF "r" \in edges
         THEN /\ wgray_r1' \in Samples(wgray, wgray') /\ wgray_r2' = wgray_r1
              /\ outq' = Edge(outq, take, Item(gets, mem[rbin % D]))
         ELSE UNCHANGED <<wgray_r1, wgray_r2, outq>>
      /\ sent' = sent + One(send) /\ rcvd' = rcvd + One(take)
      /\ rst' \in BOOLEAN /\ cleared' = {}
      /\ take => Offered(outq)
  BY <1>1, InstantParts
<1>3. (puts => inq # <<>>) /\ (take => outq # <<>>)
  BY <1>1, <1>2 DEF Puts, push, Offered
<1>4. /\ mem \in [0..(D - 1) -> Nat] /\ wbin \in Pointers /\ rbin \in Pointers
      /\ inq \in Seq(Nat) /\ outq \in Seq(Nat) /\ sent \in Nat /\ rcvd \in Nat
      /\ wgray = Gray(wbin) /\ rgray = Gray(rbin)
      /\ wgray \in [Bits -> BOOLEAN] /\ rgray \in [Bits -> BOOLEAN]
      /\ rgray_w1 \in [Bits -> BOOLEAN] /\ rgray_w2 \in [Bits -> BOOLEAN]
      /\ wgray_r1 \in [Bits -> BOOLEAN] /\ wgray_r2 \in [Bits -> BOOLEAN]
  BY DEF TypeOK
<1>5. wbin % D \in 0..(D - 1) /\ rbin % D \in 0..(D - 1)
  BY <1>4, SlotParts
<1>6. mem' \in [0..(D - 1) -> Nat]
  <2>1. puts => Head(inq) \in Nat
    BY <1>3, <1>4, HeadTailProperties
  <2> QED BY <1>2, <1>4, <1>5, <2>1
<1>7. /\ wbin' \in Pointers /\ rbin' \in Pointers
      /\ wgray' = Gray(wbin') /\ rgray' = Gray(rbin')
  <2>1. Plus1(wbin) \in Pointers /\ Plus1(rbin) \in Pointers
    BY <1>4, Plus1Parts
  <2> QED BY <1>2, <1>4, <2>1
<1>8. {wgray', rgray_w1', rgray_w2', rgray', wgray_r1', wgray_r2'}
        \subseteq [Bits -> BOOLEAN]
  <2>1. wgray' \in [Bits -> BOOLEAN] /\ rgray' \in [Bits -> BOOLEAN]
    BY <1>7, GrayIsBits
  <2>2. rgray_w1' \in [Bits -> BOOLEAN] /\ rgray_w2' \in [Bits -> BOOLEAN]
    BY <1>2, <1>4 DEF Samples
  <2>3. wgray_r1' \in [Bits -> BOOLEAN] /\ wgray_r2' \in [Bits -> BOOLEAN]
    BY <1>2, <1>4 DEF Samples
  <2> QED BY <2>1, <2>2, <2>3
<1>9. inq' \in Seq(Nat) /\ outq' \in Seq(Nat)
  <2>1. sent + 1 \in Nat /\ mem[rbin % D] \in Nat
    BY <1>4, <1>5
  <2>2. Edge(inq, puts, Item(send, sent + 1)) \in Seq(Nat)
    BY <1>2, <1>3, <1>4, <2>1, EdgeInSeq
  <2>3. Edge(outq, take, Item(gets, mem[rbin % D])) \in Seq(Nat)
    BY <1>2, <1>3, <1>4, <2>1, EdgeInSeq
  <2> QED BY <1>2, <1>4, <2>2, <2>3
<1>10. sent' \in Nat /\ rcvd' \in Nat
  BY <1>2, <1>4 DEF One
<1>11. Gray(wbin)' = Gray(wbin') /\ Gray(rbin)' = Gray(rbin')
  BY DEF Gray, Bit
<1>12. rst' \in BOOLEAN /\ cleared' \subseteq Clocks
  BY <1>2
<1> QED BY <1>6, <1>7, <1>8, <1>9, <1>10, <1>11, <1>12 DEF TypeOK

LEMMA InstantInv ==
  ASSUME Inv, NEW edges \in (SUBSET Clocks) \ {{}}, NEW send \in BOOLEAN,
         NEW take \in BOOLEAN, Instant(edges, send, take), ~rst
  PROVE  Inv'
<1>1. TypeOK /\ TypeOK' /\ cleared' = {}
  BY InstantType DEF Inv, Instant
<1>2. PICK z \in Pointers, a, r, b, c, w \in 0..D :
        Placed(z, a, r, b, c, w) /\ Words(w - r) /\ Ends(w - r)
  <2>1. Carries
    BY DEF Inv, Standing
  <2> QED BY <2>1 DEF Carries
<1>3. PICK puts, gets : puts = Puts(edges) /\ gets = Gets(edges)
  OBVIOUS
<1>4. /\ puts => w < D
      /\ gets => r < w
      /\ PlacedNext(((w - r) + One(puts)) - One(gets))
  BY <1>1, <1>2, <1>3, PlacedStep
<1>5. PICK z2 \in Pointers, a2, r2, b2, c2, w2 \in 0..D :
        /\ Placed(z2, a2, r2, b2, c2, w2)'
        /\ w2 - r2 = ((w - r) + One(puts)) - One(gets)
  BY <1>4 DEF PlacedNext
<1>6. /\ w - r \in 0..D /\ wbin = At(rbin, w - r)
      /\ puts => w - r < D
      /\ gets => w - r # 0
  <2>1. /\ D \in Nat \ {0} /\ r \in Nat /\ w \in Nat /\ r <= w /\ w <= D
        /\ wbin = At(rbin, w - r)
    <3>1. r <= b /\ b <= c /\ c <= w /\ b \in Nat /\ c \in Nat /\ r \in Nat /\ w \in Nat
      BY <1>1, <1>2, PlacedParts
    <3>2. D \in Nat \ {0} /\ w <= D /\ wbin = At(rbin, w - r)
      BY <1>1, <1>2, PlacedParts
    <3> QED BY <3>1, <3>2
  <2> QED BY <1>4, <2>1
<1>7. PICK n, m : n = w - r /\ m = w2 - r2
  OBVIOUS
<1>8. Words(m)' /\ Ends(m)'
  <2>1. /\ n \in 0..D /\ Words(n) /\ Ends(n) /\ wbin = At(rbin, n)
        /\ (puts => n < D) /\ (gets => n # 0) /\ m = (n + One(puts)) - One(gets)
    BY <1>2, <1>5, <1>6, <1>7
  <2> QED BY <1>1, <1>3, <2>1, InstantWords
<1>9. Carries'
  <2>1. Words(w2 - r2)' /\ Ends(w2 - r2)'
    BY <1>7, <1>8
  <2>2. D' = D /\ Pointers' = Pointers
    BY DEF D, Pointers
  <2> QED BY <1>5, <2>1, <2>2 DEF Carries
<1>10. Clearing'
  BY <1>1 DEF Clearing, Standing
<1> QED BY <1>1, <1>9, <1>10 DEF Inv

LEMMA NextInv == Inv /\ [Next]_vars => Inv'
<1> SUFFICES ASSUME Inv, [Next]_vars PROVE Inv'
  OBVIOUS
<1>1. CASE Next
  <2>1. PICK edges \in (SUBSET Clocks) \ {{}}, send \in BOOLEAN, take \in BOOLEAN :
          Instant(edges, send, take)
    BY <1>1 DEF Next
  <2> QED BY <2>1, ResetInv, InstantInv
<1>2. CASE UNCHANGED vars
  <2> USE DEF vars, wside, rside
  <2>1. TypeOK'
    BY <1>2 DEF Inv, TypeOK, Gray, Bit
  <2>2. Clearing' /\ (Standing' <=> Standing)
    BY <1>2 DEF Inv, Clearing, Standing, WriteZero, ReadZero, Gray, Bit
  <2>3. Carries' <=> Carries
    BY <1>2 DEF Carries, Placed, Words, Ends, At, Gray, Bit
  <2> QED BY <2>1, <2>2, <2>3 DEF Inv
<1> QED BY <1>1, <1>2

LEMMA InvAlways == Spec => []Inv
  BY InitInv, NextInv, PTL DEF Spec

(* The pointers, the flops and the memory keep their ranges, and each Gray *)
(* register is the Gray code of its binary one, for every width.           *)
THEOREM CdcType == Spec => []TypeOK
<1>1. Inv => TypeOK
  BY DEF Inv
<1> QED BY <1>1, InvAlways, PTL

-----------------------------------------------------------------------------
LEMMA PointerGray ==
  ASSUME NEW p \in Pointers
  PROVE  Pointer(Gray(p)) = p
<1>1. PICK x : x = Pointer(Gray(p))
  OBVIOUS
<1>2. x \in Pointers /\ Gray(x) = Gray(p)
  BY <1>1, Zenon DEF Pointer
<1> QED BY <1>1, <1>2, GrayInjective

(* Whatever width the pointers have and whatever the flops catch: the      *)
(* writer takes the memory for at least as full as it is and never for     *)
(* more than full, and the reader for at most as full.                     *)
THEOREM CdcConservative == Spec => []Conservative
<1>1. Inv => Conservative
  <2> SUFFICES ASSUME Inv, Standing
               PROVE  /\ Minus(wbin, Pointer(rgray_w2)) \in Count..D
                      /\ Minus(Pointer(wgray_r2), rbin) <= Count
    BY DEF Conservative
  <2>1. TypeOK
    BY DEF Inv
  <2>2. Carries
    BY DEF Inv
  <2>3. PICK z \in Pointers, a \in 0..D, r \in 0..D, b \in 0..D, c \in 0..D,
             w \in 0..D : Placed(z, a, r, b, c, w)
    BY <2>2 DEF Carries
  <2>4. /\ D \in Nat \ {0} /\ r \in Nat /\ b \in Nat /\ c \in Nat /\ w \in Nat
        /\ r <= b /\ b <= c /\ c <= w /\ w <= D
        /\ Count = w - r
    BY <2>1, <2>3, PlacedParts
  <2>5. /\ rgray_w2 = Gray(z) /\ wgray_r2 = Gray(At(z, b))
        /\ rbin = At(z, r) /\ wbin = At(z, w)
    BY <2>3 DEF Placed
  <2>6. At(z, b) \in Pointers /\ At(z, 0) = z
    <3>1. b \in 0..(2 * D)
      BY <2>4
    <3> QED BY <3>1, AtParts
  <2>7. Pointer(rgray_w2) = At(z, 0) /\ Pointer(wgray_r2) = At(z, b)
    BY <2>5, <2>6, PointerGray
  <2>8. Minus(At(z, w), At(z, 0)) = w - 0 /\ Minus(At(z, b), At(z, r)) = b - r
    <3>1. 0 \in 0..D /\ 0 <= w /\ r \in 0..D /\ b \in 0..D /\ w \in 0..D
      BY <2>4
    <3> QED BY <2>4, <3>1, MinusAt
  <2>9. w - 0 \in (w - r)..D /\ b - r <= w - r
    BY <2>4
  <2> QED BY <2>4, <2>5, <2>7, <2>8, <2>9
<1> QED BY <1>1, InvAlways, PTL

(* What a side errs by is only what has not passed its flops: once they    *)
(* hold the other's pointer, full and empty are exact, so that the two     *)
(* never wait for each other.  It is what Through needs beside             *)
(* fairness.                                                               *)
Settled ==
  Standing =>
    /\ rgray_w2 = rgray => (full <=> Count = D)
    /\ wgray_r2 = wgray => (empty <=> Count = 0)

(* With settled flops the writer stops only at a full memory and the       *)
(* reader only at an empty one, for any width of the pointers (full,       *)
(* empty).                                                                 *)
THEOREM CdcSettled == Spec => []Settled
<1>1. Inv => Settled
  <2> SUFFICES ASSUME Inv, Standing
               PROVE  /\ rgray_w2 = rgray => (full <=> Count = D)
                      /\ wgray_r2 = wgray => (empty <=> Count = 0)
    BY DEF Settled
  <2>1. TypeOK /\ Carries
    BY DEF Inv
  <2>2. PICK z \in Pointers, a \in 0..D, r \in 0..D, b \in 0..D, c \in 0..D,
             w \in 0..D : Placed(z, a, r, b, c, w)
    BY <2>1 DEF Carries
  <2>3. /\ D \in Nat \ {0} /\ r \in Nat /\ b \in Nat /\ w \in Nat
        /\ r <= b /\ b <= w /\ w <= D
        /\ full <=> w = D
        /\ empty <=> r = b
        /\ Count = w - r
    BY <2>1, <2>2, PlacedParts
  <2>4. /\ rgray_w2 = Gray(z) /\ rgray = Gray(At(z, r))
        /\ wgray_r2 = Gray(At(z, b)) /\ wgray = Gray(At(z, w))
    BY <2>1, <2>2 DEF Placed, TypeOK
  <2>5. /\ \A i \in 0..D : At(z, i) \in Pointers
        /\ \A i, j \in 0..D : At(z, i) = At(z, j) => i = j
        /\ At(z, 0) = z
    <3>1. \A i \in 0..D : i \in 0..(2 * D)
      BY <2>3
    <3> QED BY <2>3, <3>1, AtParts
  <2>6. 0 \in 0..D
    BY <2>3
  <2>7. rgray_w2 = rgray => r = 0
    BY <2>4, <2>5, <2>6, GrayInjective
  <2>8. wgray_r2 = wgray => b = w
    BY <2>4, <2>5, GrayInjective
  <2> QED BY <2>3, <2>7, <2>8
<1> QED BY <1>1, InvAlways, PTL

-----------------------------------------------------------------------------
(* The refinement: outside of a reset that has begun, what is stored, with *)
(* what the channels hold, is the queue.                                   *)
LEMMA TwoLaps ==
  ASSUME NEW k \in Nat, NEW n \in Nat, k < n
  PROVE  (k + 2 * n) % n = k
  OBVIOUS

LEMMA SlotOf ==
  ASSUME NEW p \in Pointers, NEW j \in 0..(D - 1)
  PROVE  (p + j) % D = At(p, j) % D
<1>1. p \in Nat /\ p < 2 * D /\ D \in Nat \ {0} /\ j \in Nat /\ j < D
  BY WidthParts
<1>2. CASE p + j < 2 * D
  BY <1>1, <1>2 DEF At
<1>3. CASE p + j >= 2 * D
  <2>1. PICK k \in Nat : k = p + j - 2 * D
    BY <1>1, <1>3
  <2>2. k < D /\ p + j = k + 2 * D /\ At(p, j) = k
    BY <1>1, <1>3, <2>1 DEF At
  <2>3. (k + 2 * D) % D = k % D
    BY <1>1, <2>2, NoWrap, TwoLaps
  <2> QED BY <2>2, <2>3
<1> QED BY <1>1, <1>2, <1>3

Waiting == IF Standing THEN outq \o Stored \o inq ELSE <<>>

AsQueue ==
  /\ Waiting = Numbers(rcvd, sent)
  /\ rcvd \in Nat /\ sent \in Nat /\ rcvd <= sent /\ sent - rcvd <= D + 4

LEMMA AllNumbered == Inv => AsQueue
<1> SUFFICES ASSUME Inv PROVE AsQueue
  OBVIOUS
<1>1. rcvd \in Nat /\ sent \in Nat /\ D \in Nat /\ rbin \in Pointers
  BY WidthParts DEF Inv, TypeOK
<1>2. CASE ~Standing
  <2>1. rcvd = sent
    BY <1>2 DEF Inv, Clearing, Standing
  <2>2. Numbers(sent, sent) = <<>>
    BY <1>1, NumbersOne
  <2> QED BY <1>1, <1>2, <2>1, <2>2 DEF AsQueue, Waiting
<1>3. CASE Standing
  <2>1. PICK z \in Pointers, ra \in 0..D, r \in 0..D, b \in 0..D, c \in 0..D, w \in 0..D :
          Placed(z, ra, r, b, c, w) /\ Words(w - r) /\ Ends(w - r)
    <3>1. Carries
      BY <1>3 DEF Inv
    <3> QED BY <3>1 DEF Carries
  <2>2. TypeOK
    BY DEF Inv
  <2>3. /\ r \in Nat /\ w \in Nat /\ r <= w /\ w <= D /\ Count = w - r
    <3>1. r <= b /\ b <= c /\ c <= w /\ b \in Nat /\ c \in Nat /\ r \in Nat /\ w \in Nat
      BY <2>1, <2>2, PlacedParts
    <3>2. w <= D /\ Count = w - r
      BY <2>1, <2>2, PlacedParts
    <3> QED BY <3>1, <3>2
  <2>4. PICK n : n = w - r
    OBVIOUS
  <2>5. n \in Nat /\ n <= D /\ Count = n /\ Words(n) /\ Ends(n)
    BY <1>1, <2>1, <2>3, <2>4
  <2> DEFINE o == rcvd + Len(outq)  e == o + n  p == Len(outq)  q == Len(inq)
  <2>6. /\ p \in 0..2 /\ q \in 0..2 /\ o = rcvd + p /\ e = o + n /\ sent = e + q
        /\ outq = Numbers(rcvd, o) /\ inq = Numbers(e, sent)
    BY <2>5 DEF Ends
  <2>7. \A i \in 0..(n - 1) : mem[At(rbin, i) % D] = o + i + 1
    BY <2>5 DEF Words
  <2> HIDE DEF o, e, p, q
  <2>8. /\ o \in Nat /\ e \in Nat /\ rcvd <= o /\ o <= e /\ e <= sent /\ e - o = n
        /\ rcvd <= e /\ rcvd <= sent /\ sent - rcvd <= D + 4
    BY <1>1, <2>5, <2>6
  <2>9. Stored = Numbers(o, e)
    <3>1. Stored = [i \in 1..n |-> mem[(rbin + i - 1) % D]]
      BY <2>5 DEF Stored
    <3>2. ASSUME NEW i \in 1..n PROVE mem[(rbin + i - 1) % D] = o + i
      <4>1. PICK j : j = i - 1
        OBVIOUS
      <4>2. j \in 0..(n - 1) /\ j \in 0..(D - 1) /\ o + j + 1 = o + i /\ rbin + i - 1 = rbin + j
        <5>1. rbin \in Nat
          BY <1>1, WidthParts
        <5> QED BY <1>1, <2>5, <2>8, <4>1, <5>1
      <4>3. (rbin + j) % D = At(rbin, j) % D
        BY <1>1, <4>2, SlotOf
      <4> QED BY <2>7, <4>2, <4>3
    <3>3. Numbers(o, e) = [i \in 1..n |-> o + i]
      BY <2>8 DEF Numbers
    <3> QED BY <3>1, <3>2, <3>3
  <2>10. outq \o Stored = Numbers(rcvd, e)
    <3>1. rcvd \in Nat /\ o \in Nat /\ e \in Nat /\ rcvd <= o /\ o <= e
      BY <1>1, <2>8
    <3>2. Numbers(rcvd, o) \o Numbers(o, e) = Numbers(rcvd, e)
      BY <3>1, NumbersConcat
    <3> QED BY <2>6, <2>9, <3>2
  <2>11. Numbers(rcvd, e) \o inq = Numbers(rcvd, sent)
    <3>1. rcvd \in Nat /\ e \in Nat /\ sent \in Nat /\ rcvd <= e /\ e <= sent
      BY <1>1, <2>8
    <3>2. Numbers(rcvd, e) \o Numbers(e, sent) = Numbers(rcvd, sent)
      BY <3>1, NumbersConcat
    <3> QED BY <2>6, <3>2
  <2> QED BY <1>1, <1>3, <2>8, <2>10, <2>11 DEF AsQueue, Waiting
<1> QED BY <1>2, <1>3

LEMMA InstantIsEdge ==
  ASSUME Inv, Inv', NEW edges \in (SUBSET Clocks) \ {{}}, NEW send \in BOOLEAN,
         NEW take \in BOOLEAN, Instant(edges, send, take)
  PROVE  Q!Next
<1> DEFINE in == IF send THEN 1 ELSE 0
           out == IF take THEN 1 ELSE 0
           q == Waiting
           all == q \o Q!Arrivals(in)
<1>1. /\ q = Numbers(rcvd, sent) /\ rcvd \in Nat /\ sent \in Nat /\ rcvd <= sent
  BY AllNumbered DEF AsQueue
<1>2. /\ q' = Numbers(rcvd', sent') /\ rcvd' \in Nat /\ sent' \in Nat
      /\ rcvd' <= sent' /\ sent' - rcvd' <= D + 4
  <2>1. AsQueue'
    BY AllNumbered, PTL
  <2> QED BY <2>1 DEF AsQueue, Numbers, D
<1>3. /\ in \in 0..1 /\ out \in 0..1 /\ rst' \in BOOLEAN
      /\ sent' = sent + in
      /\ rcvd' = IF rst THEN sent' ELSE rcvd + out
  <2>1. in \in 0..1 /\ out \in 0..1
    OBVIOUS
  <2>2. sent' = sent + in /\ rcvd' = IF rst THEN sent' ELSE rcvd + out
    BY DEF Instant
  <2>3. rst' \in BOOLEAN
    BY DEF Inv, TypeOK
  <2> QED BY <2>1, <2>2, <2>3
<1>4. CASE rst
  <2>1. q' = <<>>
    BY <1>2, <1>3, <1>4, NumbersParts
  <2>2. Q!Flush(in)
    <3> HIDE DEF in, q
    <3>1. q' = <<>> /\ sent' = sent + in /\ rcvd' = sent'
      BY <1>3, <1>4, <2>1
    <3> QED BY <1>4, <3>1 DEF Q!Flush, q, Waiting
  <2> HIDE DEF in, q
  <2> QED BY <1>3, <2>2 DEF Q!Next
<1>5. CASE ~rst
  <2>1. all = Numbers(rcvd, sent + in)
    <3>1. Q!Arrivals(in) = Numbers(sent, sent + in)
      <4>1. CASE send
        BY <1>1, <4>1, NumbersOne DEF Q!Arrivals
      <4>2. CASE ~send
        BY <1>1, <4>2, NumbersOne DEF Q!Arrivals
      <4> QED BY <4>1, <4>2
    <3>2. sent + in \in Nat /\ sent <= sent + in
      BY <1>1
    <3>3. Numbers(rcvd, sent) \o Numbers(sent, sent + in) = Numbers(rcvd, sent + in)
      <4> HIDE DEF in
      <4> QED BY <1>1, <3>2, NumbersConcat
    <3> HIDE DEF in, q
    <3> QED BY <1>1, <3>1, <3>3
  <2> HIDE DEF in, out, q
  <2>2. rcvd' = rcvd + out /\ rcvd + out <= sent + in
    BY <1>2, <1>3, <1>5
  <2>3. Len(all) = (sent + in) - rcvd /\ out <= Len(all)
    <3>1. sent + in \in Nat /\ rcvd <= sent + in
      BY <1>1, <1>3
    <3> HIDE DEF all
    <3>2. Len(all) = (sent + in) - rcvd
      BY <1>1, <2>1, <3>1, NumbersParts
    <3> QED BY <1>1, <1>3, <2>2, <3>1, <3>2
  <2>4. q' = SubSeq(all, out + 1, Len(all))
    <3>1. SubSeq(Numbers(rcvd, sent + in), out + 1, (sent + in) - rcvd)
            = Numbers(rcvd + out, sent + in)
      <4>1. sent + in \in Nat /\ out \in Nat
        BY <1>1, <1>3
      <4> QED BY <1>1, <2>2, <4>1, NumbersFrom
    <3>2. q' = Numbers(rcvd + out, sent + in)
      BY <1>2, <1>3, <2>2
    <3> HIDE DEF all
    <3> QED BY <2>1, <2>3, <3>1, <3>2
  <2>5. Len(q') <= D + 4
    BY <1>2, NumbersParts
  <2>6. Q!Move(in, out)
    BY <1>3, <1>5, <2>2, <2>3, <2>4, <2>5 DEF Q!Move, q, Waiting
  <2> QED BY <1>3, <2>6 DEF Q!Next
<1> QED BY <1>4, <1>5

(* The channel across two clocks is a queue of D + 4, whatever the periods *)
(* and phases of the clocks and the width of the pointers: it loses,       *)
(* repeats and reorders nothing, though neither side sees the other's      *)
(* pointer as it is.                                                       *)
THEOREM CdcImplementsQueue == Spec => CdcIsQueue
<1>1. Init => Q!Init
  <2> SUFFICES ASSUME Init PROVE Q!Init
    OBVIOUS
  <2>1. Waiting = Numbers(0, 0)
    BY InitInv, AllNumbered DEF Init, AsQueue
  <2>2. Waiting = <<>>
    BY <2>1, NumbersOne
  <2> QED BY <2>2 DEF Init, Q!Init, Waiting
<1>2. Inv /\ Inv' /\ [Next]_vars => [Q!Next]_(Q!vars)
  <2> SUFFICES ASSUME Inv, Inv', [Next]_vars PROVE [Q!Next]_(Q!vars)
    OBVIOUS
  <2>1. CASE Next
    BY <2>1, InstantIsEdge DEF Next
  <2>2. CASE UNCHANGED vars
    BY <2>2 DEF vars, wside, rside, Q!vars, Stored, Count, Minus, Standing
  <2> QED BY <2>1, <2>2
<1> QED BY <1>1, <1>2, InvAlways, PTL DEF Spec, CdcIsQueue, Q!Spec
===============================================================================
