----------------------------- MODULE Fifo_proofs -----------------------------
(***************************************************************************)
(* Proofs about Fifo, for every depth and every bound on what is sent.     *)
(***************************************************************************)
EXTENDS Fifo, ModelLemmas

(* The slot i after a slot h.                                              *)
At(h, i) == IF h + i < D THEN h + i ELSE h + i - D

LEMMA SlotAt == \A i : Slot(i) = At(head, i)
  BY DEF Slot, At

LEMMA AtParts ==
  ASSUME NEW h \in Slots
  PROVE  /\ D \in Nat \ {0} /\ At(h, 0) = h /\ At(h, D) = h /\ After(h) \in Slots
         /\ \A i \in 0..D : At(h, i) \in Slots
         /\ \A i \in 0..(D - 1) : After(At(h, i)) = At(h, i + 1)
         /\ \A i \in 0..(D - 1) : At(After(h), i) = At(h, i + 1)
         /\ \A i, j \in 0..(D - 1) : At(h, i) = At(h, j) => i = j
         /\ \A i \in 0..(D - 1) : At(h, i + 1) = h => i = D - 1
<1>1. D \in Nat \ {0} /\ h \in Nat /\ h < D
  BY FifoAssumption DEF Slots
<1>2. At(h, 0) = h /\ At(h, D) = h /\ After(h) \in Slots
  BY <1>1 DEF At, After, Slots
<1>3. \A i \in 0..D : At(h, i) \in Slots
  BY <1>1 DEF At, Slots
<1>4. \A i \in 0..(D - 1) : After(At(h, i)) = At(h, i + 1)
  BY <1>1 DEF At, After
<1>5. \A i \in 0..(D - 1) : At(After(h), i) = At(h, i + 1)
  BY <1>1 DEF At, After
<1>6. \A i, j \in 0..(D - 1) : At(h, i) = At(h, j) => i = j
  BY <1>1 DEF At
<1>7. \A i \in 0..(D - 1) : At(h, i + 1) = h => i = D - 1
  BY <1>1 DEF At
<1> QED BY <1>1, <1>2, <1>3, <1>4, <1>5, <1>6, <1>7

-----------------------------------------------------------------------------
(* The invariant.  Held(n) says of the pointers and the bit that there are *)
(* n words in the memory; the words and the two channels hold, in order,   *)
(* the numbers between rcvd and sent.  full tells n = D from n = 0.        *)
Held(n) ==
  /\ n \in 0..D
  /\ tail = At(head, n)
  /\ full <=> n = D

Words(n) == \A i \in 0..(n - 1) : mem[At(head, i)] = rcvd + Len(outq) + i + 1

Ends(n) ==
  /\ Len(outq) \in 0..2 /\ Len(inq) \in 0..2
  /\ rcvd + Len(outq) + n + Len(inq) = sent
  /\ outq = Numbers(rcvd, rcvd + Len(outq))
  /\ inq = Numbers(rcvd + Len(outq) + n, sent)

Inv == TypeOK /\ \E n \in 0..D : Held(n) /\ Words(n) /\ Ends(n)

(* Count and empty read the pointers rightly.                              *)
LEMMA HeldCount ==
  ASSUME TypeOK, NEW n, Held(n)
  PROVE  Count = n /\ (empty <=> n = 0)
<1>1. /\ D \in Nat \ {0} /\ head \in Nat /\ head < D /\ tail \in Nat /\ tail < D
      /\ n \in Nat /\ n <= D
  BY FifoAssumption DEF TypeOK, Slots, Held
<1>2. CASE full
  BY <1>1, <1>2 DEF Held, Count, empty
<1>3. CASE ~full
  <2>1. n < D
    BY <1>1, <1>3 DEF Held
  <2>2. tail = IF head + n < D THEN head + n ELSE head + n - D
    BY DEF Held, At
  <2> QED BY <1>1, <1>3, <2>1, <2>2 DEF Count, empty
<1> QED BY <1>2, <1>3

LEMMA InitInv == Init => Inv
<1> SUFFICES ASSUME Init PROVE Inv
  OBVIOUS
<1> USE DEF Init
<1>1. D \in Nat \ {0} /\ 0 \in Slots /\ 0 \in 0..D
  BY FifoAssumption DEF Slots
<1>2. TypeOK
  BY <1>1 DEF TypeOK
<1>3. Held(0)
  BY <1>1 DEF Held, At
<1>4. Words(0)
  BY DEF Words
<1>5. Ends(0)
  <2>1. Len(outq) = 0 /\ Len(inq) = 0 /\ Numbers(0, 0) = <<>>
    BY NumbersParts
  <2> QED BY <2>1 DEF Ends
<1> QED BY <1>1, <1>2, <1>3, <1>4, <1>5 DEF Inv

(* Under reset.                                                            *)
LEMMA ClearInv ==
  ASSUME Inv, NEW send \in BOOLEAN, NEW take \in BOOLEAN, Cycle(send, take), rst
  PROVE  Inv' /\ Held(0)'
<1>1. /\ head' = 0 /\ tail' = 0 /\ full' = FALSE /\ inq' = <<>> /\ outq' = <<>>
      /\ mem' = mem /\ rst' \in BOOLEAN /\ rcvd' = sent'
      /\ sent' = sent + (IF send THEN 1 ELSE 0)
  BY DEF Cycle, Clear
<1>2. D \in Nat \ {0} /\ 0 \in Slots /\ 0 \in 0..D /\ sent' \in Nat
  BY <1>1, FifoAssumption DEF Slots, Inv, TypeOK
<1>3. TypeOK'
  <2>1. mem \in [Slots -> Nat]
    BY DEF Inv, TypeOK
  <2>2. <<>> \in Seq(Nat)
    BY EmptySeq
  <2>3. mem' \in [Slots -> Nat] /\ inq' \in Seq(Nat) /\ outq' \in Seq(Nat)
    BY <1>1, <2>1, <2>2
  <2> QED BY <1>1, <1>2, <2>3 DEF TypeOK
<1>4. Held(0)'
  <2>1. At(0, 0) = 0 /\ 0 # D
    BY <1>2 DEF At
  <2>2. tail' = At(head', 0) /\ ~full'
    BY <1>1, <2>1
  <2> QED BY <1>2, <2>1, <2>2 DEF Held, At
<1>5. Words(0)'
  BY DEF Words
<1>6. Ends(0)'
  <2>1. Len(outq') = 0 /\ Len(inq') = 0 /\ Numbers(sent', sent') = <<>>
    <3>1. Numbers(sent', sent') = <<>>
      BY <1>2, NumbersOne
    <3> QED BY <1>1, <3>1
  <2>2. rcvd' + Len(outq') = sent' /\ rcvd' + Len(outq') + 0 = sent'
    BY <1>1, <1>2, <2>1
  <2>3. /\ outq' = Numbers(rcvd', rcvd' + Len(outq'))
        /\ inq' = Numbers(rcvd' + Len(outq') + 0, sent')
    BY <1>1, <2>1, <2>2
  <2> QED BY <1>2, <2>1, <2>2, <2>3 DEF Ends
<1> QED BY <1>2, <1>3, <1>4, <1>5, <1>6 DEF Inv

(* Without one: what the pointers and the bit come to hold, and where.     *)
LEMMA WriteHeld ==
  ASSUME TypeOK, NEW n, Held(n), Write,
         NEW m, m = (n + (IF push THEN 1 ELSE 0)) - (IF pop THEN 1 ELSE 0)
  PROVE  /\ Held(m)' /\ head' \in Slots /\ tail' \in Slots /\ full' \in BOOLEAN
         /\ pop => n # 0 /\ head' = After(head)
         /\ ~pop => head' = head
         /\ push => n # D /\ tail = At(head, n)
<1>1. /\ D \in Nat \ {0} /\ head \in Slots /\ tail \in Slots /\ full \in BOOLEAN
      /\ n \in 0..D /\ tail = At(head, n) /\ (full <=> n = D)
  BY FifoAssumption DEF TypeOK, Held
<1>2. (pop => n # 0) /\ (push => n # D) /\ push \in BOOLEAN /\ pop \in BOOLEAN
  BY <1>1, HeldCount DEF pop, push, empty, Offered, Room
<1>3. /\ tail' = IF push THEN After(tail) ELSE tail
      /\ head' = IF pop THEN After(head) ELSE head
      /\ full' = FullNext
  BY DEF Write
<1>4. /\ \A h \in Slots : After(h) \in Slots
      /\ \A i \in 0..D : At(head, i) \in Slots
      /\ At(head, 0) = head /\ At(head, D) = head
      /\ \A i \in 0..(D - 1) : /\ After(At(head, i)) = At(head, i + 1)
                               /\ At(After(head), i) = At(head, i + 1)
                               /\ At(head, i + 1) = head => i = D - 1
  BY <1>1, AtParts
<1>5. /\ pop => ~full'
      /\ ~pop => (full' <=> full \/ (push /\ After(tail) = head))
      /\ full' \in BOOLEAN
  BY <1>1, <1>2, <1>3 DEF FullNext
<1> HIDE DEF push, pop
<1>6. m \in 0..D /\ tail' = At(head', m) /\ (full' <=> m = D)
  <2>1. CASE push /\ pop
    <3>1. m = n /\ n \in 0..(D - 1) /\ n + 1 \in 0..D
      BY <1>1, <1>2, <2>1
    <3>2. tail' = At(head', n) /\ ~full' /\ n # D
      BY <1>1, <1>3, <1>4, <1>5, <2>1, <3>1
    <3> QED BY <1>1, <3>1, <3>2
  <2>2. CASE push /\ ~pop
    <3>1. m = n + 1 /\ n \in 0..(D - 1) /\ n + 1 \in 0..D
      BY <1>1, <1>2, <2>2
    <3>2. tail' = At(head', m)
      BY <1>1, <1>3, <1>4, <2>2, <3>1
    <3>3. full' <=> m = D
      BY <1>1, <1>2, <1>4, <1>5, <2>2, <3>1
    <3> QED BY <3>1, <3>2, <3>3
  <2>3. CASE ~push /\ pop
    <3>1. m = n - 1 /\ m \in 0..(D - 1) /\ n = m + 1 /\ m # D
      BY <1>1, <1>2, <2>3
    <3>2. tail' = At(head', m) /\ ~full'
      BY <1>1, <1>3, <1>4, <1>5, <2>3, <3>1
    <3> QED BY <1>1, <3>1, <3>2
  <2>4. CASE ~push /\ ~pop
    <3>1. m = n
      BY <1>1, <2>4
    <3> QED BY <1>1, <1>3, <1>5, <2>4, <3>1
  <2> QED BY <1>2, <2>1, <2>2, <2>3, <2>4
<1>7. Held(m)'
  BY <1>6 DEF Held, At
<1>8. head' \in Slots /\ tail' \in Slots
  BY <1>1, <1>2, <1>3, <1>4
<1> QED BY <1>1, <1>2, <1>3, <1>5, <1>7, <1>8

(* What the words and the channels come to hold.                           *)
LEMMA CycleWords ==
  ASSUME TypeOK, NEW n \in 0..D, Held(n), Words(n), Ends(n),
         NEW send \in BOOLEAN, NEW take \in BOOLEAN, Cycle(send, take), ~rst,
         NEW m, m = (n + (IF push THEN 1 ELSE 0)) - (IF pop THEN 1 ELSE 0)
  PROVE  TypeOK' /\ Held(m)' /\ Words(m)' /\ Ends(m)'
<1> DEFINE r == rcvd  o == rcvd + Len(outq)  e == o + n  s == sent
           r2 == IF take THEN r + 1 ELSE r
           o2 == IF pop THEN o + 1 ELSE o
           e2 == IF push THEN e + 1 ELSE e
           s2 == IF send THEN s + 1 ELSE s
<1>1. /\ Write /\ rst' \in BOOLEAN
      /\ inq' = Edge(inq, push, Item(send, sent + 1))
      /\ outq' = Edge(outq, take, Item(pop, mem[head]))
      /\ sent' = s2 /\ rcvd' = r2
      /\ send => Len(inq) < 2
      /\ take => outq # <<>>
  BY DEF Cycle, TypeOK, Room, Offered
<1>2. /\ r \in Nat /\ Len(outq) \in 0..2 /\ n \in Nat /\ Len(inq) \in 0..2 /\ s \in Nat
      /\ o \in Nat /\ e \in Nat /\ s = e + Len(inq)
      /\ outq = Numbers(r, o) /\ inq = Numbers(e, s)
      /\ r <= o /\ o <= e /\ e <= s
  BY DEF TypeOK, Ends
<1>3. /\ Held(m)' /\ head' \in Slots /\ tail' \in Slots /\ full' \in BOOLEAN
      /\ pop => n # 0 /\ head' = After(head)
      /\ ~pop => head' = head
      /\ push => n # D /\ tail = At(head, n)
  BY <1>1, WriteHeld
<1>4. /\ pop \in BOOLEAN /\ push \in BOOLEAN
      /\ pop => Len(outq) < 2
      /\ push => inq # <<>>
  BY DEF pop, push, empty, Room, Offered, TypeOK
<1>5. D \in Nat \ {0} /\ head \in Slots
  BY FifoAssumption DEF TypeOK
<1>6. \A i \in 0..(n - 1) : mem[At(head, i)] = o + i + 1
  BY DEF Words
<1>7. mem' = IF push THEN [mem EXCEPT ![tail] = Head(inq)] ELSE mem
  BY <1>1 DEF Write
<1>8. mem \in [Slots -> Nat] /\ tail \in Slots
  BY DEF TypeOK
<1>9. /\ At(head, 0) = head
      /\ \A i \in 0..D : At(head, i) \in Slots
      /\ \A i \in 0..(D - 1) : At(After(head), i) = At(head, i + 1)
      /\ \A i, j \in 0..(D - 1) : At(head, i) = At(head, j) => i = j
  BY <1>5, AtParts
<1>10. \A i : At(head, i)' = At(head', i)
  BY DEF At
<1> HIDE DEF push, pop, r, o, e, s
<1>11. (take => r < o) /\ (push => e < s /\ Head(inq) = e + 1)
  <2>1. r = o => outq = <<>>
    BY <1>2, NumbersParts
  <2>2. e = s => inq = <<>>
    BY <1>2, NumbersParts
  <2>3. e < s => Head(inq) = e + 1
    BY <1>2, NumbersTail
  <2> QED BY <1>1, <1>2, <1>4, <2>1, <2>2, <2>3
<1>12. pop => mem[head] = o + 1
  <2>1. pop => n \in Nat \ {0}
    BY <1>2, <1>3
  <2>2. pop => mem[At(head, 0)] = o + 0 + 1
    BY <1>6, <2>1
  <2> QED BY <1>2, <1>9, <2>2
<1>13. inq' = Numbers(e2, s2)
  <2>1. inq' = (IF push THEN Tail(inq) ELSE inq) \o (IF send THEN <<s + 1>> ELSE <<>>)
    BY <1>1 DEF Edge, Item, s
  <2>2. (IF push THEN Tail(Numbers(e, s)) ELSE Numbers(e, s))
          \o (IF send THEN <<s + 1>> ELSE <<>>) = Numbers(e2, s2)
    BY <1>2, <1>4, <1>11, NumbersEdge
  <2> HIDE DEF e2, s2
  <2> QED BY <1>2, <2>1, <2>2
<1>14. outq' = Numbers(r2, o2)
  <2>1. outq' = (IF take THEN Tail(outq) ELSE outq) \o (IF pop THEN <<o + 1>> ELSE <<>>)
    BY <1>1, <1>12 DEF Edge, Item
  <2>2. (IF take THEN Tail(Numbers(r, o)) ELSE Numbers(r, o))
          \o (IF pop THEN <<o + 1>> ELSE <<>>) = Numbers(r2, o2)
    <3>1. /\ r \in Nat /\ o \in Nat /\ r <= o /\ (take => r < o)
          /\ take \in BOOLEAN /\ pop \in BOOLEAN
      BY <1>2, <1>4, <1>11
    <3> QED BY <3>1, NumbersEdge, Zenon
  <2> HIDE DEF r2, o2
  <2> QED BY <1>2, <2>1, <2>2
<1>15. /\ r2 \in Nat /\ o2 \in Nat /\ e2 \in Nat /\ s2 \in Nat
       /\ r2 <= o2 /\ o2 <= e2 /\ e2 <= s2
       /\ o2 - r2 \in 0..2 /\ s2 - e2 \in 0..2 /\ m \in Nat /\ e2 = o2 + m
  <2> DEFINE a == Len(outq)  b == Len(inq)
  <2>1. /\ r \in Nat /\ a \in 0..2 /\ b \in 0..2 /\ n \in Nat
        /\ o = r + a /\ e = o + n /\ s = e + b
        /\ pop \in BOOLEAN /\ push \in BOOLEAN
        /\ (pop => n # 0 /\ a < 2) /\ (send => b < 2)
        /\ (take => r < o) /\ (push => e < s)
    BY <1>1, <1>2, <1>3, <1>4, <1>11 DEF r, o, e
  <2> HIDE DEF a, b
  <2>2. (pop => o2 = o + 1) /\ (~pop => o2 = o) /\ (push => e2 = e + 1) /\ (~push => e2 = e)
    OBVIOUS
  <2>3. (take => r2 = r + 1) /\ (~take => r2 = r) /\ (send => s2 = s + 1) /\ (~send => s2 = s)
    OBVIOUS
  <2> HIDE DEF r2, o2, e2, s2
  <2>4. m \in Nat /\ e2 = o2 + m /\ o2 \in Nat /\ e2 \in Nat /\ o2 <= e2
    BY <2>1, <2>2
  <2>5. r2 \in Nat /\ r2 <= o2 /\ o2 - r2 \in 0..2
    <3>1. CASE take
      BY <2>1, <2>2, <2>3, <3>1
    <3>2. CASE ~take
      BY <2>1, <2>2, <2>3, <3>2
    <3> QED BY <3>1, <3>2
  <2>6. s2 \in Nat /\ e2 <= s2 /\ s2 - e2 \in 0..2
    <3>1. CASE send
      BY <2>1, <2>2, <2>3, <3>1
    <3>2. CASE ~send
      BY <2>1, <2>2, <2>3, <3>2
    <3> QED BY <3>1, <3>2
  <2> QED BY <2>4, <2>5, <2>6
<1> HIDE DEF r2, o2, e2, s2
<1>16. /\ Len(outq') = o2 - r2 /\ Len(inq') = s2 - e2
       /\ outq' \in Seq(Nat) /\ inq' \in Seq(Nat)
  BY <1>13, <1>14, <1>15, NumbersParts
<1>17. rcvd' + Len(outq') = o2 /\ rcvd' + Len(outq') + m = e2 /\ sent' = s2 /\ rcvd' = r2
  BY <1>1, <1>15, <1>16
<1>18. Ends(m)'
  <2>1. Len(outq') \in 0..2 /\ Len(inq') \in 0..2
    BY <1>15, <1>16
  <2>2. rcvd' + Len(outq') + m + Len(inq') = sent'
    BY <1>15, <1>16, <1>17
  <2>3. /\ outq' = Numbers(rcvd', rcvd' + Len(outq'))
        /\ inq' = Numbers(rcvd' + Len(outq') + m, sent')
    BY <1>13, <1>14, <1>17
  <2> QED BY <2>1, <2>2, <2>3 DEF Ends
<1>19. mem' \in [Slots -> Nat]
  <2>1. push => Head(inq) \in Nat
    BY <1>2, <1>11
  <2> QED BY <1>7, <1>8, <2>1
<1>20. ASSUME NEW i \in 0..(m - 1)
       PROVE  mem'[At(head', i)] = o2 + i + 1
  <2> DEFINE j == IF pop THEN i + 1 ELSE i
  <2>1. j \in 0..(D - 1) /\ At(head', i) = At(head, j) /\ j <= n
    <3>1. i \in Nat /\ i < m /\ m <= D
      BY <1>3, <1>15 DEF Held
    <3>2. j \in 0..(D - 1) /\ i \in 0..(D - 1) /\ j <= n /\ (~push => j < n)
      BY <1>2, <1>3, <1>4, <1>5, <3>1
    <3> QED BY <1>3, <1>4, <1>9, <3>2
  <2>2. o2 + i = o + j /\ o + j \in Nat
    BY <1>2, <1>4 DEF o2
  <2>3. ~push => j # n
    BY <1>2, <1>4, <1>15
  <2> HIDE DEF j
  <2>4. CASE j = n
    <3>1. push /\ At(head, j) = tail
      BY <1>3, <2>3, <2>4
    <3>2. mem'[At(head, j)] = e + 1
      BY <1>7, <1>8, <1>11, <3>1
    <3>3. e = o + j
      BY <2>4 DEF e
    <3> QED BY <2>1, <2>2, <3>2, <3>3
  <2>5. CASE j # n
    <3>1. j \in 0..(n - 1)
      BY <1>2, <2>1, <2>5
    <3>2. mem[At(head, j)] = o + j + 1
      BY <1>6, <3>1
    <3>3. push => At(head, j) # tail
      <4>1. push => n \in 0..(D - 1)
        BY <1>2, <1>3, <1>5
      <4> QED BY <1>3, <1>9, <2>1, <2>5, <4>1
    <3>4. mem'[At(head, j)] = mem[At(head, j)]
      BY <1>7, <1>8, <1>9, <2>1, <3>3
    <3> QED BY <2>1, <2>2, <3>2, <3>4
  <2> QED BY <2>4, <2>5
<1>21. Words(m)'
  BY <1>17, <1>20 DEF Words, At
<1>22. TypeOK'
  BY <1>1, <1>3, <1>15, <1>16, <1>17, <1>19 DEF TypeOK
<1> QED BY <1>3, <1>18, <1>21, <1>22

LEMMA CycleInv ==
  ASSUME Inv, NEW send \in BOOLEAN, NEW take \in BOOLEAN, Cycle(send, take)
  PROVE  Inv'
<1>1. CASE rst
  BY <1>1, ClearInv
<1>2. CASE ~rst
  <2>1. PICK n \in 0..D : Held(n) /\ Words(n) /\ Ends(n)
    BY DEF Inv
  <2>2. \E m : m = (n + (IF push THEN 1 ELSE 0)) - (IF pop THEN 1 ELSE 0)
    OBVIOUS
  <2>3. PICK m : m = (n + (IF push THEN 1 ELSE 0)) - (IF pop THEN 1 ELSE 0)
    BY <2>2
  <2>4. TypeOK
    BY DEF Inv
  <2>5. TypeOK' /\ Held(m)' /\ Words(m)' /\ Ends(m)'
    BY <1>2, <2>1, <2>3, <2>4, CycleWords
  <2>6. m \in 0..D
    BY <2>5 DEF Held
  <2> QED BY <2>5, <2>6 DEF Inv
<1> QED BY <1>1, <1>2

LEMMA NextInv == Inv /\ [Next]_vars => Inv'
<1> SUFFICES ASSUME Inv, [Next]_vars PROVE Inv'
  OBVIOUS
<1>1. CASE Next
  BY <1>1, CycleInv DEF Next
<1>2. CASE UNCHANGED vars
  BY <1>2 DEF vars, Inv, TypeOK, Held, Words, Ends, At
<1> QED BY <1>1, <1>2

LEMMA InvAlways == Spec => []Inv
  BY InitInv, NextInv, PTL DEF Spec

(* The pointers stay in the memory, for every depth: they have a bit each  *)
(* less than would tell full from empty.                                   *)
THEOREM FifoType == Spec => []TypeOK
<1>1. Inv => TypeOK
  BY DEF Inv
<1> QED BY <1>1, InvAlways, PTL

-----------------------------------------------------------------------------
(* The refinement: what is stored, with what the channels hold, is the     *)
(* queue.                                                                  *)
AsQueue ==
  /\ outq \o Stored \o inq = Numbers(rcvd, sent)
  /\ rcvd \in Nat /\ sent \in Nat /\ rcvd <= sent /\ sent - rcvd <= D + 4

LEMMA AllNumbered == Inv => AsQueue
<1> SUFFICES ASSUME Inv PROVE AsQueue
  OBVIOUS
<1>1. PICK n \in 0..D : Held(n) /\ Words(n) /\ Ends(n)
  BY DEF Inv
<1> DEFINE o == rcvd + Len(outq)  e == o + n  a == Len(outq)  b == Len(inq)
<1>2. Count = n /\ n \in Nat /\ D \in Nat /\ n <= D
  BY <1>1, HeldCount, FifoAssumption DEF Inv
<1>3. /\ rcvd \in Nat /\ a \in 0..2 /\ b \in 0..2 /\ sent \in Nat
      /\ o = rcvd + a /\ e = o + n /\ sent = e + b
      /\ outq = Numbers(rcvd, o) /\ inq = Numbers(e, sent)
  BY <1>1 DEF Ends, Inv, TypeOK
<1>4. \A i \in 0..(n - 1) : mem[At(head, i)] = o + i + 1
  BY <1>1 DEF Words
<1> HIDE DEF o, e, a, b
<1>5. /\ o \in Nat /\ e \in Nat /\ rcvd <= o /\ o <= e /\ e <= sent /\ e - o = n
      /\ rcvd <= sent /\ sent - rcvd <= D + 4
  BY <1>2, <1>3
<1>6. Stored = Numbers(o, e)
  <2>1. Stored = [i \in 1..n |-> mem[At(head, i - 1)]]
    BY <1>2, SlotAt DEF Stored
  <2>2. \A i \in 1..n : mem[At(head, i - 1)] = o + i
    <3> SUFFICES ASSUME NEW i \in 1..n PROVE mem[At(head, i - 1)] = o + i
      OBVIOUS
    <3>1. i - 1 \in 0..(n - 1) /\ o + (i - 1) + 1 = o + i
      BY <1>2, <1>5
    <3> QED BY <1>4, <3>1
  <2>3. Numbers(o, e) = [i \in 1..n |-> o + i]
    BY <1>5 DEF Numbers
  <2> QED BY <2>1, <2>2, <2>3
<1>7. outq \o Stored = Numbers(rcvd, e)
  BY <1>3, <1>5, <1>6, NumbersConcat
<1>8. Numbers(rcvd, e) \o inq = Numbers(rcvd, sent)
  <2>1. rcvd <= e
    BY <1>3, <1>5
  <2> QED BY <1>3, <1>5, <2>1, NumbersConcat
<1> QED BY <1>3, <1>5, <1>7, <1>8 DEF AsQueue

LEMMA CycleIsEdge ==
  ASSUME Inv, Inv', NEW send \in BOOLEAN, NEW take \in BOOLEAN, Cycle(send, take)
  PROVE  Q!Next
<1> DEFINE in == IF send THEN 1 ELSE 0
           out == IF take THEN 1 ELSE 0
           q == outq \o Stored \o inq
           all == q \o Q!Arrivals(in)
<1>1. /\ q = Numbers(rcvd, sent) /\ rcvd \in Nat /\ sent \in Nat /\ rcvd <= sent
  BY AllNumbered DEF AsQueue
<1>2. /\ q' = Numbers(rcvd', sent') /\ rcvd' \in Nat /\ sent' \in Nat
      /\ rcvd' <= sent' /\ sent' - rcvd' <= D + 4
  <2>1. AsQueue'
    BY AllNumbered, PTL
  <2> QED BY <2>1 DEF AsQueue, Numbers
<1>3. /\ in \in 0..1 /\ out \in 0..1 /\ rst' \in BOOLEAN
      /\ sent' = sent + in
      /\ rcvd' = IF rst THEN sent' ELSE rcvd + out
  BY DEF Cycle
<1>4. CASE rst
  <2>1. q' = <<>>
    BY <1>2, <1>3, <1>4, NumbersParts
  <2>2. Q!Flush(in)
    <3> HIDE DEF in, q
    <3>1. q' = <<>> /\ sent' = sent + in /\ rcvd' = sent'
      BY <1>3, <1>4, <2>1
    <3> QED BY <1>4, <3>1 DEF Q!Flush, q
  <2> HIDE DEF in, q
  <2> QED BY <1>3, <2>2 DEF Q!Next
<1>5. CASE ~rst
  <2>1. all = Numbers(rcvd, sent + in)
    <3>1. Q!Arrivals(in) = Numbers(sent, sent + in)
      <4>1. CASE send
        BY <1>1, <4>1, NumbersOne DEF Q!Arrivals
      <4>2. CASE ~send
        BY <1>1, <4>2, NumbersOne DEF Q!Arrivals
      <4> QED BY <4>1, <4>2
    <3>2. sent + in \in Nat /\ sent <= sent + in
      BY <1>1
    <3>3. Numbers(rcvd, sent) \o Numbers(sent, sent + in) = Numbers(rcvd, sent + in)
      <4> HIDE DEF in
      <4> QED BY <1>1, <3>2, NumbersConcat
    <3> HIDE DEF in, q
    <3> QED BY <1>1, <3>1, <3>3
  <2> HIDE DEF in, out, q
  <2>2. rcvd' = rcvd + out /\ rcvd + out <= sent + in
    BY <1>2, <1>3, <1>5
  <2>3. Len(all) = (sent + in) - rcvd /\ out <= Len(all)
    <3>1. sent + in \in Nat /\ rcvd <= sent + in
      BY <1>1, <1>3
    <3> HIDE DEF all
    <3>2. Len(all) = (sent + in) - rcvd
      BY <1>1, <2>1, <3>1, NumbersParts
    <3> QED BY <1>1, <1>3, <2>2, <3>1, <3>2
  <2>4. q' = SubSeq(all, out + 1, Len(all))
    <3>1. SubSeq(Numbers(rcvd, sent + in), out + 1, (sent + in) - rcvd)
            = Numbers(rcvd + out, sent + in)
      <4>1. sent + in \in Nat /\ out \in Nat
        BY <1>1, <1>3
      <4> QED BY <1>1, <2>2, <4>1, NumbersFrom
    <3>2. q' = Numbers(rcvd + out, sent + in)
      BY <1>2, <1>3, <2>2
    <3> HIDE DEF all
    <3> QED BY <2>1, <2>3, <3>1, <3>2
  <2>5. Len(q') <= D + 4
    BY <1>2, NumbersParts
  <2>6. Q!Move(in, out)
    BY <1>3, <1>5, <2>2, <2>3, <2>4, <2>5 DEF Q!Move, q
  <2> QED BY <1>3, <2>6 DEF Q!Next
<1> QED BY <1>4, <1>5

(* The FIFO with its channels is a queue of its depth and four: it loses,  *)
(* repeats and reorders nothing and never takes full for empty, for every  *)
(* depth.                                                                  *)
THEOREM FifoImplementsQueue == Spec => FifoIsQueue
<1>1. Init => Q!Init
  <2> SUFFICES ASSUME Init PROVE Q!Init
    OBVIOUS
  <2>1. outq \o Stored \o inq = Numbers(0, 0)
    BY InitInv, AllNumbered DEF Init, AsQueue
  <2>2. outq \o Stored \o inq = <<>>
    BY <2>1, NumbersOne
  <2> QED BY <2>2 DEF Init, Q!Init
<1>2. Inv /\ Inv' /\ [Next]_vars => [Q!Next]_(Q!vars)
  <2> SUFFICES ASSUME Inv, Inv', [Next]_vars PROVE [Q!Next]_(Q!vars)
    OBVIOUS
  <2>1. CASE Next
    BY <2>1, CycleIsEdge DEF Next
  <2>2. CASE UNCHANGED vars
    BY <2>2 DEF vars, Q!vars, Stored, Count, Slot
  <2> QED BY <2>1, <2>2
<1> QED BY <1>1, <1>2, InvAlways, PTL DEF Spec, FifoIsQueue, Q!Spec
=============================================================================
