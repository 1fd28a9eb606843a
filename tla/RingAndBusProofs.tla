-------------------------- MODULE RingAndBusProofs --------------------------
(***************************************************************************)
(* Proofs about the two things that goroutines share without knowing of    *)
(* each other: Ring, with InputSource, which uses a Ring only through the  *)
(* ring's own actions, for every capacity, counter width, set of slices    *)
(* and of pull lengths, and set of sample values; and EventBus.            *)
(***************************************************************************)
EXTENDS InputSource, EventBus, SequenceLemmas

-----------------------------------------------------------------------------
(* Modular arithmetic.                                                     *)

\* A positive multiple of n is at least n.
LEMMA MultipleAtLeast ==
    ASSUME NEW n \in Nat \ {0}, NEW k \in Nat \ {0}
    PROVE  n * k >= n
OBVIOUS

\* Division with remainder is unique.
LEMMA ModUnique ==
    ASSUME NEW n \in Nat \ {0}, NEW q \in Int, NEW r \in 0 .. (n - 1)
    PROVE  (n * q + r) % n = r
<1> DEFINE x == n * q + r
           d == x \div n
           m == x % n
<1>1. x \in Int /\ d \in Int /\ m \in 0 .. (n - 1) /\ x = n * d + m
  OBVIOUS
<1>2. n * (d - q) = r - m
  BY <1>1
<1>3. CASE d - q >= 1
  <2>1. n * (d - q) >= n
    BY <1>1, <1>3, MultipleAtLeast
  <2> QED
    BY <1>1, <1>2, <2>1
<1>4. CASE q - d >= 1
  <2>1. n * (q - d) >= n
    BY <1>1, <1>4, MultipleAtLeast
  <2>2. n * (q - d) = m - r
    BY <1>1
  <2> QED
    BY <1>1, <2>1, <2>2
<1>5. CASE d = q
  BY <1>1, <1>5
<1> QED
  BY <1>1, <1>3, <1>4, <1>5

\* Every integer is n times its quotient plus its remainder.
LEMMA DivMod ==
    ASSUME NEW n \in Nat \ {0}, NEW x \in Int
    PROVE  /\ x \div n \in Int
           /\ x % n \in 0 .. (n - 1)
           /\ x = n * (x \div n) + (x % n)
OBVIOUS

\* A counter wraps at a multiple of the capacity, so masking the wrapped
\* counter gives the slot of the position it stands for.
LEMMA WrapKeepsSlot ==
    ASSUME NEW x \in Int
    PROVE  (x % Word) % Size = x % Size
<1> DEFINE w == Word \div Size
           u == x \div Word
           y == x % Word
           v == y \div Size
           r == y % Size
<1>0. Size \in Nat \ {0} /\ Word \in Nat \ {0} /\ Word % Size = 0
  BY RingAssumption
<1>1. w \in Int /\ Word = Size * w
  BY <1>0, DivMod
<1>2. y \in Int /\ u \in Int /\ x = Word * u + y
  BY <1>0, DivMod
<1>3. v \in Int /\ r \in 0 .. (Size - 1) /\ y = Size * v + r
  BY <1>0, <1>2, DivMod
<1> HIDE DEF w, u, y, v, r
<1>4. Word * u = Size * (w * u)
  BY <1>0, <1>1, <1>2
<1>5. w * u \in Int
  BY <1>1, <1>2
<1>6. x = Size * (w * u + v) + r
  BY <1>0, <1>2, <1>3, <1>4, <1>5
<1>7. (Size * (w * u + v) + r) % Size = r
  BY <1>0, <1>3, <1>5, ModUnique
<1> QED
  BY <1>6, <1>7 DEF r, y

\* Two positions less than a lap apart fall on different slots.
LEMMA SlotsDiffer ==
    ASSUME NEW p \in Int, NEW q \in Int, p < q, q - p < Size
    PROVE  p % Size # q % Size
<1>0. Size \in Nat \ {0}
  BY RingAssumption
<1> SUFFICES ASSUME p % Size = q % Size
             PROVE  FALSE
  OBVIOUS
<1> DEFINE r == p % Size
           s == q % Size
           a == p \div Size
           b == q \div Size
<1>1. a \in Int /\ b \in Int /\ r \in 0 .. (Size - 1) /\ s \in 0 .. (Size - 1)
      /\ p = Size * a + r /\ q = Size * b + s /\ r = s
  BY <1>0, DivMod
<1> HIDE DEF r, s, a, b
<1>2. q - p = Size * (b - a)
  BY <1>0, <1>1
<1>3. CASE b - a >= 1
  <2>1. Size * (b - a) >= Size
    BY <1>0, <1>1, <1>3, MultipleAtLeast
  <2> QED
    BY <1>0, <1>2, <2>1
<1>4. CASE b - a = 0
  BY <1>0, <1>1, <1>2, <1>4
<1>5. CASE a - b >= 1
  <2>1. Size * (a - b) >= Size
    BY <1>0, <1>1, <1>5, MultipleAtLeast
  <2>2. Size * (a - b) = p - q
    BY <1>0, <1>1
  <2> QED
    BY <1>0, <2>1, <2>2
<1> QED
  BY <1>1, <1>3, <1>4, <1>5

\* The distance of two wrapped counters is the distance of the positions,
\* while it is less than a word.
LEMMA DistOfWrapped ==
    ASSUME NEW p \in Int, NEW q \in Int, 0 <= p - q, p - q < Word
    PROVE  Dist(p % Word, q % Word) = p - q
<1>0. Word \in Nat \ {0}
  BY RingAssumption
<1> DEFINE a == p \div Word
           b == q \div Word
           r == p % Word
           s == q % Word
<1>1. a \in Int /\ b \in Int /\ r \in Int /\ s \in Int
      /\ p = Word * a + r /\ q = Word * b + s
  BY <1>0, DivMod
<1> HIDE DEF r, s, a, b
<1>2. r - s = Word * (b - a) + (p - q)
  BY <1>0, <1>1
<1>3. b - a \in Int /\ p - q \in 0 .. (Word - 1)
  BY <1>0, <1>1
<1>4. (Word * (b - a) + (p - q)) % Word = p - q
  BY <1>0, <1>3, ModUnique
<1>5. (r - s) % Word = p - q
  BY <1>2, <1>4
<1> QED
  BY <1>5 DEF Dist, r, s

\* Advancing a wrapped counter wraps the advanced position.
LEMMA WrapAdvance ==
    ASSUME NEW p \in Int, NEW n \in Int
    PROVE  ((p % Word) + n) % Word = (p + n) % Word
<1>0. Word \in Nat \ {0}
  BY RingAssumption
<1> DEFINE a == p \div Word
           r == p % Word
           c == (r + n) \div Word
           s == (r + n) % Word
<1>1. a \in Int /\ r \in Int /\ p = Word * a + r
  BY <1>0, DivMod
<1>2. c \in Int /\ s \in 0 .. (Word - 1) /\ r + n = Word * c + s
  BY <1>0, <1>1, DivMod
<1> HIDE DEF r, s, a, c
<1>3. p + n = Word * (a + c) + s
  BY <1>0, <1>1, <1>2
<1>4. (Word * (a + c) + s) % Word = s
  BY <1>0, <1>1, <1>2, ModUnique
<1> QED
  BY <1>3, <1>4 DEF r, s

\* The slot of a call's i-th access is the slot of the position it stands for.
LEMMA SlotOfPosition ==
    ASSUME NEW p \in Int, NEW i \in Int
    PROVE  Slot((p % Word) + i) = (p + i) % Size
<1>1. ((p % Word) + i) % Word = (p + i) % Word
  BY WrapAdvance
<1>2. ((p + i) % Word) % Size = (p + i) % Size
  BY WrapKeepsSlot
<1> QED
  BY <1>1, <1>2 DEF Slot

-----------------------------------------------------------------------------
(* The inductive invariant.                                                *)

\* The counters are the wrapped positions, and never more than the capacity
\* apart.
Positions ==
    /\ rcvd <= sent
    /\ Queued <= Size
    /\ head = sent % Word
    /\ tail = rcvd % Word

\* The producer's view: its head is current, what it decided to write fits, and
\* what it has copied already stands behind the queued samples.
ProducerView ==
    /\ wpc # "idle" => wHead = head
    /\ wpc = "tail" => wRoom <= Size - Queued
    /\ wpc = "copy" =>
        /\ wI <= wN
        /\ wN <= Len(src)
        /\ wN <= Size - Queued
        /\ wN >= Min2(Len(src), wRoom)
        /\ \A j \in 0 .. (wI - 1) : buf[(sent + j) % Size] = src[j + 1]
    /\ room <= Size - Queued

\* The consumer's view: what it decided to read is queued, and what it has
\* copied already is the front of the queue.
ConsumerView ==
    /\ rpc = "tail" => rAvail \in 0 .. Queued /\ rHead = (rcvd + rAvail) % Word
    /\ rpc = "copy" =>
        /\ rTail = tail
        /\ rN <= Queued
        /\ rN >= Min2(want, rAvail)
        /\ Len(dst) <= rN
        /\ \A j \in 1 .. Len(dst) : dst[j] = buf[(rcvd + j - 1) % Size]

IndInv == TypeOK /\ Positions /\ ProducerView /\ ConsumerView

\* The constants' types, and the types and ranges every step relies on.
LEMMA Ranges ==
    ASSUME IndInv
    PROVE  /\ Size \in Nat \ {0} /\ Word \in Nat \ {0} /\ Size < Word
           /\ sent \in Nat /\ rcvd \in Nat /\ Queued = sent - rcvd
           /\ Queued \in 0 .. Size
BY RingAssumption DEF IndInv, TypeOK, Positions, Queued

LEMMA InitIndInv == Init => IndInv
<1> SUFFICES ASSUME Init PROVE IndInv
  OBVIOUS
<1>1. 0 % Word = 0 /\ Size \in Nat \ {0} /\ Word \in Nat \ {0} /\ Zero \in Sample
  <2>1. Size \in Nat \ {0} /\ Word \in Nat \ {0} /\ Zero \in Sample
    BY RingAssumption
  <2>2. (Word * 0 + 0) % Word = 0
    BY <2>1, ModUnique
  <2> QED
    BY <2>1, <2>2
<1>2. TypeOK
  BY <1>1 DEF Init, TypeOK
<1>3. Positions /\ ProducerView /\ ConsumerView
  BY <1>1 DEF Init, Positions, ProducerView, ConsumerView, Queued
<1> QED
  BY <1>2, <1>3 DEF IndInv

LEMMA WriteCallInv ==
    ASSUME IndInv, NEW s \in Slices, WriteCall(s)
    PROVE  IndInv'
<1>0. Size \in Nat \ {0} /\ Word \in Nat \ {0} /\ Size < Word
      /\ sent \in Nat /\ rcvd \in Nat /\ Queued = sent - rcvd /\ Queued \in 0 .. Size
  BY Ranges
<1> USE <1>0 DEF WriteCall, shared, consumer
<1>1. s \in Seq(Sample)
  BY RingAssumption
<1>2. TypeOK'
  BY <1>1 DEF IndInv, TypeOK, Queued
<1>3. Positions'
  BY DEF IndInv, Positions, Queued
<1>4. ProducerView'
  BY DEF IndInv, TypeOK, ProducerView, Queued
<1>5. ConsumerView'
  BY DEF IndInv, ConsumerView, Queued
<1> QED
  BY <1>2, <1>3, <1>4, <1>5 DEF IndInv

\* When the producer loads tail it sees exactly what is free.
LEMMA FreeIsExact ==
    ASSUME IndInv, wpc \in {"tail", "len"}
    PROVE  Dist(wHead, tail) = Queued
<1>1. wHead = sent % Word /\ tail = rcvd % Word
  BY DEF IndInv, Positions, ProducerView
<1>2. Dist(sent % Word, rcvd % Word) = sent - rcvd
  BY Ranges, DistOfWrapped DEF Queued
<1> QED
  BY <1>1, <1>2 DEF Queued

LEMMA WriteLoadTailInv ==
    ASSUME IndInv, WriteLoadTail
    PROVE  IndInv'
<1>0. Size \in Nat \ {0} /\ Word \in Nat \ {0} /\ Size < Word
      /\ sent \in Nat /\ rcvd \in Nat /\ Queued = sent - rcvd /\ Queued \in 0 .. Size
  BY Ranges
<1> USE <1>0 DEF WriteLoadTail, shared, consumer
<1>1. wN' = Min2(Len(src), Size - Queued) /\ Len(src) \in Nat
  BY FreeIsExact DEF Free, IndInv, TypeOK
<1>2. wRoom <= Size - Queued /\ wRoom \in Int
  BY DEF IndInv, TypeOK, ProducerView
<1>3. TypeOK'
  BY <1>1 DEF IndInv, TypeOK, Min2
<1>4. Positions'
  BY DEF IndInv, Positions, Queued
<1>5. ProducerView'
  BY <1>1, <1>2 DEF IndInv, TypeOK, ProducerView, Queued, Min2
<1>6. ConsumerView'
  BY DEF IndInv, ConsumerView, Queued
<1> QED
  BY <1>3, <1>4, <1>5, <1>6 DEF IndInv

\* The slot of the producer's next access is that of position sent + wI.
LEMMA WriteSlot ==
    ASSUME IndInv, wpc = "copy"
    PROVE  Slot(wHead + wI) = (sent + wI) % Size
<1>1. wHead = sent % Word /\ wI \in Int /\ sent \in Int
  BY DEF IndInv, TypeOK, Positions, ProducerView
<1> QED
  BY <1>1, SlotOfPosition

\* The slot of the consumer's next access is that of position rcvd + Len(dst).
LEMMA ReadSlot ==
    ASSUME IndInv, rpc = "copy"
    PROVE  Slot(rTail + Len(dst)) = (rcvd + Len(dst)) % Size
<1>1. rTail = rcvd % Word /\ Len(dst) \in Int /\ rcvd \in Int
  BY DEF IndInv, TypeOK, Positions, ConsumerView
<1> QED
  BY <1>1, SlotOfPosition

LEMMA WriteCopyInv ==
    ASSUME IndInv, WriteCopy
    PROVE  IndInv'
<1>0. Size \in Nat \ {0} /\ Word \in Nat \ {0} /\ Size < Word
      /\ sent \in Nat /\ rcvd \in Nat /\ Queued = sent - rcvd /\ Queued \in 0 .. Size
  BY Ranges
<1> USE <1>0 DEF WriteCopy, consumer
<1> DEFINE k == (sent + wI) % Size
<1>1. buf' = [buf EXCEPT ![k] = src[wI + 1]] /\ k \in 0 .. (Size - 1)
  <2>1. wI \in Int
    BY DEF IndInv, TypeOK
  <2>2. k \in 0 .. (Size - 1)
    BY <2>1, DivMod
  <2> QED
    BY <2>2, WriteSlot
<1>2. wI \in Nat /\ wN \in Nat /\ wI < wN /\ wN <= Len(src) /\ wN <= Size - Queued
  BY DEF IndInv, TypeOK, ProducerView
<1>3. src[wI + 1] \in Sample
  BY <1>2 DEF IndInv, TypeOK
<1>4. buf' \in [0 .. (Size - 1) -> Sample]
  BY <1>1, <1>3 DEF IndInv, TypeOK
<1>5. TypeOK'
  BY <1>2, <1>4 DEF IndInv, TypeOK
<1>6. Positions'
  BY DEF IndInv, Positions, Queued
<1>7. ASSUME NEW p \in Int, rcvd <= p, p < sent + wI
      PROVE  buf'[p % Size] = buf[p % Size]
  <2>1. p < sent + wI /\ (sent + wI) - p < Size /\ sent + wI \in Int
    BY <1>2, <1>7
  <2>2. p % Size # k
    BY <2>1, SlotsDiffer
  <2>3. p % Size \in 0 .. (Size - 1)
    BY DivMod
  <2> QED
    BY <1>1, <2>2, <2>3 DEF IndInv, TypeOK
<1>8. ASSUME NEW j \in 0 .. wI
      PROVE  buf'[(sent + j) % Size] = src[j + 1]
  <2>1. CASE j = wI
    BY <1>1, <2>1 DEF IndInv, TypeOK
  <2>2. CASE j < wI
    <3>1. buf[(sent + j) % Size] = src[j + 1]
      BY <1>2, <2>2 DEF IndInv, ProducerView
    <3>2. sent + j \in Int /\ rcvd <= sent + j /\ sent + j < sent + wI
      BY <1>2, <2>2
    <3>3. buf'[(sent + j) % Size] = buf[(sent + j) % Size]
      BY <1>7, <3>2
    <3> QED
      BY <3>1, <3>3
  <2> QED
    BY <1>2, <2>1, <2>2
<1>9. ProducerView'
  BY <1>2, <1>8 DEF IndInv, ProducerView, Queued
<1>10. ConsumerView'
  <2>1. ASSUME rpc = "copy", NEW j \in 1 .. Len(dst)
        PROVE  dst[j] = buf'[(rcvd + j - 1) % Size]
    <3>1. dst[j] = buf[(rcvd + j - 1) % Size] /\ Len(dst) \in Nat /\ Len(dst) <= Queued
      BY <2>1 DEF IndInv, TypeOK, ConsumerView
    <3>2. j \in Int /\ 1 <= j /\ j <= Queued
      BY <3>1
    <3>3. rcvd + j - 1 \in Int /\ rcvd <= rcvd + j - 1 /\ rcvd + j - 1 < sent + wI
      BY <1>2, <3>2
    <3>4. buf'[(rcvd + j - 1) % Size] = buf[(rcvd + j - 1) % Size]
      BY <1>7, <3>3
    <3> QED
      BY <3>1, <3>4
  <2> QED
    BY <2>1 DEF IndInv, ConsumerView, Queued
<1> QED
  BY <1>5, <1>6, <1>9, <1>10 DEF IndInv

LEMMA WritePublishInv ==
    ASSUME IndInv, WritePublish
    PROVE  IndInv'
<1>0. Size \in Nat \ {0} /\ Word \in Nat \ {0} /\ Size < Word
      /\ sent \in Nat /\ rcvd \in Nat /\ Queued = sent - rcvd /\ Queued \in 0 .. Size
  BY Ranges
<1> USE <1>0 DEF WritePublish, PublishWhen, DropWriteLocals, consumer
<1>1. wN \in Nat /\ wN <= Size - Queued
  BY DEF IndInv, TypeOK, ProducerView
<1>2. head' = (sent + wN) % Word /\ head' \in 0 .. (Word - 1)
  <2>1. wHead = sent % Word
    BY DEF IndInv, Positions, ProducerView
  <2>2. sent \in Int /\ wN \in Int /\ sent + wN \in Int
    BY <1>1
  <2>3. ((sent % Word) + wN) % Word = (sent + wN) % Word
    BY <2>2, WrapAdvance
  <2>4. (sent + wN) % Word \in 0 .. (Word - 1)
    BY <2>2, DivMod
  <2> QED
    BY <2>1, <2>3, <2>4
<1>3. TypeOK'
  BY <1>1, <1>2 DEF IndInv, TypeOK
<1>4. Positions'
  BY <1>1, <1>2 DEF IndInv, Positions, Queued
<1>5. ProducerView'
  BY <1>1 DEF IndInv, ProducerView, Queued
<1>6. ConsumerView'
  BY <1>1 DEF IndInv, TypeOK, ConsumerView, Queued
<1> QED
  BY <1>3, <1>4, <1>5, <1>6 DEF IndInv

LEMMA LenCallInv ==
    ASSUME IndInv, LenCall
    PROVE  IndInv'
<1>0. Size \in Nat \ {0} /\ Word \in Nat \ {0} /\ Size < Word
      /\ sent \in Nat /\ rcvd \in Nat /\ Queued = sent - rcvd /\ Queued \in 0 .. Size
  BY Ranges
<1> USE <1>0 DEF LenCall, shared, consumer
<1>1. TypeOK'
  BY DEF IndInv, TypeOK
<1>2. Positions' /\ ProducerView' /\ ConsumerView'
  BY DEF IndInv, Positions, ProducerView, ConsumerView, Queued
<1> QED
  BY <1>1, <1>2 DEF IndInv

LEMMA LenLoadTailInv ==
    ASSUME IndInv, LenLoadTail
    PROVE  IndInv'
<1>0. Size \in Nat \ {0} /\ Word \in Nat \ {0} /\ Size < Word
      /\ sent \in Nat /\ rcvd \in Nat /\ Queued = sent - rcvd /\ Queued \in 0 .. Size
  BY Ranges
<1> USE <1>0 DEF LenLoadTail, DropWriteLocals, shared, consumer
<1>1. room' = Size - Queued
  BY FreeIsExact DEF LenOf
<1>2. TypeOK'
  BY <1>1 DEF IndInv, TypeOK
<1>3. Positions' /\ ProducerView' /\ ConsumerView'
  BY <1>1 DEF IndInv, Positions, ProducerView, ConsumerView, Queued
<1> QED
  BY <1>2, <1>3 DEF IndInv

LEMMA ReadCallInv ==
    ASSUME IndInv, NEW n \in Wants, ReadCall(n)
    PROVE  IndInv'
<1>0. Size \in Nat \ {0} /\ Word \in Nat \ {0} /\ Size < Word
      /\ sent \in Nat /\ rcvd \in Nat /\ Queued = sent - rcvd /\ Queued \in 0 .. Size
  BY Ranges
<1> USE <1>0 DEF ReadCall, shared, producer
<1>1. n \in Nat
  BY RingAssumption
<1>2. TypeOK'
  BY <1>1 DEF IndInv, TypeOK
<1>3. Positions' /\ ProducerView'
  BY DEF IndInv, Positions, ProducerView, Queued
<1>4. ConsumerView'
  <2>1. rHead' = sent % Word /\ rAvail' = Queued /\ rcvd + Queued = sent
    BY DEF IndInv, Positions, Queued
  <2> QED
    BY <2>1 DEF ConsumerView, Queued
<1> QED
  BY <1>2, <1>3, <1>4 DEF IndInv

LEMMA ReadLoadTailInv ==
    ASSUME IndInv, ReadLoadTail
    PROVE  IndInv'
<1>0. Size \in Nat \ {0} /\ Word \in Nat \ {0} /\ Size < Word
      /\ sent \in Nat /\ rcvd \in Nat /\ Queued = sent - rcvd /\ Queued \in 0 .. Size
  BY Ranges
<1> USE <1>0 DEF ReadLoadTail, shared, producer
<1>1. rAvail \in 0 .. Queued /\ rHead = (rcvd + rAvail) % Word /\ tail = rcvd % Word
  BY DEF IndInv, Positions, ConsumerView
<1>2. Dist(rHead, tail) = rAvail
  <2>1. Dist((rcvd + rAvail) % Word, rcvd % Word) = (rcvd + rAvail) - rcvd
    <3>1. rcvd + rAvail \in Int /\ 0 <= (rcvd + rAvail) - rcvd
          /\ (rcvd + rAvail) - rcvd < Word
      BY <1>1
    <3> QED
      BY <3>1, DistOfWrapped
  <2>2. (rcvd + rAvail) - rcvd = rAvail
    BY <1>1
  <2> QED
    BY <1>1, <2>1, <2>2
<1>3. TypeOK'
  BY <1>1, <1>2 DEF IndInv, TypeOK, Min2
<1>4. Positions' /\ ProducerView'
  BY DEF IndInv, Positions, ProducerView, Queued
<1>5. ConsumerView'
  BY <1>1, <1>2 DEF IndInv, TypeOK, ConsumerView, Queued, Min2
<1> QED
  BY <1>3, <1>4, <1>5 DEF IndInv

LEMMA ReadCopyInv ==
    ASSUME IndInv, ReadCopy
    PROVE  IndInv'
<1>0. Size \in Nat \ {0} /\ Word \in Nat \ {0} /\ Size < Word
      /\ sent \in Nat /\ rcvd \in Nat /\ Queued = sent - rcvd /\ Queued \in 0 .. Size
  BY Ranges
<1> USE <1>0 DEF ReadCopy, shared, producer
<1> DEFINE v == buf[(rcvd + Len(dst)) % Size]
<1>1. dst' = Append(dst, v) /\ Len(dst) \in Nat /\ Len(dst) < rN
  BY ReadSlot DEF IndInv, TypeOK
<1>2. v \in Sample /\ dst \in Seq(Sample)
  BY <1>1 DEF IndInv, TypeOK
<1>3. dst' \in Seq(Sample) /\ Len(dst') = Len(dst) + 1
  BY <1>1, <1>2
<1>4. TypeOK'
  BY <1>3 DEF IndInv, TypeOK
<1>5. Positions' /\ ProducerView'
  BY DEF IndInv, Positions, ProducerView, Queued
<1>6. ASSUME NEW j \in 1 .. Len(dst')
      PROVE  dst'[j] = buf[(rcvd + j - 1) % Size]
  <2>1. CASE j = Len(dst) + 1
    BY <1>1, <1>2, <2>1
  <2>2. CASE j <= Len(dst)
    <3>1. dst'[j] = dst[j]
      BY <1>1, <1>2, <2>2
    <3>2. dst[j] = buf[(rcvd + j - 1) % Size]
      BY <1>1, <2>2 DEF IndInv, ConsumerView
    <3> QED
      BY <3>1, <3>2
  <2> QED
    BY <1>1, <1>3, <2>1, <2>2
<1>7. ConsumerView'
  BY <1>1, <1>3, <1>6 DEF IndInv, TypeOK, ConsumerView, Queued
<1> QED
  BY <1>4, <1>5, <1>7 DEF IndInv

LEMMA ReadPublishInv ==
    ASSUME IndInv, ReadPublish
    PROVE  IndInv'
<1>0. Size \in Nat \ {0} /\ Word \in Nat \ {0} /\ Size < Word
      /\ sent \in Nat /\ rcvd \in Nat /\ Queued = sent - rcvd /\ Queued \in 0 .. Size
  BY Ranges
<1> USE <1>0 DEF ReadPublish, DropReadLocals, producer
<1>1. rN \in Nat /\ rN <= Queued
  BY DEF IndInv, TypeOK, ConsumerView
<1>2. tail' = (rcvd + rN) % Word /\ tail' \in 0 .. (Word - 1)
  <2>1. rTail = rcvd % Word
    BY DEF IndInv, Positions, ConsumerView
  <2>2. rcvd \in Int /\ rN \in Int /\ rcvd + rN \in Int
    BY <1>1
  <2>3. ((rcvd % Word) + rN) % Word = (rcvd + rN) % Word
    BY <2>2, WrapAdvance
  <2>4. (rcvd + rN) % Word \in 0 .. (Word - 1)
    BY <2>2, DivMod
  <2> QED
    BY <2>1, <2>3, <2>4
<1>3. TypeOK'
  BY <1>1, <1>2 DEF IndInv, TypeOK
<1>4. Positions'
  BY <1>1, <1>2 DEF IndInv, Positions, Queued
<1>5. ProducerView'
  BY <1>1 DEF IndInv, TypeOK, ProducerView, Queued
<1>6. ConsumerView'
  BY DEF ConsumerView
<1> QED
  BY <1>3, <1>4, <1>5, <1>6 DEF IndInv

LEMMA ResetInv ==
    ASSUME IndInv, Reset
    PROVE  IndInv'
<1>0. Size \in Nat \ {0} /\ Word \in Nat \ {0} /\ Size < Word
      /\ sent \in Nat /\ rcvd \in Nat /\ Queued = sent - rcvd /\ Queued \in 0 .. Size
  BY Ranges
<1> USE <1>0 DEF Reset, consumer
<1>1. 0 % Word = 0
  <2>1. (Word * 0 + 0) % Word = 0
    BY ModUnique
  <2> QED
    BY <2>1
<1>2. TypeOK'
  BY DEF IndInv, TypeOK
<1>3. Positions' /\ ProducerView' /\ ConsumerView'
  BY <1>1 DEF IndInv, Positions, ProducerView, ConsumerView, Queued
<1> QED
  BY <1>2, <1>3 DEF IndInv

LEMMA StutterInv ==
    ASSUME IndInv, UNCHANGED ringVars
    PROVE  IndInv'
BY DEF IndInv, TypeOK, Positions, ProducerView, ConsumerView, Queued,
       ringVars, shared, producer, consumer

\* IndInv holds in every reachable state.
THEOREM Inductive == Spec => []IndInv
<1>1. ASSUME IndInv, [Next]_ringVars
      PROVE  IndInv'
  BY <1>1, WriteCallInv, WriteLoadTailInv, WriteCopyInv, WritePublishInv,
     LenCallInv, LenLoadTailInv, ReadCallInv, ReadLoadTailInv, ReadCopyInv,
     ReadPublishInv, ResetInv, StutterInv DEF Next
<1> QED
  BY <1>1, InitIndInv, PTL DEF Spec

-----------------------------------------------------------------------------
(* What the runs check, for every value of the constants.                  *)

\* The types and ranges of every variable of buffers.Ring hold in every
\* reachable state: counters stay machine words, lengths stay natural.
THEOREM TypeCorrect == Spec => []TypeOK
<1>1. IndInv => TypeOK
  BY DEF IndInv
<1> QED
  BY <1>1, Inductive, PTL

\* The accesses Write and Read make to buf without synchronisation never meet
\* on one slot (buffers.go:67-69 and 87-89).
THEOREM NoRace == Spec => []SlotsDisjoint
<1>1. ASSUME IndInv
      PROVE  SlotsDisjoint
  <2> SUFFICES ASSUME wpc = "copy", wI < wN, rpc = "copy", Len(dst) < rN
               PROVE  Slot(wHead + wI) # Slot(rTail + Len(dst))
    BY DEF SlotsDisjoint
  <2>1. wI \in Nat /\ wN \in Nat /\ wN <= Size - Queued /\ Queued = sent - rcvd
        /\ Len(dst) \in Nat /\ rN \in Nat /\ rN <= Queued /\ sent \in Nat /\ rcvd \in Nat
        /\ Size \in Nat
    BY <1>1, Ranges DEF IndInv, TypeOK, ProducerView, ConsumerView
  <2>2. /\ rcvd + Len(dst) \in Int /\ sent + wI \in Int
        /\ rcvd + Len(dst) < sent + wI
        /\ (sent + wI) - (rcvd + Len(dst)) < Size
    BY <2>1
  <2>3. (rcvd + Len(dst)) % Size # (sent + wI) % Size
    BY <2>2, SlotsDiffer
  <2> QED
    BY <1>1, <2>3, WriteSlot, ReadSlot
<1> QED
  BY <1>1, Inductive, PTL

\* Neither side takes less than what fitted, or was queued, when it was called.
THEOREM NoShortCall == Spec => []TakesWhatFits
<1>1. IndInv => TakesWhatFits
  BY DEF IndInv, ProducerView, ConsumerView, TakesWhatFits
<1> QED
  BY <1>1, Inductive, PTL

\* The room a producer computed from Len is still there when it writes.
THEOREM RoomKept == Spec => []RoomIsKept
<1>1. IndInv => RoomIsKept
  BY DEF IndInv, ProducerView, RoomIsKept
<1> QED
  BY <1>1, Inductive, PTL

-----------------------------------------------------------------------------
(* The refinement.                                                         *)

\* A step that leaves the queued positions, their slots and the two slices
\* alone is a stutter of the FIFO.
LEMMA FifoStutter ==
    ASSUME UNCHANGED <<buf, sent, rcvd, src, got>>
    PROVE  UNCHANGED FIFO!vars
BY DEF FIFO!vars

LEMMA FifoInit == Init => FIFO!Init
<1> SUFFICES ASSUME Init PROVE FIFO!Init
  OBVIOUS
<1>1. rcvd .. (sent - 1) = {}
  BY DEF Init
<1> QED
  BY <1>1 DEF Init, FIFO!Init, FIFO!Empty

\* Copying a sample behind the queue changes no queued sample.
LEMMA FifoWriteCopy ==
    ASSUME IndInv, WriteCopy
    PROVE  UNCHANGED FIFO!vars
<1>1. /\ Size \in Nat \ {0} /\ sent \in Nat /\ rcvd \in Nat /\ Queued = sent - rcvd
      /\ wI \in Nat /\ wN \in Nat /\ wI < wN /\ wN <= Size - Queued
  BY Ranges DEF IndInv, TypeOK, ProducerView, WriteCopy
<1> DEFINE k == (sent + wI) % Size
<1>2. buf' = [buf EXCEPT ![k] = src[wI + 1]]
  BY WriteSlot DEF WriteCopy
<1>3. ASSUME NEW p \in rcvd .. (sent - 1)
      PROVE  buf'[p % Size] = buf[p % Size]
  <2>1. p \in Int /\ p < sent + wI /\ (sent + wI) - p < Size /\ sent + wI \in Int
    BY <1>1, <1>3
  <2>2. p % Size # k
    BY <2>1, SlotsDiffer
  <2>3. p % Size \in 0 .. (Size - 1)
    BY <1>1, <2>1, DivMod
  <2> QED
    BY <1>2, <2>2, <2>3 DEF IndInv, TypeOK
<1>4. UNCHANGED <<sent, rcvd, src, got>>
  BY DEF WriteCopy, consumer
<1> QED
  BY <1>3, <1>4 DEF FIFO!vars

\* Storing head queues exactly the samples copied since the call.
LEMMA FifoWritePublish ==
    ASSUME IndInv, WritePublish
    PROVE  FIFO!Write
<1>1. /\ Size \in Nat \ {0} /\ sent \in Nat /\ rcvd \in Nat /\ Queued = sent - rcvd
      /\ wI = wN /\ wN \in Nat /\ wN <= Size - Queued /\ wN <= Len(src)
      /\ Len(src) \in Nat /\ rcvd <= sent
      /\ \A j \in 0 .. (wN - 1) : buf[(sent + j) % Size] = src[j + 1]
  <2>1. /\ Size \in Nat \ {0} /\ sent \in Nat /\ rcvd \in Nat /\ Queued = sent - rcvd
        /\ rcvd <= sent
    BY Ranges DEF IndInv, Positions
  <2>2. wpc = "copy" /\ wI = wN
    BY DEF WritePublish, PublishWhen
  <2>3. wN \in Nat /\ Len(src) \in Nat
    BY DEF IndInv, TypeOK
  <2>4. /\ wN <= Size - Queued /\ wN <= Len(src)
        /\ \A j \in 0 .. (wI - 1) : buf[(sent + j) % Size] = src[j + 1]
    BY <2>2 DEF IndInv, ProducerView
  <2> QED
    BY <2>1, <2>2, <2>3, <2>4
<1>2. sent' = sent + wN /\ UNCHANGED <<buf, rcvd, src, got>>
  BY DEF WritePublish, PublishWhen, consumer
<1>3. sent' \in sent .. (sent + Len(src)) /\ sent' - rcvd <= Size
  BY <1>1, <1>2
<1>4. ASSUME NEW p \in rcvd .. (sent' - 1), ~(p < sent)
      PROVE  buf[p % Size] = src[p - sent + 1]
  <2>1. p - sent \in 0 .. (wN - 1) /\ sent + (p - sent) = p
    BY <1>1, <1>2, <1>4
  <2>2. buf[(sent + (p - sent)) % Size] = src[(p - sent) + 1]
    BY <1>1, <2>1
  <2> QED
    BY <2>1, <2>2
<1>5. ASSUME NEW p \in rcvd .. (sent' - 1), p < sent
      PROVE  p \in rcvd .. (sent - 1)
  BY <1>1, <1>5
<1>6. [p \in rcvd' .. (sent' - 1) |-> buf'[p % Size]]
      = [p \in rcvd .. (sent' - 1) |->
            IF p < sent THEN [i \in rcvd .. (sent - 1) |-> buf[i % Size]][p]
            ELSE src[p - sent + 1]]
  BY <1>2, <1>4, <1>5
<1> QED
  BY <1>2, <1>3, <1>6 DEF FIFO!Write

\* Storing tail removes exactly the samples the Read copied, and returns them.
LEMMA FifoReadPublish ==
    ASSUME IndInv, ReadPublish
    PROVE  FIFO!Read
<1>1. /\ sent \in Nat /\ rcvd \in Nat /\ Queued = sent - rcvd
      /\ rN \in Nat /\ rN <= Queued /\ dst \in Seq(Sample) /\ Len(dst) = rN
      /\ \A j \in 1 .. rN : dst[j] = buf[(rcvd + j - 1) % Size]
  BY Ranges DEF IndInv, TypeOK, ConsumerView, ReadPublish
<1>2. rcvd' = rcvd + rN /\ got' = dst /\ UNCHANGED <<buf, sent, src>>
  BY DEF ReadPublish, producer
<1>3. rcvd' \in rcvd .. sent
  BY <1>1, <1>2
<1>4. [p \in rcvd' .. (sent' - 1) |-> buf'[p % Size]]
      = [p \in rcvd' .. (sent - 1) |-> [i \in rcvd .. (sent - 1) |-> buf[i % Size]][p]]
  <2>1. \A p \in rcvd' .. (sent - 1) : p \in rcvd .. (sent - 1)
    BY <1>1, <1>2
  <2> QED
    BY <1>2, <2>1
<1>5. got' = [j \in 1 .. (rcvd' - rcvd) |->
                 [i \in rcvd .. (sent - 1) |-> buf[i % Size]][rcvd + j - 1]]
  <2>1. rcvd' - rcvd = rN /\ DOMAIN dst = 1 .. rN
    BY <1>1, <1>2
  <2>2. ASSUME NEW j \in 1 .. rN
        PROVE  rcvd + j - 1 \in rcvd .. (sent - 1)
    BY <1>1, <2>2
  <2>3. dst = [j \in 1 .. rN |-> dst[j]]
    BY <1>1, <2>1
  <2> QED
    BY <1>1, <1>2, <2>1, <2>2, <2>3
<1> QED
  BY <1>2, <1>3, <1>4, <1>5 DEF FIFO!Read

LEMMA FifoReset ==
    ASSUME Reset
    PROVE  FIFO!Reset
<1>1. rcvd' = 0 /\ sent' = 0 /\ UNCHANGED <<src, got>> /\ rcvd' .. (sent' - 1) = {}
  BY DEF Reset, consumer
<1> QED
  BY <1>1 DEF FIFO!Reset, FIFO!Empty

LEMMA FifoWriteCall ==
    ASSUME NEW s \in Slices, WriteCall(s)
    PROVE  FIFO!Offer
<1>1. s \in Seq(Sample)
  BY RingAssumption
<1>2. src' = s /\ UNCHANGED <<buf, sent, rcvd, got>>
  BY DEF WriteCall, shared, consumer
<1> QED
  BY <1>1, <1>2 DEF FIFO!Offer

\* Every other step is a stutter of the FIFO.
LEMMA FifoQuietStep ==
    ASSUME \/ WriteLoadTail \/ LenCall \/ LenLoadTail \/ ReadLoadTail \/ ReadCopy
           \/ \E n \in Wants : ReadCall(n)
           \/ UNCHANGED ringVars
    PROVE  UNCHANGED FIFO!vars
<1>1. UNCHANGED <<buf, sent, rcvd, src, got>>
  BY DEF WriteLoadTail, LenCall, LenLoadTail, ReadLoadTail, ReadCopy, ReadCall,
         ringVars, shared, producer, consumer
<1> QED
  BY <1>1, FifoStutter

\* buffers.Ring implements a bounded FIFO whose operations are atomic.
THEOREM Implementation == Spec => ImplementsFifo
<1>1. ASSUME IndInv, [Next]_ringVars
      PROVE  [FIFO!Next]_(FIFO!vars)
  BY <1>1, FifoWriteCall, FifoWriteCopy, FifoWritePublish, FifoReadPublish,
     FifoReset, FifoQuietStep DEF Next, FIFO!Next
<1> QED
  BY <1>1, FifoInit, Inductive, PTL DEF Spec, ImplementsFifo, FIFO!Spec


-----------------------------------------------------------------------------
(* The inductive invariant.                                                *)

\* The flags of a source follow one another: it has ended only once closed,
\* and no callback is at work on a source that was closed quietly.
Phases ==
    /\ pulling => rpc = "idle"
    /\ quiet => closed /\ wpc = "idle"
    /\ pulledClosed => closed
    /\ ended => rpc = "idle" /\ ~pulling
    /\ rpc # "idle" => want > 0

\* What a Pull that began on a quietly closed source knows of the ring: nobody
\* adds to it, so that what the Pull has seen queued is what is queued.
LastPull ==
    quiet /\ pulledClosed =>
        /\ rpc # "idle" => rAvail = Queued
        /\ (pulling /\ got = <<>>) => Queued = 0
        /\ ended => Queued = 0

SourceInd == IndInv /\ SourceTypeOK /\ EverySampleAccounted /\ Phases /\ LastPull

-----------------------------------------------------------------------------
(* Every step of the source is a step of its ring, or none.                *)

LEMMA RingStep ==
    ASSUME IndInv, SourceNext
    PROVE  IndInv'
<1>1. ASSUME NEW s \in Slices, CallbackEnter(s)
      PROVE  IndInv'
  BY <1>1, WriteCallInv DEF CallbackEnter
<1>2. CASE CallbackIgnored
  BY <1>2, StutterInv DEF CallbackIgnored, vars
<1>3. CASE CallbackStep
  BY <1>3, WriteLoadTailInv, WriteCopyInv DEF CallbackStep
<1>4. CASE CallbackReturn
  BY <1>4, WritePublishInv DEF CallbackReturn
<1>5. ASSUME NEW n \in Wants, PullEnter(n)
      PROVE  IndInv'
  BY <1>5, ReadCallInv DEF PullEnter
<1>6. CASE PullStep
  BY <1>6, ReadLoadTailInv, ReadCopyInv DEF PullStep
<1>7. CASE PullRead
  BY <1>7, ReadPublishInv DEF PullRead
<1>8. CASE PullReturn \/ Close
  BY <1>8, StutterInv DEF PullReturn, Close
<1> QED
  BY <1>1, <1>2, <1>3, <1>4, <1>5, <1>6, <1>7, <1>8 DEF SourceNext

LEMMA SourceInitial == SourceInit => SourceInd
<1> SUFFICES ASSUME SourceInit PROVE SourceInd
  OBVIOUS
<1>1. IndInv /\ Init
  BY InitIndInv DEF SourceInit
<1>2. SourceTypeOK
  BY <1>1 DEF SourceInit, SourceTypeOK, IndInv
<1>3. EverySampleAccounted /\ Phases /\ LastPull
  BY <1>1 DEF SourceInit, Init, EverySampleAccounted, Phases, LastPull
<1> QED
  BY <1>1, <1>2, <1>3 DEF SourceInd

-----------------------------------------------------------------------------
(* One lemma per action, for the parts of the invariant that are not the   *)
(* ring's.                                                                 *)

LEMMA EnterInd ==
    ASSUME SourceInd, NEW s \in Slices, CallbackEnter(s)
    PROVE  (SourceTypeOK /\ EverySampleAccounted /\ Phases /\ LastPull)'
<1>1. IndInv' /\ TypeOK'
  BY RingStep DEF SourceInd, SourceNext, IndInv
<1>2. s \in Seq(Sample) /\ Len(s) \in Nat
  BY RingAssumption
<1>3. SourceTypeOK'
  BY <1>1, <1>2 DEF SourceInd, SourceTypeOK, CallbackEnter, WriteCall, consumer
<1>4. EverySampleAccounted'
  BY <1>2 DEF SourceInd, SourceTypeOK, IndInv, TypeOK, EverySampleAccounted, CallbackEnter, WriteCall
<1>5. Phases' /\ LastPull'
  BY DEF SourceInd, Phases, LastPull, CallbackEnter, WriteCall, consumer, Queued
<1> QED
  BY <1>3, <1>4, <1>5

LEMMA CallbackStepInd ==
    ASSUME SourceInd, CallbackStep
    PROVE  (SourceTypeOK /\ EverySampleAccounted /\ Phases /\ LastPull)'
<1>1. IndInv' /\ TypeOK'
  BY RingStep DEF SourceInd, SourceNext, IndInv
<1>2. /\ wpc # "idle" /\ wpc' # "idle"
      /\ UNCHANGED <<src, sent, rcvd, consumer>> /\ UNCHANGED sourceVars
  BY DEF CallbackStep, WriteLoadTail, WriteCopy
<1>3. SourceTypeOK'
  BY <1>1, <1>2 DEF SourceInd, SourceTypeOK, sourceVars, consumer
<1>4. EverySampleAccounted'
  BY <1>2 DEF SourceInd, EverySampleAccounted, sourceVars
<1>5. Phases' /\ LastPull'
  BY <1>2 DEF SourceInd, Phases, LastPull, sourceVars, consumer, Queued
<1> QED
  BY <1>3, <1>4, <1>5

LEMMA CallbackReturnInd ==
    ASSUME SourceInd, CallbackReturn
    PROVE  (SourceTypeOK /\ EverySampleAccounted /\ Phases /\ LastPull)'
<1>1. IndInv' /\ TypeOK'
  BY RingStep DEF SourceInd, SourceNext, IndInv
<1>2. /\ wpc = "copy" /\ wpc' = "idle" /\ sent' = sent + wN
      /\ UNCHANGED <<src, rcvd, consumer>>
      /\ UNCHANGED <<closed, pulling, ended, offered, quiet, pulledClosed>>
      /\ dropped' = dropped + (Len(src) - wN)
  BY DEF CallbackReturn, WritePublish, PublishWhen, DroppedNow
<1>3. wN \in Nat /\ Len(src) \in Nat /\ wN <= Len(src) /\ sent \in Nat /\ dropped \in Nat /\ offered \in Nat
  BY <1>2 DEF SourceInd, IndInv, TypeOK, ProducerView, SourceTypeOK
<1>4. SourceTypeOK'
  <2>1. dropped' \in Nat
    BY <1>2, <1>3
  <2> QED
    BY <1>1, <1>2, <2>1 DEF SourceInd, SourceTypeOK, consumer
<1>5. EverySampleAccounted'
  BY <1>2, <1>3 DEF SourceInd, EverySampleAccounted
<1>6. ~quiet
  BY <1>2 DEF SourceInd, Phases
<1>7. Phases' /\ LastPull'
  BY <1>2, <1>6 DEF SourceInd, Phases, LastPull, consumer
<1> QED
  BY <1>4, <1>5, <1>7

LEMMA PullEnterInd ==
    ASSUME SourceInd, NEW n \in Wants, PullEnter(n)
    PROVE  (SourceTypeOK /\ EverySampleAccounted /\ Phases /\ LastPull)'
<1>1. IndInv' /\ TypeOK'
  BY RingStep DEF SourceInd, SourceNext, IndInv
<1>2. /\ n > 0 /\ ~ended /\ ~pulling /\ rpc' = "tail" /\ want' = n /\ rAvail' = Queued
      /\ pulledClosed' = closed
      /\ UNCHANGED <<closed, dropped, pulling, ended, offered, quiet>>
      /\ UNCHANGED <<wpc, src, sent, rcvd>>
  BY DEF PullEnter, ReadCall, producer
<1>3. SourceTypeOK'
  BY <1>1, <1>2 DEF SourceInd, SourceTypeOK
<1>4. EverySampleAccounted'
  BY <1>2 DEF SourceInd, EverySampleAccounted
<1>5. Phases' /\ LastPull'
  BY <1>2 DEF SourceInd, Phases, LastPull, Queued
<1> QED
  BY <1>3, <1>4, <1>5

LEMMA PullStepInd ==
    ASSUME SourceInd, PullStep
    PROVE  (SourceTypeOK /\ EverySampleAccounted /\ Phases /\ LastPull)'
<1>1. IndInv' /\ TypeOK'
  BY RingStep DEF SourceInd, SourceNext, IndInv
<1>2. /\ rpc # "idle" /\ rpc' # "idle"
      /\ UNCHANGED <<want, rAvail, got, wpc, src, sent, rcvd>> /\ UNCHANGED sourceVars
  BY DEF PullStep, ReadLoadTail, ReadCopy, producer
<1>3. SourceTypeOK'
  BY <1>1, <1>2 DEF SourceInd, SourceTypeOK, sourceVars, Phases
<1>4. EverySampleAccounted'
  BY <1>2 DEF SourceInd, EverySampleAccounted, sourceVars
<1>5. Phases' /\ LastPull'
  BY <1>2 DEF SourceInd, Phases, LastPull, sourceVars, Queued
<1> QED
  BY <1>3, <1>4, <1>5

\* A Read that returns nothing although something was wanted found the ring
\* empty, and leaves it so.
LEMMA PullReadInd ==
    ASSUME SourceInd, PullRead
    PROVE  (SourceTypeOK /\ EverySampleAccounted /\ Phases /\ LastPull)'
<1>1. IndInv' /\ TypeOK'
  BY RingStep DEF SourceInd, SourceNext, IndInv
<1>2. /\ rpc = "copy" /\ rpc' = "idle" /\ Len(dst) = rN /\ got' = dst /\ rcvd' = rcvd + rN
      /\ pulling' = TRUE
      /\ UNCHANGED <<closed, dropped, ended, offered, quiet, pulledClosed>>
      /\ UNCHANGED <<wpc, src, sent>>
  BY DEF PullRead, ReadPublish, producer
<1>3. ~ended /\ want > 0 /\ want \in Nat /\ rN \in Nat /\ rAvail \in Int
      /\ rN >= Min2(want, rAvail) /\ rN <= Queued /\ sent \in Nat /\ rcvd \in Nat
  BY <1>2 DEF SourceInd, Phases, IndInv, TypeOK, ConsumerView
<1>4. SourceTypeOK'
  BY <1>1, <1>2 DEF SourceInd, SourceTypeOK
<1>5. EverySampleAccounted'
  BY <1>2 DEF SourceInd, EverySampleAccounted
<1>6. Phases'
  BY <1>2, <1>3 DEF SourceInd, Phases
<1>7. LastPull'
  <2> SUFFICES ASSUME quiet, pulledClosed, dst = <<>>
               PROVE  Queued' = 0
    BY <1>2, <1>3 DEF LastPull
  <2>1. rAvail = Queued
    BY <1>2 DEF SourceInd, LastPull
  <2>2. rN = 0
    BY <1>2
  <2> QED
    BY <1>2, <1>3, <2>1, <2>2 DEF Min2, Queued
<1> QED
  BY <1>4, <1>5, <1>6, <1>7

LEMMA PullReturnInd ==
    ASSUME SourceInd, PullReturn
    PROVE  (SourceTypeOK /\ EverySampleAccounted /\ Phases /\ LastPull)'
<1>1. IndInv' /\ TypeOK'
  BY RingStep DEF SourceInd, SourceNext, IndInv
<1>2. /\ pulling /\ pulling' = FALSE /\ ended' = (closed /\ got = <<>>)
      /\ UNCHANGED <<closed, dropped, offered, quiet, pulledClosed>>
      /\ UNCHANGED <<wpc, src, sent, rcvd, rpc, want, rAvail, got>>
  BY DEF PullReturn, AtEnd, ringVars, producer, consumer
<1>3. SourceTypeOK'
  BY <1>1, <1>2 DEF SourceInd, SourceTypeOK
<1>4. EverySampleAccounted'
  BY <1>2 DEF SourceInd, EverySampleAccounted
<1>5. Phases' /\ LastPull'
  BY <1>2 DEF SourceInd, Phases, LastPull, Queued
<1> QED
  BY <1>3, <1>4, <1>5

LEMMA CloseInd ==
    ASSUME SourceInd, Close
    PROVE  (SourceTypeOK /\ EverySampleAccounted /\ Phases /\ LastPull)'
<1>1. IndInv' /\ TypeOK'
  BY RingStep DEF SourceInd, SourceNext, IndInv
<1>2. /\ ~closed /\ closed' = TRUE /\ quiet' = (wpc = "idle")
      /\ UNCHANGED <<dropped, pulling, ended, offered, pulledClosed>>
      /\ UNCHANGED <<wpc, src, sent, rcvd, rpc, want>>
  BY DEF Close, ringVars, producer, consumer
<1>3. SourceTypeOK'
  BY <1>1, <1>2 DEF SourceInd, SourceTypeOK
<1>4. EverySampleAccounted'
  BY <1>2 DEF SourceInd, EverySampleAccounted
<1>5. Phases' /\ LastPull'
  BY <1>2 DEF SourceInd, Phases, LastPull
<1> QED
  BY <1>3, <1>4, <1>5

LEMMA SourceStutter ==
    ASSUME SourceInd, UNCHANGED vars
    PROVE  SourceInd'
<1>1. IndInv'
  BY StutterInv DEF SourceInd, vars
<1>2. (SourceTypeOK /\ EverySampleAccounted /\ Phases /\ LastPull)'
  BY <1>1 DEF SourceInd, IndInv, SourceTypeOK, EverySampleAccounted, Phases, LastPull,
     Queued, vars, ringVars, sourceVars, producer, consumer
<1> QED
  BY <1>1, <1>2 DEF SourceInd

-----------------------------------------------------------------------------
\* The invariant of the source beside its ring, on which the others rest.
THEOREM SourceInductive == SourceSpec => []SourceInd
<1>1. ASSUME SourceInd, SourceNext
      PROVE  SourceInd'
  <2>1. CASE CallbackIgnored
    BY <1>1, <2>1, SourceStutter DEF CallbackIgnored
  <2>2. CASE ~CallbackIgnored
    <3>1. IndInv'
      BY <1>1, RingStep DEF SourceInd
    <3>2. (SourceTypeOK /\ EverySampleAccounted /\ Phases /\ LastPull)'
      BY <1>1, <2>2, EnterInd, CallbackStepInd, CallbackReturnInd, PullEnterInd,
         PullStepInd, PullReadInd, PullReturnInd, CloseInd DEF SourceNext
    <3> QED
      BY <3>1, <3>2 DEF SourceInd
  <2> QED
    BY <2>1, <2>2
<1> QED
  BY <1>1, SourceInitial, SourceStutter, PTL DEF SourceSpec

\* Every variable of the source keeps its type, on top of the ring's.
THEOREM SourceTypes == SourceSpec => []SourceTypeOK
<1>1. SourceInd => SourceTypeOK
  BY DEF SourceInd
<1> QED
  BY <1>1, SourceInductive, PTL

\* The ring loses nothing that the source does not count: what callbacks were
\* given is queued, delivered, in hand or counted in Dropped (input.go:66-68).
THEOREM Accounted == SourceSpec => []EverySampleAccounted
<1>1. SourceInd => EverySampleAccounted
  BY DEF SourceInd
<1> QED
  BY <1>1, SourceInductive, PTL

\* A Pull that begins after a Close which no callback overlapped reports the
\* end of the source only of an empty ring (input.go:75-81).
THEOREM QuietEnd == SourceSpec => []QuietEndIsDrained
<1>1. SourceInd => QuietEndIsDrained
  BY DEF SourceInd, LastPull, QuietEndIsDrained
<1> QED
  BY <1>1, SourceInductive, PTL

-----------------------------------------------------------------------------
(* events.Bus (EventBus), for any number of publishers and subscribers and *)
(* any number of events: the late calls first, then the order and the      *)
(* completeness of the calls.                                              *)

\* A publisher that is about to call a subscription has not called it late
\* before: the flag was down when it looked, and a late call needs it up.
OneLate ==
    /\ phase \in [Publishers -> {"idle", "next", "about", "in"}]
    /\ index \in [Publishers -> Nat]
    /\ late \in [Publishers -> [Subscribers -> Nat]]
    /\ silenced \subseteq cancelled
    /\ removing \subseteq cancelled
    /\ \A p \in Publishers, s \in Subscribers :
          /\ late[p][s] <= 1
          /\ late[p][s] = 1 => s \in cancelled
          /\ phase[p] = "about" /\ Current(p) = s => late[p][s] = 0

LEMMA OneLateInit == BusInit => OneLate
BY DEF BusInit, OneLate

LEMMA RegistryStep ==
    ASSUME OneLate, NEW s \in Subscribers,
           Subscribe(s) \/ CancelSwap(s) \/ CancelRemove(s) \/ CancelAgain(s)
    PROVE  OneLate'
<1>1. /\ UNCHANGED <<phase, snapshot, index, late>>
      /\ cancelled \subseteq cancelled'
      /\ silenced' \subseteq cancelled' /\ removing' \subseteq cancelled'
  BY DEF Subscribe, CancelSwap, CancelRemove, CancelAgain, SwapFails, OneLate, progress
<1> QED
  BY <1>1 DEF OneLate, Current, Loop

LEMMA PublishStep ==
    ASSUME OneLate, NEW p \in Publishers, Publish(p)
    PROVE  OneLate'
<1>1. /\ phase' = [phase EXCEPT ![p] = "next"]
      /\ snapshot' = [snapshot EXCEPT ![p] = subs] /\ index' = [index EXCEPT ![p] = 1]
      /\ UNCHANGED <<cancelled, removing, silenced, late>>
  BY DEF Publish, registry
<1>2. ASSUME NEW q \in Publishers, phase'[q] = "about"
      PROVE  phase[q] = "about" /\ Current(q)' = Current(q)
  BY <1>1, <1>2 DEF OneLate, Current, Loop
<1> QED
  BY <1>1, <1>2 DEF OneLate

LEMMA CheckStep ==
    ASSUME OneLate, NEW p \in Publishers, DeliverCheck(p)
    PROVE  OneLate'
<1>1. /\ phase[p] = "next"
      /\ UNCHANGED <<cancelled, removing, silenced, late, snapshot>>
  BY DEF DeliverCheck, registry
<1>2. CASE Skips(Current(p))
  <2>1. UNCHANGED phase /\ index' = [index EXCEPT ![p] = @ + 1]
    BY <1>2 DEF DeliverCheck
  <2>2. ASSUME NEW q \in Publishers, phase'[q] = "about"
        PROVE  phase[q] = "about" /\ Current(q)' = Current(q)
    <3>1. q # p /\ index'[q] = index[q]
      BY <1>1, <2>1, <2>2 DEF OneLate
    <3> QED
      BY <1>1, <2>1, <2>2, <3>1 DEF Current, Loop
  <2>3. index' \in [Publishers -> Nat]
    BY <2>1 DEF OneLate
  <2>4. ASSUME NEW q \in Publishers, NEW s \in Subscribers
        PROVE  /\ late'[q][s] <= 1
               /\ late'[q][s] = 1 => s \in cancelled'
               /\ phase'[q] = "about" /\ Current(q)' = s => late'[q][s] = 0
    BY <1>1, <2>2 DEF OneLate
  <2>5. /\ phase' \in [Publishers -> {"idle", "next", "about", "in"}]
        /\ late' \in [Publishers -> [Subscribers -> Nat]]
        /\ silenced' \subseteq cancelled' /\ removing' \subseteq cancelled'
    BY <1>1, <2>1 DEF OneLate
  <2> QED
    BY <2>3, <2>4, <2>5 DEF OneLate
<1>3. CASE ~Skips(Current(p))
  <2>1. UNCHANGED index /\ phase' = [phase EXCEPT ![p] = "about"]
    BY <1>3 DEF DeliverCheck
  <2>2. \A q \in Publishers : Current(q)' = Current(q)
    BY <1>1, <2>1 DEF Current, Loop
  <2>3. ASSUME NEW s \in Subscribers, Current(p) = s
        PROVE  late[p][s] = 0
    <3>1. s \notin cancelled
      BY <1>3, <2>3 DEF Skips
    <3>2. late[p][s] \in Nat /\ late[p][s] <= 1 /\ late[p][s] # 1
      BY <3>1 DEF OneLate
    <3> QED
      BY <3>2
  <2> QED
    BY <1>1, <2>1, <2>2, <2>3 DEF OneLate
<1> QED
  BY <1>2, <1>3

LEMMA CallStep ==
    ASSUME OneLate, NEW p \in Publishers, DeliverCall(p)
    PROVE  OneLate'
<1>1. /\ phase[p] = "about" /\ phase' = [phase EXCEPT ![p] = "in"]
      /\ late' = [late EXCEPT ![p][Current(p)] = IF Current(p) \in silenced THEN @ + 1 ELSE @]
      /\ UNCHANGED <<cancelled, removing, silenced, snapshot, index>>
  BY DEF DeliverCall, registry
<1>2. ASSUME NEW q \in Publishers
      PROVE  Current(q)' = Current(q)
  BY <1>1 DEF Current, Loop
<1>3. late' \in [Publishers -> [Subscribers -> Nat]]
  <2> DEFINE one == [late[p] EXCEPT ![Current(p)] =
                         IF Current(p) \in silenced THEN @ + 1 ELSE @]
  <2>1. late[p] \in [Subscribers -> Nat] /\ late' = [late EXCEPT ![p] = one]
    BY <1>1 DEF OneLate
  <2>2. one = [s \in Subscribers |-> IF s = Current(p) /\ s \in silenced
                                     THEN late[p][s] + 1 ELSE late[p][s]]
    BY <2>1
  <2> HIDE DEF one
  <2>3. one \in [Subscribers -> Nat]
    BY <2>1, <2>2
  <2> QED
    BY <2>1, <2>3 DEF OneLate
<1>4. ASSUME NEW q \in Publishers, NEW s \in Subscribers
      PROVE  \/ late'[q][s] = late[q][s]
             \/ /\ q = p /\ s = Current(p) /\ s \in silenced
                /\ late'[q][s] = late[q][s] + 1
  BY <1>1 DEF OneLate
<1>5. ASSUME NEW q \in Publishers, NEW s \in Subscribers
      PROVE  /\ late'[q][s] <= 1
             /\ late'[q][s] = 1 => s \in cancelled'
             /\ phase'[q] = "about" /\ Current(q)' = s => late'[q][s] = 0
  BY <1>1, <1>2, <1>4 DEF OneLate
<1> QED
  BY <1>1, <1>3, <1>5 DEF OneLate

LEMMA ReturnStep ==
    ASSUME OneLate, NEW p \in Publishers, DeliverReturn(p) \/ PublishReturns(p)
    PROVE  OneLate'
<1>0. phase[p] \in {"in", "next"} /\ \E q \in {"idle", "next"} : phase' = [phase EXCEPT ![p] = q]
  BY DEF DeliverReturn, PublishReturns, AfterCallback
<1>1. UNCHANGED <<cancelled, removing, silenced, late, snapshot>>
      /\ (UNCHANGED index \/ index' = [index EXCEPT ![p] = @ + 1])
  BY DEF DeliverReturn, PublishReturns, registry
<1>2. phase' \in [Publishers -> {"idle", "next", "about", "in"}] /\ phase'[p] # "about"
  BY <1>0 DEF OneLate
<1>3. ASSUME NEW q \in Publishers, q # p
      PROVE  phase'[q] = phase[q] /\ Current(q)' = Current(q)
  <2>1. phase'[q] = phase[q]
    BY <1>0, <1>3 DEF OneLate
  <2>2. index'[q] = index[q]
    BY <1>1, <1>3 DEF OneLate
  <2> QED
    BY <1>1, <2>1, <2>2 DEF Current, Loop
<1> QED
  BY <1>1, <1>2, <1>3 DEF OneLate

LEMMA OneLateStep ==
    ASSUME OneLate, [BusNext]_busVars
    PROVE  OneLate'
<1>1. CASE UNCHANGED busVars
  BY <1>1 DEF busVars, registry, progress, OneLate, Current, Loop
<1> QED
  BY <1>1, RegistryStep, PublishStep, CheckStep, CallStep, ReturnStep DEF BusNext, Deliver

\* However many publishers and cancels there are, once Cancel has returned a
\* publisher calls the subscription at most once more: the comment on Cancel
\* (events.go:64-65) says not at all, the unlocked flag gives no more than this.
THEOREM LateOnce == BusSpec => []AtMostOneLate
<1>1. OneLate => AtMostOneLate
  BY DEF OneLate, AtMostOneLate
<1> QED
  BY <1>1, OneLateInit, OneLateStep, PTL DEF BusSpec

-----------------------------------------------------------------------------
(* The order and the completeness of the calls                             *)

\* The list holds, in the order they were made, subscriptions that were made,
\* and of those all that no Cancel has flagged.
Listed ==
    /\ subs \in Seq(Subscribers)
    /\ joined \in Seq(Subscribers)
    /\ IsInjective(joined)
    /\ InOrderOf(joined, subs)
    /\ ToSet(subs) \subseteq ToSet(joined)
    /\ ToSet(joined) \ cancelled \subseteq ToSet(subs)
    /\ removing \subseteq cancelled

\* A call of callbacks: the copy has everyone active when it was taken, and
\* else only those cancelled by then; those before the index have been called
\* or are cancelled, and whoever has been called stands before it.
Passed(p, k) == k < index[p] \/ (k = index[p] /\ phase[p] = "in")

Delivering(p) ==
    /\ index[p] \in Nat \ {0}
    /\ snapshot[p] \in Seq(Subscribers) /\ InOrderOf(joined, snapshot[p])
    /\ active[p] \subseteq ToSet(snapshot[p])
    /\ ToSet(snapshot[p]) \subseteq active[p] \cup cancelled
    /\ phase[p] \in {"about", "in"} => index[p] <= Len(snapshot[p])
    /\ phase[p] = "about" => snapshot[p][index[p]] \in active[p]
    /\ phase[p] = "idle" => index[p] > Len(snapshot[p])
    /\ heard[p] \in Seq(Subscribers)
    /\ \A k \in DOMAIN snapshot[p] :
          Passed(p, k) => snapshot[p][k] \in cancelled \cup ToSet(heard[p])
    /\ \A h \in DOMAIN heard[p] :
          \E k \in DOMAIN snapshot[p] : heard[p][h] = snapshot[p][k] /\ Passed(p, k)
    /\ InOrderOf(joined, heard[p]) /\ ToSet(heard[p]) \subseteq active[p]

Functional ==
    /\ phase \in [Publishers -> {"idle", "next", "about", "in"}]
    /\ DOMAIN index = Publishers /\ DOMAIN snapshot = Publishers
    /\ DOMAIN active = Publishers /\ DOMAIN heard = Publishers

BusInv == Functional /\ Listed /\ \A p \in Publishers : Delivering(p)

LEMMA BusInvInit == BusInit => BusInv
<1> SUFFICES ASSUME BusInit PROVE BusInv
  OBVIOUS
<1>1. Functional
  BY DEF BusInit, Functional
<1>2. Listed
  BY DEF BusInit, Listed, InOrderOf, ToSet, IsInjective
<1>3. ASSUME NEW p \in Publishers PROVE Delivering(p)
  <2>1. /\ phase[p] = "idle" /\ index[p] = 1
        /\ snapshot[p] = <<>> /\ heard[p] = <<>> /\ active[p] = {}
    BY DEF BusInit
  <2> QED
    BY <2>1 DEF Delivering, InOrderOf, ToSet
<1> QED
  BY <1>1, <1>2, <1>3 DEF BusInv

\* Subscriptions are only added, so that what was in order stays in order.
Joining == joined' = joined \/ \E s \in Subscribers : joined' = Append(joined, s)

LEMMA StaysOrdered ==
    ASSUME joined \in Seq(Subscribers), Joining, NEW list, InOrderOf(joined, list)
    PROVE  /\ InOrderOf(joined', list)
           /\ ToSet(joined) \subseteq ToSet(joined')
<1>1. DOMAIN joined \subseteq DOMAIN joined' /\ \A i \in DOMAIN joined : joined'[i] = joined[i]
  BY DEF Joining
<1>2. InOrderOf(joined', list)
  BY <1>1 DEF InOrderOf
<1> QED
  BY <1>1, <1>2 DEF ToSet

\* A publisher whose own variables a step leaves alone.
LEMMA Bystander ==
    ASSUME NEW p \in Publishers, Listed, Delivering(p), Joining,
           cancelled \subseteq cancelled',
           phase'[p] = phase[p], index'[p] = index[p], snapshot'[p] = snapshot[p],
           active'[p] = active[p], heard'[p] = heard[p]
    PROVE  Delivering(p)'
<1>1. InOrderOf(joined', snapshot'[p]) /\ InOrderOf(joined', heard'[p])
  <2>1. joined \in Seq(Subscribers) /\ InOrderOf(joined, snapshot[p]) /\ InOrderOf(joined, heard[p])
    BY DEF Listed, Delivering
  <2> QED
    BY <2>1, StaysOrdered
<1>2. \A k : Passed(p, k)' <=> Passed(p, k)
  BY DEF Passed
<1> QED
  BY <1>1, <1>2 DEF Delivering, ToSet

LEMMA BusSubscribe ==
    ASSUME BusInv, NEW s \in Subscribers, Subscribe(s)
    PROVE  BusInv'
<1> USE DEF BusInv
<1>1. Joining /\ UNCHANGED <<progress, cancelled, removing>>
  BY DEF Subscribe, Joining
<1>2. Functional'
  BY <1>1 DEF Functional, progress
<1>3. subs' = Append(subs, s) /\ joined' = Append(joined, s) /\ s \notin ToSet(joined)
  BY DEF Subscribe
<1>4. subs \in Seq(Subscribers) /\ joined \in Seq(Subscribers)
  BY DEF Listed
<1>5. ToSet(subs') = ToSet(subs) \cup {s} /\ ToSet(joined') = ToSet(joined) \cup {s}
  BY <1>3, <1>4, SetOfAppend
<1>6. IsInjective(joined')
  BY <1>3, <1>4 DEF IsInjective, ToSet, Listed
<1>7. InOrderOf(joined', subs')
  <2> SUFFICES ASSUME NEW i \in DOMAIN subs', NEW j \in DOMAIN subs', i < j
               PROVE  \E k, l \in DOMAIN joined' :
                         k < l /\ joined'[k] = subs'[i] /\ joined'[l] = subs'[j]
    BY DEF InOrderOf
  <2>1. \A k \in DOMAIN joined : k \in DOMAIN joined' /\ joined'[k] = joined[k]
    BY <1>3, <1>4
  <2>2. CASE j <= Len(subs)
    <3>1. subs'[i] = subs[i] /\ subs'[j] = subs[j] /\ i \in DOMAIN subs /\ j \in DOMAIN subs
      BY <1>3, <1>4, <2>2
    <3>2. PICK k, l \in DOMAIN joined : k < l /\ joined[k] = subs[i] /\ joined[l] = subs[j]
      BY <3>1 DEF Listed, InOrderOf
    <3> QED
      BY <2>1, <3>1, <3>2
  <2>3. CASE j = Len(subs) + 1
    <3>1. subs'[i] = subs[i] /\ subs'[j] = s /\ i \in DOMAIN subs
      BY <1>3, <1>4, <2>3
    <3>2. subs[i] \in ToSet(joined)
      BY <3>1 DEF Listed, ToSet
    <3>3. PICK k \in DOMAIN joined : joined[k] = subs[i]
      BY <3>2 DEF ToSet
    <3>4. /\ k < Len(joined) + 1
          /\ Len(joined) + 1 \in DOMAIN joined' /\ joined'[Len(joined) + 1] = s
      BY <1>3, <1>4
    <3> QED
      BY <2>1, <3>1, <3>3, <3>4
  <2>4. j \in 1 .. Len(subs) + 1
    BY <1>3, <1>4
  <2>5. j <= Len(subs) \/ j = Len(subs) + 1
    BY <1>4, <2>4
  <2> QED
    BY <2>2, <2>3, <2>5
<1>8. Listed'
  BY <1>1, <1>3, <1>4, <1>5, <1>6, <1>7 DEF Listed
<1>9. ASSUME NEW p \in Publishers PROVE Delivering(p)'
  BY <1>1, Bystander DEF progress
<1> QED
  BY <1>2, <1>8, <1>9

LEMMA BusCancel ==
    ASSUME BusInv, NEW s \in Subscribers, CancelSwap(s) \/ CancelAgain(s)
    PROVE  BusInv'
<1> USE DEF BusInv
<1>1. /\ cancelled \subseteq cancelled' /\ removing' \subseteq cancelled'
      /\ UNCHANGED <<subs, joined, progress>>
  BY DEF CancelSwap, CancelAgain, Listed
<1>2. Functional' /\ Joining
  BY <1>1 DEF Functional, Joining, progress
<1>3. InOrderOf(joined', subs')
  BY <1>1 DEF Listed, InOrderOf
<1>4. Listed'
  BY <1>1, <1>3 DEF Listed
<1>5. ASSUME NEW p \in Publishers PROVE Delivering(p)'
  BY <1>1, <1>2, Bystander DEF progress
<1> QED
  BY <1>2, <1>4, <1>5

LEMMA BusRemove ==
    ASSUME BusInv, NEW s \in Subscribers, CancelRemove(s)
    PROVE  BusInv'
<1> USE DEF BusInv
<1>1. /\ s \in removing /\ subs' = RemoveFirst(subs, s) /\ removing' = removing \ {s}
      /\ UNCHANGED <<cancelled, joined, progress>>
  BY DEF CancelRemove
<1>2. Functional' /\ Joining
  BY <1>1 DEF Functional, Joining, progress
<1>3. subs \in Seq(Subscribers) /\ InOrderOf(joined, subs) /\ s \in cancelled
  BY <1>1 DEF Listed
<1> DEFINE Thinned == /\ subs' \in Seq(Subscribers) /\ InOrderOf(joined', subs')
                      /\ ToSet(subs') \subseteq ToSet(subs)
                      /\ ToSet(subs) \ {s} \subseteq ToSet(subs')
<1>4. Thinned
  <2>1. CASE subs' = subs
    BY <1>1, <1>3, <2>1 DEF InOrderOf
  <2>2. ASSUME NEW n \in 1 .. Len(subs),
               /\ subs[n] = s
               /\ subs' \in Seq(Subscribers)
               /\ Len(subs') = Len(subs) - 1
               /\ \A i \in 1 .. Len(subs) - 1 :
                     subs'[i] = IF i < n THEN subs[i] ELSE subs[i + 1]
        PROVE  Thinned
    <3> DEFINE at(i) == IF i < n THEN i ELSE i + 1
    <3>1. ASSUME NEW i \in DOMAIN subs' PROVE at(i) \in DOMAIN subs /\ subs'[i] = subs[at(i)]
      BY <1>3, <2>2
    <3>2. \A i, j \in DOMAIN subs' : i < j => at(i) < at(j)
      BY <2>2
    <3>3. InOrderOf(joined', subs')
      BY <1>1, <1>3, <3>1, <3>2 DEF InOrderOf
    <3>4. ToSet(subs') \subseteq ToSet(subs)
      BY <3>1 DEF ToSet
    <3>5. ASSUME NEW k \in DOMAIN subs, subs[k] # s
          PROVE  \E i \in DOMAIN subs' : subs'[i] = subs[k]
      <4>1. k < n \/ k > n
        BY <1>3, <2>2, <3>5
      <4>2. CASE k < n
        BY <1>3, <2>2, <4>2
      <4>3. CASE k > n
        <5>1. k - 1 \in DOMAIN subs' /\ subs'[k - 1] = subs[(k - 1) + 1]
          BY <1>3, <2>2, <4>3
        <5> QED
          BY <5>1, <1>3
      <4> QED
        BY <4>1, <4>2, <4>3
    <3>6. ToSet(subs) \ {s} \subseteq ToSet(subs')
      BY <3>5 DEF ToSet
    <3> QED
      BY <2>2, <3>3, <3>4, <3>6
  <2> QED
    BY <1>1, <1>3, <2>1, <2>2, RemoveFirstIs
<1>5. Listed'
  BY <1>1, <1>3, <1>4 DEF Listed
<1>6. ASSUME NEW p \in Publishers PROVE Delivering(p)'
  BY <1>1, <1>2, Bystander DEF progress
<1> QED
  BY <1>2, <1>5, <1>6

\* A step of one publisher: the bus and the other publishers stay as they are.
LEMMA PublisherStep ==
    ASSUME BusInv, NEW p \in Publishers, UNCHANGED registry, Functional', Delivering(p)',
           \A q \in Publishers \ {p} :
              /\ phase'[q] = phase[q] /\ index'[q] = index[q] /\ snapshot'[q] = snapshot[q]
              /\ active'[q] = active[q] /\ heard'[q] = heard[q]
    PROVE  BusInv'
<1>1. Listed'
  BY DEF BusInv, Listed, registry
<1>2. ASSUME NEW q \in Publishers, q # p PROVE Delivering(q)'
  <2>1. Listed /\ Delivering(q) /\ Joining /\ cancelled \subseteq cancelled'
    BY DEF BusInv, registry, Joining
  <2> QED
    BY <1>2, <2>1, Bystander
<1> QED
  BY <1>1, <1>2 DEF BusInv

LEMMA BusPublish ==
    ASSUME BusInv, NEW p \in Publishers, Publish(p)
    PROVE  BusInv'
<1> USE DEF BusInv
<1>1. /\ snapshot' = [snapshot EXCEPT ![p] = subs] /\ index' = [index EXCEPT ![p] = 1]
      /\ phase' = [phase EXCEPT ![p] = "next"] /\ heard' = [heard EXCEPT ![p] = <<>>]
      /\ active' = [active EXCEPT ![p] = ToSet(joined) \ cancelled]
      /\ UNCHANGED registry
  BY DEF Publish
<1>2. Functional'
  BY <1>1 DEF Functional
<1>3. /\ snapshot'[p] = subs /\ index'[p] = 1 /\ phase'[p] = "next" /\ heard'[p] = <<>>
      /\ active'[p] = ToSet(joined) \ cancelled
  BY <1>1 DEF Functional
<1>4. Delivering(p)'
  <2>1. /\ subs \in Seq(Subscribers) /\ InOrderOf(joined', subs)
        /\ joined' = joined /\ cancelled' = cancelled
        /\ ToSet(subs) \subseteq ToSet(joined) /\ ToSet(joined) \ cancelled \subseteq ToSet(subs)
    BY <1>1 DEF Listed, registry
  <2>2. InOrderOf(joined', <<>>) /\ ToSet(<<>>) = {}
    BY DEF InOrderOf, ToSet
  <2>3. \A k \in DOMAIN subs : ~Passed(p, k)'
    BY <1>3, <2>1 DEF Passed
  <2> QED
    BY <1>3, <2>1, <2>2, <2>3 DEF Delivering
<1> QED
  BY <1>1, <1>2, <1>4, PublisherStep DEF Functional

\* What DeliverCheck and the end of a callback have in common: the index moves
\* on past one that is cancelled or has been called.
LEMMA BusAdvance ==
    ASSUME BusInv, NEW p \in Publishers, UNCHANGED <<registry, snapshot, active, heard>>,
           index' = [index EXCEPT ![p] = @ + 1], phase' = [phase EXCEPT ![p] = "next"],
           index[p] <= Len(snapshot[p]),
           \/ phase[p] = "next" /\ snapshot[p][index[p]] \in cancelled
           \/ phase[p] = "in"
    PROVE  BusInv'
<1> USE DEF BusInv
<1>1. Functional' /\ index'[p] = index[p] + 1 /\ phase'[p] = "next" /\ index[p] \in Nat \ {0}
  BY DEF Functional, Delivering
<1>2. snapshot[p] \in Seq(Subscribers)
  BY DEF Delivering
<1>3. \A k \in DOMAIN snapshot[p] : Passed(p, k)' <=> k <= index[p]
  BY <1>1, <1>2 DEF Passed
<1>4. ASSUME NEW k \in DOMAIN snapshot[p], Passed(p, k)'
      PROVE  snapshot[p][k] \in cancelled \cup ToSet(heard[p])
  <2>1. k < index[p] \/ k = index[p]
    BY <1>1, <1>2, <1>3, <1>4
  <2>2. CASE Passed(p, k)
    BY <2>2 DEF Delivering
  <2>3. CASE ~Passed(p, k)
    <3>1. k = index[p] /\ phase[p] # "in"
      BY <2>1, <2>3 DEF Passed
    <3> QED
      BY <3>1
  <2> QED
    BY <2>2, <2>3
<1>5. ASSUME NEW k \in DOMAIN snapshot[p], Passed(p, k) PROVE Passed(p, k)'
  BY <1>1, <1>2, <1>3, <1>5 DEF Passed
<1>6. Delivering(p)'
  BY <1>1, <1>4, <1>5 DEF Delivering, registry
<1> QED
  BY <1>1, <1>6, PublisherStep DEF Functional

LEMMA BusCheck ==
    ASSUME BusInv, NEW p \in Publishers, DeliverCheck(p)
    PROVE  BusInv'
<1> USE DEF BusInv
<1>1. /\ phase[p] = "next" /\ index[p] <= Len(snapshot[p])
      /\ UNCHANGED <<registry, snapshot, active, heard>>
  BY DEF DeliverCheck, Loop
<1>2. CASE Skips(Current(p))
  <2>1. index' = [index EXCEPT ![p] = @ + 1] /\ UNCHANGED phase
    BY <1>2 DEF DeliverCheck
  <2>2. phase' = [phase EXCEPT ![p] = "next"]
    BY <1>1, <2>1 DEF Functional
  <2>3. snapshot[p][index[p]] \in cancelled
    BY <1>2 DEF Skips, Current, Loop
  <2> QED
    BY <1>1, <2>1, <2>2, <2>3, BusAdvance
<1>3. CASE ~Skips(Current(p))
  <2>1. phase' = [phase EXCEPT ![p] = "about"] /\ UNCHANGED index
    BY <1>3 DEF DeliverCheck
  <2>2. Functional' /\ phase'[p] = "about"
    BY <1>1, <2>1 DEF Functional
  <2>3. snapshot[p][index[p]] \in ToSet(snapshot[p]) /\ snapshot[p][index[p]] \notin cancelled
    BY <1>1, <1>3 DEF Skips, Current, Loop, Delivering, ToSet
  <2>4. snapshot[p][index[p]] \in active[p]
    BY <2>3 DEF Delivering
  <2>5. \A k : Passed(p, k)' <=> Passed(p, k)
    BY <1>1, <2>1, <2>2 DEF Passed
  <2>6. Delivering(p)'
    BY <1>1, <2>1, <2>2, <2>4, <2>5 DEF Delivering, registry
  <2> QED
    BY <1>1, <2>1, <2>2, <2>6, PublisherStep DEF Functional
<1> QED
  BY <1>2, <1>3

LEMMA BusCall ==
    ASSUME BusInv, NEW p \in Publishers, DeliverCall(p)
    PROVE  BusInv'
<1> USE DEF BusInv
<1> DEFINE here == snapshot[p][index[p]]
<1>1. /\ phase[p] = "about" /\ index[p] <= Len(snapshot[p])
      /\ phase' = [phase EXCEPT ![p] = "in"]
      /\ heard' = [heard EXCEPT ![p] = Append(@, here)]
      /\ UNCHANGED <<registry, snapshot, index, active>>
  BY DEF DeliverCall, Loop, Current
<1>2. Functional' /\ phase'[p] = "in" /\ heard'[p] = Append(heard[p], here)
  BY <1>1 DEF Functional
<1>3. /\ index[p] \in DOMAIN snapshot[p] /\ here \in Subscribers /\ here \in active[p]
      /\ heard[p] \in Seq(Subscribers) /\ snapshot[p] \in Seq(Subscribers)
  BY <1>1 DEF Delivering
<1>4. ToSet(heard'[p]) = ToSet(heard[p]) \cup {here} /\ heard'[p] \in Seq(Subscribers)
  BY <1>2, <1>3, SetOfAppend
<1>5. \A k \in DOMAIN snapshot[p] : Passed(p, k)' <=> Passed(p, k) \/ k = index[p]
  BY <1>1, <1>2 DEF Passed
<1>6. ASSUME NEW h \in DOMAIN heard'[p]
      PROVE  \E k \in DOMAIN snapshot[p] : heard'[p][h] = snapshot[p][k] /\ Passed(p, k)'
  <2>1. CASE h \in DOMAIN heard[p]
    <3>1. heard'[p][h] = heard[p][h]
      BY <1>2, <1>3, <2>1
    <3> QED
      BY <1>5, <2>1, <3>1 DEF Delivering
  <2>2. CASE h = Len(heard[p]) + 1
    <3>1. heard'[p][h] = here
      BY <1>2, <1>3, <2>2
    <3> QED
      BY <1>3, <1>5, <3>1
  <2>3. h \in 1 .. Len(heard[p]) + 1 /\ DOMAIN heard[p] = 1 .. Len(heard[p])
    BY <1>2, <1>3
  <2>4. h \in DOMAIN heard[p] \/ h = Len(heard[p]) + 1
    BY <1>3, <2>3
  <2> QED
    BY <2>1, <2>2, <2>4
<1>7. InOrderOf(joined, heard'[p])
  <2> SUFFICES ASSUME NEW i \in DOMAIN heard'[p], NEW j \in DOMAIN heard'[p], i < j
               PROVE  \E k, l \in DOMAIN joined :
                         k < l /\ joined[k] = heard'[p][i] /\ joined[l] = heard'[p][j]
    BY DEF InOrderOf
  <2>1. i \in DOMAIN heard[p] /\ heard'[p][i] = heard[p][i]
    BY <1>2, <1>3
  <2>2. j \in DOMAIN heard[p] \/ j = Len(heard[p]) + 1
    BY <1>2, <1>3
  <2>3. CASE j \in DOMAIN heard[p]
    <3>1. heard'[p][j] = heard[p][j]
      BY <1>2, <1>3, <2>3
    <3> QED
      BY <2>1, <2>3, <3>1 DEF Delivering, InOrderOf
  <2>4. CASE j = Len(heard[p]) + 1
    <3>1. heard'[p][j] = here
      BY <1>2, <1>3, <2>4
    <3>2. PICK k \in DOMAIN snapshot[p] : heard[p][i] = snapshot[p][k] /\ Passed(p, k)
      BY <2>1 DEF Delivering
    <3>3. k < index[p]
      BY <1>1, <3>2 DEF Passed
    <3> QED
      BY <1>3, <2>1, <3>1, <3>2, <3>3 DEF Delivering, InOrderOf
  <2> QED
    BY <2>2, <2>3, <2>4
<1>8. \A k \in DOMAIN snapshot[p] :
         Passed(p, k)' => snapshot[p][k] \in cancelled \cup ToSet(heard'[p])
  BY <1>4, <1>5 DEF Delivering
<1>9. Delivering(p)'
  BY <1>1, <1>2, <1>3, <1>4, <1>6, <1>7, <1>8 DEF Delivering, registry
<1> QED
  BY <1>1, <1>2, <1>9, PublisherStep DEF Functional

LEMMA BusReturn ==
    ASSUME BusInv, NEW p \in Publishers, DeliverReturn(p) \/ PublishReturns(p)
    PROVE  BusInv'
<1> USE DEF BusInv
<1>1. CASE DeliverReturn(p)
  <2>1. /\ phase[p] = "in" /\ phase' = [phase EXCEPT ![p] = "next"]
        /\ index' = [index EXCEPT ![p] = @ + 1]
        /\ UNCHANGED <<registry, snapshot, active, heard>>
    BY <1>1 DEF DeliverReturn, AfterCallback
  <2>2. index[p] <= Len(snapshot[p])
    BY <2>1 DEF Delivering
  <2> QED
    BY <2>1, <2>2, BusAdvance
<1>2. CASE PublishReturns(p)
  <2>1. /\ phase[p] = "next" /\ index[p] > Len(snapshot[p])
        /\ phase' = [phase EXCEPT ![p] = "idle"]
        /\ UNCHANGED <<registry, snapshot, index, active, heard>>
    BY <1>2 DEF PublishReturns, Loop
  <2>2. Functional' /\ phase'[p] = "idle"
    BY <2>1 DEF Functional
  <2>3. \A k : Passed(p, k)' <=> Passed(p, k)
    BY <2>1, <2>2 DEF Passed
  <2>4. Delivering(p)'
    BY <2>1, <2>2, <2>3 DEF Delivering, registry
  <2> QED
    BY <2>1, <2>2, <2>4, PublisherStep DEF Functional
<1> QED
  BY <1>1, <1>2

LEMMA BusInvStep ==
    ASSUME BusInv, [BusNext]_busVars
    PROVE  BusInv'
<1>1. CASE UNCHANGED busVars
  <2>1. UNCHANGED registry /\ UNCHANGED progress
    BY <1>1 DEF busVars
  <2>2. Functional' /\ Listed' /\ Joining /\ cancelled \subseteq cancelled'
    BY <2>1 DEF BusInv, Functional, Listed, Joining, registry, progress
  <2>3. ASSUME NEW p \in Publishers PROVE Delivering(p)'
    BY <2>1, <2>2, Bystander DEF BusInv, progress
  <2> QED
    BY <2>2, <2>3 DEF BusInv
<1> QED
  BY <1>1, BusSubscribe, BusCancel, BusRemove, BusPublish, BusCheck, BusCall, BusReturn
  DEF BusNext, Deliver

\* Subscribers are called in the order they registered in, each at most once per
\* event and only if it was subscribed when the Publish began, however many
\* cancels compact the list meanwhile (events.go:4-5, 10-11, 46-55).
THEOREM InRegistrationOrder == BusSpec => []CalledInOrder
<1>1. BusInv => CalledInOrder
  BY DEF BusInv, Delivering, CalledInOrder
<1> QED
  BY <1>1, BusInvInit, BusInvStep, PTL DEF BusSpec

\* When a Publish has returned, everyone subscribed when it began and not
\* cancelled since has been called: cancels of others, and callbacks that panic,
\* make nobody be skipped (events.go:14-15).
THEOREM EveryoneCalled == BusSpec => []NobodyMissed
<1>1. ASSUME BusInv, NEW p \in Publishers, phase[p] = "idle",
             NEW s \in active[p] \ cancelled
      PROVE  s \in ToSet(heard[p])
  <2>1. Delivering(p)
    BY <1>1 DEF BusInv
  <2>2. PICK k \in DOMAIN snapshot[p] : snapshot[p][k] = s
    BY <1>1, <2>1 DEF Delivering, ToSet
  <2>3. Passed(p, k)
    BY <1>1, <2>1, <2>2 DEF Delivering, Passed
  <2> QED
    BY <1>1, <2>1, <2>2, <2>3 DEF Delivering
<1>2. BusInv => NobodyMissed
  BY <1>1 DEF NobodyMissed
<1> QED
  BY <1>2, BusInvInit, BusInvStep, PTL DEF BusSpec

-----------------------------------------------------------------------------
(* The types                                                               *)

\* What OneLate and BusInv say nothing of.
Kept ==
    /\ IsInjective(subs)
    /\ cancelled \subseteq ToSet(joined) /\ silenced \subseteq cancelled
    /\ published \in [Publishers -> 0 .. MaxPublishes]
    /\ snapshot = [p \in Publishers |-> snapshot[p]]
    /\ active = [p \in Publishers |-> active[p]]
    /\ heard = [p \in Publishers |-> heard[p]]

LEMMA KeptInit == ASSUME MaxPublishes \in Nat PROVE BusInit => Kept
BY DEF BusInit, Kept, IsInjective, ToSet

\* A list without one of its members still has each other one once.
LEMMA RemoveKeepsDistinct ==
    ASSUME NEW list \in Seq(Subscribers), IsInjective(list), NEW s \in Subscribers
    PROVE  IsInjective(RemoveFirst(list, s))
<1>1. PICK r : r = RemoveFirst(list, s)
  OBVIOUS
<1>2. CASE r = list
  BY <1>1, <1>2
<1>3. ASSUME NEW n \in 1 .. Len(list), r \in Seq(Subscribers), Len(r) = Len(list) - 1,
             \A i \in 1 .. Len(list) - 1 : r[i] = IF i < n THEN list[i] ELSE list[i + 1]
      PROVE  IsInjective(r)
  <2> SUFFICES ASSUME NEW i \in DOMAIN r, NEW j \in DOMAIN r, r[i] = r[j] PROVE i = j
    BY DEF IsInjective
  <2> DEFINE at(k) == IF k < n THEN k ELSE k + 1
  <2>1. i \in 1 .. Len(list) - 1 /\ j \in 1 .. Len(list) - 1
    BY <1>3
  <2>2. /\ at(i) \in DOMAIN list /\ r[i] = list[at(i)]
        /\ at(j) \in DOMAIN list /\ r[j] = list[at(j)]
    BY <1>3, <2>1
  <2>3. at(i) = at(j)
    BY <2>2 DEF IsInjective
  <2> QED
    BY <2>1, <2>3
<1>4. \/ r = list
      \/ \E n \in 1 .. Len(list) :
            /\ r \in Seq(Subscribers) /\ Len(r) = Len(list) - 1
            /\ \A i \in 1 .. Len(list) - 1 : r[i] = IF i < n THEN list[i] ELSE list[i + 1]
  <2>1. \/ RemoveFirst(list, s) = list
        \/ \E n \in 1 .. Len(list) :
              /\ RemoveFirst(list, s) \in Seq(Subscribers)
              /\ Len(RemoveFirst(list, s)) = Len(list) - 1
              /\ \A i \in 1 .. Len(list) - 1 :
                    RemoveFirst(list, s)[i] = IF i < n THEN list[i] ELSE list[i + 1]
    BY RemoveFirstIs
  <2> QED
    BY <1>1, <2>1, Zenon
<1>5. IsInjective(r)
  BY <1>2, <1>3, <1>4, Zenon
<1> QED
  BY <1>1, <1>5, Zenon

LEMMA KeptStep ==
    ASSUME MaxPublishes \in Nat, BusInv, Kept, [BusNext]_busVars
    PROVE  Kept'
<1> USE DEF Kept
<1>1. ASSUME NEW s \in Subscribers, Subscribe(s) PROVE Kept'
  <2>1. /\ subs' = Append(subs, s) /\ joined' = Append(joined, s) /\ s \notin ToSet(joined)
        /\ UNCHANGED <<cancelled, silenced, published, snapshot, active, heard>>
    BY <1>1 DEF Subscribe, progress
  <2>2. subs \in Seq(Subscribers) /\ joined \in Seq(Subscribers) /\ ToSet(subs) \subseteq ToSet(joined)
    BY DEF BusInv, Listed
  <2>3. ToSet(joined') = ToSet(joined) \cup {s}
    BY <2>1, <2>2, SetOfAppend
  <2>4. s \notin ToSet(subs)
    BY <2>1, <2>2
  <2>5. \A i \in DOMAIN subs : subs[i] # s
    BY <2>4 DEF ToSet
  <2>6. IsInjective(subs')
    BY <2>1, <2>2, <2>5 DEF IsInjective
  <2> QED
    BY <2>1, <2>3, <2>6
<1>2. ASSUME NEW s \in Subscribers, CancelSwap(s) \/ CancelAgain(s) PROVE Kept'
  BY <1>2 DEF CancelSwap, CancelAgain, SwapFails, progress
<1>3. ASSUME NEW s \in Subscribers, CancelRemove(s) PROVE Kept'
  <2>1. /\ s \in removing /\ subs' = RemoveFirst(subs, s) /\ silenced' = silenced \cup {s}
        /\ UNCHANGED <<cancelled, joined, published, snapshot, active, heard>>
    BY <1>3 DEF CancelRemove, progress
  <2>2. subs \in Seq(Subscribers) /\ s \in cancelled
    BY <2>1 DEF BusInv, Listed
  <2>3. IsInjective(subs')
    BY <2>1, <2>2, RemoveKeepsDistinct
  <2> QED
    BY <2>1, <2>2, <2>3
<1>4. ASSUME NEW p \in Publishers, Publish(p) PROVE Kept'
  <2>1. /\ published' = [published EXCEPT ![p] = @ + 1] /\ published[p] < MaxPublishes
        /\ UNCHANGED registry
    BY <1>4 DEF Publish
  <2>2. published' \in [Publishers -> 0 .. MaxPublishes]
    BY <2>1
  <2>3. /\ snapshot' = [q \in Publishers |-> snapshot'[q]]
        /\ active' = [q \in Publishers |-> active'[q]]
        /\ heard' = [q \in Publishers |-> heard'[q]]
    BY <1>4 DEF Publish
  <2> QED
    BY <2>1, <2>2, <2>3 DEF registry
<1>5. ASSUME NEW p \in Publishers, Deliver(p) PROVE Kept'
  BY <1>5 DEF Deliver, DeliverCheck, DeliverCall, DeliverReturn, PublishReturns, registry
<1>6. CASE UNCHANGED busVars
  BY <1>6 DEF busVars, registry, progress
<1> QED
  BY <1>1, <1>2, <1>3, <1>4, <1>5, <1>6 DEF BusNext

\* The bus holds subscriptions that were made, each once, and only those whose
\* Cancel has begun are flagged, taken off or silenced (events.go:30-88).
THEOREM HoldsEachOnce ==
    ASSUME MaxPublishes \in Nat
    PROVE  BusSpec => []BusTypeOK
<1>1. ASSUME OneLate, BusInv, Kept PROVE BusTypeOK
  <2>1. /\ subs \in Seq(Subscribers) /\ joined \in Seq(Subscribers)
        /\ IsInjective(joined) /\ removing \subseteq cancelled
    BY <1>1, Zenon DEF BusInv, Listed
  <2>2. ASSUME NEW p \in Publishers
        PROVE  /\ index[p] \in Nat \ {0} /\ snapshot[p] \in Seq(Subscribers)
               /\ heard[p] \in Seq(Subscribers) /\ active[p] \in SUBSET Subscribers
    <3>1. Delivering(p)
      BY <1>1 DEF BusInv
    <3>2. ToSet(snapshot[p]) \in SUBSET Subscribers
      BY <3>1 DEF Delivering, ToSet
    <3> QED
      BY <3>1, <3>2 DEF Delivering
  <2>3. /\ index \in [Publishers -> Nat \ {0}] /\ active \in [Publishers -> SUBSET Subscribers]
        /\ snapshot \in [Publishers -> Seq(Subscribers)]
        /\ heard \in [Publishers -> Seq(Subscribers)]
        /\ phase \in [Publishers -> {"idle", "next", "about", "in"}]
    <3>1. index \in [Publishers -> Nat] /\ phase \in [Publishers -> {"idle", "next", "about", "in"}]
      BY <1>1, Zenon DEF OneLate
    <3>2. /\ snapshot = [p \in Publishers |-> snapshot[p]]
          /\ active = [p \in Publishers |-> active[p]]
          /\ heard = [p \in Publishers |-> heard[p]]
      BY <1>1, Zenon DEF Kept
    <3> QED
      BY <2>2, <3>1, <3>2
  <2>4. late \in [Publishers -> [Subscribers -> Nat]]
    BY <1>1, Zenon DEF OneLate
  <2> QED
    BY <1>1, <2>1, <2>3, <2>4, Zenon DEF Kept, BusTypeOK
<1> QED
  BY <1>1, OneLateInit, OneLateStep, BusInvInit, BusInvStep, KeptInit, KeptStep, PTL DEF BusSpec

=============================================================================
