------------------------------ MODULE OggProofs ------------------------------
(***************************************************************************)
(* Proofs about Ogg files (OggFraming, OggFile), for any number of streams *)
(* and of packets, packets and pages of any size, any damage and any place *)
(* at which the file ends.  First of one stream: what its packets look     *)
(* like as segments, what the encoder makes of them and the decoder of its *)
(* pages.  Then of the file: what a call of the Writer adds, what the file *)
(* has of each stream, what a decoder has made of it, the invariant that   *)
(* says all this at every moment, and what follows from it.                *)
(***************************************************************************)
EXTENDS OggFile, SequenceLemmas, FiniteSetTheorems

-----------------------------------------------------------------------------
(* The loops: what each goes through, step by step.                        *)

Gathering(f, segs) ==
    /\ f[0] = [packets |-> <<>>, partial |-> <<>>]
    /\ \A n \in 1 .. Len(segs) : f[n] = Gather(f[n - 1], segs[n])

LEMMA GatheredIs ==
    ASSUME NEW segs, Len(segs) \in Nat
    PROVE  \E f : Gathering(f, segs) /\ PacketsOut(segs) = f[Len(segs)]
<1> DEFINE Eq(f, m) == f = [n \in 0 .. m |-> IF n = 0 THEN [packets |-> <<>>, partial |-> <<>>] ELSE Gather(f[n - 1], segs[n])]
           Good == {m \in Nat : \E f : Eq(f, m)}
<1>1. 0 \in Good
  <2>1. PICK f : f = [n \in 0 .. 0 |-> [packets |-> <<>>, partial |-> <<>>]]
    OBVIOUS
  <2>2. \A n \in 0 .. 0 : n = 0
    OBVIOUS
  <2>3. [n \in 0 .. 0 |-> [packets |-> <<>>, partial |-> <<>>]] = [n \in 0 .. 0 |-> IF n = 0 THEN [packets |-> <<>>, partial |-> <<>>] ELSE Gather(f[n - 1], segs[n])]
    BY <2>2, Zenon
  <2> QED
    BY <2>1, <2>3, Zenon
<1>2. ASSUME NEW m \in Nat, m \in Good PROVE m + 1 \in Good
  <2>1. PICK f : Eq(f, m)
    BY <1>2
  <2>2. PICK g : g = [n \in 0 .. m + 1 |-> IF n = m + 1 THEN Gather(f[m], segs[m + 1]) ELSE f[n]]
    OBVIOUS
  <2>3. \A n \in 0 .. m : f[n] = IF n = 0 THEN [packets |-> <<>>, partial |-> <<>>] ELSE Gather(f[n - 1], segs[n])
    BY <2>1, Zenon
  <2>4. \A n \in 0 .. m : g[n] = f[n]
    BY <2>2
  <2>5. g[m + 1] = Gather(f[m], segs[m + 1])
    BY <2>2
  <2>6. ASSUME NEW n \in 0 .. m + 1
        PROVE  g[n] = IF n = 0 THEN [packets |-> <<>>, partial |-> <<>>] ELSE Gather(g[n - 1], segs[n])
    <3>1. CASE n = m + 1
      <4>1. n # 0 /\ n - 1 = m /\ m \in 0 .. m
        BY <3>1
      <4> QED
        BY <2>4, <2>5, <3>1, <4>1, Zenon
    <3>2. CASE n # m + 1
      <4>1. n \in 0 .. m /\ (n # 0 => n - 1 \in 0 .. m)
        BY <3>2
      <4> QED
        BY <2>3, <2>4, <4>1, Zenon
    <3> QED
      BY <3>1, <3>2
  <2>7. g = [n \in 0 .. m + 1 |-> g[n]]
    BY <2>2, Zenon
  <2>8. Eq(g, m + 1)
    BY <2>6, <2>7, Zenon
  <2> QED
    BY <2>8
<1> HIDE DEF Good
<1>3. Nat \subseteq Good
  BY <1>1, <1>2, Induction
<1>4. Len(segs) \in Good
  BY <1>3
<1>5. \E f : Eq(f, Len(segs))
  BY <1>4 DEF Good
<1> DEFINE h == CHOOSE f : Eq(f, Len(segs))
<1>6. PacketsOut(segs) = h[Len(segs)]
  BY Zenon DEF PacketsOut
<1>7. h = [n \in 0 .. Len(segs) |-> IF n = 0 THEN [packets |-> <<>>, partial |-> <<>>] ELSE Gather(h[n - 1], segs[n])]
  BY <1>5, Zenon
<1> HIDE DEF h
<1>8. \A n \in 0 .. Len(segs) : h[n] = IF n = 0 THEN [packets |-> <<>>, partial |-> <<>>] ELSE Gather(h[n - 1], segs[n])
  BY <1>7, Zenon
<1>9. 0 \in 0 .. Len(segs) /\ \A n \in 1 .. Len(segs) : n \in 0 .. Len(segs) /\ n # 0
  OBVIOUS
<1> QED
  BY <1>6, <1>8, <1>9, Zenon DEF Gathering

Draining(f, enc, s, flush, pages) ==
    /\ f[0] = [enc |-> enc, pages |-> pages]
    /\ \A n \in 1 .. Len(enc.lacing) : f[n] = NextPage(f[n - 1], s, flush)

LEMMA DrainedIs ==
    ASSUME NEW enc, NEW s, NEW flush, NEW pages, Len(enc.lacing) \in Nat
    PROVE  \E f : Draining(f, enc, s, flush, pages) /\ Drained(enc, s, flush, pages) = f[Len(enc.lacing)]
<1> DEFINE Eq(f, m) == f = [n \in 0 .. m |-> IF n = 0 THEN [enc |-> enc, pages |-> pages] ELSE NextPage(f[n - 1], s, flush)]
           Good == {m \in Nat : \E f : Eq(f, m)}
<1>1. 0 \in Good
  <2>1. PICK f : f = [n \in 0 .. 0 |-> [enc |-> enc, pages |-> pages]]
    OBVIOUS
  <2>2. \A n \in 0 .. 0 : n = 0
    OBVIOUS
  <2>3. [n \in 0 .. 0 |-> [enc |-> enc, pages |-> pages]] = [n \in 0 .. 0 |-> IF n = 0 THEN [enc |-> enc, pages |-> pages] ELSE NextPage(f[n - 1], s, flush)]
    BY <2>2, Zenon
  <2> QED
    BY <2>1, <2>3, Zenon
<1>2. ASSUME NEW m \in Nat, m \in Good PROVE m + 1 \in Good
  <2>1. PICK f : Eq(f, m)
    BY <1>2
  <2>2. PICK g : g = [n \in 0 .. m + 1 |-> IF n = m + 1 THEN NextPage(f[m], s, flush) ELSE f[n]]
    OBVIOUS
  <2>3. \A n \in 0 .. m : f[n] = IF n = 0 THEN [enc |-> enc, pages |-> pages] ELSE NextPage(f[n - 1], s, flush)
    BY <2>1, Zenon
  <2>4. \A n \in 0 .. m : g[n] = f[n]
    BY <2>2
  <2>5. g[m + 1] = NextPage(f[m], s, flush)
    BY <2>2
  <2>6. ASSUME NEW n \in 0 .. m + 1
        PROVE  g[n] = IF n = 0 THEN [enc |-> enc, pages |-> pages] ELSE NextPage(g[n - 1], s, flush)
    <3>1. CASE n = m + 1
      <4>1. n # 0 /\ n - 1 = m /\ m \in 0 .. m
        BY <3>1
      <4> QED
        BY <2>4, <2>5, <3>1, <4>1, Zenon
    <3>2. CASE n # m + 1
      <4>1. n \in 0 .. m /\ (n # 0 => n - 1 \in 0 .. m)
        BY <3>2
      <4> QED
        BY <2>3, <2>4, <4>1, Zenon
    <3> QED
      BY <3>1, <3>2
  <2>7. g = [n \in 0 .. m + 1 |-> g[n]]
    BY <2>2, Zenon
  <2>8. Eq(g, m + 1)
    BY <2>6, <2>7, Zenon
  <2> QED
    BY <2>8
<1> HIDE DEF Good
<1>3. Nat \subseteq Good
  BY <1>1, <1>2, Induction
<1>4. Len(enc.lacing) \in Good
  BY <1>3
<1>5. \E f : Eq(f, Len(enc.lacing))
  BY <1>4 DEF Good
<1> DEFINE h == CHOOSE f : Eq(f, Len(enc.lacing))
<1>6. Drained(enc, s, flush, pages) = h[Len(enc.lacing)]
  BY Zenon DEF Drained
<1>7. h = [n \in 0 .. Len(enc.lacing) |-> IF n = 0 THEN [enc |-> enc, pages |-> pages] ELSE NextPage(h[n - 1], s, flush)]
  BY <1>5, Zenon
<1> HIDE DEF h
<1>8. \A n \in 0 .. Len(enc.lacing) : h[n] = IF n = 0 THEN [enc |-> enc, pages |-> pages] ELSE NextPage(h[n - 1], s, flush)
  BY <1>7, Zenon
<1>9. 0 \in 0 .. Len(enc.lacing) /\ \A n \in 1 .. Len(enc.lacing) : n \in 0 .. Len(enc.lacing) /\ n # 0
  OBVIOUS
<1> QED
  BY <1>6, <1>8, <1>9, Zenon DEF Draining

Feeding(f, m) ==
    /\ f[0] = pump
    /\ \A k \in 1 .. m : f[k] = FeedPage(f[k - 1], unread[k])

LEMMA FedIs ==
    ASSUME NEW m \in Nat
    PROVE  \E f : Feeding(f, m) /\ Fed(m) = f[m]
<1> DEFINE Eq(f, l) == f = [n \in 0 .. l |-> IF n = 0 THEN pump ELSE FeedPage(f[n - 1], unread[n])]
           Good == {l \in Nat : \E f : Eq(f, l)}
<1>1. 0 \in Good
  <2>1. PICK f : f = [n \in 0 .. 0 |-> pump]
    OBVIOUS
  <2>2. \A n \in 0 .. 0 : n = 0
    OBVIOUS
  <2>3. [n \in 0 .. 0 |-> pump] = [n \in 0 .. 0 |-> IF n = 0 THEN pump ELSE FeedPage(f[n - 1], unread[n])]
    BY <2>2, Zenon
  <2> QED
    BY <2>1, <2>3, Zenon
<1>2. ASSUME NEW l \in Nat, l \in Good PROVE l + 1 \in Good
  <2>1. PICK f : Eq(f, l)
    BY <1>2
  <2>2. PICK g : g = [n \in 0 .. l + 1 |-> IF n = l + 1 THEN FeedPage(f[l], unread[l + 1]) ELSE f[n]]
    OBVIOUS
  <2>3. \A n \in 0 .. l : f[n] = IF n = 0 THEN pump ELSE FeedPage(f[n - 1], unread[n])
    BY <2>1, Zenon
  <2>4. \A n \in 0 .. l : g[n] = f[n]
    BY <2>2
  <2>5. g[l + 1] = FeedPage(f[l], unread[l + 1])
    BY <2>2
  <2>6. ASSUME NEW n \in 0 .. l + 1
        PROVE  g[n] = IF n = 0 THEN pump ELSE FeedPage(g[n - 1], unread[n])
    <3>1. CASE n = l + 1
      <4>1. n # 0 /\ n - 1 = l /\ l \in 0 .. l
        BY <3>1
      <4> QED
        BY <2>4, <2>5, <3>1, <4>1, Zenon
    <3>2. CASE n # l + 1
      <4>1. n \in 0 .. l /\ (n # 0 => n - 1 \in 0 .. l)
        BY <3>2
      <4> QED
        BY <2>3, <2>4, <4>1, Zenon
    <3> QED
      BY <3>1, <3>2
  <2>7. g = [n \in 0 .. l + 1 |-> g[n]]
    BY <2>2, Zenon
  <2>8. Eq(g, l + 1)
    BY <2>6, <2>7, Zenon
  <2> QED
    BY <2>8
<1> HIDE DEF Good
<1>3. Nat \subseteq Good
  BY <1>1, <1>2, Induction
<1>4. m \in Good
  BY <1>3
<1>5. \E f : Eq(f, m)
  BY <1>4 DEF Good
<1> DEFINE h == CHOOSE f : Eq(f, m)
<1>6. Fed(m) = h[m]
  BY Zenon DEF Fed
<1>7. h = [n \in 0 .. m |-> IF n = 0 THEN pump ELSE FeedPage(h[n - 1], unread[n])]
  BY <1>5, Zenon
<1> HIDE DEF h
<1>8. \A n \in 0 .. m : h[n] = IF n = 0 THEN pump ELSE FeedPage(h[n - 1], unread[n])
  BY <1>7, Zenon
<1>9. 0 \in 0 .. m /\ \A n \in 1 .. m : n \in 0 .. m /\ n # 0
  OBVIOUS
<1> QED
  BY <1>6, <1>8, <1>9, Zenon DEF Feeding

-----------------------------------------------------------------------------
(* Types.                                                                  *)

Seg == [packet : Nat, val : Nat, first : BOOLEAN]
Encoder == [lacing : Seq(Seg), begun : BOOLEAN, eos : BOOLEAN, pageno : Nat]
PageSet == [serial : Streams, no : Nat, continued : BOOLEAN, bos : BOOLEAN, eos : BOOLEAN,
            segments : Seq(Seg)]

-----------------------------------------------------------------------------
(* Packets in segments.                                                    *)

LEMMA SegDivides ==
    ASSUME NEW b \in Nat
    PROVE  b \div SegMax \in Nat /\ b % SegMax \in 0 .. SegMax - 1
BY FramingAssumption

\* Only the last segment of a packet ends it, and only the first begins it.
LEMMA LacingIs ==
    ASSUME NEW n \in Nat, NEW b \in Nat
    PROVE  /\ Lacing(n, b) \in Seq(Seg)
           /\ Len(Lacing(n, b)) = b \div SegMax + 1
           /\ Len(Lacing(n, b)) \in Nat \ {0}
           /\ \A i \in 1 .. Len(Lacing(n, b)) :
                 /\ Lacing(n, b)[i].packet = n
                 /\ Lacing(n, b)[i].first <=> i = 1
                 /\ Ends(Lacing(n, b)[i]) <=> i = Len(Lacing(n, b))
<1> DEFINE v(i) == IF i <= b \div SegMax THEN SegMax ELSE b % SegMax
<1>1. b \div SegMax \in Nat /\ b % SegMax \in 0 .. SegMax - 1 /\ SegMax \in Nat
  BY SegDivides, FramingAssumption
<1>2. PICK m \in Nat : m = b \div SegMax
  BY <1>1
<1>3. \A i \in 1 .. m + 1 : v(i) \in Nat /\ (v(i) < SegMax <=> i = m + 1)
  BY <1>1, <1>2
<1>4. Lacing(n, b) = [i \in 1 .. m + 1 |-> Segment(n, v(i), i = 1)]
  BY <1>2 DEF Lacing
<1> HIDE DEF v
<1>5. \A i \in 1 .. m + 1 : /\ Segment(n, v(i), i = 1) \in Seg
                            /\ Segment(n, v(i), i = 1).packet = n
                            /\ Segment(n, v(i), i = 1).val = v(i)
                            /\ Segment(n, v(i), i = 1).first <=> i = 1
  BY <1>3 DEF Segment, Seg
<1>6. Lacing(n, b) \in Seq(Seg) /\ Len(Lacing(n, b)) = m + 1
  BY <1>4, <1>5
<1>7. \A i \in 1 .. m + 1 : Lacing(n, b)[i] = Segment(n, v(i), i = 1)
  BY <1>4
<1> QED
  BY <1>2, <1>3, <1>5, <1>6, <1>7 DEF Ends

-----------------------------------------------------------------------------
(* What a stream is made of: the segments of its packets one after another.*)

\* Packets in their order: a segment that does not end its packet is followed by
\* the next of it, and what lies between a beginning and an end is the packet.
Framed(T, sz) ==
    /\ T \in Seq(Seg)
    /\ \A k \in 1 .. Len(T) :
          /\ T[k].packet \in 1 .. Len(sz)
          /\ T[k].first <=> k = 1 \/ Ends(T[k - 1])
          /\ ~Ends(T[k]) => k < Len(T) /\ T[k + 1].packet = T[k].packet
    /\ \A k, l \in 1 .. Len(T) : k < l =>
          /\ T[k].packet <= T[l].packet
          /\ Ends(T[k]) => T[k].packet < T[l].packet
    /\ \A b, e \in 1 .. Len(T) :
          b <= e /\ T[b].first /\ Ends(T[e]) /\ (\A j \in b .. e - 1 : ~Ends(T[j]))
             => SubSeq(T, b, e) = Lacing(T[b].packet, sz[T[b].packet])

\* The first m packets of a stream.
Whole(sz, m) == FlattenSeq([n \in 1 .. m |-> Lacing(n, sz[n])])

LEMMA WholeNext ==
    ASSUME NEW sz \in Seq(Nat), NEW m \in Nat, m + 1 <= Len(sz)
    PROVE  /\ Whole(sz, m) \in Seq(Seg)
           /\ Whole(sz, m + 1) = Whole(sz, m) \o Lacing(m + 1, sz[m + 1])
<1> DEFINE ss == [n \in 1 .. m |-> Lacing(n, sz[n])]
           x == Lacing(m + 1, sz[m + 1])
           tt == [n \in 1 .. m + 1 |-> Lacing(n, sz[n])]
<1>0. \A n \in 1 .. m + 1 : n \in Nat /\ sz[n] \in Nat
  OBVIOUS
<1>1. \A n \in 1 .. m + 1 : Lacing(n, sz[n]) \in Seq(Seg)
  BY <1>0, LacingIs, ZenonT(30)
<1>2. ss \in Seq(Seq(Seg)) /\ Len(ss) = m /\ tt \in Seq(Seq(Seg)) /\ Len(tt) = m + 1 /\ x \in Seq(Seg)
  BY <1>1
<1>3. Append(ss, x) \in Seq(Seq(Seg)) /\ Len(Append(ss, x)) = m + 1
  BY <1>2
<1>4. \A n \in 1 .. m + 1 : tt[n] = Append(ss, x)[n]
  <2>1. \A n \in 1 .. m : tt[n] = ss[n] /\ Append(ss, x)[n] = ss[n]
    BY <1>2
  <2>2. tt[m + 1] = x /\ Append(ss, x)[m + 1] = x
    BY <1>2
  <2> QED
    BY <2>1, <2>2
<1>5. tt = Append(ss, x)
  BY <1>2, <1>3, <1>4, SeqEqual
<1>6. FlattenSeq(tt) = FlattenSeq(ss) \o x /\ FlattenSeq(ss) \in Seq(Seg)
  BY <1>2, <1>5, FlattenAppend, FlattenType
<1> QED
  BY <1>6 DEF Whole

LEMMA WholeNone ==
    ASSUME NEW sz
    PROVE  Whole(sz, 0) = <<>>
<1>1. [n \in 1 .. 0 |-> Lacing(n, sz[n])] = <<>>
  OBVIOUS
<1> QED
  BY <1>1, FlattenEmpty DEF Whole

\* A stream of whole packets and the next packet.
LEMMA FramedAppend ==
    ASSUME NEW T, NEW sz \in Seq(Nat), NEW m \in Nat, m + 1 <= Len(sz),
           Framed(T, sz), \A k \in 1 .. Len(T) : T[k].packet <= m,
           NEW U, U = T \o Lacing(m + 1, sz[m + 1])
    PROVE  Framed(U, sz) /\ \A k \in 1 .. Len(U) : U[k].packet <= m + 1
<1>0. T \in Seq(Seg)
  BY DEF Framed
<1>5. PICK p \in Nat : p = m + 1 /\ p \in 1 .. Len(sz)
  OBVIOUS
<1>a. PICK z \in Nat : z = sz[p]
  BY <1>5
<1>6. PICK L : L = Lacing(p, sz[p])
  OBVIOUS
<1>1. /\ L \in Seq(Seg) /\ Len(L) \in Nat \ {0}
      /\ \A i \in 1 .. Len(L) : /\ L[i].packet = p /\ (L[i].first <=> i = 1)
                                /\ Ends(L[i]) <=> i = Len(L)
  <2>1. /\ Lacing(p, z) \in Seq(Seg)
        /\ Len(Lacing(p, z)) \in Nat \ {0}
        /\ \A i \in 1 .. Len(Lacing(p, z)) :
              /\ Lacing(p, z)[i].packet = p
              /\ Lacing(p, z)[i].first <=> i = 1
              /\ Ends(Lacing(p, z)[i]) <=> i = Len(Lacing(p, z))
    BY LacingIs
  <2>2. L = Lacing(p, z)
    BY <1>a, <1>6, Zenon
  <2> QED
    BY <2>1, <2>2, Zenon
<1>2. PICK n \in Nat : n = Len(T)
  BY <1>0
<1>3. PICK h \in Nat \ {0} : h = Len(L)
  BY <1>1
<1>4. U = T \o L
  BY <1>5, <1>6, Zenon
<1>7. /\ U \in Seq(Seg) /\ Len(U) = n + h
      /\ \A k \in 1 .. n : U[k] = T[k]
      /\ \A i \in 1 .. h : U[n + i] = L[i]
  <2>1. /\ T \o L \in Seq(Seg) /\ Len(T \o L) = Len(T) + Len(L)
        /\ \A k \in 1 .. Len(T) : (T \o L)[k] = T[k]
        /\ \A i \in 1 .. Len(L) : (T \o L)[Len(T) + i] = L[i]
    <3>1. L \in Seq(Seg)
      BY <1>1
    <3> QED
      BY <1>0, <3>1, ConcatIs
  <2> QED
    BY <2>1, <1>2, <1>3, <1>4, Zenon
<1>8. \A k \in n + 1 .. n + h : k - n \in 1 .. h /\ n + (k - n) = k
  BY <1>2, <1>3
<1>9. \A k \in n + 1 .. n + h : U[k] = L[k - n]
  BY <1>7, <1>8, Zenon
<1>10. \A k \in n + 1 .. n + h :
          /\ U[k].packet = p
          /\ U[k].first <=> k = n + 1
          /\ Ends(U[k]) <=> k = n + h
  <2> TAKE k \in n + 1 .. n + h
  <2>1. \A i \in 1 .. h : L[i].packet = p /\ (L[i].first <=> i = 1) /\ (Ends(L[i]) <=> i = h)
    BY <1>1, <1>3, Zenon
  <2>2. U[k] = L[k - n] /\ k - n \in 1 .. h
    BY <1>8, <1>9, Zenon
  <2>3. /\ U[k].packet = p
        /\ U[k].first <=> k - n = 1
        /\ Ends(U[k]) <=> k - n = h
    BY <2>1, <2>2, Zenon
  <2>4. (k - n = 1 <=> k = n + 1) /\ (k - n = h <=> k = n + h)
    BY <1>2, <1>3
  <2> QED
    BY <2>3, <2>4, Zenon
<1>11. \A k \in 1 .. n + h : k \in 1 .. n \/ k \in n + 1 .. n + h
  BY <1>2, <1>3
<1>12. ASSUME NEW k \in 1 .. n
       PROVE  /\ U[k] = T[k] /\ k \in Nat /\ k <= n
              /\ T[k].packet \in 1 .. Len(sz) /\ T[k].packet <= m
              /\ T[k].first <=> k = 1 \/ Ends(T[k - 1])
              /\ ~Ends(T[k]) => k < n /\ T[k + 1].packet = T[k].packet
  BY <1>2, <1>7 DEF Framed
<1>13. ASSUME NEW k \in 1 .. n + h
       PROVE  /\ U[k].packet \in 1 .. Len(sz)
              /\ U[k].first <=> k = 1 \/ Ends(U[k - 1])
              /\ ~Ends(U[k]) => k < n + h /\ U[k + 1].packet = U[k].packet
  <2>1. CASE k \in 1 .. n
    <3>1. k # 1 => U[k - 1] = T[k - 1]
      BY <1>7, <1>2, <2>1
    <3>2. k < n => U[k + 1] = T[k + 1]
      BY <1>7, <1>2, <2>1
    <3>3. k < n + h
      BY <1>2, <1>3, <2>1
    <3> QED
      BY <1>12, <2>1, <3>1, <3>2, <3>3, Zenon
  <2>2. CASE k \in n + 1 .. n + h
    <3>1. /\ U[k].packet = p
          /\ U[k].first <=> k = n + 1
          /\ Ends(U[k]) <=> k = n + h
      BY <1>10, <2>2, Zenon
    <3>2. CASE k = n + 1
      <4>1. k = 1 \/ (n \in 1 .. n /\ k - 1 = n)
        BY <3>2, <1>2
      <4>2. n \in 1 .. n => Ends(U[n])
        <5> SUFFICES ASSUME n \in 1 .. n PROVE Ends(U[n])
          OBVIOUS
        <5>1. U[n] = T[n] /\ (~Ends(T[n]) => n < n)
          BY <1>12, Zenon
        <5> QED
          BY <5>1, <1>2
      <4>3. k = 1 \/ Ends(U[k - 1])
        BY <4>1, <4>2, Zenon
      <4>4. k # n + h => k + 1 \in n + 1 .. n + h /\ k < n + h
        BY <1>2, <1>3, <3>2
      <4> QED
        BY <1>5, <1>10, <3>1, <3>2, <4>3, <4>4, Zenon
    <3>3. CASE k # n + 1
      <4>1. k # 1 /\ k - 1 \in n + 1 .. n + h /\ k - 1 # n + h
        BY <1>2, <1>3, <2>2, <3>3
      <4>2. k # n + h => k + 1 \in n + 1 .. n + h /\ k < n + h
        BY <1>2, <1>3, <2>2, SMTT(30)
      <4> QED
        BY <1>5, <1>10, <3>1, <3>3, <4>1, <4>2, Zenon
    <3> QED
      BY <3>2, <3>3
  <2> QED
    BY <1>11, <2>1, <2>2, Zenon
<1>14. ASSUME NEW k \in 1 .. n + h, NEW l \in 1 .. n + h, k < l
       PROVE  /\ U[k].packet <= U[l].packet
              /\ Ends(U[k]) => U[k].packet < U[l].packet
  <2>1. CASE l \in 1 .. n
    <3>1. k \in 1 .. n
      BY <1>2, <1>14, <2>1
    <3> QED
      BY <1>2, <1>7, <1>14, <2>1, <3>1 DEF Framed
  <2>2. CASE k \in 1 .. n /\ l \in n + 1 .. n + h
    <3>1. U[k] = T[k] /\ T[k].packet \in 1 .. Len(sz) /\ T[k].packet <= m /\ U[l].packet = p
      BY <1>10, <1>12, <2>2, Zenon
    <3>2. PICK q \in Nat : q = T[k].packet /\ q <= m
      BY <3>1, SMTT(30)
    <3>3. q < p /\ q <= p
      BY <3>2, <1>5
    <3> QED
      BY <3>1, <3>2, <3>3, Zenon
  <2>3. CASE k \in n + 1 .. n + h
    <3>1. l \in n + 1 .. n + h
      BY <1>2, <1>3, <1>14, <2>3
    <3>2. U[k].packet = p /\ U[l].packet = p /\ (Ends(U[k]) <=> k = n + h)
      BY <1>10, <2>3, <3>1, Zenon
    <3>3. k # n + h
      BY <1>2, <1>3, <1>14
    <3>4. p <= p
      BY <1>5
    <3> QED
      BY <3>2, <3>3, <3>4, Zenon
  <2> QED
    BY <1>11, <2>1, <2>2, <2>3, Zenon
<1>15. ASSUME NEW b \in 1 .. n + h, NEW e \in 1 .. n + h, b <= e, U[b].first, Ends(U[e]),
              \A j \in b .. e - 1 : ~Ends(U[j])
       PROVE  SubSeq(U, b, e) = Lacing(U[b].packet, sz[U[b].packet])
  <2>1. CASE e \in 1 .. n
    <3>1. b \in 1 .. n /\ \A j \in b .. e - 1 : j \in 1 .. n
      BY <1>2, <1>15, <2>1
    <3>2. U[b] = T[b] /\ U[e] = T[e] /\ \A j \in b .. e - 1 : U[j] = T[j]
      BY <1>7, <2>1, <3>1, Zenon
    <3>3. SubSeq(T, b, e) = Lacing(T[b].packet, sz[T[b].packet])
      BY <1>2, <1>15, <2>1, <3>1, <3>2, Zenon DEF Framed
    <3>4. SubSeq(U, b, e) = SubSeq(T, b, e)
      BY <1>0, <1>2, <1>7, <1>15, <2>1
    <3> QED
      BY <3>2, <3>3, <3>4, Zenon
  <2>2. CASE b \in 1 .. n /\ e \in n + 1 .. n + h
    <3>1. n \in 1 .. n /\ n \in b .. e - 1
      BY <1>2, <1>3, <2>2
    <3>2. U[n] = T[n] /\ (~Ends(T[n]) => n < n)
      BY <1>12, <3>1, Zenon
    <3>3. ~(n < n)
      BY <1>2
    <3> QED
      BY <1>15, <3>1, <3>2, <3>3, Zenon
  <2>3. CASE b \in n + 1 .. n + h
    <3>1. e \in n + 1 .. n + h
      BY <1>2, <1>3, <1>15, <2>3
    <3>2. b = n + 1 /\ e = n + h /\ U[b].packet = p
      BY <1>10, <1>15, <2>3, <3>1, Zenon
    <3>3. /\ SubSeq(U, n + 1, n + h) \in Seq(Seg)
          /\ Len(SubSeq(U, n + 1, n + h)) = h
          /\ \A i \in 1 .. h : SubSeq(U, n + 1, n + h)[i] = U[n + i]
      <4>1. n \in 0 .. Len(U) /\ n + h \in n .. Len(U) /\ n + h - n = h
        BY <1>2, <1>3, <1>7
      <4> QED
        <5>1. PICK w \in n .. Len(U) : w = n + h /\ w - n = h
          BY <4>1
        <5>2. /\ SubSeq(U, n + 1, w) \in Seq(Seg)
              /\ Len(SubSeq(U, n + 1, w)) = w - n
              /\ \A i \in 1 .. w - n : SubSeq(U, n + 1, w)[i] = U[n + i]
          <6>1. U \in Seq(Seg) /\ n \in 0 .. Len(U)
            BY <1>7, <4>1, Zenon
          <6> QED
            BY <6>1, CutType, SMTT(30)
        <5> QED
          BY <5>1, <5>2, Zenon
    <3>4. SubSeq(U, n + 1, n + h) = L
      <4>1. L \in Seq(Seg) /\ Len(SubSeq(U, n + 1, n + h)) = Len(L)
        BY <1>1, <1>3, <3>3, Zenon
      <4>2. \A i \in 1 .. Len(SubSeq(U, n + 1, n + h)) : SubSeq(U, n + 1, n + h)[i] = L[i]
        BY <1>7, <3>3, Zenon
      <4> QED
        BY <3>3, <4>1, <4>2, SeqEqual, Zenon
    <3> QED
      BY <1>6, <3>2, <3>4, Zenon
  <2> QED
    BY <1>11, <2>1, <2>2, <2>3, Zenon
<1>16. Framed(U, sz)
  BY <1>7, <1>13, <1>14, <1>15, ZenonT(30) DEF Framed
<1>17. ASSUME NEW k \in 1 .. n + h PROVE U[k].packet <= m + 1
  <2>1. CASE k \in 1 .. n
    <3>1. U[k] = T[k] /\ T[k].packet \in 1 .. Len(sz) /\ T[k].packet <= m
      BY <1>12, <2>1, Zenon
    <3>2. PICK q \in Nat : q = T[k].packet /\ q <= m
      BY <3>1
    <3>3. q <= m + 1
      BY <3>2
    <3> QED
      BY <3>1, <3>2, <3>3, Zenon
  <2>2. CASE k \in n + 1 .. n + h
    <3>1. U[k].packet = p
      BY <1>10, <2>2, Zenon
    <3>2. p <= m + 1
      BY <1>5
    <3> QED
      BY <3>1, <3>2, Zenon
  <2> QED
    BY <1>11, <2>1, <2>2, Zenon
<1> QED
  BY <1>7, <1>16, <1>17, Zenon

\* Every stream is made of its packets.
LEMMA WholeFramed ==
    ASSUME NEW sz \in Seq(Nat), NEW m \in 0 .. Len(sz)
    PROVE  Framed(Whole(sz, m), sz) /\ \A k \in 1 .. Len(Whole(sz, m)) : Whole(sz, m)[k].packet <= m
<1> DEFINE Fine(n) == /\ Framed(Whole(sz, n), sz)
                      /\ \A k \in 1 .. Len(Whole(sz, n)) : Whole(sz, n)[k].packet <= n
           Good == {n \in Nat : n <= Len(sz) => Fine(n)}
<1>1. 0 \in Good
  <2>1. Framed(<<>>, sz)
    BY DEF Framed
  <2>2. \A k \in 1 .. Len(<<>>) : <<>>[k].packet <= 0
    OBVIOUS
  <2>4. Whole(sz, 0) = <<>>
    BY WholeNone, Zenon
  <2>3. Fine(0)
    BY <2>1, <2>2, <2>4, Zenon
  <2> QED
    BY <2>3
<1>2. ASSUME NEW n \in Nat, n \in Good PROVE n + 1 \in Good
  <2> SUFFICES ASSUME n + 1 <= Len(sz) PROVE Fine(n + 1)
    OBVIOUS
  <2>1. Fine(n)
    BY <1>2
  <2>2. Whole(sz, n + 1) = Whole(sz, n) \o Lacing(n + 1, sz[n + 1])
    BY WholeNext
  <2> QED
    BY <2>1, <2>2, FramedAppend, Zenon
<1> HIDE DEF Fine
<1>3. Nat \subseteq Good
  <2> HIDE DEF Good
  <2> QED
    BY <1>1, <1>2, Induction
<1> QED
  BY <1>3 DEF Fine

LEMMA CutAppend ==
    ASSUME NEW S, NEW s \in Seq(S), NEW m \in Nat, NEW n \in Nat, m <= n, n < Len(s)
    PROVE  Append(SubSeq(s, m + 1, n), s[n + 1]) = SubSeq(s, m + 1, n + 1)
OBVIOUS

LEMMA LacingItems ==
    \A n, b \in Nat : \A i \in 1 .. Len(Lacing(n, b)) : Lacing(n, b)[i].packet = n
<1> TAKE n, b \in Nat
<1> QED
  BY LacingIs

LEMMA NumberIs ==
    ASSUME NEW n \in Nat, NEW b \in Nat
    PROVE  Number(Lacing(n, b)) = n /\ Lacing(n, b) \in Seq(Seg)
<1>1. 1 \in 1 .. Len(Lacing(n, b)) /\ Lacing(n, b) \in Seq(Seg)
  BY LacingIs
<1>2. \A i \in 1 .. Len(Lacing(n, b)) : Lacing(n, b)[i].packet = n
  BY LacingIs
<1> QED
  BY <1>1, <1>2, Zenon DEF Number

-----------------------------------------------------------------------------
(* Decoding.                                                               *)

\* The segments r + 1 to e of a stream: the beginning of a packet.
Unfinished(partial, T, r, e) ==
    /\ partial = SubSeq(T, r + 1, e)
    /\ \A k \in r + 1 .. e : ~Ends(T[k])
    /\ r < e => T[r + 1].first

\* Packets of which there are segments in o + 1 .. r, in their order, and none that
\* has a segment after r.
WholePackets(packets, T, sz, o, r) ==
    /\ packets \in Seq(Seq(Seg))
    /\ \A i \in 1 .. Len(packets) : \E b \in o + 1 .. r :
          packets[i] = Lacing(T[b].packet, sz[T[b].packet])
    /\ \A i \in 1 .. Len(packets) : \A l \in r + 1 .. Len(T) :
          Number(packets[i]) < T[l].packet
    /\ \A i, j \in 1 .. Len(packets) :
          i < j => Number(packets[i]) < Number(packets[j])

\* What PacketsOut has made of segments o + 1 to e of a stream: the packets that
\* lie in o + 1 .. r, and the beginning of another.
GatheredTo(out, T, sz, o, r, e) ==
    /\ Unfinished(out.partial, T, r, e)
    /\ WholePackets(out.packets, T, sz, o, r)
    /\ o < r => Ends(T[r])
    /\ \A k \in o + 1 .. r : \E i \in 1 .. Len(out.packets) :
          Number(out.packets[i]) = T[k].packet

LEMMA GatherStep ==
    ASSUME NEW T, NEW sz \in Seq(Nat), Framed(T, sz),
           NEW o \in Nat, NEW r \in Nat, NEW e \in Nat, o <= r, r <= e, e < Len(T),
           T[o + 1].first,
           NEW out,
           GatheredTo(out, T, sz, o, r, e),
           NEW new, new = Gather(out, T[e + 1])
    PROVE  \E q \in Nat : o <= q /\ q <= e + 1 /\ GatheredTo(new, T, sz, o, q, e + 1)
<1>0. T \in Seq(Seg) /\ e + 1 \in 1 .. Len(T) /\ r + 1 \in 1 .. Len(T) /\ Len(T) \in Nat
  BY DEF Framed
<1> DEFINE num(k) == T[k].packet
           packet == SubSeq(T, r + 1, e + 1)
<1>1. \A k \in 1 .. Len(T) : num(k) \in Nat /\ num(k) \in 1 .. Len(sz)
  BY DEF Framed
<1>2. Append(out.partial, T[e + 1]) = packet
  <2>1. T \in Seq(Seg) /\ e < Len(T)
    BY <1>0
  <2>2. Append(SubSeq(T, r + 1, e), T[e + 1]) = packet
    BY <2>1, CutAppend
  <2> QED
    BY <2>2, Zenon DEF GatheredTo, Unfinished, WholePackets
<1>3. T[r + 1].first
  <2>1. CASE r < e
    BY <2>1, Zenon DEF GatheredTo, Unfinished, WholePackets
  <2>2. CASE r = e /\ o = r
    BY <2>2
  <2>3. CASE r = e /\ o < r
    <3>1. Ends(T[r]) /\ (r + 1) - 1 = r
      BY <2>3 DEF GatheredTo, Unfinished, WholePackets
    <3>2. T[r + 1].first <=> r + 1 = 1 \/ Ends(T[(r + 1) - 1])
      BY <1>0, Zenon DEF Framed
    <3> QED
      BY <3>1, <3>2, Zenon
  <2> QED
    BY <2>1, <2>2, <2>3
<1>4. \A k, l \in 1 .. Len(T) : k < l => /\ num(k) <= num(l)
                                         /\ Ends(T[k]) => num(k) < num(l)
  BY Zenon DEF Framed
<1>5. CASE ~Ends(T[e + 1])
  <2>1. new = [packets |-> out.packets, partial |-> packet]
    BY <1>2, <1>5, Zenon DEF Gather
  <2>2. new.packets = out.packets /\ new.partial = packet
    BY <2>1, SMT
  <2>3. \A k \in r + 1 .. e + 1 : ~Ends(T[k])
    <3> TAKE k \in r + 1 .. e + 1
    <3>1. k \in r + 1 .. e \/ k = e + 1
      OBVIOUS
    <3> QED
      BY <1>5, <3>1, Zenon DEF GatheredTo, Unfinished, WholePackets
  <2>4. GatheredTo(new, T, sz, o, r, e + 1)
    BY <1>3, <2>2, <2>3, Zenon DEF GatheredTo, Unfinished, WholePackets
  <2>5. r <= e + 1
    OBVIOUS
  <2> QED
    BY <2>4, <2>5, Zenon
<1>6. CASE Ends(T[e + 1])
  <2>1. new = [packets |-> Append(out.packets, packet), partial |-> <<>>]
    BY <1>2, <1>6, Zenon DEF Gather
  <2>2. new.packets = Append(out.packets, packet) /\ new.partial = <<>>
    BY <2>1, SMT
  <2> DEFINE p == num(r + 1)
  <2>3. packet = Lacing(p, sz[p])
    <3>1. r + 1 <= e + 1 /\ (e + 1) - 1 = e
      OBVIOUS
    <3>2. \A j \in r + 1 .. (e + 1) - 1 : ~Ends(T[j])
      BY <3>1, Zenon DEF GatheredTo, Unfinished, WholePackets
    <3> QED
      BY <1>0, <1>3, <1>6, <3>1, <3>2, Zenon DEF Framed
  <2>4. /\ packet \in Seq(Seg) /\ Len(packet) = (e + 1) - r
        /\ \A i \in 1 .. (e + 1) - r : packet[i] = T[r + i]
    <3>1. r \in 0 .. Len(T) /\ e + 1 \in r .. Len(T)
      BY <1>0
    <3>2. PICK w \in r .. Len(T) : w = e + 1
      BY <3>1
    <3>3. /\ SubSeq(T, r + 1, w) \in Seq(Seg) /\ Len(SubSeq(T, r + 1, w)) = w - r
          /\ \A i \in 1 .. w - r : SubSeq(T, r + 1, w)[i] = T[r + i]
      <4>1. T \in Seq(Seg)
        BY <1>0
      <4> QED
        BY <3>1, <4>1, CutType
    <3> QED
      BY <3>2, <3>3, Zenon
  <2>5. p \in Nat /\ sz[p] \in Nat
    <3>1. p \in 1 .. Len(sz)
      BY <1>0, <1>1, Zenon
    <3>2. PICK n \in 1 .. Len(sz) : n = p
      BY <3>1
    <3>3. n \in Nat /\ sz[n] \in Nat
      OBVIOUS
    <3> QED
      BY <3>2, <3>3, Zenon
  <2>6. Number(packet) = p
    BY <2>3, <2>5, NumberIs, Zenon
  <2>7. \A k \in r + 1 .. e + 1 : num(k) = p
    <3> TAKE k \in r + 1 .. e + 1
    <3>1. k - r \in 1 .. (e + 1) - r /\ r + (k - r) = k
      OBVIOUS
    <3>2. packet[k - r] = T[k] /\ k - r \in 1 .. Len(packet)
      BY <2>4, <3>1, Zenon
    <3>3. \A i \in 1 .. Len(Lacing(p, sz[p])) : Lacing(p, sz[p])[i].packet = p
      BY <2>5, LacingItems, Zenon
    <3> QED
      BY <2>3, <3>2, <3>3, Zenon
  <2> HIDE DEF num, packet
  <2>8. PICK n \in Nat : n = Len(out.packets)
    <3>1. out.packets \in Seq(Seq(Seg))
      BY Zenon DEF GatheredTo, Unfinished, WholePackets
    <3> DEFINE given == out.packets
    <3>2. given \in Seq(Seq(Seg))
      BY <3>1
    <3> HIDE DEF given
    <3>3. Len(given) \in Nat
      BY <3>2
    <3> QED
      BY <3>3 DEF given
  <2>9. /\ new.packets \in Seq(Seq(Seg)) /\ Len(new.packets) = n + 1
        /\ new.packets[n + 1] = packet
        /\ \A i \in 1 .. n : new.packets[i] = out.packets[i]
    <3>1. out.packets \in Seq(Seq(Seg))
      BY Zenon DEF GatheredTo, Unfinished, WholePackets
    <3> QED
      BY <2>2, <2>4, <2>8, <3>1
  <2>10. \A i \in 1 .. n + 1 : i \in 1 .. n \/ i = n + 1
    OBVIOUS
  <2>11. new.partial = SubSeq(T, (e + 1) + 1, e + 1)
    <3>1. PICK w \in Int : w = e + 1
      OBVIOUS
    <3>2. T \in Seq(Seg)
      BY <1>0
    <3>3. SubSeq(T, w + 1, w) = <<>>
      BY <3>2, CutNothing
    <3> QED
      BY <2>2, <3>1, <3>3, Zenon
  <2>12. \A k \in (e + 1) + 1 .. e + 1 : ~Ends(T[k])
    OBVIOUS
  <2>13. \A i \in 1 .. n + 1 : \E b \in o + 1 .. e + 1 :
            new.packets[i] = Lacing(T[b].packet, sz[T[b].packet])
    <3> TAKE i \in 1 .. n + 1
    <3>1. CASE i \in 1 .. n
      <4>1. PICK b \in o + 1 .. r : out.packets[i] = Lacing(T[b].packet, sz[T[b].packet])
        BY <2>8, <3>1, Zenon DEF GatheredTo, Unfinished, WholePackets
      <4>2. b \in o + 1 .. e + 1
        OBVIOUS
      <4> QED
        BY <2>9, <3>1, <4>1, <4>2, Zenon
    <3>2. CASE i = n + 1
      <4>1. r + 1 \in o + 1 .. e + 1
        OBVIOUS
      <4> QED
        BY <2>3, <2>9, <3>2, <4>1, Zenon DEF num
    <3> QED
      BY <2>10, <3>1, <3>2, Zenon
  <2>14. ASSUME NEW i \in 1 .. n + 1, NEW l \in (e + 1) + 1 .. Len(T)
         PROVE  Number(new.packets[i]) < T[l].packet
    <3>1. l \in r + 1 .. Len(T) /\ l \in 1 .. Len(T) /\ r + 1 <= e + 1 /\ e + 1 < l
      <4>1. Len(T) \in Nat
        BY <1>0
      <4> QED
        BY <4>1
    <3>2. CASE i \in 1 .. n
      BY <2>8, <2>9, <3>1, <3>2, Zenon DEF GatheredTo, Unfinished, WholePackets
    <3>3. CASE i = n + 1
      <4>1. num(e + 1) = p
        <5>1. e + 1 \in r + 1 .. e + 1
          OBVIOUS
        <5> QED
          BY <2>7, <5>1, Zenon
      <4>2. num(e + 1) < num(l)
        BY <1>0, <1>4, <1>6, <3>1, Zenon
      <4> QED
        BY <2>6, <2>9, <3>3, <4>1, <4>2, Zenon DEF num
    <3> QED
      BY <2>10, <3>2, <3>3, Zenon
  <2>15. ASSUME NEW i \in 1 .. n + 1, NEW j \in 1 .. n + 1, i < j
         PROVE  Number(new.packets[i]) < Number(new.packets[j])
    <3>1. i \in 1 .. n
      BY <2>15
    <3>2. CASE j \in 1 .. n
      BY <2>8, <2>9, <2>15, <3>1, <3>2, Zenon DEF GatheredTo, Unfinished, WholePackets
    <3>3. CASE j = n + 1
      <4>1. r + 1 \in r + 1 .. Len(T)
        BY <1>0
      <4>2. Number(out.packets[i]) < num(r + 1)
        BY <2>8, <3>1, <4>1, Zenon DEF GatheredTo, Unfinished, WholePackets, num
      <4> QED
        BY <2>6, <2>9, <3>1, <3>3, <4>2, Zenon
    <3> QED
      BY <2>10, <3>2, <3>3, Zenon
  <2>16. ASSUME NEW k \in o + 1 .. e + 1
         PROVE  \E i \in 1 .. n + 1 : Number(new.packets[i]) = T[k].packet
    <3>1. k \in o + 1 .. r \/ k \in r + 1 .. e + 1
      OBVIOUS
    <3>2. CASE k \in o + 1 .. r
      <4>1. PICK i \in 1 .. n : Number(out.packets[i]) = T[k].packet
        BY <2>8, <3>2, Zenon DEF GatheredTo, Unfinished, WholePackets
      <4>2. i \in 1 .. n + 1
        OBVIOUS
      <4> QED
        BY <2>9, <4>1, <4>2, Zenon
    <3>3. CASE k \in r + 1 .. e + 1
      <4>1. n + 1 \in 1 .. n + 1
        OBVIOUS
      <4> QED
        BY <2>6, <2>7, <2>9, <3>3, <4>1, Zenon DEF num
    <3> QED
      BY <3>1, <3>2, <3>3
  <2>17. o < e + 1 => Ends(T[e + 1])
    BY <1>6
  <2>18. ~(e + 1 < e + 1) /\ e + 1 \in Nat /\ o <= e + 1 /\ e + 1 <= e + 1
    OBVIOUS
  <2>19. GatheredTo(new, T, sz, o, e + 1, e + 1)
    BY <2>9, <2>11, <2>12, <2>13, <2>14, <2>15, <2>16, <2>17, <2>18, Zenon DEF GatheredTo, Unfinished, WholePackets
  <2> QED
    BY <2>18, <2>19, Zenon
<1> QED
  BY <1>5, <1>6

\* The segments from o to e are taken apart, the first of them beginning a packet.
LEMMA PacketsOutIs ==
    ASSUME NEW T, NEW sz \in Seq(Nat), Framed(T, sz),
           NEW o \in Nat, NEW e \in Nat, o <= e, e <= Len(T),
           o < e => T[o + 1].first
    PROVE  \E r \in Nat : o <= r /\ r <= e /\ GatheredTo(PacketsOut(SubSeq(T, o + 1, e)), T, sz, o, r, e)
<1> DEFINE segs == SubSeq(T, o + 1, e)
<1>1. T \in Seq(Seg)
  BY DEF Framed
<1>2. PICK h \in Nat : h = e - o /\ o + h = e
  OBVIOUS
<1>3. Len(segs) = h /\ \A i \in 1 .. h : segs[i] = T[o + i]
  BY <1>1, <1>2
<1> HIDE DEF segs
<1>4. PICK f : Gathering(f, segs) /\ PacketsOut(segs) = f[Len(segs)]
  BY <1>2, <1>3, GatheredIs, Zenon
<1> DEFINE Fine(n) == \E r \in Nat : o <= r /\ r <= o + n /\ GatheredTo(f[n], T, sz, o, r, o + n)
           Good == {n \in Nat : n <= h => Fine(n)}
<1>5. 0 \in Good
  <2>1. f[0] = [packets |-> <<>>, partial |-> <<>>]
    BY <1>4 DEF Gathering
  <2>2. f[0].packets = <<>> /\ f[0].partial = <<>>
    BY <2>1
  <2>3. <<>> = SubSeq(T, o + 1, o)
    BY <1>1, CutNothing
  <2>4. \A k \in o + 1 .. o : FALSE
    OBVIOUS
  <2>5. \A i \in 1 .. Len(<<>>) : FALSE
    OBVIOUS
  <2>6. <<>> \in Seq(Seq(Seg)) /\ ~(o < o) /\ o + 0 = o /\ o <= o
    OBVIOUS
  <2>7. GatheredTo(f[0], T, sz, o, o, o + 0)
    BY <2>2, <2>3, <2>4, <2>5, <2>6, Zenon DEF GatheredTo, Unfinished, WholePackets
  <2>8. Fine(0)
    BY <2>6, <2>7, Zenon
  <2> QED
    BY <2>8
<1>6. ASSUME NEW n \in Nat, n \in Good PROVE n + 1 \in Good
  <2> SUFFICES ASSUME n + 1 <= h PROVE Fine(n + 1)
    OBVIOUS
  <2>1. Fine(n)
    BY <1>6
  <2>2. PICK r \in Nat : o <= r /\ r <= o + n /\ GatheredTo(f[n], T, sz, o, r, o + n)
    BY <2>1
  <2>3. n + 1 \in 1 .. h /\ (n + 1) - 1 = n /\ o + (n + 1) = (o + n) + 1
    OBVIOUS
  <2>4. f[n + 1] = Gather(f[n], T[(o + n) + 1])
    <3>1. f[n + 1] = Gather(f[(n + 1) - 1], segs[n + 1])
      BY <1>3, <1>4, <2>3, Zenon DEF Gathering
    <3>2. segs[n + 1] = T[(o + n) + 1]
      <4>1. segs[n + 1] = T[o + (n + 1)]
        BY <1>3, <2>3
      <4> QED
        BY <2>3, <4>1, Zenon
    <3> QED
      BY <2>3, <3>1, <3>2, Zenon
  <2>5. o + n \in Nat /\ o + n < Len(T) /\ o < e /\ o + n + 1 = o + (n + 1)
    BY <1>1, <1>2
  <2>6. T[o + 1].first
    BY <2>5
  <2>8. \E q \in Nat : o <= q /\ q <= (o + n) + 1 /\ GatheredTo(f[n + 1], T, sz, o, q, (o + n) + 1)
    BY <2>2, <2>4, <2>5, <2>6, GatherStep, Zenon
  <2> QED
    BY <2>3, <2>8, Zenon
<1> HIDE DEF Fine
<1>7. Nat \subseteq Good
  <2> HIDE DEF Good
  <2> QED
    BY <1>5, <1>6, Induction
<1>8. Fine(h)
  BY <1>7
<1> QED
  BY <1>2, <1>3, <1>4, <1>8, Zenon DEF Fine, segs

\* Segments none of which but the last ends a packet are all of one packet.
LEMMA SamePacket ==
    ASSUME NEW T, NEW sz, Framed(T, sz), NEW k \in 1 .. Len(T), NEW l \in k .. Len(T),
           \A j \in k .. l - 1 : ~Ends(T[j])
    PROVE  T[l].packet = T[k].packet
<1>0. Len(T) \in Nat
  BY DEF Framed
<1> DEFINE Good == {n \in Nat : k + n <= l => T[k + n].packet = T[k].packet}
<1>1. 0 \in Good
  <2>1. k + 0 = k
    BY <1>0
  <2> QED
    BY <2>1
<1>2. ASSUME NEW n \in Nat, n \in Good PROVE n + 1 \in Good
  <2> SUFFICES ASSUME k + (n + 1) <= l PROVE T[k + (n + 1)].packet = T[k].packet
    OBVIOUS
  <2>1. /\ k + n <= l /\ k + n \in k .. l - 1 /\ k + n \in 1 .. Len(T)
        /\ k + (n + 1) = (k + n) + 1
    BY <1>0
  <2>2. T[k + n].packet = T[k].packet
    BY <1>2, <2>1
  <2>3. T[(k + n) + 1].packet = T[k + n].packet
    BY <2>1, Zenon DEF Framed
  <2> QED
    BY <2>1, <2>2, <2>3, Zenon
<1>3. Nat \subseteq Good
  <2> HIDE DEF Good
  <2> QED
    BY <1>1, <1>2, Induction
<1>4. l - k \in Nat /\ k + (l - k) = l
  BY <1>0
<1>5. k + (l - k) <= l => T[k + (l - k)].packet = T[k].packet
  BY <1>3, <1>4
<1>6. k + (l - k) <= l
  BY <1>0
<1> QED
  BY <1>4, <1>5, <1>6, Zenon

LEMMA ContinuationIs ==
    ASSUME NEW segs, Len(segs) \in Nat
    PROVE  /\ Continuation(segs) \in 0 .. Len(segs)
           /\ \A j \in 1 .. Continuation(segs) - 1 : ~Ends(segs[j])
           /\ Continuation(segs) < Len(segs) =>
                 Continuation(segs) \in 1 .. Len(segs) /\ Ends(segs[Continuation(segs)])
<1> DEFINE ends == {n \in 1 .. Len(segs) : Ends(segs[n])}
           c == Continuation(segs)
<1>1. CASE ends = {}
  <2>1. c = Len(segs)
    BY <1>1 DEF Continuation
  <2>2. \A j \in 1 .. Len(segs) : ~Ends(segs[j])
    BY <1>1
  <2>3. \A j \in 1 .. Len(segs) - 1 : j \in 1 .. Len(segs)
    OBVIOUS
  <2>4. Len(segs) \in 0 .. Len(segs) /\ ~(Len(segs) < Len(segs))
    OBVIOUS
  <2> QED
    BY <2>1, <2>2, <2>3, <2>4, Zenon
<1>2. CASE ends # {}
  <2>1. c = Min(ends)
    BY <1>2 DEF Continuation
  <2>2. ends \subseteq Nat
    OBVIOUS
  <2> HIDE DEF ends
  <2>3. c \in ends /\ \A n \in ends : c <= n
    BY <1>2, <2>1, <2>2, MinIs
  <2>4. c \in 1 .. Len(segs) /\ Ends(segs[c])
    BY <2>3, Zenon DEF ends
  <2> HIDE DEF c
  <2>5. c \in 0 .. Len(segs)
    BY <2>4
  <2>6. \A j \in 1 .. c - 1 : j \in 1 .. Len(segs) /\ ~(c <= j)
    BY <2>4
  <2>7. \A j \in 1 .. c - 1 : ~Ends(segs[j])
    BY <2>3, <2>6, Zenon DEF ends
  <2> QED
    BY <2>4, <2>5, <2>7, Zenon DEF c
<1> QED
  BY <1>1, <1>2

-----------------------------------------------------------------------------
(* Pages of a stream.                                                      *)

\* Page n of a stream holds its segments off[n + 1] + 1 to off[n + 2].
Offsets(off, T) ==
    /\ off \in Seq(Nat) /\ Len(off) # 0 /\ off[1] = 0
    /\ \A i \in 1 .. Len(off) : off[i] <= Len(T)
    /\ \A i, j \in 1 .. Len(off) : i < j => off[i] < off[j]

PageLaid(page, T, off) ==
    /\ page.no \in Nat /\ page.no + 1 < Len(off)
    /\ page.segments = SubSeq(T, off[page.no + 1] + 1, off[page.no + 2])
    /\ page.continued <=> ~T[off[page.no + 1] + 1].first
    /\ page.bos <=> page.no = 0

\* What a decoder that waits for page dec.pageno has made of the pages before it.
\* Packets are missing only if they are of broken.
Covered(taken, T, r, broken) ==
    \A k \in 1 .. r : \/ T[k].packet \in broken
                      \/ \E i \in 1 .. Len(taken) : Number(taken[i]) = T[k].packet

DecoderAt(dec, taken, T, sz, off, broken) ==
    /\ dec.pageno \in Nat /\ dec.pageno < Len(off)
    /\ \E r \in Nat : /\ r <= off[dec.pageno + 1]
                      /\ Unfinished(dec.partial, T, r, off[dec.pageno + 1])
                      /\ WholePackets(taken, T, sz, 0, r)
                      /\ Covered(taken, T, r, broken)

LEMMA WholeLater ==
    ASSUME NEW packets, NEW T, NEW sz, NEW o \in Nat, NEW r \in Nat, NEW q \in Nat, r <= q,
           WholePackets(packets, T, sz, o, r)
    PROVE  WholePackets(packets, T, sz, o, q)
<1>1. \A b \in o + 1 .. r : b \in o + 1 .. q
  OBVIOUS
<1>2. \A l \in q + 1 .. Len(T) : l \in r + 1 .. Len(T)
  OBVIOUS
<1> QED
  BY <1>1, <1>2, Zenon DEF WholePackets

\* The segments that the decoder then goes through begin a packet and follow
\* those it has gone through.
LEMMA PageInIs ==
    ASSUME NEW T, NEW sz \in Seq(Nat), Framed(T, sz), NEW off, Offsets(off, T),
           NEW page, PageLaid(page, T, off),
           NEW dec, NEW taken, NEW broken, DecoderAt(dec, taken, T, sz, off, broken),
           dec.pageno <= page.no,
           \A k \in off[dec.pageno + 1] + 1 .. off[page.no + 1] : T[k].packet \in broken
    PROVE  /\ PageIn(dec, page).pageno = page.no + 1
           /\ \E o \in Nat :
                 /\ o <= off[page.no + 2]
                 /\ PageIn(dec, page).partial = SubSeq(T, o + 1, off[page.no + 2])
                 /\ o < off[page.no + 2] => T[o + 1].first
                 /\ WholePackets(taken, T, sz, 0, o)
                 /\ Covered(taken, T, o, broken)
<1>0. T \in Seq(Seg)
  BY DEF Framed
<1>a. PICK t \in Nat : t = Len(T)
  BY <1>0
<1>b. PICK p \in Nat, q \in Nat : p = page.no /\ q = dec.pageno /\ q <= p
  BY DEF PageLaid, DecoderAt
<1>c. PICK d \in Nat, b \in Nat, e \in Nat :
         /\ d = off[q + 1] /\ b = off[p + 1] /\ e = off[p + 2]
         /\ d <= b /\ b < e /\ e <= t /\ (q = p => d = b) /\ (q # p => d < b) /\ (b = 0 <=> p = 0)
  <2>1. /\ off \in Seq(Nat) /\ off[1] = 0 /\ p + 1 < Len(off)
        /\ \A i \in 1 .. Len(off) : off[i] <= t
        /\ \A i, j \in 1 .. Len(off) : i < j => off[i] < off[j]
    BY <1>a, <1>b DEF Offsets, PageLaid
  <2>2. /\ off[p + 1] \in Nat /\ off[q + 1] \in Nat /\ off[p + 2] \in Nat
        /\ 1 \in 1 .. Len(off) /\ p + 1 \in 1 .. Len(off) /\ q + 1 \in 1 .. Len(off) /\ p + 2 \in 1 .. Len(off)
        /\ p + 1 < p + 2
    <3>1. off \in Seq(Nat) /\ p + 1 < Len(off) /\ q <= p
      BY <1>b, <2>1
    <3> DEFINE n == Len(off)
    <3>2. n \in Nat /\ p + 1 < n
      BY <3>1
    <3> HIDE DEF n
    <3>3. 1 \in 1 .. n /\ p + 1 \in 1 .. n /\ q + 1 \in 1 .. n /\ p + 2 \in 1 .. n /\ p + 1 < p + 2
      BY <3>1, <3>2
    <3>4. \A i \in 1 .. n : off[i] \in Nat
      BY <3>1 DEF n
    <3> QED
      BY <3>3, <3>4, Zenon DEF n
  <2>3. off[p + 1] < off[p + 2] /\ off[p + 2] <= t
    BY <2>1, <2>2, Zenon
  <2>4. q # p => off[q + 1] < off[p + 1]
    <3>1. q # p => q + 1 < p + 1
      BY <1>b
    <3> QED
      BY <2>1, <2>2, <3>1, Zenon
  <2>5. p # 0 => 0 < off[p + 1]
    <3>1. p # 0 => 1 < p + 1
      OBVIOUS
    <3> QED
      BY <2>1, <2>2, <3>1, Zenon
  <2>6. off[p + 1] < off[p + 2] /\ off[p + 2] <= t /\ (q # p => off[q + 1] < off[p + 1]) /\ (p # 0 => 0 < off[p + 1]) /\ (p = 0 => off[p + 1] = 0)
    BY <2>1, <2>3, <2>4, <2>5
  <2>7. PICK x \in Nat, y \in Nat, z \in Nat : x = off[q + 1] /\ y = off[p + 1] /\ z = off[p + 2]
    BY <2>2
  <2>8. q = p => x = y
    BY <2>7
  <2>9. y < z /\ z <= t /\ (q # p => x < y) /\ (p # 0 => 0 < y) /\ (p = 0 => y = 0)
    BY <2>6, <2>7, Zenon
  <2>10. x <= y /\ (y = 0 <=> p = 0)
    BY <2>8, <2>9
  <2> QED
    BY <2>7, <2>8, <2>9, <2>10, Zenon
<1>l. d <= b /\ b < e /\ e <= t /\ Len(T) = t
  BY <1>a, <1>c, Zenon
<1>d. /\ page.segments = SubSeq(T, b + 1, e)
      /\ page.continued <=> ~T[b + 1].first
  BY <1>b, <1>c, Zenon DEF PageLaid
<1>e. PICK r \in Nat : /\ r <= d
                       /\ Unfinished(dec.partial, T, r, d)
                       /\ WholePackets(taken, T, sz, 0, r)
                       /\ Covered(taken, T, r, broken)
  BY <1>b, <1>c, Zenon DEF DecoderAt
<1>m. r <= d
  BY <1>e, Zenon
<1>f. \A k \in d + 1 .. b : T[k].packet \in broken
  BY <1>b, <1>c, Zenon
<1>g. PICK h \in Nat : h = e - b /\ b + h = e /\ h # 0
  BY <1>c, SMTT(30)
<1>h. /\ page.segments \in Seq(Seg) /\ Len(page.segments) = h
      /\ \A i \in 1 .. h : page.segments[i] = T[b + i]
  <2>1. b \in 0 .. Len(T) /\ e \in b .. Len(T)
    BY <1>a, <1>c
  <2> QED
    <3>1. /\ SubSeq(T, b + 1, e) \in Seq(Seg) /\ Len(SubSeq(T, b + 1, e)) = e - b
          /\ \A i \in 1 .. e - b : SubSeq(T, b + 1, e)[i] = T[b + i]
      BY <1>0, <2>1, CutType
    <3> QED
      BY <1>d, <1>g, <3>1, Zenon
<1> DEFINE kept == Kept(dec, page)
           skip == IF page.continued /\ kept = <<>> THEN Continuation(page.segments) ELSE 0
<1>i. /\ PageIn(dec, page).pageno = page.no + 1
      /\ PageIn(dec, page).partial = kept \o SubSeq(page.segments, skip + 1, Len(page.segments))
  BY DEF PageIn
<1>j. \A k \in 1 .. t : T[k].packet \in Nat
  BY <1>a DEF Framed
\* What is not kept is of a packet that has a segment on a missing page.
<1>k. kept = <<>> => WholePackets(taken, T, sz, 0, b) /\ Covered(taken, T, b, broken)
  <2> SUFFICES ASSUME kept = <<>> PROVE WholePackets(taken, T, sz, 0, b) /\ Covered(taken, T, b, broken)
    OBVIOUS
  <2>1. r <= b
    BY <1>c, <1>e
  <2>2. WholePackets(taken, T, sz, 0, b)
    BY <1>e, <2>1, WholeLater
  <2>3. ASSUME NEW k \in r + 1 .. b PROVE T[k].packet \in broken
    <3>1. CASE k \in d + 1 .. b
      BY <1>f, <3>1
    <3>2. CASE k \in r + 1 .. d /\ q = p
      <4>1. dec.partial = <<>>
        BY <1>b, <3>2, Zenon DEF Kept
      <4>2. SubSeq(T, r + 1, d) = <<>>
        BY <1>e, <4>1, Zenon DEF Unfinished
      <4>3. r \in 0 .. Len(T) /\ d \in r .. Len(T)
        BY <1>a, <1>c, <1>e
      <4>4. Len(SubSeq(T, r + 1, d)) = d - r
        BY <1>0, <4>3, CutType
      <4>5. d - r = 0
        BY <4>2, <4>4
      <4> QED
        BY <3>2, <4>5, <1>c
    <3>3. CASE k \in r + 1 .. d /\ q # p
      <4>1. d + 1 \in d + 1 .. b /\ d + 1 \in k .. Len(T) /\ k \in 1 .. Len(T) /\ \A j \in k .. (d + 1) - 1 : j \in r + 1 .. d
        <5>1. d < b
          BY <1>c, <3>3, Zenon
        <5>2. k \in r + 1 .. d
          BY <3>3
        <5> QED
          BY <1>l, <1>m, <5>1, <5>2
      <4>2. \A j \in k .. (d + 1) - 1 : ~Ends(T[j])
        BY <1>e, <4>1, Zenon DEF Unfinished
      <4>3. T[d + 1].packet = T[k].packet
        BY <4>1, <4>2, SamePacket
      <4> QED
        BY <1>f, <4>1, <4>3, Zenon
    <3>4. k \in d + 1 .. b \/ k \in r + 1 .. d
      BY <1>c, <1>e
    <3> QED
      BY <3>1, <3>2, <3>3, <3>4
  <2>4. \A k \in 1 .. b : k \in 1 .. r \/ k \in r + 1 .. b
    BY <1>e, <1>c
  <2>5. Covered(taken, T, b, broken)
    BY <1>e, <2>3, <2>4, Zenon DEF Covered
  <2> QED
    BY <2>2, <2>5
<1>1. CASE kept # <<>>
  <2>1. q = p /\ kept = dec.partial /\ skip = 0
    BY <1>1, <1>b, Zenon DEF Kept
  <2>2. d = b /\ kept = SubSeq(T, r + 1, b)
    BY <1>c, <1>e, <2>1, Zenon DEF Unfinished
  <2>3. r # b
    <3>1. b \in Int /\ (r = b => kept = SubSeq(T, b + 1, b))
      BY <2>2
    <3>2. SubSeq(T, b + 1, b) = <<>>
      BY <1>0, <3>1, CutNothing
    <3> QED
      BY <1>1, <3>1, <3>2, Zenon
  <2>4. r < b /\ r <= e /\ r < e
    <3>1. d = b
      BY <2>2
    <3> QED
      BY <1>l, <1>m, <2>3, <3>1
  <2>5. SubSeq(page.segments, 1, Len(page.segments)) = page.segments
    BY <1>h, CutAll
  <2>6. SubSeq(T, r + 1, b) \o SubSeq(T, b + 1, e) = SubSeq(T, r + 1, e)
    <3>1. r \in 0 .. Len(T) /\ b \in r .. Len(T) /\ e \in b .. Len(T)
      BY <1>a, <1>c, <2>4, SMTT(30)
    <3> QED
      BY <1>0, <3>1, CutTwice
  <2>7. PageIn(dec, page).partial = SubSeq(T, r + 1, e)
    <3>1. skip + 1 = 1
      BY <2>1
    <3> QED
      BY <1>d, <1>i, <2>2, <2>5, <2>6, <3>1, Zenon
  <2>8. T[r + 1].first
    BY <1>e, <2>2, <2>4, Zenon DEF Unfinished
  <2> QED
    BY <1>b, <1>c, <1>e, <1>i, <2>4, <2>7, <2>8, Zenon
<1>2. CASE kept = <<>> /\ ~page.continued
  <2>1. skip + 1 = 1
    BY <1>2
  <2>2. SubSeq(page.segments, 1, Len(page.segments)) = page.segments /\ <<>> \o page.segments = page.segments
    BY <1>h, CutAll, ConcatEmpty
  <2>3. PageIn(dec, page).partial = SubSeq(T, b + 1, e)
    BY <1>2, <1>d, <1>i, <2>1, <2>2, Zenon
  <2>4. T[b + 1].first
    BY <1>2, <1>d
  <2>5. b <= e
    BY <1>c
  <2> QED
    BY <1>2, <1>b, <1>c, <1>i, <1>k, <2>3, <2>4, <2>5, Zenon
<1>3. CASE kept = <<>> /\ page.continued
  <2>1. PICK c \in 0 .. h : /\ c = Continuation(page.segments)
                            /\ \A j \in 1 .. c - 1 : ~Ends(page.segments[j])
                            /\ c < h => c \in 1 .. h /\ Ends(page.segments[c])
    <3>1. Len(page.segments) \in Nat
      BY <1>h
    <3> QED
      BY <1>h, <3>1, ContinuationIs, Zenon
  <2>2. skip = c
    BY <1>3, <2>1
  <2>3. PICK o \in Nat : o = b + c /\ o <= e /\ b <= o
    BY <1>g
  <2>4. SubSeq(page.segments, c + 1, Len(page.segments)) = SubSeq(T, o + 1, e)
    <3>1. PICK m \in Nat : m = h - c /\ c + m = h /\ o + m = e
      BY <1>g, <2>3
    <3>2. c \in 0 .. Len(page.segments) /\ h \in c .. Len(page.segments) /\ o \in 0 .. Len(T) /\ e \in o .. Len(T)
      BY <1>a, <1>c, <1>h, <2>1, <2>3
    <3>3. /\ SubSeq(page.segments, c + 1, h) \in Seq(Seg)
          /\ Len(SubSeq(page.segments, c + 1, h)) = h - c
          /\ \A i \in 1 .. h - c : SubSeq(page.segments, c + 1, h)[i] = page.segments[c + i]
      <4>1. page.segments \in Seq(Seg)
        BY <1>h
      <4> DEFINE g == page.segments
      <4> HIDE DEF g
      <4>2. g \in Seq(Seg) /\ c \in 0 .. Len(g) /\ h \in c .. Len(g)
        BY <3>2, <4>1 DEF g
      <4>3. /\ SubSeq(g, c + 1, h) \in Seq(Seg)
            /\ Len(SubSeq(g, c + 1, h)) = h - c
            /\ \A i \in 1 .. h - c : SubSeq(g, c + 1, h)[i] = g[c + i]
        BY <4>2, CutType
      <4> QED
        BY <4>3 DEF g
    <3>4. /\ SubSeq(T, o + 1, e) \in Seq(Seg)
          /\ Len(SubSeq(T, o + 1, e)) = e - o
          /\ \A i \in 1 .. e - o : SubSeq(T, o + 1, e)[i] = T[o + i]
      BY <1>0, <3>2, CutType
    <3>5. e - o = m
      BY <3>1
    <3>6. ASSUME NEW i \in 1 .. m PROVE page.segments[c + i] = T[o + i]
      <4>1. c + i \in 1 .. h /\ b + (c + i) = o + i
        BY <2>3, <3>1
      <4> QED
        BY <1>h, <4>1, Zenon
    <3>7. \A i \in 1 .. m : SubSeq(page.segments, c + 1, h)[i] = SubSeq(T, o + 1, e)[i]
      BY <3>1, <3>3, <3>4, <3>5, <3>6, Zenon
    <3> QED
      <4>1. SubSeq(page.segments, c + 1, h) = SubSeq(T, o + 1, e)
        <5> DEFINE x == SubSeq(page.segments, c + 1, h)
                   y == SubSeq(T, o + 1, e)
        <5>1. /\ x \in Seq(Seg) /\ y \in Seq(Seg) /\ Len(x) = m /\ Len(y) = m
              /\ \A i \in 1 .. m : x[i] = y[i]
          BY <3>1, <3>3, <3>4, <3>5, <3>7, Zenon
        <5> HIDE DEF x, y
        <5>2. x = y
          BY <5>1, SeqEqual, Zenon
        <5> QED
          BY <5>2 DEF x, y
      <4> QED
        BY <1>h, <4>1, Zenon
  <2>5. PageIn(dec, page).partial = SubSeq(T, o + 1, e)
    <3>1. e \in Nat /\ o \in 0 .. Len(T) /\ e \in o .. Len(T)
      BY <1>a, <1>c, <2>3
    <3>2. SubSeq(T, o + 1, e) \in Seq(Seg)
      BY <1>0, <3>1, CutType
    <3>3. <<>> \o SubSeq(T, o + 1, e) = SubSeq(T, o + 1, e)
      BY <3>2, ConcatEmpty
    <3> QED
      BY <1>3, <1>i, <2>2, <2>4, <3>3, Zenon
  <2>6. o < e => T[o + 1].first
    <3> SUFFICES ASSUME o < e PROVE T[o + 1].first
      OBVIOUS
    <3>1. c < h /\ o + 1 \in 1 .. Len(T) /\ (o + 1) - 1 = o
      BY <1>l, <1>g, <2>3
    <3>2. Ends(T[o])
      BY <1>h, <2>1, <2>3, <3>1, Zenon
    <3> QED
      BY <3>1, <3>2, Zenon DEF Framed
  <2>7. WholePackets(taken, T, sz, 0, o)
    BY <1>3, <1>k, <2>3, WholeLater
  \* They end a packet that began on a page before.
  <2>8. b # 0 /\ b \in 1 .. Len(T) /\ b + 1 \in 1 .. Len(T) /\ ~Ends(T[b]) /\ T[b + 1].packet = T[b].packet
    <3>1. ~T[b + 1].first /\ b + 1 \in 1 .. Len(T) /\ (b + 1) - 1 = b
      BY <1>3, <1>a, <1>c, <1>d, SMTT(30)
    <3>2. ~(b + 1 = 1) /\ ~Ends(T[b])
      BY <3>1, Zenon DEF Framed
    <3>3. b # 0 /\ b \in 1 .. Len(T)
      BY <3>1, <3>2
    <3> QED
      BY <3>1, <3>2, <3>3, Zenon DEF Framed
  <2>9. T[b].packet \in broken
    <3>1. Covered(taken, T, b, broken) /\ WholePackets(taken, T, sz, 0, b)
      BY <1>3, <1>k
    <3>2. b \in 1 .. b /\ b + 1 \in b + 1 .. Len(T) /\ b \in 1 .. t
      BY <2>8, <1>a
    <3> SUFFICES ASSUME NEW i \in 1 .. Len(taken), Number(taken[i]) = T[b].packet PROVE FALSE
      BY <3>1, <3>2, Zenon DEF Covered
    <3>3. Number(taken[i]) < T[b + 1].packet
      BY <3>1, <3>2, Zenon DEF WholePackets
    <3>4. T[b].packet < T[b].packet /\ T[b].packet \in Nat
      BY <2>8, <3>2, <3>3, <1>j, Zenon
    <3>5. PICK n \in Nat : n = T[b].packet
      BY <3>4
    <3>6. n < n
      BY <3>4, <3>5, Zenon
    <3> QED
      BY <3>6
  <2>10. ASSUME NEW k \in b + 1 .. o PROVE T[k].packet \in broken
    <3>1. k \in b .. Len(T) /\ \A j \in b .. k - 1 : j = b \/ (j - b \in 1 .. c - 1 /\ j - b \in 1 .. h /\ b + (j - b) = j)
      BY <1>g, <1>l, <2>3
    <3>2. ASSUME NEW j \in b .. k - 1 PROVE ~Ends(T[j])
      BY <1>h, <2>1, <2>8, <3>1, Zenon
    <3>3. T[k].packet = T[b].packet
      BY <2>8, <3>1, <3>2, SamePacket
    <3> QED
      BY <2>9, <3>3
  <2>11. Covered(taken, T, o, broken)
    <3>1. \A k \in 1 .. o : k \in 1 .. b \/ k \in b + 1 .. o
      BY <2>3
    <3> QED
      BY <1>3, <1>k, <2>10, <3>1, Zenon DEF Covered
  <2> QED
    BY <1>b, <1>c, <1>i, <2>3, <2>5, <2>6, <2>7, <2>11, Zenon
<1> QED
  BY <1>1, <1>2, <1>3, Zenon

LEMMA NumberOf ==
    ASSUME NEW T, NEW sz \in Seq(Nat), Framed(T, sz), NEW k \in 1 .. Len(T)
    PROVE  Number(Lacing(T[k].packet, sz[T[k].packet])) = T[k].packet
<1>1. T[k].packet \in 1 .. Len(sz)
  BY Zenon DEF Framed
<1>2. PICK n \in 1 .. Len(sz) : n = T[k].packet
  BY <1>1
<1>3. n \in Nat /\ sz[n] \in Nat
  OBVIOUS
<1>4. Number(Lacing(n, sz[n])) = n
  BY <1>3, NumberIs
<1> QED
  BY <1>2, <1>4, Zenon

LEMMA WholeConcat ==
    ASSUME NEW T, NEW sz \in Seq(Nat), Framed(T, sz), NEW o \in Nat, NEW r \in Nat,
           o <= r, r <= Len(T), NEW a, NEW b,
           WholePackets(a, T, sz, 0, o), WholePackets(b, T, sz, o, r)
    PROVE  WholePackets(a \o b, T, sz, 0, r)
<1>1. a \in Seq(Seq(Seg)) /\ b \in Seq(Seq(Seg))
  BY Zenon DEF WholePackets
<1>2. PICK m \in Nat, n \in Nat : m = Len(a) /\ n = Len(b)
  BY <1>1
<1>3. PICK c : c = a \o b
  OBVIOUS
<1>4. /\ c \in Seq(Seq(Seg)) /\ Len(c) = m + n
      /\ \A i \in 1 .. m : c[i] = a[i]
      /\ \A i \in 1 .. n : c[m + i] = b[i]
  <2>1. /\ a \o b \in Seq(Seq(Seg)) /\ Len(a \o b) = Len(a) + Len(b)
        /\ \A i \in 1 .. Len(a) : (a \o b)[i] = a[i]
        /\ \A i \in 1 .. Len(b) : (a \o b)[Len(a) + i] = b[i]
    BY <1>1, ConcatIs, SMTT(30)
  <2> QED
    BY <1>2, <1>3, <2>1, Zenon
<1>5. ASSUME NEW i \in 1 .. m + n
      PROVE  \/ i \in 1 .. m /\ c[i] = a[i]
             \/ i \notin 1 .. m /\ i - m \in 1 .. n /\ c[i] = b[i - m]
  <2>1. i \in 1 .. m \/ (i \notin 1 .. m /\ i - m \in 1 .. n /\ m + (i - m) = i)
    OBVIOUS
  <2> QED
    BY <1>4, <2>1, Zenon
<1>6. /\ \A x \in 0 + 1 .. o : x \in 0 + 1 .. r
      /\ \A x \in o + 1 .. r : x \in 0 + 1 .. r /\ x \in 0 + 1 .. Len(T) /\ x \in 1 .. Len(T)
      /\ \A x \in r + 1 .. Len(T) : x \in o + 1 .. Len(T)
      /\ \A x \in o + 1 .. r : x \in o + 1 .. Len(T)
  <2>1. PICK t \in Nat : t = Len(T)
    BY DEF Framed
  <2> QED
    BY <2>1
<1>7. ASSUME NEW i \in 1 .. m + n
      PROVE  \E x \in 0 + 1 .. r : c[i] = Lacing(T[x].packet, sz[T[x].packet])
  <2>1. CASE i \in 1 .. m /\ c[i] = a[i]
    <3>1. \E x \in 0 + 1 .. o : a[i] = Lacing(T[x].packet, sz[T[x].packet])
      BY <1>2, <2>1, Zenon DEF WholePackets
    <3> QED
      BY <1>6, <2>1, <3>1, Zenon
  <2>2. CASE i - m \in 1 .. n /\ c[i] = b[i - m]
    <3>1. \E x \in o + 1 .. r : b[i - m] = Lacing(T[x].packet, sz[T[x].packet])
      BY <1>2, <2>2, Zenon DEF WholePackets
    <3> QED
      BY <1>6, <2>2, <3>1, Zenon
  <2> QED
    BY <1>5, <2>1, <2>2, Zenon
<1>8. ASSUME NEW i \in 1 .. m + n, NEW l \in r + 1 .. Len(T)
      PROVE  Number(c[i]) < T[l].packet
  BY <1>2, <1>5, <1>6, Zenon DEF WholePackets
<1>9. ASSUME NEW i \in 1 .. m + n, NEW j \in 1 .. m + n, i < j
      PROVE  Number(c[i]) < Number(c[j])
  <2>1. CASE j \in 1 .. m
    <3>1. i \in 1 .. m
      BY <1>9, <2>1
    <3> QED
      BY <1>2, <1>4, <1>9, <2>1, <3>1, Zenon DEF WholePackets
  <2>2. CASE i \in 1 .. m /\ j \notin 1 .. m
    <3>1. j - m \in 1 .. n /\ c[j] = b[j - m]
      BY <1>5, <2>2, Zenon
    <3>2. PICK x \in o + 1 .. r : b[j - m] = Lacing(T[x].packet, sz[T[x].packet])
      BY <1>2, <3>1, Zenon DEF WholePackets
    <3>3. x \in 1 .. Len(T) /\ x \in o + 1 .. Len(T)
      BY <1>6
    <3>4. Number(c[j]) = T[x].packet
      BY <3>1, <3>2, <3>3, NumberOf, Zenon
    <3>5. Number(a[i]) < T[x].packet
      BY <1>2, <2>2, <3>3, Zenon DEF WholePackets
    <3> QED
      BY <1>4, <2>2, <3>4, <3>5, Zenon
  <2>3. CASE i \notin 1 .. m
    <3>1. i - m \in 1 .. n /\ j - m \in 1 .. n /\ i - m < j - m /\ j \notin 1 .. m
      BY <1>9, <2>3
    <3>2. c[i] = b[i - m] /\ c[j] = b[j - m]
      BY <1>5, <2>3, <3>1, Zenon
    <3> QED
      BY <1>2, <3>1, <3>2, Zenon DEF WholePackets
  <2> QED
    BY <2>1, <2>2, <2>3
<1> QED
  BY <1>3, <1>4, <1>7, <1>8, <1>9, Zenon DEF WholePackets

LEMMA CoveredConcat ==
    ASSUME NEW T, NEW broken, NEW o \in Nat, NEW r \in Nat, o <= r,
           NEW a \in Seq(Seq(Seg)), NEW b \in Seq(Seq(Seg)), Covered(a, T, o, broken),
           \A k \in o + 1 .. r : \E i \in 1 .. Len(b) : Number(b[i]) = T[k].packet
    PROVE  Covered(a \o b, T, r, broken)
<1>2. PICK m \in Nat, n \in Nat : m = Len(a) /\ n = Len(b)
  OBVIOUS
<1>3. /\ Len(a \o b) = m + n
      /\ \A i \in 1 .. m : (a \o b)[i] = a[i]
      /\ \A i \in 1 .. n : (a \o b)[m + i] = b[i]
  BY <1>2, ConcatIs
<1>4. (\A i \in 1 .. m : i \in 1 .. m + n) /\ (\A i \in 1 .. n : m + i \in 1 .. m + n)
  OBVIOUS
<1>5. \A k \in 1 .. r : k \in 1 .. o \/ k \in o + 1 .. r
  OBVIOUS
<1>6. ASSUME NEW k \in 1 .. r
      PROVE  T[k].packet \in broken \/ \E i \in 1 .. m + n : Number((a \o b)[i]) = T[k].packet
  <2>1. CASE k \in 1 .. o
    BY <1>2, <1>3, <1>4, <2>1, Zenon DEF Covered
  <2>2. CASE k \in o + 1 .. r
    <3>1. PICK i \in 1 .. n : Number(b[i]) = T[k].packet
      BY <1>2, <2>2, Zenon
    <3> QED
      BY <1>3, <1>4, <3>1, Zenon
  <2> QED
    BY <1>5, <2>1, <2>2, Zenon
<1> QED
  BY <1>3, <1>6, Zenon DEF Covered

\* What is left after the packets are taken.
LeftOf(filled, out) == [filled EXCEPT !.partial = out.partial]

\* The page is due, or those before it are broken.
Due(dec, page, T, off, broken) ==
    /\ dec.pageno <= page.no
    /\ \A k \in off[dec.pageno + 1] + 1 .. off[page.no + 1] : T[k].packet \in broken

FedAt(new, page, taken, T, sz, off, broken) ==
    new.pageno = page.no + 1 /\ DecoderAt(new, taken, T, sz, off, broken)

\* A page more.
LEMMA PageFed ==
    ASSUME NEW T, NEW sz \in Seq(Nat), Framed(T, sz), NEW off, Offsets(off, T),
           NEW page, PageLaid(page, T, off),
           NEW dec, NEW taken, NEW broken, DecoderAt(dec, taken, T, sz, off, broken),
           Due(dec, page, T, off, broken),
           NEW out, out = PacketsOut(PageIn(dec, page).partial),
           NEW new, new = LeftOf(PageIn(dec, page), out)
    PROVE  FedAt(new, page, taken \o out.packets, T, sz, off, broken)
<1>a. /\ dec.pageno <= page.no
      /\ \A k \in off[dec.pageno + 1] + 1 .. off[page.no + 1] : T[k].packet \in broken
  BY Zenon DEF Due
<1>0. T \in Seq(Seg) /\ Len(T) \in Nat
  BY DEF Framed
<1>1. PICK p \in Nat : p = page.no /\ p + 1 < Len(off)
  BY DEF PageLaid
<1>2. PICK e \in Nat : e = off[p + 2] /\ e <= Len(T)
  <2>1. off \in Seq(Nat) /\ \A i \in 1 .. Len(off) : off[i] <= Len(T)
    BY DEF Offsets
  <2>2. p + 2 \in 1 .. Len(off)
    BY <1>1, <2>1
  <2>3. off[p + 2] \in Nat
    BY <2>1, <2>2
  <2> QED
    BY <2>1, <2>2, <2>3
<1>3. /\ PageIn(dec, page).pageno = p + 1
      /\ \E o \in Nat :
            /\ o <= e
            /\ PageIn(dec, page).partial = SubSeq(T, o + 1, e)
            /\ o < e => T[o + 1].first
            /\ WholePackets(taken, T, sz, 0, o)
            /\ Covered(taken, T, o, broken)
  BY <1>a, <1>1, <1>2, PageInIs, Zenon
<1>4. PICK o \in Nat :
            /\ o <= e
            /\ PageIn(dec, page).partial = SubSeq(T, o + 1, e)
            /\ o < e => T[o + 1].first
            /\ WholePackets(taken, T, sz, 0, o)
            /\ Covered(taken, T, o, broken)
  BY <1>3, Zenon
<1>5. PICK r \in Nat : o <= r /\ r <= e /\ GatheredTo(out, T, sz, o, r, e)
  <2>1. \E r \in Nat : o <= r /\ r <= e /\ GatheredTo(PacketsOut(SubSeq(T, o + 1, e)), T, sz, o, r, e)
    BY <1>2, <1>4, PacketsOutIs, Zenon
  <2> QED
    BY <1>4, <2>1, Zenon
<1>6. WholePackets(taken \o out.packets, T, sz, 0, r)
  <2>1. r <= Len(T) /\ o <= r
    BY <1>0, <1>2, <1>5
  <2> QED
    BY <1>4, <1>5, <2>1, WholeConcat, Zenon DEF GatheredTo
<1>7. new.pageno = p + 1 /\ new.partial = out.partial
  <2>1. PICK x, y : PageIn(dec, page) = [partial |-> x, pageno |-> y]
    BY DEF PageIn
  <2>2. y = p + 1
    <3>1. [partial |-> x, pageno |-> y].pageno = y
      OBVIOUS
    <3> QED
      BY <1>3, <2>1, <3>1, Zenon
  <2>3. new = [partial |-> out.partial, pageno |-> y]
    BY <2>1, SMT DEF LeftOf
  <2> QED
    BY <2>2, <2>3, SMT
<1>8. Covered(taken \o out.packets, T, r, broken)
  <2>1. taken \in Seq(Seq(Seg)) /\ out.packets \in Seq(Seq(Seg))
    BY <1>4, <1>5, Zenon DEF GatheredTo, WholePackets
  <2> QED
    BY <1>4, <1>5, <2>1, CoveredConcat, Zenon DEF GatheredTo
<1>9. p + 1 \in Nat /\ (p + 1) + 1 = p + 2
  OBVIOUS
<1> QED
  BY <1>1, <1>2, <1>5, <1>6, <1>7, <1>8, <1>9, Zenon DEF DecoderAt, GatheredTo, FedAt

-----------------------------------------------------------------------------
(* Encoding.                                                               *)

LEMMA CutCut ==
    ASSUME NEW S, NEW s \in Seq(S), NEW m \in Nat, NEW n \in Nat, m <= n, n <= Len(s),
           NEW i \in Nat, NEW j \in Nat, i <= j, m + j <= n
    PROVE  SubSeq(SubSeq(s, m + 1, n), i + 1, j) = SubSeq(s, (m + i) + 1, m + j)
<1> DEFINE u == SubSeq(s, m + 1, n)
<1>1. u \in Seq(S) /\ Len(u) = n - m /\ \A x \in 1 .. n - m : u[x] = s[m + x]
  OBVIOUS
<1> HIDE DEF u
<1> DEFINE v == SubSeq(u, i + 1, j)
           w == SubSeq(s, (m + i) + 1, m + j)
<1>2. v \in Seq(S) /\ Len(v) = j - i /\ \A x \in 1 .. j - i : v[x] = u[i + x]
  <2>1. i \in 0 .. Len(u) /\ j \in i .. Len(u)
    BY <1>1
  <2>2. u \in Seq(S)
    BY <1>1
  <2> QED
    BY <2>1, <2>2, CutType
<1>3. w \in Seq(S) /\ Len(w) = j - i /\ \A x \in 1 .. j - i : w[x] = s[(m + i) + x]
  <2>1. PICK p \in Nat, q \in Nat : p = m + i /\ q = m + j /\ q - p = j - i
    OBVIOUS
  <2>2. p \in 0 .. Len(s) /\ q \in p .. Len(s)
    BY <2>1
  <2>3. /\ SubSeq(s, p + 1, q) \in Seq(S) /\ Len(SubSeq(s, p + 1, q)) = q - p
        /\ \A x \in 1 .. q - p : SubSeq(s, p + 1, q)[x] = s[p + x]
    BY <2>2, CutType
  <2> QED
    BY <2>1, <2>3, Zenon
<1>4. ASSUME NEW x \in 1 .. j - i PROVE v[x] = w[x]
  <2>1. i + x \in 1 .. n - m /\ m + (i + x) = (m + i) + x
    OBVIOUS
  <2> QED
    BY <1>1, <1>2, <1>3, <2>1, Zenon
<1> HIDE DEF v, w
<1>5. v = w
  BY <1>2, <1>3, <1>4, SeqEqual, Zenon
<1> QED
  BY <1>5 DEF u, v, w

\* A page that has to be written takes a segment at least, and the first page of
\* a stream ends with a packet if one ends soon enough.
LEMMA PageLengthIs ==
    ASSUME NEW enc, enc.lacing \in Seq(Seg), NEW force
    PROVE  /\ PageLength(enc, force) \in 0 .. Len(enc.lacing)
           /\ force /\ enc.lacing # <<>> => PageLength(enc, force) # 0
           /\ ~enc.begun /\ PageLength(enc, force) # 0 =>
                 \A n \in 1 .. MaxSegs :
                     n <= Len(enc.lacing) /\ Ends(enc.lacing[n]) =>
                         Ends(enc.lacing[PageLength(enc, force)])
<1> DEFINE lacing == enc.lacing
           most == Min({Len(lacing), MaxSegs})
           breaks == Breaks(enc, most)
           vals == IF breaks = {} THEN most ELSE Min(breaks)
<1>1. PICK len \in Nat : len = Len(lacing)
  OBVIOUS
<1>2. lacing # <<>> => len # 0
  <2>1. lacing \in Seq(Seg)
    OBVIOUS
  <2> HIDE DEF lacing
  <2> QED
    BY <1>1, <2>1
<1>3. MaxSegs \in Nat /\ MaxSegs # 0
  BY FramingAssumption
<1>4. PICK m \in Nat : m = most /\ m <= len /\ m <= MaxSegs /\ (len # 0 => m # 0) /\ (m = len \/ m = MaxSegs)
  <2>1. Min({len, MaxSegs}) = IF len <= MaxSegs THEN len ELSE MaxSegs
    BY <1>3, MinOfTwo
  <2>2. most = IF len <= MaxSegs THEN len ELSE MaxSegs
    BY <1>1, <2>1, Zenon
  <2> HIDE DEF most
  <2> QED
    BY <1>3, <2>2
<1>5. breaks = Breaks(enc, m)
  BY <1>4, Zenon
<1>6. breaks \subseteq 1 .. m
  <2>1. CASE enc.begun
    <3> SUFFICES ASSUME NEW n \in 0 .. m - 1, LargeEnough(SubSeq(lacing, 1, n)) PROVE n \in 1 .. m
      BY <1>5, <2>1, Zenon DEF Breaks
    <3>1. n # 0
      <4> SUFFICES ASSUME n = 0 PROVE FALSE
        OBVIOUS
      <4>1. lacing \in Seq(Seg)
        OBVIOUS
      <4> HIDE DEF lacing
      <4>2. SubSeq(lacing, 1, 0) = <<>>
        BY <4>1
      <4> QED
        BY <4>2, Zenon DEF LargeEnough
    <3> QED
      BY <3>1
  <2>2. CASE ~enc.begun
    <3>1. breaks = {n \in 1 .. m : Ends(lacing[n])}
      BY <1>5, <2>2, Zenon DEF Breaks
    <3> QED
      BY <3>1, Zenon
  <2> QED
    BY <2>1, <2>2
<1>7. PICK v \in Nat : v = vals /\ v <= m /\ (m # 0 => v # 0) /\ (breaks # {} => v \in breaks)
  <2>1. CASE breaks = {}
    BY <1>4, <2>1, Zenon
  <2>2. CASE breaks # {}
    <3>1. breaks \subseteq Nat
      <4>1. \A n \in 1 .. m : n \in Nat
        OBVIOUS
      <4> QED
        BY <1>6, <4>1, Zenon
    <3>2. Min(breaks) \in breaks
      <4> HIDE DEF breaks
      <4> QED
        BY <2>2, <3>1, MinIs
    <3>3. Min(breaks) \in 1 .. m
      BY <1>6, <3>2, Zenon
    <3>4. vals = Min(breaks)
      BY <2>2, Zenon
    <3>5. PICK v \in 1 .. m : v = Min(breaks)
      BY <3>3, Zenon
    <3>6. v \in Nat /\ v <= m /\ v # 0
      OBVIOUS
    <3> QED
      BY <3>2, <3>4, <3>5, <3>6, Zenon
  <2> QED
    BY <2>1, <2>2, Zenon
<1>8. PageLength(enc, force) = IF force \/ (enc.begun /\ (breaks # {} \/ vals = MaxSegs)) THEN v ELSE 0
  BY <1>7, Zenon DEF PageLength
<1>9. v \in 0 .. len /\ 0 \in 0 .. len /\ (len # 0 => v # 0)
  <2>1. v <= m /\ m <= len /\ (m # 0 => v # 0) /\ (len # 0 => m # 0)
    BY <1>4, <1>7, Zenon
  <2> QED
    BY <2>1
<1>10. ASSUME ~enc.begun, NEW n \in 1 .. MaxSegs, n <= len, Ends(lacing[n])
       PROVE  Ends(lacing[v])
  <2>1. n \in 1 .. m
    BY <1>4, <1>10
  <2>2. breaks = {k \in 1 .. m : Ends(lacing[k])}
    BY <1>5, <1>10, Zenon DEF Breaks
  <2>3. n \in breaks
    BY <1>10, <2>1, <2>2, Zenon
  <2>4. v \in breaks
    BY <1>7, <2>3, Zenon
  <2> QED
    BY <2>2, <2>4, Zenon
<1>11. CASE PageLength(enc, force) = v
  BY <1>1, <1>2, <1>9, <1>10, <1>11, Zenon
<1>12. CASE PageLength(enc, force) = 0 /\ ~force
  BY <1>1, <1>9, <1>12, Zenon
<1>13. PageLength(enc, force) = v \/ (PageLength(enc, force) = 0 /\ ~force)
  BY <1>8, Zenon
<1> QED
  BY <1>11, <1>12, <1>13, Zenon

\* What the encoder of a stream has left of the first c segments: those after the
\* pages written.
EncoderAt(enc, T, off, c) ==
    /\ enc \in Encoder
    /\ enc.lacing = SubSeq(T, off[Len(off)] + 1, c)
    /\ off[Len(off)] <= c
    /\ enc.pageno = Len(off) - 1
    /\ enc.begun <=> enc.pageno # 0

\* The first page of a stream ends with a packet.
FirstPage(off, T) == Len(off) > 1 => Ends(T[off[2]])

\* Pages from number base on.
PagesAt(pages, base, s, T, off, c, eos) ==
    /\ pages \in Seq(PageSet)
    /\ base + Len(pages) = Len(off) - 1
    /\ \A i \in 1 .. Len(pages) :
          /\ pages[i].serial = s /\ pages[i].no = base + i - 1
          /\ PageLaid(pages[i], T, off)
          /\ pages[i].eos <=> eos /\ off[base + i + 1] = c

\* More pages.
Extends(new, off) ==
    /\ Len(off) <= Len(new)
    /\ \A i \in 1 .. Len(off) : new[i] = off[i]

LEMMA LaidLater ==
    ASSUME NEW T, NEW off, Offsets(off, T), NEW new, Len(new) \in Nat, Extends(new, off),
           NEW page, PageLaid(page, T, off)
    PROVE  PageLaid(page, T, new)
<1>1. PICK p \in Nat, n \in Nat : p = page.no /\ n = Len(off) /\ p + 1 < n
  BY DEF PageLaid, Offsets
<1>2. p + 1 \in 1 .. n /\ p + 2 \in 1 .. n
  BY <1>1
<1>3. new[p + 1] = off[p + 1] /\ new[p + 2] = off[p + 2]
  BY <1>1, <1>2, Zenon DEF Extends
<1>4. PICK w \in Nat : w = Len(new)
  OBVIOUS
<1>5. n <= w
  BY <1>1, <1>4, Zenon DEF Extends
<1>6. p + 1 < w
  BY <1>1, <1>5
<1> QED
  BY <1>1, <1>3, <1>4, <1>6, Zenon DEF PageLaid

LEMMA OffsetsAppend ==
    ASSUME NEW T \in Seq(Seg), NEW off, Offsets(off, T), NEW e \in Nat,
           off[Len(off)] < e, e <= Len(T)
    PROVE  Offsets(Append(off, e), T) /\ Extends(Append(off, e), off)
<1>1. PICK n \in Nat : n = Len(off) /\ n # 0
  BY DEF Offsets
<1>2. /\ off \in Seq(Nat) /\ off[1] = 0 /\ off[n] < e
      /\ \A i \in 1 .. n : off[i] \in Nat
      /\ \A i \in 1 .. n : off[i] <= Len(T)
      /\ \A i, j \in 1 .. n : i < j => off[i] < off[j]
  BY <1>1 DEF Offsets
<1>3. PICK new : new = Append(off, e)
  OBVIOUS
<1>4. /\ new \in Seq(Nat) /\ Len(new) = n + 1 /\ new[n + 1] = e
      /\ \A i \in 1 .. n : new[i] = off[i]
  BY <1>1, <1>2, <1>3
<1>5. \A i \in 1 .. n + 1 : i \in 1 .. n \/ i = n + 1
  OBVIOUS
<1>6. \A i \in 1 .. n + 1 : new[i] <= Len(T)
  BY <1>2, <1>4, <1>5, Zenon
<1>7. ASSUME NEW i \in 1 .. n + 1, NEW j \in 1 .. n + 1, i < j PROVE new[i] < new[j]
  <2>1. i \in 1 .. n
    BY <1>7
  <2>2. CASE j \in 1 .. n
    BY <1>2, <1>4, <1>7, <2>1, <2>2, Zenon
  <2>3. CASE j = n + 1
    <3>1. off[i] < e
      <4>1. CASE i = n
        BY <1>2, <4>1
      <4>2. CASE i # n
        <5>1. i < n /\ n \in 1 .. n
          BY <2>1, <4>2
        <5>2. off[i] < off[n] /\ off[i] \in Nat /\ off[n] \in Nat /\ off[n] < e
          BY <1>2, <2>1, <5>1, Zenon
        <5> QED
          BY <5>2
      <4> QED
        BY <4>1, <4>2
    <3> QED
      BY <1>4, <2>1, <2>3, <3>1, Zenon
  <2> QED
    BY <1>5, <2>2, <2>3, Zenon
<1>8. 1 \in 1 .. n /\ n + 1 # 0 /\ n <= n + 1
  BY <1>1
<1> QED
  BY <1>1, <1>2, <1>3, <1>4, <1>6, <1>7, <1>8, Zenon DEF Offsets, Extends

LEMMA AfterPageIs ==
    ASSUME NEW enc \in Encoder, NEW vals \in 0 .. Len(enc.lacing)
    PROVE  /\ AfterPage(enc, vals) \in Encoder
           /\ AfterPage(enc, vals).lacing = SubSeq(enc.lacing, vals + 1, Len(enc.lacing))
           /\ AfterPage(enc, vals).begun
           /\ AfterPage(enc, vals).eos = enc.eos
           /\ AfterPage(enc, vals).pageno = enc.pageno + 1
<1>1. SubSeq(enc.lacing, vals + 1, Len(enc.lacing)) \in Seq(Seg)
  <2>1. PICK l : l = enc.lacing /\ l \in Seq(Seg)
    BY DEF Encoder
  <2>2. vals \in 0 .. Len(l) /\ Len(l) \in vals .. Len(l)
    BY <2>1
  <2>3. SubSeq(l, vals + 1, Len(l)) \in Seq(Seg)
    BY <2>1, <2>2, CutType
  <2> QED
    BY <2>1, <2>3, Zenon
<1>2. PICK x \in Seq(Seg) : x = SubSeq(enc.lacing, vals + 1, Len(enc.lacing))
  BY <1>1
<1>3. PICK m \in Nat : m = enc.pageno + 1
  BY DEF Encoder
<1>4. PICK z : z = [enc EXCEPT !.lacing = x, !.begun = TRUE, !.pageno = m]
  OBVIOUS
<1>5. z = AfterPage(enc, vals)
  BY <1>2, <1>3, <1>4, Zenon DEF AfterPage
<1>6. z \in Encoder
  BY <1>4 DEF Encoder
<1>7. z.lacing = x /\ z.begun = TRUE /\ z.eos = enc.eos /\ z.pageno = m
  BY <1>4 DEF Encoder
<1> QED
  BY <1>2, <1>3, <1>5, <1>6, <1>7, Zenon

LEMMA PageIs ==
    ASSUME NEW enc \in Encoder, NEW s \in Streams, NEW vals \in 0 .. Len(enc.lacing)
    PROVE  /\ Page(enc, s, vals) \in PageSet
           /\ Page(enc, s, vals).serial = s
           /\ Page(enc, s, vals).no = enc.pageno
           /\ Page(enc, s, vals).continued <=> ~enc.lacing[1].first
           /\ Page(enc, s, vals).bos <=> ~enc.begun
           /\ Page(enc, s, vals).eos <=> enc.eos /\ Len(enc.lacing) = vals
           /\ Page(enc, s, vals).segments = SubSeq(enc.lacing, 1, vals)
<1>1. SubSeq(enc.lacing, 1, vals) \in Seq(Seg)
  <2>1. PICK l : l = enc.lacing /\ l \in Seq(Seg)
    BY DEF Encoder
  <2>2. SubSeq(l, 1, vals) \in Seq(Seg)
    BY <2>1
  <2> QED
    BY <2>1, <2>2, Zenon
<1>2. enc.pageno \in Nat
  BY DEF Encoder
<1> QED
  BY <1>1, <1>2 DEF Page, PageSet

\* The pages and the encoder, both true to the stream.
OutAt(out, base, s, T, off, c, eos) ==
    /\ Offsets(off, T) /\ FirstPage(off, T)
    /\ EncoderAt(out.enc, T, off, c) /\ out.enc.eos = eos
    /\ PagesAt(out.pages, base, s, T, off, c, eos)

LEMMA NextPageIs ==
    ASSUME NEW T \in Seq(Seg), NEW s \in Streams, NEW flush \in BOOLEAN, NEW base \in Nat,
           NEW c \in Nat, c <= Len(T), NEW eos \in BOOLEAN, NEW off, NEW out,
           OutAt(out, base, s, T, off, c, eos),
           c # 0 => \E n \in 1 .. MaxSegs : n <= c /\ Ends(T[n])
    PROVE  \E more :
              /\ OutAt(NextPage(out, s, flush), base, s, T, more, c, eos)
              /\ Extends(more, off)
              /\ \/ NextPage(out, s, flush).enc = out.enc /\ (flush => out.enc.lacing = <<>>)
                 \/ Len(NextPage(out, s, flush).enc.lacing) < Len(out.enc.lacing)
<1>1. PICK enc, pages : enc = out.enc /\ pages = out.pages
  OBVIOUS
<1> DEFINE force == flush \/ MustPageOut(enc)
<1>2. PICK vals : vals = PageLength(enc, force)
  OBVIOUS
<1>3. NextPage(out, s, flush) = IF vals = 0 THEN out
                                ELSE [enc |-> AfterPage(enc, vals), pages |-> Append(pages, Page(enc, s, vals))]
  BY <1>1, <1>2, Zenon DEF NextPage
<1>4. enc \in Encoder
  BY <1>1, Zenon DEF OutAt, EncoderAt
<1>5. enc.lacing \in Seq(Seg) /\ enc.pageno \in Nat /\ enc.begun \in BOOLEAN
  BY <1>4 DEF Encoder
<1>6. PICK len \in Nat : len = Len(enc.lacing)
  BY <1>5
<1>7. /\ vals \in 0 .. len
      /\ flush /\ enc.lacing # <<>> => vals # 0
      /\ ~enc.begun /\ vals # 0 =>
            \A n \in 1 .. MaxSegs : n <= len /\ Ends(enc.lacing[n]) => Ends(enc.lacing[vals])
  <2> HIDE DEF force
  <2>1. /\ PageLength(enc, force) \in 0 .. Len(enc.lacing)
        /\ force /\ enc.lacing # <<>> => PageLength(enc, force) # 0
        /\ ~enc.begun /\ PageLength(enc, force) # 0 =>
              \A n \in 1 .. MaxSegs :
                  n <= Len(enc.lacing) /\ Ends(enc.lacing[n]) => Ends(enc.lacing[PageLength(enc, force)])
    BY <1>5, PageLengthIs, Zenon
  <2>2. flush => force
    BY DEF force
  <2> QED
    BY <1>2, <1>6, <2>1, <2>2, Zenon
<1>8. CASE vals = 0
  <2>1. NextPage(out, s, flush) = out
    BY <1>3, <1>8, Zenon
  <2>2. Extends(off, off)
    <3>1. Len(off) \in Nat
      BY DEF OutAt, Offsets
    <3>2. Len(off) <= Len(off)
      BY <3>1
    <3> QED
      BY <3>2, Zenon DEF Extends
  <2> QED
    BY <1>1, <1>7, <1>8, <2>1, <2>2, Zenon
<1>9. CASE vals # 0
  <2>1. PICK l \in Nat : l = Len(off) /\ l # 0
    BY DEF OutAt, Offsets
  <2>2. PICK b \in Nat : b = off[l] /\ b <= c
    <3>1. off \in Seq(Nat)
      BY Zenon DEF OutAt, Offsets
    <3>2. off[l] \in Nat
      BY <2>1, <3>1
    <3> QED
      BY <2>1, <3>2, Zenon DEF OutAt, EncoderAt
  <2>3. /\ enc.lacing = SubSeq(T, b + 1, c) /\ enc.pageno = l - 1 /\ (enc.begun <=> enc.pageno # 0) /\ enc.eos = eos
    BY <1>1, <2>1, <2>2, Zenon DEF OutAt, EncoderAt
  <2>4. len = c - b /\ b + len = c /\ \A i \in 1 .. len : enc.lacing[i] = T[b + i]
    <3>1. /\ Len(SubSeq(T, b + 1, c)) = c - b
          /\ \A i \in 1 .. c - b : SubSeq(T, b + 1, c)[i] = T[b + i]
      <4>1. b \in 0 .. Len(T) /\ c \in b .. Len(T)
        BY <2>2
      <4> QED
        BY <4>1, CutType
    <3>2. len = c - b
      BY <1>6, <2>3, <3>1, Zenon
    <3>3. b + len = c
      BY <3>2
    <3> QED
      BY <2>3, <3>1, <3>2, <3>3, Zenon
  <2>5. PICK e \in Nat : e = b + vals /\ e <= c /\ b < e /\ vals \in Nat /\ vals \in 1 .. len
    <3>1. vals \in 0 .. len
      BY <1>7
    <3>2. b + len = c
      BY <2>4
    <3> QED
      BY <1>9, <3>1, <3>2
  <2>6. PICK more : more = Append(off, e)
    OBVIOUS
  <2>7. Offsets(more, T) /\ Extends(more, off)
    <3>1. off[Len(off)] < e /\ e <= Len(T)
      <4>1. e <= Len(T)
        BY <2>5
      <4> QED
        BY <2>1, <2>2, <2>5, <4>1, Zenon
    <3> QED
      BY <2>6, <3>1, OffsetsAppend, Zenon DEF OutAt
  <2>8. Len(more) = l + 1 /\ more[l + 1] = e /\ \A i \in 1 .. l : more[i] = off[i]
    <3>1. off \in Seq(Nat)
      BY Zenon DEF OutAt, Offsets
    <3> QED
      BY <2>1, <2>6, <3>1
  <2>9. PICK new, page : /\ new = AfterPage(enc, vals) /\ page = Page(enc, s, vals)
                         /\ NextPage(out, s, flush) = [enc |-> new, pages |-> Append(pages, page)]
    BY <1>3, <1>9, Zenon
  <2>10. /\ new \in Encoder
         /\ new.lacing = SubSeq(enc.lacing, vals + 1, Len(enc.lacing))
         /\ new.begun
         /\ new.eos = enc.eos
         /\ new.pageno = enc.pageno + 1
    <3>1. vals \in 0 .. Len(enc.lacing)
      BY <1>6, <1>7, Zenon
    <3> QED
      BY <1>4, <2>9, <3>1, AfterPageIs, Zenon
  <2>11. /\ page \in PageSet /\ page.serial = s /\ page.no = enc.pageno
         /\ page.continued <=> ~enc.lacing[1].first
         /\ page.bos <=> ~enc.begun
         /\ page.eos <=> enc.eos /\ Len(enc.lacing) = vals
         /\ page.segments = SubSeq(enc.lacing, 1, vals)
    <3>1. vals \in 0 .. Len(enc.lacing)
      BY <1>6, <1>7, Zenon
    <3> QED
      BY <1>4, <2>9, <3>1, PageIs
  <2>12. new.lacing = SubSeq(T, e + 1, c) /\ page.segments = SubSeq(T, b + 1, e)
    <3>1. /\ 0 <= vals /\ vals <= len /\ b + vals <= c /\ b + len <= c /\ b <= c /\ c <= Len(T) /\ 0 \in Nat /\ len \in Nat
          /\ b + 0 = b /\ 0 + 1 = 1
      <4>1. b + len = c
        BY <2>4
      <4> QED
        BY <2>2, <2>5, <4>1, SMTT(30)
    <3>2. SubSeq(SubSeq(T, b + 1, c), vals + 1, len) = SubSeq(T, (b + vals) + 1, b + len)
      BY <2>5, <3>1, CutCut
    <3>3. SubSeq(SubSeq(T, b + 1, c), 0 + 1, vals) = SubSeq(T, (b + 0) + 1, b + vals)
      BY <2>5, <3>1, CutCut
    <3> QED
      BY <1>6, <2>3, <2>4, <2>5, <2>10, <2>11, <3>1, <3>2, <3>3, Zenon
  <2>13. EncoderAt(new, T, more, c) /\ new.eos = eos
    <3>1. PICK n \in Nat : n = enc.pageno /\ n = l - 1 /\ n + 1 = (l + 1) - 1 /\ n + 1 # 0
      BY <1>5, <2>1, <2>3
    <3>2. new.pageno = Len(more) - 1 /\ (new.begun <=> new.pageno # 0)
      BY <2>8, <2>10, <3>1, Zenon
    <3> QED
      BY <2>3, <2>5, <2>8, <2>10, <2>12, <3>2, Zenon DEF EncoderAt
  <2>14. PageLaid(page, T, more)
    <3>1. PICK n \in Nat : n = enc.pageno /\ n = l - 1 /\ n + 1 = l /\ n + 2 = l + 1 /\ n + 1 < l + 1 /\ n + 1 \in 1 .. l
      <4>1. enc.pageno = l - 1 /\ l # 0
        BY <2>1, <2>3
      <4> QED
        BY <1>5, <4>1
    <3>2. more[n + 1] = b /\ more[n + 2] = e
      BY <2>2, <2>8, <3>1, Zenon
    <3>3. enc.lacing[1] = T[b + 1]
      <4>1. 1 \in 1 .. len
        BY <2>5
      <4> QED
        BY <2>4, <4>1, Zenon
    <3> QED
      BY <2>3, <2>8, <2>11, <2>12, <3>1, <3>2, <3>3, Zenon DEF PageLaid
  <2>15. page.eos <=> eos /\ e = c
    <3>1. len = vals <=> e = c
      <4>1. b + len = c /\ len \in Nat /\ vals \in Nat
        BY <2>4, <2>5
      <4> QED
        BY <2>5, <4>1
    <3> QED
      BY <1>6, <2>3, <2>11, <3>1, Zenon
  <2>16. FirstPage(more, T)
    <3>1. CASE l = 1
      <4>1. b = 0 /\ more[2] = e /\ e = vals
        <5>1. off[1] = 0
          BY Zenon DEF OutAt, Offsets
        <5>2. b = 0 /\ l + 1 = 2
          BY <2>2, <3>1, <5>1
        <5>3. e = vals
          BY <2>5, <5>2
        <5> QED
          BY <2>8, <5>2, <5>3, Zenon
      <4>2. ~enc.begun
        BY <2>3, <3>1
      <4>3. c # 0
        BY <2>5
      <4>4. PICK n \in 1 .. MaxSegs : n <= c /\ Ends(T[n])
        BY <4>3, Zenon
      <4>5. len = c
        BY <2>4, <4>1
      <4>6. \A i \in 1 .. len : enc.lacing[i] = T[i]
        <5>1. \A i \in 1 .. len : 0 + i = i
          OBVIOUS
        <5> QED
          BY <2>4, <4>1, <5>1, Zenon
      <4>7. n \in 1 .. len
        <5>1. n \in Nat /\ n # 0
          BY FramingAssumption
        <5> QED
          BY <4>4, <4>5, <5>1
      <4>8. Ends(enc.lacing[vals])
        BY <1>7, <1>9, <4>2, <4>4, <4>5, <4>6, <4>7, Zenon
      <4> QED
        BY <2>5, <4>1, <4>6, <4>8, Zenon DEF FirstPage
    <3>2. CASE l # 1
      <4>1. 2 \in 1 .. l /\ l > 1
        BY <2>1, <3>2
      <4>2. more[2] = off[2]
        BY <2>8, <4>1, Zenon
      <4> QED
        BY <2>1, <4>1, <4>2, Zenon DEF FirstPage, OutAt
    <3> QED
      BY <3>1, <3>2
  <2>17. PagesAt(Append(pages, page), base, s, T, more, c, eos)
    <3>1. pages \in Seq(PageSet)
      BY <1>1, Zenon DEF OutAt, PagesAt
    <3>2. PICK h \in Nat : h = Len(pages)
      BY <3>1
    <3>3. base + h = l - 1
      BY <1>1, <2>1, <3>2, Zenon DEF OutAt, PagesAt
    <3>4. PICK ps : ps = Append(pages, page)
      OBVIOUS
    <3>5. /\ ps \in Seq(PageSet) /\ Len(ps) = h + 1 /\ ps[h + 1] = page
          /\ \A i \in 1 .. h : ps[i] = pages[i]
      BY <2>11, <3>1, <3>2, <3>4
    <3>6. base + (h + 1) = (l + 1) - 1 /\ base + (h + 1) + 1 = l + 1 /\ base + (h + 1) - 1 = l - 1
      BY <3>3
    <3>7. ASSUME NEW i \in 1 .. h
          PROVE  /\ ps[i].serial = s /\ ps[i].no = base + i - 1
                 /\ PageLaid(ps[i], T, more)
                 /\ ps[i].eos <=> eos /\ more[base + i + 1] = c
      <4>1. /\ pages[i].serial = s /\ pages[i].no = base + i - 1
            /\ PageLaid(pages[i], T, off)
            /\ pages[i].eos <=> eos /\ off[base + i + 1] = c
        BY <1>1, <3>2, Zenon DEF OutAt, PagesAt
      <4>2. base + i + 1 \in 1 .. l
        BY <3>3, <2>1
      <4>3. more[base + i + 1] = off[base + i + 1]
        BY <2>8, <4>2, Zenon
      <4>4. Len(more) \in Nat
        BY <2>8
      <4>5. PageLaid(pages[i], T, more)
        BY <2>7, <4>1, <4>4, LaidLater, Zenon DEF OutAt
      <4> QED
        BY <3>5, <4>1, <4>3, <4>5, Zenon
    <3>8. /\ ps[h + 1].serial = s /\ ps[h + 1].no = base + (h + 1) - 1
          /\ PageLaid(ps[h + 1], T, more)
          /\ ps[h + 1].eos <=> eos /\ more[base + (h + 1) + 1] = c
      BY <2>3, <2>8, <2>11, <2>14, <2>15, <3>5, <3>6, Zenon
    <3>9. \A i \in 1 .. h + 1 : i \in 1 .. h \/ i = h + 1
      OBVIOUS
    <3> QED
      BY <2>8, <3>4, <3>5, <3>6, <3>7, <3>8, <3>9, Zenon DEF PagesAt
  <2>18. NextPage(out, s, flush).enc = new /\ NextPage(out, s, flush).pages = Append(pages, page)
    <3>1. PICK x, y : x = new /\ y = Append(pages, page)
      OBVIOUS
    <3>2. [enc |-> x, pages |-> y].enc = x /\ [enc |-> x, pages |-> y].pages = y
      OBVIOUS
    <3> QED
      BY <2>9, <3>1, <3>2, Zenon
  <2>19. Len(new.lacing) < Len(enc.lacing)
    <3>1. e \in 0 .. Len(T) /\ c \in e .. Len(T)
      BY <2>5
    <3>2. Len(SubSeq(T, e + 1, c)) = c - e
      BY <3>1, CutType
    <3>3. c - e < len
      BY <2>4, <2>5
    <3> QED
      BY <1>6, <2>12, <3>2, <3>3, Zenon
  <2>20. OutAt(NextPage(out, s, flush), base, s, T, more, c, eos)
    BY <2>7, <2>13, <2>16, <2>17, <2>18, Zenon DEF OutAt
  <2> QED
    BY <1>1, <2>7, <2>18, <2>19, <2>20, Zenon
<1> QED
  BY <1>8, <1>9

LEMMA ExtendsOn ==
    ASSUME NEW off, NEW more, NEW most, Len(off) \in Nat, Len(more) \in Nat, Len(most) \in Nat,
           Extends(more, off), Extends(most, more)
    PROVE  Extends(most, off)
<1>1. PICK l \in Nat, m \in Nat, n \in Nat : l = Len(off) /\ m = Len(more) /\ n = Len(most)
  OBVIOUS
<1>2. l <= m /\ m <= n
  BY <1>1, Zenon DEF Extends
<1>3. l <= n /\ \A i \in 1 .. l : i \in 1 .. m
  BY <1>2
<1> QED
  BY <1>1, <1>3, Zenon DEF Extends

Soon(T, c) == c # 0 => \E n \in 1 .. MaxSegs : n <= c /\ Ends(T[n])

Ready(enc, pages, base, s, T, off, c, eos) ==
    /\ Offsets(off, T) /\ FirstPage(off, T) /\ EncoderAt(enc, T, off, c) /\ enc.eos = eos
    /\ PagesAt(pages, base, s, T, off, c, eos)

DrainedAt(out, base, s, T, off, c, eos, flush) ==
    \E more : /\ OutAt(out, base, s, T, more, c, eos)
              /\ Extends(more, off)
              /\ flush => out.enc.lacing = <<>>

\* Pageout, or flush, until there are no more pages: flush leaves nothing.
LEMMA DrainedTo ==
    ASSUME NEW T \in Seq(Seg), NEW s \in Streams, NEW flush \in BOOLEAN, NEW base \in Nat,
           NEW c \in Nat, c <= Len(T), NEW eos \in BOOLEAN, NEW off, NEW enc, NEW pages,
           Ready(enc, pages, base, s, T, off, c, eos), Soon(T, c)
    PROVE  DrainedAt(Drained(enc, s, flush, pages), base, s, T, off, c, eos, flush)
<1>a. /\ Offsets(off, T) /\ FirstPage(off, T) /\ EncoderAt(enc, T, off, c) /\ enc.eos = eos
      /\ PagesAt(pages, base, s, T, off, c, eos)
  BY Zenon DEF Ready
<1>b. c # 0 => \E n \in 1 .. MaxSegs : n <= c /\ Ends(T[n])
  BY Zenon DEF Soon
<1> USE <1>a, <1>b
<1>1. enc.lacing \in Seq(Seg)
  <2>1. enc \in Encoder
    BY Zenon DEF EncoderAt
  <2> QED
    BY <2>1 DEF Encoder
<1>2. PICK len \in Nat : len = Len(enc.lacing)
  BY <1>1
<1>3. PICK f : Draining(f, enc, s, flush, pages) /\ Drained(enc, s, flush, pages) = f[len]
  BY <1>2, DrainedIs, Zenon
<1> DEFINE Fine(n) == \E more : /\ OutAt(f[n], base, s, T, more, c, eos)
                                /\ Extends(more, off)
                                /\ flush => \/ f[n].enc.lacing = <<>>
                                            \/ Len(f[n].enc.lacing) + n <= len
           Good == {n \in Nat : n <= len => Fine(n)}
<1>4. 0 \in Good
  <2>1. f[0].enc = enc /\ f[0].pages = pages
    <3>1. f[0] = [enc |-> enc, pages |-> pages]
      BY <1>3, Zenon DEF Draining
    <3>2. [enc |-> enc, pages |-> pages].enc = enc /\ [enc |-> enc, pages |-> pages].pages = pages
      OBVIOUS
    <3> QED
      BY <3>1, <3>2, Zenon
  <2>2. Extends(off, off)
    <3>1. Len(off) \in Nat
      BY DEF Offsets
    <3>2. Len(off) <= Len(off)
      BY <3>1
    <3> QED
      BY <3>2, Zenon DEF Extends
  <2>3. OutAt(f[0], base, s, T, off, c, eos)
    BY <2>1, Zenon DEF OutAt
  <2>4. Len(f[0].enc.lacing) + 0 <= len
    <3>1. Len(f[0].enc.lacing) = len
      BY <1>2, <2>1, Zenon
    <3>2. len + 0 <= len
      OBVIOUS
    <3> QED
      BY <3>1, <3>2, Zenon
  <2>5. Fine(0)
    BY <2>2, <2>3, <2>4, Zenon
  <2> QED
    BY <2>5
<1>5. ASSUME NEW n \in Nat, n \in Good PROVE n + 1 \in Good
  <2>0. n + 1 \in Nat
    OBVIOUS
  <2> SUFFICES ASSUME n + 1 <= len PROVE Fine(n + 1)
    BY <2>0, Zenon
  <2>1. Fine(n)
    BY <1>5
  <2>2. PICK more : /\ OutAt(f[n], base, s, T, more, c, eos)
                    /\ Extends(more, off)
                    /\ flush => \/ f[n].enc.lacing = <<>>
                                \/ Len(f[n].enc.lacing) + n <= len
    BY <2>1, Zenon
  <2>3. f[n + 1] = NextPage(f[n], s, flush)
    <3>1. n + 1 \in 1 .. Len(enc.lacing) /\ (n + 1) - 1 = n
      BY <1>2
    <3>2. f[n + 1] = NextPage(f[(n + 1) - 1], s, flush)
      BY <1>3, <3>1, Zenon DEF Draining
    <3> QED
      BY <3>1, <3>2, Zenon
  <2>4. PICK most : /\ OutAt(f[n + 1], base, s, T, most, c, eos)
                    /\ Extends(most, more)
                    /\ \/ f[n + 1].enc = f[n].enc /\ (flush => f[n].enc.lacing = <<>>)
                       \/ Len(f[n + 1].enc.lacing) < Len(f[n].enc.lacing)
    <3>1. \E most : /\ OutAt(NextPage(f[n], s, flush), base, s, T, most, c, eos)
                    /\ Extends(most, more)
                    /\ \/ NextPage(f[n], s, flush).enc = f[n].enc /\ (flush => f[n].enc.lacing = <<>>)
                       \/ Len(NextPage(f[n], s, flush).enc.lacing) < Len(f[n].enc.lacing)
      <4>1. PICK out : out = f[n]
        OBVIOUS
      <4>2. OutAt(out, base, s, T, more, c, eos)
        BY <2>2, <4>1, Zenon
      <4>3. \E most : /\ OutAt(NextPage(out, s, flush), base, s, T, most, c, eos)
                      /\ Extends(most, more)
                      /\ \/ NextPage(out, s, flush).enc = out.enc /\ (flush => out.enc.lacing = <<>>)
                         \/ Len(NextPage(out, s, flush).enc.lacing) < Len(out.enc.lacing)
        BY <4>2, NextPageIs
      <4> QED
        BY <4>1, <4>3, Zenon
    <3> QED
      BY <2>3, <3>1, Zenon
  <2>5. Extends(most, off)
    <3>1. Len(off) \in Nat /\ Len(more) \in Nat /\ Len(most) \in Nat
      <4>1. Offsets(more, T) /\ Offsets(most, T)
        BY <2>2, <2>4, Zenon DEF OutAt
      <4> QED
        BY <4>1, SMTT(30) DEF Offsets
    <3> QED
      BY <2>2, <2>4, <3>1, ExtendsOn, Zenon
  <2>6. flush => \/ f[n + 1].enc.lacing = <<>>
                 \/ Len(f[n + 1].enc.lacing) + (n + 1) <= len
    <3> SUFFICES ASSUME flush PROVE \/ f[n + 1].enc.lacing = <<>>
                                    \/ Len(f[n + 1].enc.lacing) + (n + 1) <= len
      OBVIOUS
    <3>1. CASE f[n + 1].enc = f[n].enc /\ f[n].enc.lacing = <<>>
      BY <3>1, Zenon
    <3>2. CASE Len(f[n + 1].enc.lacing) < Len(f[n].enc.lacing)
      <4>1. PICK a, b : a = f[n + 1].enc.lacing /\ b = f[n].enc.lacing
        OBVIOUS
      <4>2. a \in Seq(Seg) /\ b \in Seq(Seg)
        <5>1. f[n].enc \in Encoder /\ f[n + 1].enc \in Encoder
          BY <2>2, <2>4, Zenon DEF OutAt, EncoderAt
        <5> QED
          BY <4>1, <5>1 DEF Encoder
      <4>3. b = <<>> \/ Len(b) + n <= len
        BY <2>2, <4>1, Zenon
      <4>4. Len(a) < Len(b)
        BY <3>2, <4>1, Zenon
      <4>5. a = <<>> \/ Len(a) + (n + 1) <= len
        BY <4>2, <4>3, <4>4
      <4> QED
        BY <4>1, <4>5, Zenon
    <3> QED
      BY <2>4, <3>1, <3>2, Zenon
  <2> QED
    BY <2>4, <2>5, <2>6, Zenon
<1> HIDE DEF Fine
<1>6. Nat \subseteq Good
  <2> HIDE DEF Good
  <2> QED
    BY <1>4, <1>5, Induction
<1>7. Fine(len)
  BY <1>6
<1>8. PICK more : /\ OutAt(f[len], base, s, T, more, c, eos)
                  /\ Extends(more, off)
                  /\ flush => \/ f[len].enc.lacing = <<>>
                              \/ Len(f[len].enc.lacing) + len <= len
  BY <1>7, Zenon DEF Fine
<1>9. Len(f[len].enc.lacing) + len <= len => f[len].enc.lacing = <<>>
  <2>1. PICK a : a = f[len].enc.lacing
    OBVIOUS
  <2>2. a \in Seq(Seg)
    <3>1. f[len].enc \in Encoder
      BY <1>8, Zenon DEF OutAt, EncoderAt
    <3> QED
      BY <2>1, <3>1 DEF Encoder
  <2>3. Len(a) + len <= len => a = <<>>
    BY <2>2
  <2> QED
    BY <2>1, <2>3, Zenon
<1> QED
  BY <1>3, <1>8, <1>9, Zenon DEF DrainedAt

-----------------------------------------------------------------------------
(* A stream that grows by a packet.                                        *)

LEMMA CutOf ==
    ASSUME NEW T \in Seq(Seg), NEW R \in Seq(Seg), NEW a \in Nat, NEW b \in Nat, a <= b, b <= Len(T)
    PROVE  SubSeq(T \o R, a + 1, b) = SubSeq(T, a + 1, b)
<1>1. PICK U : U = T \o R
  OBVIOUS
<1>2. U \in Seq(Seg) /\ b <= Len(U) /\ \A i \in 1 .. Len(T) : U[i] = T[i]
  BY <1>1, ConcatIs
<1> DEFINE u == SubSeq(U, a + 1, b)
           t == SubSeq(T, a + 1, b)
<1>3. u \in Seq(Seg) /\ Len(u) = b - a /\ \A i \in 1 .. b - a : u[i] = U[a + i]
  <2>1. a \in 0 .. Len(U) /\ b \in a .. Len(U) /\ U \in Seq(Seg)
    BY <1>2
  <2> QED
    BY <2>1, CutType
<1>4. t \in Seq(Seg) /\ Len(t) = b - a /\ \A i \in 1 .. b - a : t[i] = T[a + i]
  <2>1. a \in 0 .. Len(T) /\ b \in a .. Len(T)
    OBVIOUS
  <2> QED
    BY <2>1, CutType
<1>5. \A i \in 1 .. b - a : a + i \in 1 .. Len(T)
  OBVIOUS
<1>6. \A i \in 1 .. b - a : u[i] = t[i]
  BY <1>2, <1>3, <1>4, <1>5, Zenon
<1> HIDE DEF u, t
<1>7. u = t
  BY <1>3, <1>4, <1>6, SeqEqual, Zenon
<1> QED
  BY <1>1, <1>7 DEF u, t

LEMMA OffsetsGrow ==
    ASSUME NEW T \in Seq(Seg), NEW R \in Seq(Seg), NEW off, Offsets(off, T), FirstPage(off, T)
    PROVE  Offsets(off, T \o R) /\ FirstPage(off, T \o R)
<1>1. PICK U : U = T \o R
  OBVIOUS
<1>2. U \in Seq(Seg) /\ Len(T) <= Len(U) /\ Len(U) \in Nat /\ Len(T) \in Nat /\ \A i \in 1 .. Len(T) : U[i] = T[i]
  BY <1>1, ConcatIs
<1>3. /\ off \in Seq(Nat) /\ Len(off) # 0 /\ off[1] = 0
      /\ \A i \in 1 .. Len(off) : off[i] \in Nat /\ off[i] <= Len(T)
      /\ \A i, j \in 1 .. Len(off) : i < j => off[i] < off[j]
  <2>1. off \in Seq(Nat)
    BY Zenon DEF Offsets
  <2>2. \A i \in 1 .. Len(off) : off[i] \in Nat
    BY <2>1
  <2> QED
    BY <2>1, <2>2, Zenon DEF Offsets
<1>4. \A i \in 1 .. Len(off) : off[i] <= Len(U)
  <2> TAKE i \in 1 .. Len(off)
  <2>1. PICK o \in Nat : o = off[i] /\ o <= Len(T)
    BY <1>3
  <2>2. Len(T) <= Len(U) /\ Len(U) \in Nat /\ Len(T) \in Nat
    BY <1>2, Zenon
  <2>3. o <= Len(U)
    BY <2>1, <2>2
  <2> QED
    BY <2>1, <2>3
<1>5. FirstPage(off, U)
  <2> SUFFICES ASSUME Len(off) > 1 PROVE Ends(U[off[2]])
    BY Zenon DEF FirstPage
  <2>1. 2 \in 1 .. Len(off) /\ 1 \in 1 .. Len(off) /\ 1 < 2
    BY <1>3
  <2>2. off[2] \in Nat /\ off[2] <= Len(T) /\ 0 < off[2]
    BY <1>3, <2>1, Zenon
  <2>3. off[2] \in 1 .. Len(T)
    BY <2>2
  <2> QED
    BY <1>2, <2>3, Zenon DEF FirstPage
<1> QED
  BY <1>1, <1>3, <1>4, <1>5, Zenon DEF Offsets

LEMMA LaidGrows ==
    ASSUME NEW T \in Seq(Seg), NEW R \in Seq(Seg), NEW off, Offsets(off, T),
           NEW page, PageLaid(page, T, off)
    PROVE  PageLaid(page, T \o R, off)
<1>1. PICK p \in Nat : p = page.no /\ p + 1 < Len(off)
  BY DEF PageLaid
<1>2. PICK a \in Nat, b \in Nat : a = off[p + 1] /\ b = off[p + 2] /\ a < b /\ b <= Len(T)
  <2>1. /\ off \in Seq(Nat)
        /\ \A i \in 1 .. Len(off) : off[i] <= Len(T)
        /\ \A i, j \in 1 .. Len(off) : i < j => off[i] < off[j]
    BY Zenon DEF Offsets
  <2>2. p + 1 \in 1 .. Len(off) /\ p + 2 \in 1 .. Len(off) /\ p + 1 < p + 2
    <3>1. off \in Seq(Nat)
      BY <2>1
    <3> QED
      BY <1>1, <3>1, SMTT(30)
  <2>3. off[p + 1] \in Nat /\ off[p + 2] \in Nat
    BY <2>1, <2>2
  <2> QED
    BY <2>1, <2>2, <2>3, Zenon
<1>3. SubSeq(T \o R, a + 1, b) = SubSeq(T, a + 1, b)
  <2>1. a <= b
    BY <1>2
  <2> QED
    BY <1>2, <2>1, CutOf, ZenonT(30)
<1>4. (T \o R)[a + 1] = T[a + 1]
  BY <1>2
<1> QED
  BY <1>1, <1>2, <1>3, <1>4, Zenon DEF PageLaid

LEMMA EncoderGrows ==
    ASSUME NEW T \in Seq(Seg), NEW R \in Seq(Seg), NEW off, Offsets(off, T),
           NEW c \in Nat, c <= Len(T), NEW enc, EncoderAt(enc, T, off, c)
    PROVE  EncoderAt(enc, T \o R, off, c)
<1>1. PICK a \in Nat : a = off[Len(off)] /\ a <= c
  <2>1. off \in Seq(Nat) /\ Len(off) # 0
    BY Zenon DEF Offsets
  <2>2. off[Len(off)] \in Nat
    BY <2>1
  <2> QED
    BY <2>2 DEF EncoderAt
<1>2. SubSeq(T \o R, a + 1, c) = SubSeq(T, a + 1, c)
  BY <1>1, CutOf
<1> QED
  BY <1>1, <1>2, Zenon DEF EncoderAt

-----------------------------------------------------------------------------
(* The first packets of a stream.                                          *)

LEMMA WholeType ==
    ASSUME NEW sz \in Seq(Nat), NEW m \in 0 .. Len(sz)
    PROVE  Whole(sz, m) \in Seq(Seg)
BY WholeFramed DEF Framed

LEMMA WholeSame ==
    ASSUME NEW sz, NEW other, NEW m \in Nat, \A n \in 1 .. m : sz[n] = other[n]
    PROVE  Whole(sz, m) = Whole(other, m)
<1>1. [n \in 1 .. m |-> Lacing(n, sz[n])] = [n \in 1 .. m |-> Lacing(n, other[n])]
  BY Zenon
<1> QED
  BY <1>1, Zenon DEF Whole

LEMMA SegsAssociative ==
    \A x, y, z \in Seq(Seg) : (x \o y) \o z = x \o (y \o z)
<1> TAKE x, y, z \in Seq(Seg)
<1> HIDE DEF Seg
<1> QED
  OBVIOUS

LEMMA WholePrefix ==
    ASSUME NEW sz \in Seq(Nat), NEW m \in Nat, NEW n \in Nat, m <= n, n <= Len(sz)
    PROVE  \E R \in Seq(Seg) : Whole(sz, n) = Whole(sz, m) \o R
<1> DEFINE Good == {d \in Nat : m + d <= Len(sz) => \E R \in Seq(Seg) : Whole(sz, m + d) = Whole(sz, m) \o R}
<1>0. m \in 0 .. Len(sz)
  OBVIOUS
<1>1. Whole(sz, m) \in Seq(Seg)
  BY <1>0, WholeType
<1>2. 0 \in Good
  <2>1. <<>> \in Seq(Seg) /\ Whole(sz, m) \o <<>> = Whole(sz, m) /\ m + 0 = m
    BY <1>1, ConcatEmpty
  <2>2. Whole(sz, m + 0) = Whole(sz, m) \o <<>>
    BY <2>1, Zenon
  <2> QED
    BY <2>1, <2>2
<1>3. ASSUME NEW d \in Nat, d \in Good PROVE d + 1 \in Good
  <2>0. d + 1 \in Nat
    OBVIOUS
  <2> SUFFICES ASSUME m + (d + 1) <= Len(sz)
               PROVE  \E R \in Seq(Seg) : Whole(sz, m + (d + 1)) = Whole(sz, m) \o R
    BY <2>0, Zenon
  <2>1. m + d <= Len(sz) /\ m + d \in Nat /\ m + (d + 1) = (m + d) + 1 /\ (m + d) + 1 \in 1 .. Len(sz)
    OBVIOUS
  <2>2. PICK R \in Seq(Seg) : Whole(sz, m + d) = Whole(sz, m) \o R
    BY <1>3, <2>1
  <2>3. PICK k \in Nat : k = m + d /\ k + 1 <= Len(sz)
    BY <2>1
  <2>4. Whole(sz, k + 1) = Whole(sz, k) \o Lacing(k + 1, sz[k + 1])
    BY <2>3, WholeNext
  <2>5. Lacing(k + 1, sz[k + 1]) \in Seq(Seg)
    <3>1. PICK p \in Nat, z \in Nat : p = k + 1 /\ z = sz[p]
      BY <2>3
    <3>2. Lacing(p, z) \in Seq(Seg)
      BY LacingIs
    <3> QED
      BY <3>1, <3>2, Zenon
  <2>6. PICK L \in Seq(Seg) : L = Lacing(k + 1, sz[k + 1])
    BY <2>5
  <2>7. (Whole(sz, m) \o R) \o L = Whole(sz, m) \o (R \o L) /\ R \o L \in Seq(Seg)
    <3>1. PICK w \in Seq(Seg) : w = Whole(sz, m)
      BY <1>1
    <3>3. (w \o R) \o L = w \o (R \o L)
      <4>1. \A x, y, z \in Seq(Seg) : (x \o y) \o z = x \o (y \o z)
        BY SegsAssociative, Zenon
      <4> QED
        BY <4>1, Zenon
    <3>4. R \o L \in Seq(Seg)
      BY ConcatIs
    <3>2. (w \o R) \o L = w \o (R \o L) /\ R \o L \in Seq(Seg)
      BY <3>3, <3>4
    <3> QED
      BY <3>1, <3>2, Zenon
  <2> QED
    BY <2>1, <2>2, <2>3, <2>4, <2>6, <2>7, Zenon
<1>4. Nat \subseteq Good
  <2> HIDE DEF Good
  <2> QED
    BY <1>2, <1>3, Induction
<1>5. n - m \in Nat /\ m + (n - m) = n
  OBVIOUS
<1>6. n - m \in Good
  BY <1>4, <1>5
<1> QED
  BY <1>5, <1>6

LEMMA DivBelow ==
    ASSUME NEW f \in Nat, NEW s \in Nat \ {0}, NEW m \in Nat, f < s * m
    PROVE  f \div s + 1 <= m
OBVIOUS

\* A packet ends among the segments of the first page.
LEMMA FirstEnds ==
    ASSUME NEW sz \in Seq(Nat), sz # <<>> => sz[1] = FirstSize, NEW m \in 0 .. Len(sz),
           Len(Whole(sz, m)) # 0
    PROVE  \E n \in 1 .. MaxSegs : n <= Len(Whole(sz, m)) /\ Ends(Whole(sz, Len(sz))[n])
<1>1. m # 0
  <2>1. m = 0 => Whole(sz, m) = <<>>
    BY WholeNone, Zenon
  <2>2. Len(<<>>) = 0
    OBVIOUS
  <2> QED
    BY <2>1, <2>2, Zenon
<1>2. PICK f \in Nat : f = FirstSize /\ sz[1] = f /\ 1 <= Len(sz) /\ f < SegMax * MaxSegs
  <2>1. FirstSize \in 0 .. SegMax * MaxSegs - 1 /\ SegMax \in Nat /\ MaxSegs \in Nat
    BY FileAssumption, FramingAssumption
  <2>2. SegMax * MaxSegs \in Nat
    BY <2>1
  <2>3. FirstSize \in Nat /\ FirstSize < SegMax * MaxSegs
    BY <2>1, <2>2
  <2>4. sz # <<>> /\ 1 <= Len(sz)
    BY <1>1
  <2> QED
    BY <2>3, <2>4
<1>3. PICK L : L = Lacing(1, f)
  OBVIOUS
<1>4. /\ L \in Seq(Seg) /\ Len(L) = f \div SegMax + 1 /\ Len(L) \in Nat \ {0}
      /\ Ends(L[Len(L)])
  <2>0. PICK one \in Nat : one = 1
    OBVIOUS
  <2>a. /\ Lacing(one, f) \in Seq(Seg)
        /\ Len(Lacing(one, f)) = f \div SegMax + 1
        /\ Len(Lacing(one, f)) \in Nat \ {0}
        /\ \A i \in 1 .. Len(Lacing(one, f)) :
              /\ Lacing(one, f)[i].packet = one
              /\ Lacing(one, f)[i].first <=> i = 1
              /\ Ends(Lacing(one, f)[i]) <=> i = Len(Lacing(one, f))
    BY LacingIs
  <2>1. /\ Lacing(1, f) \in Seq(Seg)
        /\ Len(Lacing(1, f)) = f \div SegMax + 1
        /\ Len(Lacing(1, f)) \in Nat \ {0}
        /\ \A i \in 1 .. Len(Lacing(1, f)) : Ends(Lacing(1, f)[i]) <=> i = Len(Lacing(1, f))
    BY <2>0, <2>a, Zenon
  <2>2. Len(Lacing(1, f)) \in 1 .. Len(Lacing(1, f))
    BY <2>1
  <2> QED
    BY <1>3, <2>1, <2>2, Zenon
<1>5. Len(L) <= MaxSegs
  <2>1. SegMax \in Nat \ {0} /\ MaxSegs \in Nat
    BY FramingAssumption
  <2>2. f < SegMax * MaxSegs
    BY <1>2, Zenon
  <2>3. f \div SegMax + 1 <= MaxSegs
    BY <2>1, <2>2, DivBelow
  <2> QED
    BY <1>4, <2>3, Zenon
<1>6. Whole(sz, 1) = L
  <2>1. 0 + 1 <= Len(sz) /\ 0 + 1 = 1
    BY <1>2
  <2>2. Whole(sz, 0 + 1) = Whole(sz, 0) \o Lacing(0 + 1, sz[0 + 1])
    BY <2>1, WholeNext
  <2>3. Whole(sz, 0) = <<>>
    BY WholeNone
  <2>4. <<>> \o L = L
    BY <1>4, ConcatEmpty
  <2> QED
    BY <1>2, <1>3, <2>1, <2>2, <2>3, <2>4, Zenon
<1>7. PICK R \in Seq(Seg) : Whole(sz, m) = L \o R
  <2>1. 1 <= m /\ m <= Len(sz) /\ m \in Nat
    BY <1>1
  <2>2. \E R \in Seq(Seg) : Whole(sz, m) = Whole(sz, 1) \o R
    BY <2>1, WholePrefix
  <2> QED
    BY <1>6, <2>2, Zenon
<1>8. PICK Q \in Seq(Seg) : Whole(sz, Len(sz)) = L \o Q
  <2>1. 1 <= Len(sz) /\ Len(sz) \in Nat /\ Len(sz) <= Len(sz)
    BY <1>2
  <2>2. \E Q \in Seq(Seg) : Whole(sz, Len(sz)) = Whole(sz, 1) \o Q
    BY <2>1, WholePrefix
  <2> QED
    BY <1>6, <2>2, Zenon
<1>9. Len(L) <= Len(L \o R) /\ (L \o Q)[Len(L)] = L[Len(L)] /\ Len(L) \in 1 .. MaxSegs
  <2>1. L \in Seq(Seg) /\ Len(L) # 0
    BY <1>4
  <2>2. MaxSegs \in Nat
    BY FramingAssumption
  <2> QED
    BY <1>5, <2>1, <2>2
<1> QED
  BY <1>4, <1>7, <1>8, <1>9, Zenon

-----------------------------------------------------------------------------
(* What a call of the Writer adds to a stream.                             *)

Stream(s) == Whole(sizes[s], Len(sizes[s]))

\* The packets that the encoder has, and their segments.
Held(s) == IF pending[s] = 0 THEN Len(sizes[s]) ELSE Len(sizes[s]) - 1
Given(s) == Len(Whole(sizes[s], Held(s)))

SizesAt(s) == sizes[s] \in Seq(Nat) /\ (sizes[s] # <<>> => sizes[s][1] = FirstSize)

PagedAt(s, off) == Offsets(off, Stream(s)) /\ FirstPage(off, Stream(s))

WriterAt(s, off) ==
    /\ pending[s] \in {0, Len(sizes[s])}
    /\ EncoderAt(encs[s], Stream(s), off, Given(s))
    /\ encs[s].eos = FALSE

HasPacket(new, enc, p, z, eos) ==
    /\ new \in Encoder
    /\ new.lacing = enc.lacing \o Lacing(p, z)
    /\ new.begun = enc.begun
    /\ new.eos = eos
    /\ new.pageno = enc.pageno

LEMMA PacketInIs ==
    ASSUME NEW enc \in Encoder, NEW p \in Nat, NEW z \in Nat, NEW eos \in BOOLEAN, enc.eos = FALSE
    PROVE  HasPacket(PacketIn(enc, p, z, eos), enc, p, z, eos)
<1>1. enc.lacing \in Seq(Seg)
  BY DEF Encoder
<1>2. enc.lacing \o Lacing(p, z) \in Seq(Seg)
  <2>1. PICK l \in Seq(Seg) : l = enc.lacing
    BY <1>1
  <2>2. PICK n \in Seq(Seg) : n = Lacing(p, z)
    BY LacingIs
  <2>3. l \o n \in Seq(Seg)
    BY ConcatIs
  <2> QED
    BY <2>1, <2>2, <2>3, Zenon
<1>3. PICK x \in Seq(Seg) : x = enc.lacing \o Lacing(p, z)
  BY <1>2
<1>4. PICK y \in BOOLEAN : y = (enc.eos \/ eos)
  OBVIOUS
<1>5. y = eos
  BY <1>4
<1>6. PICK w : w = [enc EXCEPT !.lacing = x, !.eos = y]
  OBVIOUS
<1>7. w = PacketIn(enc, p, z, eos)
  BY <1>3, <1>4, <1>6, Zenon DEF PacketIn
<1>8. w \in Encoder
  BY <1>6 DEF Encoder
<1>9. w.lacing = x /\ w.begun = enc.begun /\ w.eos = y /\ w.pageno = enc.pageno
  BY <1>6 DEF Encoder
<1> QED
  BY <1>3, <1>5, <1>7, <1>8, <1>9, Zenon DEF HasPacket

LEMMA StreamIs ==
    ASSUME NEW s, SizesAt(s)
    PROVE  Stream(s) \in Seq(Seg) /\ Len(Stream(s)) \in Nat /\ Framed(Stream(s), sizes[s])
<1>1. PICK sz \in Seq(Nat) : sz = sizes[s]
  BY DEF SizesAt
<1>2. Len(sz) \in 0 .. Len(sz)
  OBVIOUS
<1>3. Framed(Whole(sz, Len(sz)), sz)
  BY <1>2, WholeFramed
<1>4. PICK T : T = Whole(sz, Len(sz))
  OBVIOUS
<1>5. T \in Seq(Seg) /\ Len(T) \in Nat
  <2>1. T \in Seq(Seg)
    BY <1>3, <1>4, Zenon DEF Framed
  <2> QED
    BY <2>1
<1> QED
  BY <1>1, <1>3, <1>4, <1>5, Zenon DEF Stream

LEMMA OffsetsIs ==
    ASSUME NEW off, NEW T, Offsets(off, T)
    PROVE  Len(off) - 1 \in Nat /\ Len(off) \in Nat /\ off[Len(off)] \in Nat
<1>1. off \in Seq(Nat) /\ Len(off) # 0
  BY Zenon DEF Offsets
<1> QED
  BY <1>1

LEMMA SubmittedOut ==
    ASSUME NEW s \in Streams, NEW off, SizesAt(s), PagedAt(s, off), WriterAt(s, off), NEW eos \in BOOLEAN
    PROVE  \E more :
              /\ OutAt(Submitted(s, eos), Len(off) - 1, s, Stream(s), more, Len(Stream(s)), eos /\ pending[s] # 0)
              /\ Extends(more, off)
<1>1. PICK sz \in Seq(Nat) : sz = sizes[s] /\ (sz # <<>> => sz[1] = FirstSize)
  BY DEF SizesAt
<1>2. PICK T \in Seq(Seg) : T = Stream(s) /\ T = Whole(sz, Len(sz)) /\ Len(T) \in Nat
  BY <1>1, StreamIs, Zenon DEF Stream
<1>3. PICK base \in Nat : base = Len(off) - 1
  BY OffsetsIs, Zenon DEF PagedAt
<1>4. \A c, e : PagesAt(<<>>, base, s, T, off, c, e)
  <2>1. <<>> \in Seq(PageSet) /\ Len(<<>>) = 0 /\ \A i \in 1 .. Len(<<>>) : FALSE
    OBVIOUS
  <2>2. base + 0 = Len(off) - 1
    BY <1>3
  <2> QED
    BY <2>1, <2>2, Zenon DEF PagesAt
<1>5. CASE pending[s] = 0
  <2>1. Submitted(s, eos) = [enc |-> encs[s], pages |-> <<>>]
    BY <1>5, Zenon DEF Submitted
  <2>2. [enc |-> encs[s], pages |-> <<>>].enc = encs[s] /\ [enc |-> encs[s], pages |-> <<>>].pages = <<>>
    OBVIOUS
  <2>3. Given(s) = Len(T)
    BY <1>1, <1>2, <1>5, Zenon DEF Given, Held
  <2>4. (eos /\ pending[s] # 0) = FALSE
    BY <1>5
  <2>5. Extends(off, off)
    <3>1. Len(off) \in Nat
      BY OffsetsIs, Zenon DEF PagedAt
    <3>2. Len(off) <= Len(off)
      BY <3>1
    <3> QED
      BY <3>2, Zenon DEF Extends
  <2>6. OutAt(Submitted(s, eos), base, s, T, off, Len(T), FALSE)
    BY <1>2, <1>4, <2>1, <2>2, <2>3, Zenon DEF OutAt, PagedAt, WriterAt
  <2> QED
    BY <1>2, <1>3, <2>4, <2>5, <2>6, Zenon
<1>6. CASE pending[s] # 0
  <2>1. PICK p \in Nat, m \in Nat : p = pending[s] /\ p = Len(sz) /\ p # 0 /\ m + 1 = p /\ m = p - 1
    <3>1. pending[s] = Len(sz)
      BY <1>1, <1>6, Zenon DEF WriterAt
    <3>2. Len(sz) \in Nat /\ Len(sz) # 0
      BY <1>6, <3>1
    <3>3. Len(sz) - 1 \in Nat /\ (Len(sz) - 1) + 1 = Len(sz)
      BY <3>2
    <3> QED
      BY <3>1, <3>2, <3>3, Zenon
  <2>2. PICK z \in Nat : z = sz[p]
    <3>1. p \in 1 .. Len(sz)
      BY <2>1
    <3> QED
      BY <3>1
  <2>3. PICK W \in Seq(Seg), L \in Seq(Seg) : W = Whole(sz, m) /\ L = Lacing(p, z) /\ T = W \o L
    <3>1. m + 1 <= Len(sz)
      BY <2>1
    <3>2. Whole(sz, m) \in Seq(Seg) /\ Whole(sz, m + 1) = Whole(sz, m) \o Lacing(m + 1, sz[m + 1])
      BY <3>1, WholeNext
    <3>3. Lacing(p, z) \in Seq(Seg)
      BY LacingIs
    <3> QED
      BY <1>2, <2>1, <2>2, <3>2, <3>3, Zenon
  <2>4. PICK c \in Nat : c = Given(s) /\ c = Len(W)
    <3>1. Held(s) = m
      BY <1>1, <1>6, <2>1, Zenon DEF Held
    <3>2. Given(s) = Len(W)
      BY <1>1, <2>3, <3>1, Zenon DEF Given
    <3> QED
      BY <3>2
  <2>5. PICK o \in Nat : o = off[Len(off)] /\ o <= c
    BY <2>4, OffsetsIs, Zenon DEF PagedAt, WriterAt, EncoderAt
  <2>6. PICK enc : enc = PacketIn(encs[s], p, z, eos)
    OBVIOUS
  <2>7. /\ enc \in Encoder
        /\ enc.lacing = encs[s].lacing \o L
        /\ enc.begun = encs[s].begun
        /\ enc.eos = eos
        /\ enc.pageno = encs[s].pageno
    <3>1. PICK e \in Encoder : e = encs[s] /\ e.eos = FALSE
      BY Zenon DEF WriterAt, EncoderAt
    <3>a. e.eos = FALSE
      BY <3>1, Zenon
    <3>3. HasPacket(PacketIn(e, p, z, eos), e, p, z, eos)
      BY <3>a, PacketInIs, Zenon
    <3> QED
      BY <2>3, <2>6, <3>1, <3>3, Zenon DEF HasPacket
  <2>8. encs[s].lacing = SubSeq(W, o + 1, Len(W))
    <3>1. encs[s].lacing = SubSeq(T, o + 1, c)
      BY <1>2, <2>4, <2>5, Zenon DEF WriterAt, EncoderAt
    <3>2. c <= Len(W)
      BY <2>4
    <3>3. SubSeq(W \o L, o + 1, c) = SubSeq(W, o + 1, c)
      <4>1. o <= c
        BY <2>5, Zenon
      <4> QED
        BY <3>2, <4>1, CutOf
    <3> QED
      BY <2>3, <2>4, <3>1, <3>3, Zenon
  <2>9. enc.lacing = SubSeq(T, o + 1, Len(T))
    <3>1. o \in 0 .. Len(W)
      BY <2>4, <2>5
    <3>2. SubSeq(W \o L, o + 1, Len(W \o L)) = SubSeq(W, o + 1, Len(W)) \o L
      BY <3>1, CutConcat
    <3> QED
      BY <2>3, <2>7, <2>8, <3>2, Zenon
  <2>10. o <= Len(T)
    <3>1. Len(T) = Len(W) + Len(L)
      BY <2>3, ConcatIs
    <3>2. Len(W) \in Nat /\ Len(L) \in Nat /\ o <= Len(W)
      BY <2>4, <2>5
    <3> QED
      BY <3>1, <3>2
  <2>11. EncoderAt(enc, T, off, Len(T))
    BY <2>5, <2>7, <2>9, <2>10, Zenon DEF WriterAt, EncoderAt
  <2>12. PICK t \in Nat : t = Len(T) /\ t <= Len(T)
    OBVIOUS
  <2>13. t # 0 => \E n \in 1 .. MaxSegs : n <= t /\ Ends(T[n])
    <3>1. Len(sz) \in 0 .. Len(sz)
      OBVIOUS
    <3> QED
      BY <1>1, <1>2, <2>12, <3>1, FirstEnds, Zenon
  <2>14. Submitted(s, eos) = Drained(enc, s, FALSE, <<>>)
    BY <1>1, <1>6, <2>1, <2>2, <2>6, Zenon DEF Submitted
  <2>15. Ready(enc, <<>>, base, s, T, off, t, eos)
    BY <1>2, <1>4, <2>7, <2>11, <2>12, Zenon DEF PagedAt, Ready
  <2>b. Soon(T, t)
    BY <2>13, Zenon DEF Soon
  <2>a. t <= Len(T)
    BY <2>12, Zenon
  <2>16. \E more : /\ OutAt(Drained(enc, s, FALSE, <<>>), base, s, T, more, t, eos)
                   /\ Extends(more, off)
    <3>1. FALSE \in BOOLEAN
      OBVIOUS
    <3>2. DrainedAt(Drained(enc, s, FALSE, <<>>), base, s, T, off, t, eos, FALSE)
      BY <2>a, <2>b, <2>15, <3>1, DrainedTo, Zenon
    <3> QED
      BY <3>2, Zenon DEF DrainedAt
  <2>17. (eos /\ pending[s] # 0) = eos
    BY <1>6
  <2> QED
    BY <1>2, <1>3, <2>12, <2>14, <2>16, <2>17, Zenon
<1> QED
  BY <1>5, <1>6

\* A flush writes all there is of it.
LEMMA FlushedOut ==
    ASSUME NEW s \in Streams, NEW off, SizesAt(s), PagedAt(s, off), WriterAt(s, off), NEW eos \in BOOLEAN
    PROVE  \E more :
              /\ OutAt(Flushed(s, eos), Len(off) - 1, s, Stream(s), more, Len(Stream(s)), eos /\ pending[s] # 0)
              /\ Extends(more, off)
              /\ more[Len(more)] = Len(Stream(s))
<1>1. PICK sub : sub = Submitted(s, eos)
  OBVIOUS
<1>2. PICK T \in Seq(Seg), t \in Nat : T = Stream(s) /\ t = Len(T) /\ t <= Len(T)
  <2>1. Stream(s) \in Seq(Seg) /\ Len(Stream(s)) \in Nat
    BY StreamIs, Zenon
  <2>2. Len(Stream(s)) <= Len(Stream(s))
    BY <2>1
  <2> QED
    BY <2>1, <2>2, Zenon
<1>3. PICK base \in Nat, end \in BOOLEAN : base = Len(off) - 1 /\ end = (eos /\ pending[s] # 0)
  BY OffsetsIs, Zenon DEF PagedAt
<1>4. PICK mid : OutAt(sub, base, s, T, mid, t, end) /\ Extends(mid, off)
  <2>1. \E more :
              /\ OutAt(Submitted(s, eos), Len(off) - 1, s, Stream(s), more, Len(Stream(s)), eos /\ pending[s] # 0)
              /\ Extends(more, off)
    BY SubmittedOut
  <2> QED
    BY <1>1, <1>2, <1>3, <2>1, Zenon
<1>5. t # 0 => \E n \in 1 .. MaxSegs : n <= t /\ Ends(T[n])
  <2>1. PICK sz \in Seq(Nat) : sz = sizes[s] /\ (sz # <<>> => sz[1] = FirstSize)
    BY DEF SizesAt
  <2>2. Len(sz) \in 0 .. Len(sz)
    OBVIOUS
  <2> QED
    BY <1>2, <2>1, <2>2, FirstEnds, Zenon DEF Stream
<1>6. PICK enc, pages : enc = sub.enc /\ pages = sub.pages
  OBVIOUS
<1>7. Flushed(s, eos) = Drained(enc, s, TRUE, pages)
  BY <1>1, <1>6, Zenon DEF Flushed
<1>8. Ready(enc, pages, base, s, T, mid, t, end) /\ Soon(T, t) /\ Offsets(mid, T)
  BY <1>4, <1>5, <1>6, Zenon DEF OutAt, Ready, Soon
<1>9. PICK more : /\ OutAt(Drained(enc, s, TRUE, pages), base, s, T, more, t, end)
                  /\ Extends(more, mid)
                  /\ Drained(enc, s, TRUE, pages).enc.lacing = <<>>
  <2>a. t <= Len(T)
    BY <1>2, Zenon
  <2>1. TRUE \in BOOLEAN
    OBVIOUS
  <2>2. DrainedAt(Drained(enc, s, TRUE, pages), base, s, T, mid, t, end, TRUE)
    BY <2>a, <1>8, <2>1, DrainedTo, Zenon
  <2> QED
    BY <2>2, Zenon DEF DrainedAt
<1>10. PICK out : out = Drained(enc, s, TRUE, pages)
  OBVIOUS
<1>11. Offsets(more, T) /\ EncoderAt(out.enc, T, more, t) /\ out.enc.lacing = <<>>
  BY <1>9, <1>10, Zenon DEF OutAt
<1>12. more[Len(more)] = t
  <2>1. PICK o \in Nat : o = more[Len(more)] /\ o <= t
    BY <1>11, OffsetsIs, Zenon DEF EncoderAt
  <2>2. SubSeq(T, o + 1, t) = <<>>
    BY <1>11, <2>1, Zenon DEF EncoderAt
  <2>3. o \in 0 .. Len(T) /\ t \in o .. Len(T)
    BY <1>2, <2>1
  <2>4. Len(SubSeq(T, o + 1, t)) = t - o
    BY <2>3, CutType
  <2>5. t - o = 0
    BY <2>2, <2>4
  <2>6. o = t
    BY <2>5
  <2> QED
    BY <2>1, <2>6, Zenon
<1>13. Extends(more, off)
  <2>1. Len(off) \in Nat /\ Len(mid) \in Nat /\ Len(more) \in Nat
    BY <1>8, <1>11, OffsetsIs, Zenon DEF PagedAt
  <2> QED
    BY <1>4, <1>9, <2>1, ExtendsOn, Zenon
<1> QED
  BY <1>2, <1>3, <1>7, <1>9, <1>12, <1>13, Zenon

-----------------------------------------------------------------------------
(* A file: of each stream it has the pages there are, in their order.      *)

FileAt(pages, s, T, off) ==
    /\ \A i \in 1 .. Len(pages) : pages[i].serial = s => PageLaid(pages[i], T, off)
    /\ \A i, j \in 1 .. Len(pages) :
          i < j /\ pages[i].serial = s /\ pages[j].serial = s => pages[i].no < pages[j].no
    /\ \A n \in 0 .. Len(off) - 2 :
          \E i \in 1 .. Len(pages) : pages[i].serial = s /\ pages[i].no = n

LEMMA FileGrows ==
    ASSUME NEW T \in Seq(Seg), NEW R \in Seq(Seg), NEW off, Offsets(off, T),
           NEW pages, NEW s, FileAt(pages, s, T, off)
    PROVE  FileAt(pages, s, T \o R, off)
<1>1. ASSUME NEW i \in 1 .. Len(pages), pages[i].serial = s PROVE PageLaid(pages[i], T \o R, off)
  <2>1. PageLaid(pages[i], T, off)
    BY <1>1, Zenon DEF FileAt
  <2> QED
    BY <2>1, LaidGrows
<1> QED
  BY <1>1, Zenon DEF FileAt

\* Each page is one of the first or one of the rest.
LEMMA ConcatEither ==
    ASSUME NEW S, NEW a \in Seq(S), NEW b \in Seq(S), NEW i \in 1 .. Len(a \o b)
    PROVE  \/ i \in 1 .. Len(a) /\ (a \o b)[i] = a[i]
           \/ \E j \in 1 .. Len(b) : i = Len(a) + j /\ (a \o b)[i] = b[j]
<1>1. PICK m \in Nat, n \in Nat : m = Len(a) /\ n = Len(b)
  OBVIOUS
<1>2. /\ Len(a \o b) = m + n
      /\ \A k \in 1 .. m : (a \o b)[k] = a[k]
      /\ \A k \in 1 .. n : (a \o b)[m + k] = b[k]
  BY <1>1, ConcatIs
<1>3. i \in 1 .. m \/ \E j \in 1 .. n : i = m + j
  <2>1. i \in 1 .. m + n
    BY <1>2, Zenon
  <2>2. i \in 1 .. m \/ (i - m \in 1 .. n /\ i = m + (i - m))
    BY <2>1
  <2> QED
    BY <2>2, Zenon
<1> QED
  BY <1>1, <1>2, <1>3, Zenon

LEMMA FileOther ==
    ASSUME NEW T, NEW off, NEW pages \in Seq(PageSet), NEW s, FileAt(pages, s, T, off),
           NEW new \in Seq(PageSet), \A i \in 1 .. Len(new) : new[i].serial # s
    PROVE  FileAt(pages \o new, s, T, off)
<1>1. PICK m \in Nat, n \in Nat : m = Len(pages) /\ n = Len(new)
  OBVIOUS
<1>2. PICK all : all = pages \o new
  OBVIOUS
<1>3. Len(all) = m + n /\ \A k \in 1 .. m : all[k] = pages[k]
  BY <1>1, <1>2, ConcatIs
<1>4. \A i \in 1 .. Len(all) : all[i].serial = s => i \in 1 .. m /\ all[i] = pages[i]
  <2>1. \A i \in 1 .. Len(pages \o new) :
           \/ i \in 1 .. Len(pages) /\ (pages \o new)[i] = pages[i]
           \/ \E j \in 1 .. Len(new) : i = Len(pages) + j /\ (pages \o new)[i] = new[j]
    BY ConcatEither
  <2> QED
    BY <1>1, <1>2, <2>1, Zenon
<1>5. \A i \in 1 .. m : i \in 1 .. Len(all)
  BY <1>3
<1>6. \A i \in 1 .. Len(all) : all[i].serial = s => PageLaid(all[i], T, off)
  BY <1>1, <1>4, Zenon DEF FileAt
<1>7. \A i, j \in 1 .. Len(all) :
          i < j /\ all[i].serial = s /\ all[j].serial = s => all[i].no < all[j].no
  BY <1>1, <1>4, Zenon DEF FileAt
<1>8. \A k \in 0 .. Len(off) - 2 : \E i \in 1 .. Len(all) : all[i].serial = s /\ all[i].no = k
  BY <1>1, <1>3, <1>5, Zenon DEF FileAt
<1> QED
  BY <1>2, <1>6, <1>7, <1>8, Zenon DEF FileAt

LEMMA FileAppended ==
    ASSUME NEW T, NEW off, Offsets(off, T), NEW more, Offsets(more, T), Extends(more, off),
           NEW pages \in Seq(PageSet), NEW s, FileAt(pages, s, T, off),
           NEW c, NEW eos, NEW new, PagesAt(new, Len(off) - 1, s, T, more, c, eos)
    PROVE  FileAt(pages \o new, s, T, more)
<1>0. new \in Seq(PageSet)
  BY Zenon DEF PagesAt
<1>1. PICK m \in Nat, n \in Nat : m = Len(pages) /\ n = Len(new)
  BY <1>0
<1>2. PICK base \in Nat : base = Len(off) - 1
  BY OffsetsIs, Zenon
<1>3. PICK all : all = pages \o new
  OBVIOUS
<1>4. /\ Len(all) = m + n /\ \A k \in 1 .. m : all[k] = pages[k]
      /\ \A k \in 1 .. n : all[m + k] = new[k]
  BY <1>0, <1>1, <1>3, ConcatIs
<1>5. \A i \in 1 .. Len(all) : (i \in 1 .. m /\ all[i] = pages[i]) \/ \E j \in 1 .. n : i = m + j /\ all[i] = new[j]
  <2>1. \A i \in 1 .. Len(pages \o new) :
           \/ i \in 1 .. Len(pages) /\ (pages \o new)[i] = pages[i]
           \/ \E j \in 1 .. Len(new) : i = Len(pages) + j /\ (pages \o new)[i] = new[j]
    BY <1>0, ConcatEither
  <2> QED
    BY <1>1, <1>3, <2>1, Zenon
<1>6. /\ base + n = Len(more) - 1
      /\ \A i \in 1 .. n : new[i].serial = s /\ new[i].no = base + i - 1 /\ PageLaid(new[i], T, more)
  BY <1>1, <1>2, Zenon DEF PagesAt
<1>7. Len(more) \in Nat /\ Len(off) \in Nat
  BY OffsetsIs, Zenon
<1>8. \A i \in 1 .. m : pages[i].serial = s => PageLaid(pages[i], T, off) /\ PageLaid(pages[i], T, more)
  <2>1. ASSUME NEW i \in 1 .. m, pages[i].serial = s PROVE PageLaid(pages[i], T, off) /\ PageLaid(pages[i], T, more)
    <3>1. PageLaid(pages[i], T, off)
      BY <1>1, <2>1, Zenon DEF FileAt
    <3>2. PageLaid(pages[i], T, more)
      BY <1>7, <3>1, LaidLater
    <3> QED
      BY <3>1, <3>2, Zenon
  <2> QED
    BY <2>1, Zenon
<1>9. \A i \in 1 .. Len(all) : all[i].serial = s => PageLaid(all[i], T, more)
  BY <1>5, <1>6, <1>8, Zenon
<1>10. ASSUME NEW i \in 1 .. Len(all), NEW j \in 1 .. Len(all), i < j, all[i].serial = s, all[j].serial = s
       PROVE  all[i].no < all[j].no
  <2>1. CASE i \in 1 .. m /\ all[i] = pages[i] /\ j \in 1 .. m /\ all[j] = pages[j]
    <3>1. pages[i].no < pages[j].no
      BY <1>1, <1>10, <2>1, Zenon DEF FileAt
    <3> QED
      BY <2>1, <3>1, Zenon
  <2>2. CASE i \in 1 .. m /\ all[i] = pages[i] /\ \E l \in 1 .. n : j = m + l /\ all[j] = new[l]
    <3>1. PICK l \in 1 .. n : j = m + l /\ all[j] = new[l]
      BY <2>2
    <3>2. PageLaid(pages[i], T, off)
      BY <1>8, <1>10, <2>2, Zenon
    <3>3. PICK a \in Nat : a = all[i].no /\ a + 1 < Len(off)
      BY <2>2, <3>2, Zenon DEF PageLaid
    <3>4. PICK b \in Int : b = base + l - 1 /\ b = all[j].no
      <4>1. base + l - 1 \in Int
        OBVIOUS
      <4> QED
        BY <1>6, <3>1, <4>1, Zenon
    <3>5. a < b
      <4>1. PICK w \in Nat : w = Len(off)
        BY <1>7
      <4>2. base = w - 1 /\ a + 1 < w /\ b = base + l - 1
        BY <1>2, <3>3, <3>4, <4>1, Zenon
      <4> QED
        BY <4>2
    <3> QED
      BY <3>3, <3>4, <3>5, Zenon
  <2>3. CASE \E k \in 1 .. n : i = m + k /\ all[i] = new[k]
    <3>1. PICK k \in 1 .. n : i = m + k /\ all[i] = new[k]
      BY <2>3
    <3>2. ~(j \in 1 .. m)
      BY <1>10, <3>1
    <3>3. PICK l \in 1 .. n : j = m + l /\ all[j] = new[l]
      BY <1>5, <3>2, Zenon
    <3>4. base + k - 1 < base + l - 1
      <4>1. i = m + k /\ j = m + l /\ i < j
        BY <1>10, <3>1, <3>3, Zenon
      <4> QED
        BY <4>1
    <3> QED
      BY <1>6, <3>1, <3>3, <3>4, Zenon
  <2> QED
    BY <1>5, <2>1, <2>2, <2>3, Zenon
<1>11. ASSUME NEW k \in 0 .. Len(more) - 2
       PROVE  \E i \in 1 .. Len(all) : all[i].serial = s /\ all[i].no = k
  <2>1. CASE k \in 0 .. Len(off) - 2
    <3>1. \A i \in 1 .. m : i \in 1 .. Len(all)
      BY <1>4
    <3> QED
      BY <1>1, <1>4, <2>1, <3>1, Zenon DEF FileAt
  <2>2. CASE k \notin 0 .. Len(off) - 2
    <3>1. PICK w \in Nat, v \in Nat : w = Len(off) /\ v = Len(more)
      BY <1>7
    <3>2. base = w - 1 /\ base + n = v - 1 /\ k \in 0 .. v - 2 /\ k \notin 0 .. w - 2
      BY <1>2, <1>6, <2>2, <3>1, Zenon
    <3>3. PICK l \in 1 .. n : k = base + l - 1
      <4>1. k - base + 1 \in 1 .. n /\ k = base + (k - base + 1) - 1
        BY <3>2
      <4> QED
        BY <4>1, Zenon
    <3>4. m + l \in 1 .. Len(all) /\ all[m + l] = new[l]
      BY <1>4
    <3> QED
      BY <1>6, <3>3, <3>4, Zenon
  <2> QED
    BY <2>1, <2>2
<1> QED
  BY <1>3, <1>9, <1>10, <1>11, Zenon DEF FileAt

-----------------------------------------------------------------------------
(* The calls of the Writer.                                                *)

\* No page of the stream says that it is the last.
Open(pages, s) == \A i \in 1 .. Len(pages) : pages[i].serial = s => ~pages[i].eos

StreamAt(s, off) == SizesAt(s) /\ PagedAt(s, off) /\ FileAt(file, s, Stream(s), off)

Written(s) == \E off : StreamAt(s, off) /\ (Writing => WriterAt(s, off) /\ Open(file, s))

WriterTypes ==
    /\ encs \in [Streams -> Encoder] /\ pending \in [Streams -> Nat]
    /\ eosFlag \in [Streams -> BOOLEAN] /\ closed \in BOOLEAN
    /\ file \in Seq(PageSet) /\ sizes \in [Streams -> Seq(Nat)]

LEMMA OpenConcat ==
    ASSUME NEW a \in Seq(PageSet), NEW b \in Seq(PageSet), NEW s, Open(a, s), Open(b, s)
    PROVE  Open(a \o b, s)
<1>1. \A i \in 1 .. Len(a \o b) :
          \/ i \in 1 .. Len(a) /\ (a \o b)[i] = a[i]
          \/ \E j \in 1 .. Len(b) : i = Len(a) + j /\ (a \o b)[i] = b[j]
  BY ConcatEither
<1> QED
  BY <1>1, Zenon DEF Open

WrittenTo(out, s, more, eos) ==
    /\ out.pages \in Seq(PageSet)
    /\ \A i \in 1 .. Len(out.pages) : out.pages[i].serial = s
    /\ FileAt(file \o out.pages, s, Stream(s), more)
    /\ PagedAt(s, more)
    /\ EncoderAt(out.enc, Stream(s), more, Len(Stream(s))) /\ out.enc.eos = eos
    /\ ~eos /\ Open(file, s) => Open(file \o out.pages, s)

LEMMA PagesWritten ==
    ASSUME NEW s, NEW off, StreamAt(s, off), file \in Seq(PageSet),
           NEW out, NEW more, NEW eos,
           OutAt(out, Len(off) - 1, s, Stream(s), more, Len(Stream(s)), eos), Extends(more, off)
    PROVE  WrittenTo(out, s, more, eos)
<1>1. /\ PagesAt(out.pages, Len(off) - 1, s, Stream(s), more, Len(Stream(s)), eos)
      /\ Offsets(more, Stream(s)) /\ FirstPage(more, Stream(s))
      /\ EncoderAt(out.enc, Stream(s), more, Len(Stream(s))) /\ out.enc.eos = eos
  BY Zenon DEF OutAt
<1>2. Offsets(off, Stream(s)) /\ FileAt(file, s, Stream(s), off)
  BY Zenon DEF StreamAt, PagedAt
<1>3. FileAt(file \o out.pages, s, Stream(s), more)
  BY <1>1, <1>2, FileAppended
<1>4. out.pages \in Seq(PageSet) /\ \A i \in 1 .. Len(out.pages) : out.pages[i].serial = s
  BY <1>1, Zenon DEF PagesAt
<1>5. ~eos /\ Open(file, s) => Open(file \o out.pages, s)
  <2>1. ASSUME ~eos, Open(file, s) PROVE Open(file \o out.pages, s)
    <3>1. Open(out.pages, s)
      BY <1>1, <2>1, Zenon DEF PagesAt, Open
    <3> QED
      BY <1>4, <2>1, <3>1, OpenConcat
  <2> QED
    BY <2>1, Zenon
<1> QED
  BY <1>1, <1>3, <1>4, <1>5, Zenon DEF PagedAt, WrittenTo

LEMMA OthersWritten ==
    ASSUME NEW t, NEW off, StreamAt(t, off), file \in Seq(PageSet),
           NEW new \in Seq(PageSet), \A i \in 1 .. Len(new) : new[i].serial # t
    PROVE  /\ FileAt(file \o new, t, Stream(t), off)
           /\ Open(file, t) => Open(file \o new, t)
<1>1. FileAt(file, t, Stream(t), off)
  BY Zenon DEF StreamAt
<1>2. FileAt(file \o new, t, Stream(t), off)
  BY <1>1, FileOther
<1>3. Open(new, t)
  BY Zenon DEF Open
<1>4. Open(file, t) => Open(file \o new, t)
  BY <1>3, OpenConcat
<1> QED
  BY <1>2, <1>4

\* What is written for one stream is nothing to another.
LEMMA OtherKept ==
    ASSUME WriterTypes, NEW t \in Streams, Written(t), Writing,
           NEW new \in Seq(PageSet), \A i \in 1 .. Len(new) : new[i].serial # t,
           file' = file \o new,
           sizes'[t] = sizes[t], pending'[t] = pending[t], encs'[t] = encs[t]
    PROVE  Written(t)'
<1>1. PICK off : StreamAt(t, off) /\ WriterAt(t, off) /\ Open(file, t)
  BY Zenon DEF Written
<1>2. file \in Seq(PageSet)
  BY Zenon DEF WriterTypes
<1>3. FileAt(file', t, Stream(t), off) /\ Open(file', t)
  <2>1. FileAt(file \o new, t, Stream(t), off) /\ (Open(file, t) => Open(file \o new, t))
    BY <1>1, <1>2, OthersWritten
  <2> QED
    BY <1>1, <2>1, Zenon
<1>4. Stream(t)' = Stream(t) /\ Given(t)' = Given(t)
  BY Zenon DEF Stream, Given, Held
<1>5. StreamAt(t, off)'
  BY <1>1, <1>3, <1>4, Zenon DEF StreamAt, SizesAt, PagedAt
<1>6. WriterAt(t, off)'
  BY <1>1, <1>4, Zenon DEF WriterAt
<1>7. Open(file, t)'
  BY <1>3, Zenon
<1> QED
  BY <1>5, <1>6, <1>7, Zenon DEF Written

LEMMA StreamMore ==
    ASSUME NEW sz \in Seq(Nat), NEW size \in Nat
    PROVE  /\ Whole(Append(sz, size), Len(sz)) = Whole(sz, Len(sz))
           /\ Whole(Append(sz, size), Len(sz) + 1) = Whole(sz, Len(sz)) \o Lacing(Len(sz) + 1, size)
<1>1. PICK n \in Nat : n = Len(sz)
  OBVIOUS
<1>2. PICK new \in Seq(Nat) : new = Append(sz, size)
  <2>1. Append(sz, size) \in Seq(Nat)
    OBVIOUS
  <2> QED
    BY <2>1, Zenon
<1>3. Len(new) = n + 1 /\ new[n + 1] = size /\ \A i \in 1 .. n : new[i] = sz[i]
  BY <1>1, <1>2
<1>4. Whole(new, n) = Whole(sz, n)
  BY <1>3, WholeSame
<1>5. n + 1 <= Len(new)
  BY <1>3
<1>6. Whole(new, n + 1) = Whole(new, n) \o Lacing(n + 1, new[n + 1])
  BY <1>5, WholeNext
<1> QED
  BY <1>1, <1>2, <1>3, <1>4, <1>6, Zenon

LEMMA WritePacketKeeps ==
    ASSUME WriterTypes, \A t \in Streams : Written(t),
           NEW s \in Streams, NEW size \in Sizes \cup {FirstSize}, WritePacket(s, size)
    PROVE  WriterTypes' /\ \A t \in Streams : Written(t)'
<1>1. PICK sub : sub = Submitted(s, FALSE)
  OBVIOUS
<1>2. /\ Writing /\ size \in (IF sizes[s] = <<>> THEN {FirstSize} ELSE Sizes)
      /\ encs' = [encs EXCEPT ![s] = sub.enc]
      /\ file' = file \o sub.pages
      /\ pending' = [pending EXCEPT ![s] = Len(sizes[s]) + 1]
      /\ sizes' = [sizes EXCEPT ![s] = Append(@, size)]
      /\ eosFlag' = eosFlag /\ closed' = closed
  BY <1>1, Zenon DEF WritePacket
<1>3. PICK off : StreamAt(s, off) /\ WriterAt(s, off) /\ Open(file, s)
  BY <1>2, Zenon DEF Written
<1>4. /\ encs \in [Streams -> Encoder] /\ pending \in [Streams -> Nat]
      /\ eosFlag \in [Streams -> BOOLEAN] /\ closed \in BOOLEAN
      /\ file \in Seq(PageSet) /\ sizes \in [Streams -> Seq(Nat)]
  BY Zenon DEF WriterTypes
<1>5. PICK more : OutAt(sub, Len(off) - 1, s, Stream(s), more, Len(Stream(s)), FALSE) /\ Extends(more, off)
  <2>1. FALSE \in BOOLEAN /\ (FALSE /\ pending[s] # 0) = FALSE
    OBVIOUS
  <2>2. SizesAt(s) /\ PagedAt(s, off) /\ WriterAt(s, off)
    BY <1>3, Zenon DEF StreamAt
  <2>3. \E m :
              /\ OutAt(Submitted(s, FALSE), Len(off) - 1, s, Stream(s), m, Len(Stream(s)), FALSE /\ pending[s] # 0)
              /\ Extends(m, off)
    BY <2>1, <2>2, SubmittedOut
  <2> QED
    BY <1>1, <2>1, <2>3, Zenon
<1>6. /\ sub.pages \in Seq(PageSet)
      /\ \A i \in 1 .. Len(sub.pages) : sub.pages[i].serial = s
      /\ FileAt(file \o sub.pages, s, Stream(s), more)
      /\ PagedAt(s, more)
      /\ EncoderAt(sub.enc, Stream(s), more, Len(Stream(s))) /\ sub.enc.eos = FALSE
      /\ Open(file \o sub.pages, s)
  <2>1. WrittenTo(sub, s, more, FALSE)
    BY <1>3, <1>4, <1>5, PagesWritten, Zenon
  <2> QED
    BY <1>3, <2>1, Zenon DEF WrittenTo
<1>7. PICK n \in Nat, sz \in Seq(Nat) : n = Len(sz) /\ sz = sizes[s]
  BY <1>4
<1>8. size \in Nat /\ (sz = <<>> => size = FirstSize)
  <2>1. FirstSize \in Nat /\ Sizes \subseteq Nat
    <3>1. SegMax * MaxSegs - 1 \in Int
      BY FramingAssumption
    <3> QED
      BY <3>1, FileAssumption
  <2> QED
    BY <1>2, <1>7, <2>1
<1>9. PICK U \in Seq(Seg), R \in Seq(Seg) : U = Stream(s) /\ R = Lacing(n + 1, size)
  <2>1. Stream(s) \in Seq(Seg)
    BY <1>3, StreamIs, Zenon DEF StreamAt
  <2>2. PICK m \in Nat, z \in Nat : m = n + 1 /\ z = size
    <3>1. n + 1 \in Nat
      OBVIOUS
    <3> QED
      BY <1>8, <3>1, Zenon
  <2>3. Lacing(m, z) \in Seq(Seg)
    BY LacingIs, Zenon
  <2> QED
    BY <2>1, <2>2, <2>3, Zenon
<1>10. sizes'[s] = Append(sz, size) /\ pending'[s] = n + 1 /\ encs'[s] = sub.enc
  BY <1>2, <1>4, <1>7
<1>11. PICK new \in Seq(Nat) : new = Append(sz, size) /\ Len(new) = n + 1 /\ Len(new) - 1 = n /\ new # <<>>
                              /\ (sz # <<>> => new[1] = sz[1]) /\ (sz = <<>> => new[1] = size)
  <2>1. /\ Append(sz, size) \in Seq(Nat) /\ Len(Append(sz, size)) = n + 1
        /\ Append(sz, size)[n + 1] = size
        /\ \A i \in 1 .. n : Append(sz, size)[i] = sz[i]
    BY <1>7, <1>8
  <2>2. (n + 1) - 1 = n /\ n + 1 # 0 /\ (n # 0 => 1 \in 1 .. n) /\ (n = 0 => n + 1 = 1)
    OBVIOUS
  <2>3. (sz # <<>> => n # 0) /\ (sz = <<>> => n = 0) /\ Len(<<>>) = 0
    BY <1>7
  <2> QED
    BY <2>1, <2>2, <2>3, Zenon
<1>12. Stream(s)' = U \o R /\ Whole(new, n) = U
  <2>1. /\ Whole(new, Len(sz)) = Whole(sz, Len(sz))
        /\ Whole(new, Len(sz) + 1) = Whole(sz, Len(sz)) \o Lacing(Len(sz) + 1, size)
    BY <1>8, <1>11, StreamMore
  <2> QED
    BY <1>7, <1>9, <1>10, <1>11, <2>1, Zenon DEF Stream
<1>13. PICK u \in Nat : u = Len(U) /\ u <= Len(U)
  OBVIOUS
<1>14. Given(s)' = u
  <2>1. n + 1 # 0
    OBVIOUS
  <2>2. Held(s)' = n
    BY <1>10, <1>11, <2>1, Zenon DEF Held
  <2> QED
    BY <1>10, <1>11, <1>12, <1>13, <2>2, Zenon DEF Given
<1>15. SizesAt(s)'
  <2>1. sz # <<>> => sz[1] = FirstSize
    BY <1>3, <1>7, Zenon DEF StreamAt, SizesAt
  <2> QED
    BY <1>8, <1>10, <1>11, <2>1, Zenon DEF SizesAt
<1>16. Offsets(more, U) /\ FirstPage(more, U)
  BY <1>6, <1>9, Zenon DEF PagedAt
<1>17. PagedAt(s, more)'
  <2>1. Offsets(more, U \o R) /\ FirstPage(more, U \o R)
    BY <1>16, OffsetsGrow
  <2> QED
    BY <1>12, <2>1, Zenon DEF PagedAt
<1>18. FileAt(file, s, Stream(s), more)'
  <2>1. FileAt(file', s, U, more)
    BY <1>2, <1>6, <1>9, Zenon
  <2>2. FileAt(file', s, U \o R, more)
    BY <1>16, <2>1, FileGrows
  <2> QED
    BY <1>12, <2>2, Zenon
<1>19. WriterAt(s, more)'
  <2>1. EncoderAt(sub.enc, U, more, u)
    BY <1>6, <1>9, <1>13, Zenon
  <2>a. u <= Len(U)
    BY <1>13, Zenon
  <2>2. EncoderAt(sub.enc, U \o R, more, u)
    BY <2>a, <1>16, <2>1, EncoderGrows
  <2> QED
    BY <1>6, <1>10, <1>11, <1>12, <1>14, <2>2, Zenon DEF WriterAt
<1>20. Written(s)'
  <2>1. Open(file, s)'
    BY <1>2, <1>6, Zenon
  <2> QED
    BY <1>15, <1>17, <1>18, <1>19, <2>1, Zenon DEF Written, StreamAt
<1>21. ASSUME NEW t \in Streams, t # s PROVE Written(t)'
  <2>1. \A i \in 1 .. Len(sub.pages) : sub.pages[i].serial # t
    BY <1>6, <1>21, Zenon
  <2>2. sizes'[t] = sizes[t] /\ pending'[t] = pending[t] /\ encs'[t] = encs[t]
    BY <1>2, <1>4, <1>21
  <2>3. PICK pages \in Seq(PageSet) : pages = sub.pages
    BY <1>6
  <2>4. file' = file \o pages /\ \A i \in 1 .. Len(pages) : pages[i].serial # t
    BY <1>2, <2>1, <2>3, Zenon
  <2> QED
    BY <1>2, <2>2, <2>4, OtherKept
<1>22. WriterTypes'
  <2>1. sub.enc \in Encoder
    BY <1>6, Zenon DEF EncoderAt
  <2>2. file' \in Seq(PageSet)
    <3>1. file \o sub.pages \in Seq(PageSet)
      BY <1>4, <1>6, ConcatIs
    <3> QED
      BY <1>2, <3>1, Zenon
  <2>3. encs' \in [Streams -> Encoder]
    BY <1>2, <1>4, <2>1
  <2>4. pending' \in [Streams -> Nat]
    BY <1>2, <1>4, <1>7
  <2>5. sizes' \in [Streams -> Seq(Nat)]
    <3>1. Append(sizes[s], size) \in Seq(Nat)
      BY <1>7, <1>8
    <3> QED
      BY <1>2, <1>4, <3>1
  <2> QED
    BY <1>2, <1>4, <2>2, <2>3, <2>4, <2>5, Zenon DEF WriterTypes
<1> QED
  BY <1>20, <1>21, <1>22, Zenon

\* The pages that a flush writes, and what it leaves.
LEMMA FlushWrites ==
    ASSUME WriterTypes, NEW s \in Streams, Written(s), Writing, NEW eos \in BOOLEAN
    PROVE  \E off, more :
              /\ StreamAt(s, off) /\ WriterAt(s, off) /\ Open(file, s)
              /\ Extends(more, off)
              /\ more[Len(more)] = Len(Stream(s))
              /\ OutAt(Flushed(s, eos), Len(off) - 1, s, Stream(s), more, Len(Stream(s)), eos /\ pending[s] # 0)
              /\ WrittenTo(Flushed(s, eos), s, more, eos /\ pending[s] # 0)
<1>1. PICK off : StreamAt(s, off) /\ WriterAt(s, off) /\ Open(file, s)
  BY Zenon DEF Written
<1>2. file \in Seq(PageSet)
  BY Zenon DEF WriterTypes
<1>3. SizesAt(s) /\ PagedAt(s, off) /\ WriterAt(s, off)
  BY <1>1, Zenon DEF StreamAt
<1>4. PICK more : /\ OutAt(Flushed(s, eos), Len(off) - 1, s, Stream(s), more, Len(Stream(s)), eos /\ pending[s] # 0)
                  /\ Extends(more, off)
                  /\ more[Len(more)] = Len(Stream(s))
  BY <1>3, FlushedOut
<1>5. WrittenTo(Flushed(s, eos), s, more, eos /\ pending[s] # 0)
  <2>1. PICK out, end : out = Flushed(s, eos) /\ end = (eos /\ pending[s] # 0)
    OBVIOUS
  <2>2. OutAt(out, Len(off) - 1, s, Stream(s), more, Len(Stream(s)), end) /\ Extends(more, off)
    BY <1>4, <2>1, Zenon
  <2>3. WrittenTo(out, s, more, end)
    BY <1>1, <1>2, <2>2, PagesWritten, Zenon
  <2> QED
    BY <2>1, <2>3, Zenon
<1> QED
  BY <1>1, <1>4, <1>5, Zenon

LEMMA ForceFlushKeeps ==
    ASSUME WriterTypes, \A t \in Streams : Written(t), NEW s \in Streams, ForceFlush(s)
    PROVE  WriterTypes' /\ \A t \in Streams : Written(t)'
<1>1. PICK sub : sub = Flushed(s, FALSE)
  OBVIOUS
<1>2. /\ Writing
      /\ encs' = [encs EXCEPT ![s] = sub.enc]
      /\ file' = file \o sub.pages
      /\ pending' = [pending EXCEPT ![s] = 0]
      /\ sizes' = sizes
      /\ eosFlag' = eosFlag /\ closed' = closed
  BY <1>1, Zenon DEF ForceFlush
<1>3. FALSE \in BOOLEAN /\ (FALSE /\ pending[s] # 0) = FALSE
  OBVIOUS
<1>4. PICK off, more : /\ StreamAt(s, off) /\ WriterAt(s, off) /\ Open(file, s)
                       /\ WrittenTo(sub, s, more, FALSE)
  <2>1. \E off, more :
              /\ StreamAt(s, off) /\ WriterAt(s, off) /\ Open(file, s)
              /\ WrittenTo(Flushed(s, FALSE), s, more, FALSE /\ pending[s] # 0)
    BY <1>2, <1>3, FlushWrites, Zenon
  <2> QED
    BY <1>1, <1>3, <2>1, Zenon
<1>5. /\ encs \in [Streams -> Encoder] /\ pending \in [Streams -> Nat]
      /\ eosFlag \in [Streams -> BOOLEAN] /\ closed \in BOOLEAN
      /\ file \in Seq(PageSet) /\ sizes \in [Streams -> Seq(Nat)]
  BY Zenon DEF WriterTypes
<1>6. /\ sub.pages \in Seq(PageSet)
      /\ \A i \in 1 .. Len(sub.pages) : sub.pages[i].serial = s
      /\ FileAt(file \o sub.pages, s, Stream(s), more)
      /\ PagedAt(s, more)
      /\ EncoderAt(sub.enc, Stream(s), more, Len(Stream(s))) /\ sub.enc.eos = FALSE
      /\ Open(file \o sub.pages, s)
  BY <1>4, Zenon DEF WrittenTo
<1>7. sizes'[s] = sizes[s] /\ pending'[s] = 0 /\ encs'[s] = sub.enc
  BY <1>2, <1>5
<1>8. Stream(s)' = Stream(s) /\ Given(s)' = Len(Stream(s))
  BY <1>7, Zenon DEF Stream, Given, Held
<1>9. Written(s)'
  <2>1. Open(file, s)'
    BY <1>2, <1>6, Zenon
  <2>2. SizesAt(s)'
    BY <1>4, <1>7, Zenon DEF StreamAt, SizesAt
  <2>3. PagedAt(s, more)' /\ FileAt(file, s, Stream(s), more)'
    BY <1>2, <1>6, <1>8, Zenon DEF PagedAt
  <2>4. WriterAt(s, more)'
    BY <1>6, <1>7, <1>8, Zenon DEF WriterAt
  <2> QED
    BY <2>1, <2>2, <2>3, <2>4, Zenon DEF Written, StreamAt
<1>10. ASSUME NEW t \in Streams, t # s PROVE Written(t)'
  <2>1. \A i \in 1 .. Len(sub.pages) : sub.pages[i].serial # t
    BY <1>6, <1>10, Zenon
  <2>2. sizes'[t] = sizes[t] /\ pending'[t] = pending[t] /\ encs'[t] = encs[t]
    BY <1>2, <1>5, <1>10
  <2>3. PICK pages \in Seq(PageSet) : pages = sub.pages
    BY <1>6
  <2>4. file' = file \o pages /\ \A i \in 1 .. Len(pages) : pages[i].serial # t
    BY <1>2, <2>1, <2>3, Zenon
  <2> QED
    BY <1>2, <2>2, <2>4, OtherKept
<1>11. WriterTypes'
  <2>1. sub.enc \in Encoder
    BY <1>6, Zenon DEF EncoderAt
  <2>2. file' \in Seq(PageSet)
    <3>1. file \o sub.pages \in Seq(PageSet)
      BY <1>5, <1>6, ConcatIs
    <3> QED
      BY <1>2, <3>1, Zenon
  <2>3. encs' \in [Streams -> Encoder]
    BY <1>2, <1>5, <2>1
  <2>4. pending' \in [Streams -> Nat]
    BY <1>2, <1>5
  <2> QED
    BY <1>2, <1>5, <2>2, <2>3, <2>4, Zenon DEF WriterTypes
<1> QED
  BY <1>9, <1>10, <1>11, Zenon

\* Nothing but what says that the next page is the last changes.
LEMMA WrittenSame ==
    ASSUME NEW t, Written(t), sizes' = sizes, file' = file,
           Writing' => Writing /\ encs' = encs /\ pending' = pending
    PROVE  Written(t)'
<1>1. PICK off : StreamAt(t, off) /\ (Writing => WriterAt(t, off) /\ Open(file, t))
  BY Zenon DEF Written
<1>2. Stream(t)' = Stream(t)
  BY Zenon DEF Stream
<1>3. StreamAt(t, off)'
  BY <1>1, <1>2, Zenon DEF StreamAt, SizesAt, PagedAt
<1>4. Writing' => WriterAt(t, off)' /\ Open(file, t)'
  BY <1>1, <1>2, Zenon DEF WriterAt, Given, Held
<1> QED
  BY <1>3, <1>4, Zenon DEF Written

LEMMA SetEOSKeeps ==
    ASSUME WriterTypes, \A t \in Streams : Written(t), NEW s \in Streams, SetEOS(s)
    PROVE  WriterTypes' /\ \A t \in Streams : Written(t)'
<1>1. /\ Writing /\ eosFlag' = [eosFlag EXCEPT ![s] = TRUE]
      /\ sizes' = sizes /\ file' = file /\ encs' = encs /\ pending' = pending /\ closed' = closed
  BY Zenon DEF SetEOS
<1>2. WriterTypes'
  <2>1. eosFlag' \in [Streams -> BOOLEAN]
    BY <1>1 DEF WriterTypes
  <2> QED
    BY <1>1, <2>1, Zenon DEF WriterTypes
<1> QED
  BY <1>1, <1>2, WrittenSame, Zenon

LEMMA FlattenNext ==
    ASSUME NEW S, NEW m \in Nat, NEW f, \A i \in 1 .. m + 1 : f[i] \in Seq(S)
    PROVE  /\ FlattenSeq([i \in 1 .. m |-> f[i]]) \in Seq(S)
           /\ FlattenSeq([i \in 1 .. m + 1 |-> f[i]]) = FlattenSeq([i \in 1 .. m |-> f[i]]) \o f[m + 1]
<1> DEFINE ss == [i \in 1 .. m |-> f[i]]
           x == f[m + 1]
           tt == [i \in 1 .. m + 1 |-> f[i]]
<1>2. ss \in Seq(Seq(S)) /\ Len(ss) = m /\ tt \in Seq(Seq(S)) /\ Len(tt) = m + 1 /\ x \in Seq(S)
  OBVIOUS
<1>3. Append(ss, x) \in Seq(Seq(S)) /\ Len(Append(ss, x)) = m + 1
  BY <1>2
<1>4. \A n \in 1 .. m + 1 : tt[n] = Append(ss, x)[n]
  <2>1. \A n \in 1 .. m : tt[n] = ss[n] /\ Append(ss, x)[n] = ss[n]
    BY <1>2
  <2>2. tt[m + 1] = x /\ Append(ss, x)[m + 1] = x
    BY <1>2
  <2> QED
    BY <2>1, <2>2
<1>5. tt = Append(ss, x)
  BY <1>2, <1>3, <1>4, SeqEqual
<1>6. FlattenSeq(tt) = FlattenSeq(ss) \o x /\ FlattenSeq(ss) \in Seq(S)
  BY <1>2, <1>5, FlattenAppend, FlattenType
<1> QED
  BY <1>6

LEMMA FlattenNone ==
    ASSUME NEW f
    PROVE  FlattenSeq([i \in 1 .. 0 |-> f[i]]) = <<>>
<1>1. [i \in 1 .. 0 |-> f[i]] = <<>>
  OBVIOUS
<1> QED
  BY <1>1, FlattenEmpty

\* All streams are in the order they were added.
LEMMA OrderIs ==
    ASSUME NEW order \in SetToSeqs(Streams)
    PROVE  \E n \in Nat : /\ DOMAIN order = 1 .. n
                          /\ \A i \in 1 .. n : order[i] \in Streams
                          /\ \A i, j \in 1 .. n : i # j => order[i] # order[j]
                          /\ \A s \in Streams : \E i \in 1 .. n : order[i] = s
<1>1. IsFiniteSet(Streams)
  BY FileAssumption
<1>2. PICK n \in Nat : n = Cardinality(Streams)
  BY <1>1, FS_CardinalityType
<1>3. order \in [1 .. n -> Streams] /\ \A i, j \in 1 .. n : i # j => order[i] # order[j]
  BY <1>2, Zenon DEF SetToSeqs
<1>4. order \in Injection(1 .. n, Streams)
  BY <1>3, Zenon DEF Injection, IsInjective
<1>5. Cardinality(1 .. n) = n
  <2>1. Cardinality(1 .. n) = IF 1 > n THEN 0 ELSE n - 1 + 1
    BY FS_Interval
  <2> QED
    BY <2>1
<1>6. order \in Surjection(1 .. n, Streams)
  BY <1>1, <1>2, <1>4, <1>5, FS_Injection
<1>7. \A s \in Streams : \E i \in 1 .. n : order[i] = s
  BY <1>6, Zenon DEF Surjection
<1> QED
  BY <1>3, <1>7

\* Only the page that holds the end of a stream says so.
Ended(pages, s, off, c, eos) ==
    \A i \in 1 .. Len(pages) :
        pages[i].serial = s => (pages[i].eos <=> eos /\ off[pages[i].no + 2] = c)

LEMMA EndedOther ==
    ASSUME NEW a \in Seq(PageSet), NEW b \in Seq(PageSet), NEW s, NEW off, NEW c, NEW eos,
           Ended(a, s, off, c, eos), \A i \in 1 .. Len(b) : b[i].serial # s
    PROVE  Ended(a \o b, s, off, c, eos)
<1>1. \A i \in 1 .. Len(a \o b) :
          \/ i \in 1 .. Len(a) /\ (a \o b)[i] = a[i]
          \/ \E j \in 1 .. Len(b) : i = Len(a) + j /\ (a \o b)[i] = b[j]
  BY ConcatEither
<1> QED
  BY <1>1, Zenon DEF Ended

LEMMA EndedAppended ==
    ASSUME NEW T, NEW off, Offsets(off, T), NEW more, Offsets(more, T), Extends(more, off),
           NEW pages \in Seq(PageSet), NEW s, FileAt(pages, s, T, off), Open(pages, s),
           NEW c \in Nat, NEW eos \in BOOLEAN, eos => off[Len(off)] < c,
           NEW new, PagesAt(new, Len(off) - 1, s, T, more, c, eos)
    PROVE  Ended(pages \o new, s, more, c, eos)
<1>0. new \in Seq(PageSet)
  BY Zenon DEF PagesAt
<1>1. \A i \in 1 .. Len(pages \o new) :
          \/ i \in 1 .. Len(pages) /\ (pages \o new)[i] = pages[i]
          \/ \E j \in 1 .. Len(new) : i = Len(pages) + j /\ (pages \o new)[i] = new[j]
  BY <1>0, ConcatEither
<1>2. ASSUME NEW i \in 1 .. Len(pages), pages[i].serial = s
      PROVE  pages[i].eos <=> eos /\ more[pages[i].no + 2] = c
  <2>1. PageLaid(pages[i], T, off) /\ ~pages[i].eos
    BY <1>2, Zenon DEF FileAt, Open
  <2>2. PICK w \in Nat : w = Len(off)
    BY OffsetsIs
  <2>3. PICK a \in Nat : a = pages[i].no /\ a + 1 < w
    BY <2>1, <2>2, Zenon DEF PageLaid
  <2>4. a + 2 \in 1 .. w /\ w \in 1 .. w /\ (a + 2 < w \/ a + 2 = w)
    BY <2>3
  <2>5. more[a + 2] = off[a + 2]
    BY <2>2, <2>4, Zenon DEF Extends
  <2>6. off[a + 2] \in Nat /\ off[w] \in Nat
    <3>1. off \in Seq(Nat)
      BY Zenon DEF Offsets
    <3> QED
      BY <2>2, <2>4, <3>1
  <2>7. off[a + 2] = off[w] \/ off[a + 2] < off[w]
    BY <2>2, <2>4, Zenon DEF Offsets
  <2>8. ~(eos /\ off[a + 2] = c)
    <3>1. ASSUME eos, off[a + 2] = c PROVE FALSE
      <4>1. off[w] < c
        BY <2>2, <3>1, Zenon
      <4> QED
        BY <2>6, <2>7, <3>1, <4>1
    <3> QED
      BY <3>1, Zenon
  <2> QED
    BY <2>1, <2>3, <2>5, <2>8, Zenon
<1>3. ASSUME NEW j \in 1 .. Len(new)
      PROVE  new[j].eos <=> eos /\ more[new[j].no + 2] = c
  <2>1. PICK base \in Nat : base = Len(off) - 1
    BY OffsetsIs, Zenon
  <2>2. new[j].no = base + j - 1 /\ (new[j].eos <=> eos /\ more[base + j + 1] = c)
    BY <2>1, Zenon DEF PagesAt
  <2>3. (base + j - 1) + 2 = base + j + 1
    OBVIOUS
  <2> QED
    BY <2>2, <2>3, Zenon
<1>4. ASSUME NEW i \in 1 .. Len(pages \o new), (pages \o new)[i].serial = s
      PROVE  (pages \o new)[i].eos <=> eos /\ more[(pages \o new)[i].no + 2] = c
  <2>1. CASE i \in 1 .. Len(pages) /\ (pages \o new)[i] = pages[i]
    BY <1>2, <1>4, <2>1
  <2>2. CASE \E j \in 1 .. Len(new) : i = Len(pages) + j /\ (pages \o new)[i] = new[j]
    <3>1. PICK j \in 1 .. Len(new) : (pages \o new)[i] = new[j]
      BY <2>2
    <3>2. new[j].eos <=> eos /\ more[new[j].no + 2] = c
      BY <1>3
    <3> QED
      BY <3>1, <3>2
  <2> QED
    BY <1>1, <2>1, <2>2, Zenon
<1> QED
  BY <1>4, Zenon DEF Ended

\* All of the stream is in the file, and its end is marked.
Finished(s) ==
    \E off : /\ StreamAt(s, off)'
             /\ off[Len(off)] = Len(Stream(s))
             /\ Ended(file', s, off, Len(Stream(s)), eosFlag[s] /\ pending[s] # 0)

LEMMA CloseKeeps ==
    ASSUME WriterTypes, \A t \in Streams : Written(t),
           NEW order \in SetToSeqs(Streams), Close(order)
    PROVE  WriterTypes' /\ \A s \in Streams : Finished(s)
<1>1. PICK n \in Nat : /\ DOMAIN order = 1 .. n
                       /\ \A i \in 1 .. n : order[i] \in Streams
                       /\ \A i, j \in 1 .. n : i # j => order[i] # order[j]
                       /\ \A s \in Streams : \E i \in 1 .. n : order[i] = s
  BY OrderIs, Zenon
<1>2. PICK p : p = [i \in 1 .. n |-> Flushed(order[i], eosFlag[order[i]]).pages]
  OBVIOUS
<1>3. /\ Writing /\ closed' = TRUE
      /\ encs' = [s \in Streams |-> Flushed(s, eosFlag[s]).enc]
      /\ file' = file \o FlattenSeq(p)
      /\ pending' = [s \in Streams |-> 0]
      /\ eosFlag' = eosFlag /\ sizes' = sizes
  BY <1>1, <1>2, Zenon DEF Close
<1>4. /\ encs \in [Streams -> Encoder] /\ pending \in [Streams -> Nat]
      /\ eosFlag \in [Streams -> BOOLEAN] /\ closed \in BOOLEAN
      /\ file \in Seq(PageSet) /\ sizes \in [Streams -> Seq(Nat)]
  BY Zenon DEF WriterTypes
<1>5. ASSUME NEW s \in Streams
      PROVE  \E off, more :
              /\ StreamAt(s, off) /\ WriterAt(s, off) /\ Open(file, s)
              /\ Extends(more, off)
              /\ more[Len(more)] = Len(Stream(s))
              /\ OutAt(Flushed(s, eosFlag[s]), Len(off) - 1, s, Stream(s), more, Len(Stream(s)), eosFlag[s] /\ pending[s] # 0)
              /\ WrittenTo(Flushed(s, eosFlag[s]), s, more, eosFlag[s] /\ pending[s] # 0)
  <2>1. PICK eos \in BOOLEAN : eos = eosFlag[s]
    BY <1>4
  <2>2. \E off, more :
              /\ StreamAt(s, off) /\ WriterAt(s, off) /\ Open(file, s)
              /\ Extends(more, off)
              /\ more[Len(more)] = Len(Stream(s))
              /\ OutAt(Flushed(s, eos), Len(off) - 1, s, Stream(s), more, Len(Stream(s)), eos /\ pending[s] # 0)
              /\ WrittenTo(Flushed(s, eos), s, more, eos /\ pending[s] # 0)
    BY <1>3, FlushWrites
  <2> QED
    BY <2>1, <2>2, Zenon
<1>6. ASSUME NEW i \in 1 .. n
      PROVE  p[i] \in Seq(PageSet) /\ \A j \in 1 .. Len(p[i]) : p[i][j].serial = order[i]
  <2>1. PICK s \in Streams : s = order[i]
    BY <1>1
  <2>2. p[i] = Flushed(s, eosFlag[s]).pages
    BY <1>2, <2>1
  <2>3. /\ Flushed(s, eosFlag[s]).pages \in Seq(PageSet)
        /\ \A j \in 1 .. Len(Flushed(s, eosFlag[s]).pages) : Flushed(s, eosFlag[s]).pages[j].serial = s
    BY <1>5, Zenon DEF WrittenTo
  <2> QED
    BY <2>1, <2>2, <2>3, Zenon
<1> DEFINE After(m) == file \o FlattenSeq([i \in 1 .. m |-> p[i]])
<1>7. After(0) = file
  <2>1. FlattenSeq([i \in 1 .. 0 |-> p[i]]) = <<>>
    BY FlattenNone
  <2>2. file \o <<>> = file
    BY <1>4, ConcatEmpty
  <2> QED
    BY <2>1, <2>2, Zenon
<1>8. ASSUME NEW m \in Nat, m + 1 <= n
      PROVE  After(m) \in Seq(PageSet) /\ After(m + 1) = After(m) \o p[m + 1]
  <2>1. \A i \in 1 .. m + 1 : p[i] \in Seq(PageSet)
    <3>1. \A i \in 1 .. m + 1 : i \in 1 .. n
      BY <1>8
    <3> QED
      BY <1>6, <3>1, Zenon
  <2>2. PICK a \in Seq(PageSet), x \in Seq(PageSet) :
              /\ a = FlattenSeq([i \in 1 .. m |-> p[i]]) /\ x = p[m + 1]
              /\ FlattenSeq([i \in 1 .. m + 1 |-> p[i]]) = a \o x
    <3>1. /\ FlattenSeq([i \in 1 .. m |-> p[i]]) \in Seq(PageSet)
          /\ FlattenSeq([i \in 1 .. m + 1 |-> p[i]]) = FlattenSeq([i \in 1 .. m |-> p[i]]) \o p[m + 1]
      BY <2>1, FlattenNext
    <3>2. m + 1 \in 1 .. m + 1
      OBVIOUS
    <3> QED
      BY <2>1, <3>1, <3>2, Zenon
  <2>3. file \o a \in Seq(PageSet) /\ (file \o a) \o x = file \o (a \o x)
    BY <1>4, ConcatAssociative, ConcatIs
  <2> QED
    BY <2>2, <2>3, Zenon
<1>9. After(n) = file'
  <2>1. p = [i \in 1 .. n |-> p[i]]
    BY <1>2, Zenon
  <2> QED
    BY <1>3, <2>1, Zenon
<1>10. After(n) \in Seq(PageSet)
  <2> DEFINE Good == {m \in Nat : m <= n => After(m) \in Seq(PageSet)}
  <2>1. 0 \in Good
    BY <1>4, <1>7
  <2>2. ASSUME NEW m \in Nat, m \in Good PROVE m + 1 \in Good
    <3>1. ASSUME m + 1 <= n PROVE After(m + 1) \in Seq(PageSet)
      <4>1. m + 1 \in 1 .. n
        BY <3>1
      <4>2. After(m) \in Seq(PageSet) /\ p[m + 1] \in Seq(PageSet) /\ After(m + 1) = After(m) \o p[m + 1]
        BY <1>6, <1>8, <3>1, <4>1, Zenon
      <4> HIDE DEF After
      <4>3. After(m) \o p[m + 1] \in Seq(PageSet)
        BY <4>2, ConcatIs
      <4> QED
        BY <4>2, <4>3, Zenon
    <3>2. m + 1 \in Nat
      OBVIOUS
    <3> QED
      BY <3>1, <3>2, Zenon
  <2>3. Nat \subseteq Good
    <3> HIDE DEF Good
    <3> QED
      BY <2>1, <2>2, Induction
  <2>4. n <= n
    OBVIOUS
  <2> QED
    BY <2>3, <2>4
<1> HIDE DEF After
<1>11. ASSUME NEW s \in Streams PROVE Finished(s)
  <2>1. PICK off, more :
              /\ StreamAt(s, off) /\ WriterAt(s, off) /\ Open(file, s)
              /\ Extends(more, off)
              /\ more[Len(more)] = Len(Stream(s))
              /\ OutAt(Flushed(s, eosFlag[s]), Len(off) - 1, s, Stream(s), more, Len(Stream(s)), eosFlag[s] /\ pending[s] # 0)
              /\ WrittenTo(Flushed(s, eosFlag[s]), s, more, eosFlag[s] /\ pending[s] # 0)
    BY <1>5, Zenon
  <2>a. PICK T : T = Stream(s)
    OBVIOUS
  <2>b. PICK c \in Nat : c = Len(T)
    BY <2>1, <2>a, StreamIs, Zenon DEF StreamAt
  <2>c. PICK eos \in BOOLEAN : eos = (eosFlag[s] /\ pending[s] # 0)
    OBVIOUS
  <2>2. T = Stream(s) /\ c = Len(T) /\ eos = (eosFlag[s] /\ pending[s] # 0)
    BY <2>a, <2>b, <2>c, Zenon
  <2>3. PICK k \in 1 .. n : order[k] = s
    BY <1>1
  <2>4. PICK new : new = p[k] /\ new = Flushed(s, eosFlag[s]).pages
    BY <1>2, <2>3
  <2>5. /\ Offsets(off, T) /\ Offsets(more, T) /\ Extends(more, off)
        /\ FileAt(file, s, T, off) /\ Open(file, s)
        /\ PagesAt(new, Len(off) - 1, s, T, more, c, eos)
    BY <2>1, <2>2, <2>4, Zenon DEF StreamAt, PagedAt, OutAt
  <2>6. eos => off[Len(off)] < c
    <3>1. SUFFICES ASSUME eos PROVE off[Len(off)] < c
      BY Zenon
    <3>2. PICK sz \in Seq(Nat), m \in Nat : sz = sizes[s] /\ Len(sz) = m + 1 /\ Held(s) = m
      <4>1. pending[s] # 0
        BY <2>2, <3>1, Zenon
      <4>2. PICK sz \in Seq(Nat) : sz = sizes[s]
        BY <1>4
      <4>3. pending[s] = Len(sz)
        BY <2>1, <4>1, <4>2, Zenon DEF WriterAt
      <4>4. Len(sz) - 1 \in Nat /\ (Len(sz) - 1) + 1 = Len(sz)
        BY <4>1, <4>3
      <4>5. Held(s) = Len(sz) - 1
        BY <4>1, <4>2, Zenon DEF Held
      <4> QED
        BY <4>2, <4>4, <4>5, Zenon
    <3>3. PICK U \in Seq(Seg), L \in Seq(Seg) : U = Whole(sz, m) /\ T = U \o L /\ Len(L) # 0
      <4>1. m + 1 <= Len(sz) /\ m + 1 \in 1 .. Len(sz)
        BY <3>2
      <4>2. Whole(sz, m) \in Seq(Seg) /\ Whole(sz, m + 1) = Whole(sz, m) \o Lacing(m + 1, sz[m + 1])
        BY <4>1, WholeNext
      <4>3. PICK z \in Nat : z = sz[m + 1]
        BY <4>1
      <4>4. Lacing(m + 1, z) \in Seq(Seg) /\ Len(Lacing(m + 1, z)) # 0
        <5>1. m + 1 \in Nat
          OBVIOUS
        <5> QED
          BY <5>1, LacingIs
      <4> QED
        BY <2>2, <3>2, <4>2, <4>3, <4>4, Zenon DEF Stream
    <3>4. PICK o \in Nat : o = off[Len(off)] /\ o <= Len(U)
      <4>1. off[Len(off)] \in Nat
        BY <2>5, OffsetsIs
      <4>2. off[Len(off)] <= Given(s) /\ Given(s) = Len(U)
        BY <2>1, <3>2, <3>3, Zenon DEF WriterAt, EncoderAt, Given
      <4> QED
        BY <4>1, <4>2
    <3>5. Len(T) = Len(U) + Len(L)
      BY <3>3, ConcatIs
    <3>6. PICK u \in Nat, l \in Nat : u = Len(U) /\ l = Len(L) /\ l # 0
      BY <3>3
    <3>7. o < c
      <4>1. c = u + l /\ o <= u
        BY <2>2, <3>4, <3>5, <3>6, Zenon
      <4> QED
        BY <3>6, <4>1
    <3> QED
      BY <3>4, <3>7, Zenon
  <2> DEFINE Before(m) == m < k /\ FileAt(After(m), s, T, off) /\ Open(After(m), s)
             Since(m) == k <= m /\ FileAt(After(m), s, T, more) /\ Ended(After(m), s, more, c, eos)
             Good == {m \in Nat : m <= n => Before(m) \/ Since(m)}
  <2>7. 0 \in Good
    <3>1. 0 < k
      OBVIOUS
    <3> QED
      BY <1>7, <2>5, <3>1
  <2>8. ASSUME NEW m \in Nat, m \in Good PROVE m + 1 \in Good
    <3>0. m + 1 \in Nat
      OBVIOUS
    <3>1. SUFFICES ASSUME m + 1 <= n PROVE Before(m + 1) \/ Since(m + 1)
      BY <3>0, Zenon
    <3>2. Before(m) \/ Since(m)
      BY <2>8, <3>1
    <3>3. PICK x \in Seq(PageSet) : x = p[m + 1] /\ \A j \in 1 .. Len(x) : x[j].serial = order[m + 1]
      <4>1. m + 1 \in 1 .. n
        BY <3>1
      <4> QED
        BY <1>6, <4>1, Zenon
    <3>4. PICK a \in Seq(PageSet) : a = After(m) /\ After(m + 1) = a \o x
      BY <1>8, <3>1, <3>3, Zenon
    <3>5. CASE m + 1 = k
      <4>1. m < k /\ ~(k <= m) /\ k <= m + 1
        BY <3>5
      <4>2. FileAt(a, s, T, off) /\ Open(a, s) /\ x = new
        BY <2>4, <3>2, <3>3, <3>4, <3>5, <4>1, Zenon
      <4>3. PagesAt(x, Len(off) - 1, s, T, more, c, eos)
        BY <2>5, <4>2, Zenon
      <4>4. FileAt(a \o x, s, T, more)
        BY <2>5, <4>2, <4>3, FileAppended
      <4>5. Ended(a \o x, s, more, c, eos)
        BY <2>5, <2>6, <4>2, <4>3, EndedAppended
      <4> QED
        BY <3>4, <4>1, <4>4, <4>5, Zenon
    <3>6. CASE m + 1 # k
      <4>1. \A j \in 1 .. Len(x) : x[j].serial # s
        <5>1. m + 1 \in 1 .. n
          BY <3>1
        <5>2. order[m + 1] # s
          BY <1>1, <2>3, <3>6, <5>1, Zenon
        <5> QED
          BY <3>3, <5>2, Zenon
      <4>2. CASE Before(m)
        <5>1. FileAt(a, s, T, off) /\ Open(a, s)
          BY <3>4, <4>2, Zenon
        <5>2. FileAt(a \o x, s, T, off)
          BY <4>1, <5>1, FileOther
        <5>3. Open(x, s)
          BY <4>1, Zenon DEF Open
        <5>4. Open(a \o x, s)
          BY <5>1, <5>3, OpenConcat
        <5>5. m + 1 < k
          BY <3>6, <4>2
        <5> QED
          BY <3>4, <5>2, <5>4, <5>5, Zenon
      <4>3. CASE Since(m)
        <5>1. FileAt(a, s, T, more) /\ Ended(a, s, more, c, eos)
          BY <3>4, <4>3, Zenon
        <5>2. FileAt(a \o x, s, T, more)
          BY <4>1, <5>1, FileOther
        <5>3. Ended(a \o x, s, more, c, eos)
          BY <4>1, <5>1, EndedOther
        <5>4. k <= m + 1
          BY <4>3
        <5> QED
          BY <3>4, <5>2, <5>3, <5>4, Zenon
      <4> QED
        BY <3>2, <4>2, <4>3
    <3> QED
      BY <3>5, <3>6
  <2>9. Nat \subseteq Good
    <3> HIDE DEF Good
    <3> QED
      BY <2>7, <2>8, Induction
  <2>10. Since(n)
    <3>1. n <= n /\ ~(n < k)
      OBVIOUS
    <3> QED
      BY <2>9, <3>1
  <2>11. FileAt(file', s, T, more) /\ Ended(file', s, more, c, eos)
    BY <1>9, <2>10, Zenon
  <2>12. Stream(s)' = Stream(s) /\ SizesAt(s)' /\ PagedAt(s, more)'
    <3>1. Stream(s)' = Stream(s)
      BY <1>3, Zenon DEF Stream
    <3> QED
      BY <1>3, <2>1, <3>1, Zenon DEF SizesAt, StreamAt, PagedAt, WrittenTo
  <2>13. StreamAt(s, more)'
    BY <2>2, <2>11, <2>12, Zenon DEF StreamAt
  <2> QED
    BY <2>1, <2>2, <2>11, <2>13, Zenon DEF Finished
<1>12. WriterTypes'
  <2>1. \A s \in Streams : Flushed(s, eosFlag[s]).enc \in Encoder
    BY <1>5, Zenon DEF WrittenTo, EncoderAt
  <2>2. encs' \in [Streams -> Encoder] /\ pending' \in [Streams -> Nat]
    BY <1>3, <2>1
  <2>3. closed' \in BOOLEAN
    BY <1>3
  <2> QED
    BY <1>3, <1>4, <1>9, <1>10, <2>2, <2>3, Zenon DEF WriterTypes
<1> QED
  BY <1>11, <1>12, Zenon

-----------------------------------------------------------------------------
(* What the reader will see of the file: the pages that are not lost, in   *)
(* their order.                                                            *)

Survivors(seen, gone, m, idx) ==
    /\ seen \in Seq(PageSet) /\ idx \in [1 .. Len(seen) -> 1 .. m]
    /\ \A k \in 1 .. Len(seen) : idx[k] \notin gone /\ seen[k] = file[idx[k]]
    /\ \A k, l \in 1 .. Len(seen) : k < l => idx[k] < idx[l]
    /\ \A i \in (1 .. m) \ gone : \E k \in 1 .. Len(seen) : idx[k] = i

LEMMA SurvivorsAre ==
    ASSUME file \in Seq(PageSet), NEW gone, NEW seen,
           seen = FlattenSeq([i \in 1 .. Len(file) |-> IF i \in gone THEN <<>> ELSE <<file[i]>>])
    PROVE  \E idx : Survivors(seen, gone, Len(file), idx)
<1>1. PICK len \in Nat : len = Len(file)
  OBVIOUS
<1>2. PICK f : f = [i \in 1 .. len |-> IF i \in gone THEN <<>> ELSE <<file[i]>>]
  OBVIOUS
<1>3. \A i \in 1 .. len : /\ f[i] \in Seq(PageSet)
                          /\ i \in gone => f[i] = <<>>
                          /\ i \notin gone => f[i] = <<file[i]>> /\ file[i] \in PageSet
  <2>1. ASSUME NEW i \in 1 .. len
        PROVE  /\ f[i] \in Seq(PageSet)
               /\ i \in gone => f[i] = <<>>
               /\ i \notin gone => f[i] = <<file[i]>> /\ file[i] \in PageSet
    <3>1. file[i] \in PageSet
      BY <1>1
    <3>2. CASE i \in gone
      <4>1. f[i] = <<>> /\ <<>> \in Seq(PageSet)
        BY <1>2, <3>2
      <4> QED
        BY <3>2, <4>1, Zenon
    <3>3. CASE i \notin gone
      <4>1. f[i] = <<file[i]>>
        BY <1>2, <3>3
      <4>2. <<file[i]>> \in Seq(PageSet)
        BY <3>1
      <4> QED
        BY <3>1, <3>3, <4>1, <4>2, Zenon
    <3> QED
      BY <3>2, <3>3
  <2> QED
    BY <2>1, Zenon
<1> DEFINE Seen(m) == FlattenSeq([i \in 1 .. m |-> f[i]])
           Good == {m \in Nat : m <= len => \E idx : Survivors(Seen(m), gone, m, idx)}
<1>4. 0 \in Good
  <2>1. Seen(0) = <<>>
    BY FlattenNone
  <2>2. PICK idx : idx = [k \in 1 .. 0 |-> 0]
    OBVIOUS
  <2>3. /\ <<>> \in Seq(PageSet) /\ idx \in [1 .. Len(<<>>) -> 1 .. 0]
        /\ \A k \in 1 .. Len(<<>>) : FALSE
        /\ \A i \in (1 .. 0) \ gone : FALSE
    BY <2>2
  <2>4. Survivors(<<>>, gone, 0, idx)
    BY <2>3, Zenon DEF Survivors
  <2> QED
    BY <2>1, <2>4, Zenon
<1>5. ASSUME NEW m \in Nat, m \in Good PROVE m + 1 \in Good
  <2>0. m + 1 \in Nat
    OBVIOUS
  <2>1. SUFFICES ASSUME m + 1 <= len PROVE \E idx : Survivors(Seen(m + 1), gone, m + 1, idx)
    BY <2>0, Zenon
  <2>2. PICK idx : Survivors(Seen(m), gone, m, idx)
    <3>1. m <= len
      BY <2>1
    <3> QED
      BY <1>5, <3>1, Zenon
  <2>3. PICK s \in Seq(PageSet) : s = Seen(m)
    BY <2>2, Zenon DEF Survivors
  <2>4. m + 1 \in 1 .. len /\ m + 1 \in 1 .. m + 1 /\ \A i \in 1 .. m + 1 : i \in 1 .. len
    BY <2>1
  <2>5. Seen(m + 1) = s \o f[m + 1]
    <3>1. \A i \in 1 .. m + 1 : f[i] \in Seq(PageSet)
      BY <1>3, <2>4, Zenon
    <3>2. Seen(m + 1) = Seen(m) \o f[m + 1]
      BY <3>1, FlattenNext
    <3> QED
      BY <2>3, <3>2, Zenon
  <2> HIDE DEF Seen
  <2>6. PICK n \in Nat : n = Len(s)
    OBVIOUS
  <2>7. /\ idx \in [1 .. n -> 1 .. m]
        /\ \A k \in 1 .. n : idx[k] \notin gone /\ s[k] = file[idx[k]]
        /\ \A k, l \in 1 .. n : k < l => idx[k] < idx[l]
        /\ \A i \in (1 .. m) \ gone : \E k \in 1 .. n : idx[k] = i
    BY <2>2, <2>3, <2>6, Zenon DEF Survivors
  <2>8. \A i \in (1 .. m + 1) \ gone : i \in (1 .. m) \ gone \/ i = m + 1
    OBVIOUS
  <2>9. CASE m + 1 \in gone
    <3>1. s \o f[m + 1] = s
      BY <1>3, <2>4, <2>9, ConcatEmpty
    <3>2. idx \in [1 .. n -> 1 .. m + 1]
      BY <2>7
    <3>3. \A i \in (1 .. m + 1) \ gone : \E k \in 1 .. n : idx[k] = i
      BY <2>7, <2>8, <2>9, Zenon
    <3>4. Survivors(s, gone, m + 1, idx)
      BY <2>6, <2>7, <3>2, <3>3, Zenon DEF Survivors
    <3> QED
      BY <2>5, <3>1, <3>4, Zenon
  <2>10. CASE m + 1 \notin gone
    <3>1. PICK page \in PageSet : page = file[m + 1] /\ f[m + 1] = <<page>>
      BY <1>3, <2>4, <2>10, Zenon
    <3>2. PICK t : t = s \o <<page>>
      OBVIOUS
    <3>3. t \in Seq(PageSet) /\ Len(t) = n + 1 /\ t[n + 1] = page /\ \A k \in 1 .. n : t[k] = s[k]
      BY <2>6, <3>2
    <3>4. PICK new : new = [k \in 1 .. n + 1 |-> IF k = n + 1 THEN m + 1 ELSE idx[k]]
      OBVIOUS
    <3>5. \A k \in 1 .. n : k \in 1 .. n + 1 /\ k # n + 1
      OBVIOUS
    <3>6. n + 1 \in 1 .. n + 1 /\ \A k \in 1 .. n + 1 : k \in 1 .. n \/ k = n + 1
      OBVIOUS
    <3>7. new[n + 1] = m + 1 /\ \A k \in 1 .. n : new[k] = idx[k] /\ idx[k] \in 1 .. m
      BY <2>7, <3>4, <3>5, <3>6
    <3>8. new \in [1 .. n + 1 -> 1 .. m + 1]
      <4>1. \A k \in 1 .. n + 1 : (IF k = n + 1 THEN m + 1 ELSE idx[k]) \in 1 .. m + 1
        BY <2>4, <3>6, <3>7
      <4> QED
        BY <3>4, <4>1, Zenon
    <3>9. \A k \in 1 .. n + 1 : new[k] \notin gone /\ t[k] = file[new[k]]
      <4>1. ASSUME NEW k \in 1 .. n PROVE new[k] \notin gone /\ t[k] = file[new[k]]
        BY <2>7, <3>3, <3>7, Zenon
      <4>2. new[n + 1] \notin gone /\ t[n + 1] = file[new[n + 1]]
        BY <2>10, <3>1, <3>3, <3>7
      <4> QED
        BY <3>6, <4>1, <4>2, Zenon
    <3>10. ASSUME NEW k \in 1 .. n + 1, NEW l \in 1 .. n + 1, k < l PROVE new[k] < new[l]
      <4>1. k \in 1 .. n
        BY <3>10
      <4>2. CASE l \in 1 .. n
        BY <2>7, <3>7, <3>10, <4>1, <4>2, Zenon
      <4>3. CASE l = n + 1
        <5>1. idx[k] \in 1 .. m
          BY <3>7, <4>1
        <5>2. idx[k] < m + 1
          BY <5>1
        <5> QED
          BY <3>7, <4>1, <4>3, <5>2, Zenon
      <4> QED
        BY <3>6, <4>2, <4>3, Zenon
    <3>11. \A i \in (1 .. m + 1) \ gone : \E k \in 1 .. n + 1 : new[k] = i
      BY <2>7, <2>8, <3>5, <3>6, <3>7, Zenon
    <3>12. Survivors(t, gone, m + 1, new)
      BY <3>3, <3>8, <3>9, <3>10, <3>11, Zenon DEF Survivors
    <3> QED
      BY <2>5, <3>1, <3>2, <3>12, Zenon
  <2> QED
    BY <2>9, <2>10
<1>6. Nat \subseteq Good
  <2> HIDE DEF Good
  <2> QED
    BY <1>4, <1>5, Induction
<1>7. \E idx : Survivors(Seen(len), gone, len, idx)
  <2>1. len <= len
    OBVIOUS
  <2> QED
    BY <1>6, <2>1
<1>8. Seen(len) = seen
  <2>1. f = [i \in 1 .. len |-> f[i]]
    BY <1>2, Zenon
  <2>2. f = [i \in 1 .. Len(file) |-> IF i \in gone THEN <<>> ELSE <<file[i]>>]
    BY <1>1, <1>2, Zenon
  <2> QED
    BY <2>1, <2>2, Zenon
<1> QED
  BY <1>1, <1>7, <1>8, Zenon

-----------------------------------------------------------------------------
(* What feedOne does with a page.                                          *)

Decoder == [partial : Seq(Seg), pageno : Nat]
DecoderMaps == UNION {[D -> Decoder] : D \in SUBSET Streams}
Pump == [decs : DecoderMaps, order : Seq(Streams), sawData : BOOLEAN, done : BOOLEAN,
         queues : [Streams -> Seq(Seq(Seg))]]

LEMMA PacketsType ==
    ASSUME NEW segs \in Seq(Seg)
    PROVE  PacketsOut(segs).packets \in Seq(Seq(Seg)) /\ PacketsOut(segs).partial \in Seq(Seg)
<1>1. PICK len \in Nat : len = Len(segs)
  OBVIOUS
<1>2. PICK f : Gathering(f, segs) /\ PacketsOut(segs) = f[len]
  BY <1>1, GatheredIs, Zenon
<1> DEFINE Fine(n) == f[n].packets \in Seq(Seq(Seg)) /\ f[n].partial \in Seq(Seg)
           Good == {n \in Nat : n <= len => Fine(n)}
<1>3. 0 \in Good
  <2>1. f[0] = [packets |-> <<>>, partial |-> <<>>]
    BY <1>2, Zenon DEF Gathering
  <2>2. [packets |-> <<>>, partial |-> <<>>].packets = <<>> /\ [packets |-> <<>>, partial |-> <<>>].partial = <<>>
    OBVIOUS
  <2>3. <<>> \in Seq(Seq(Seg)) /\ <<>> \in Seq(Seg)
    OBVIOUS
  <2>4. f[0].packets = <<>> /\ f[0].partial = <<>>
    BY <2>1, <2>2, Zenon
  <2> QED
    BY <2>3, <2>4
<1>4. ASSUME NEW n \in Nat, n \in Good PROVE n + 1 \in Good
  <2>0. n + 1 \in Nat
    OBVIOUS
  <2>1. SUFFICES ASSUME n + 1 <= len PROVE Fine(n + 1)
    BY <2>0, Zenon
  <2>2. Fine(n)
    BY <1>4, <2>1
  <2>3. n + 1 \in 1 .. len /\ (n + 1) - 1 = n
    BY <2>1
  <2>4. PICK seg \in Seg : seg = segs[n + 1]
    BY <1>1, <2>3
  <2>5. f[n + 1] = Gather(f[n], seg)
    BY <1>1, <1>2, <2>3, <2>4, Zenon DEF Gathering
  <2>6. PICK ps \in Seq(Seq(Seg)), q \in Seq(Seg) : ps = f[n].packets /\ q = f[n].partial
    BY <2>2
  <2>7. PICK r \in Seq(Seg) : r = Append(q, seg)
    <3>1. Append(q, seg) \in Seq(Seg)
      OBVIOUS
    <3> QED
      BY <3>1, Zenon
  <2>8. Append(ps, r) \in Seq(Seq(Seg)) /\ <<>> \in Seq(Seg)
    OBVIOUS
  <2>9. CASE Ends(seg)
    <3>1. f[n + 1] = [packets |-> Append(ps, r), partial |-> <<>>]
      BY <2>5, <2>6, <2>7, <2>9, Zenon DEF Gather
    <3>2. f[n + 1].packets = Append(ps, r) /\ f[n + 1].partial = <<>>
      BY <3>1
    <3> QED
      BY <2>8, <3>2, Zenon
  <2>10. CASE ~Ends(seg)
    <3>1. f[n + 1] = [packets |-> ps, partial |-> r]
      BY <2>5, <2>6, <2>7, <2>10, Zenon DEF Gather
    <3>2. f[n + 1].packets = ps /\ f[n + 1].partial = r
      BY <3>1
    <3> QED
      BY <2>6, <2>7, <3>2
  <2> QED
    BY <2>9, <2>10
<1>5. Nat \subseteq Good
  <2> HIDE DEF Good
  <2> QED
    BY <1>3, <1>4, Induction
<1>6. Fine(len)
  <2>1. len <= len
    OBVIOUS
  <2> QED
    BY <1>5, <2>1
<1> QED
  BY <1>2, <1>6, Zenon

LEMMA PageInType ==
    ASSUME NEW dec \in Decoder, NEW page \in PageSet
    PROVE  PageIn(dec, page) \in Decoder
<1>1. PICK segs \in Seq(Seg) : segs = page.segments
  BY DEF PageSet
<1>2. PICK no \in Nat : no = page.no
  BY DEF PageSet
<1>3. PICK kept \in Seq(Seg) : kept = Kept(dec, page)
  <2>1. dec.partial \in Seq(Seg) /\ <<>> \in Seq(Seg)
    BY DEF Decoder
  <2> QED
    BY <2>1, Zenon DEF Kept
<1>4. PICK skip \in 0 .. Len(segs) : skip = (IF page.continued /\ kept = <<>> THEN Continuation(segs) ELSE 0)
  <2>1. Continuation(segs) \in 0 .. Len(segs) /\ 0 \in 0 .. Len(segs)
    BY ContinuationIs
  <2> QED
    BY <2>1
<1>5. SubSeq(segs, skip + 1, Len(segs)) \in Seq(Seg)
  OBVIOUS
<1>6. kept \o SubSeq(segs, skip + 1, Len(segs)) \in Seq(Seg)
  BY <1>5, ConcatIs
<1>7. PICK x \in Seq(Seg), y \in Nat : x = kept \o SubSeq(segs, skip + 1, Len(segs)) /\ y = no + 1
  <2>1. no + 1 \in Nat
    OBVIOUS
  <2> QED
    BY <1>6, <2>1, Zenon
<1>8. PageIn(dec, page) = [partial |-> x, pageno |-> y]
  BY <1>1, <1>2, <1>3, <1>4, <1>7, Zenon DEF PageIn
<1> QED
  BY <1>8 DEF Decoder

\* The decoder before the page.
DecOf(p, s) == IF s \in DOMAIN p.decs THEN p.decs[s] ELSE NewDecoder

LEMMA OpenedSkips ==
    ASSUME NEW p \in Pump, NEW page \in PageSet, ~(page.bos /\ page.serial \notin DOMAIN p.decs)
    PROVE  /\ Opened(p, page) \in Pump
           /\ Opened(p, page).decs = p.decs /\ Opened(p, page).order = p.order
           /\ Opened(p, page).done = p.done /\ Opened(p, page).queues = p.queues
           /\ Opened(p, page).sawData <=> p.sawData \/ ~page.bos
<1>1. PICK b \in BOOLEAN : b = (p.sawData \/ ~page.bos)
  OBVIOUS
<1>2. PICK q : q = [p EXCEPT !.sawData = b]
  OBVIOUS
<1>3. Opened(p, page) = q
  BY <1>1, <1>2, Zenon DEF Opened
<1>4. q \in Pump /\ q.decs = p.decs /\ q.order = p.order /\ q.done = p.done /\ q.queues = p.queues /\ q.sawData = b
  BY <1>2 DEF Pump
<1> QED
  BY <1>1, <1>3, <1>4, Zenon

LEMMA OpenedAdds ==
    ASSUME NEW p \in Pump, NEW page \in PageSet, page.bos, page.serial \notin DOMAIN p.decs
    PROVE  /\ Opened(p, page) \in Pump
           /\ DOMAIN Opened(p, page).decs = DOMAIN p.decs \cup {page.serial}
           /\ Opened(p, page).decs[page.serial] = NewDecoder
           /\ \A t \in DOMAIN p.decs : Opened(p, page).decs[t] = p.decs[t]
           /\ Opened(p, page).order = Append(p.order, page.serial)
           /\ Opened(p, page).done = p.done /\ Opened(p, page).queues = p.queues
           /\ Opened(p, page).sawData = p.sawData
<1>1. PICK s \in Streams : s = page.serial
  BY DEF PageSet
<1>2. PICK old \in DecoderMaps, order \in Seq(Streams) : old = p.decs /\ order = p.order
  BY DEF Pump
<1>3. PICK D \in SUBSET Streams : old \in [D -> Decoder]
  BY DEF DecoderMaps
<1>4. s \notin D /\ DOMAIN old = D
  BY <1>1, <1>2, <1>3
<1>5. PICK new : new = [t \in DOMAIN old \cup {s} |-> IF t = s THEN NewDecoder ELSE old[t]]
  OBVIOUS
<1>6. NewDecoder \in Decoder
  BY DEF NewDecoder, Decoder
<1>7. new \in [D \cup {s} -> Decoder] /\ new[s] = NewDecoder /\ \A t \in D : new[t] = old[t]
  BY <1>3, <1>4, <1>5, <1>6
<1>8. new \in DecoderMaps
  <2>1. D \cup {s} \in SUBSET Streams
    OBVIOUS
  <2> QED
    BY <1>7, <2>1, Zenon DEF DecoderMaps
<1>9. PICK more \in Seq(Streams) : more = Append(order, s)
  <2>1. Append(order, s) \in Seq(Streams)
    OBVIOUS
  <2> QED
    BY <2>1, Zenon
<1>10. PICK q : q = [p EXCEPT !.decs = new, !.order = more]
  OBVIOUS
<1>11. Opened(p, page) = q
  BY <1>1, <1>2, <1>5, <1>9, <1>10, Zenon DEF Opened
<1>12. q \in Pump /\ q.decs = new /\ q.order = more /\ q.done = p.done /\ q.queues = p.queues /\ q.sawData = p.sawData
  BY <1>8, <1>10 DEF Pump
<1>13. DOMAIN new = DOMAIN old \cup {s}
  BY <1>5
<1> QED
  BY <1>1, <1>2, <1>4, <1>7, <1>9, <1>11, <1>12, <1>13, Zenon

\* A page whose stream has a decoder, or opens one.
Follows(new, p, page) ==
    LET s == page.serial
        filled == PageIn(DecOf(p, s), page)
        out == PacketsOut(filled.partial)
    IN  /\ new \in Pump
        /\ DOMAIN new.decs = DOMAIN p.decs \cup {s}
        /\ new.decs[s] = [filled EXCEPT !.partial = out.partial]
        /\ \A t \in DOMAIN p.decs : t # s => new.decs[t] = p.decs[t]
        /\ new.queues[s] = p.queues[s] \o out.packets
        /\ \A t \in Streams : t # s => new.queues[t] = p.queues[t]
        /\ new.order = IF s \in DOMAIN p.decs THEN p.order ELSE Append(p.order, s)
        /\ new.done = p.done
        /\ new.sawData <=> p.sawData \/ ~page.bos

\* A page of a stream whose first page never came.
Skips(new, p, page) ==
    /\ new \in Pump /\ new.decs = p.decs /\ new.queues = p.queues
    /\ new.order = p.order /\ new.done = p.done /\ new.sawData = TRUE

Takes(new, p, s, filled, out) ==
    /\ new \in Pump
    /\ DOMAIN new.decs = DOMAIN p.decs
    /\ new.decs[s] = [filled EXCEPT !.partial = out.partial]
    /\ \A t \in DOMAIN p.decs : t # s => new.decs[t] = p.decs[t]
    /\ new.queues[s] = p.queues[s] \o out.packets
    /\ \A t \in Streams : t # s => new.queues[t] = p.queues[t]
    /\ new.order = p.order /\ new.done = p.done /\ new.sawData = p.sawData

Took(p, s, filled, out) ==
    [p EXCEPT !.decs[s] = [filled EXCEPT !.partial = out.partial],
              !.queues[s] = @ \o out.packets]

LEMMA PumpFeeds ==
    ASSUME NEW p \in Pump, NEW s \in Streams, s \in DOMAIN p.decs, NEW page \in PageSet,
           NEW filled, filled = PageIn(p.decs[s], page), NEW out, out = PacketsOut(filled.partial)
    PROVE  Takes(Took(p, s, filled, out), p, s, filled, out)
<1>0. PICK new : /\ new = [p EXCEPT !.decs[s] = [filled EXCEPT !.partial = out.partial],
                                    !.queues[s] = @ \o out.packets]
                 /\ new = Took(p, s, filled, out)
  BY Zenon DEF Took
<1>1. PICK decs \in DecoderMaps, queues \in [Streams -> Seq(Seq(Seg))] : decs = p.decs /\ queues = p.queues
  BY DEF Pump
<1>2. PICK D \in SUBSET Streams : decs \in [D -> Decoder]
  BY DEF DecoderMaps
<1>3. s \in D /\ DOMAIN decs = D
  BY <1>1, <1>2
<1>4. filled \in Decoder
  <2>1. p.decs[s] \in Decoder
    BY <1>1, <1>2, <1>3
  <2> QED
    BY <2>1, PageInType
<1>5. PICK segs \in Seq(Seg) : segs = filled.partial
  BY <1>4 DEF Decoder
<1>6. out.packets \in Seq(Seq(Seg)) /\ out.partial \in Seq(Seg)
  <2>1. PacketsOut(segs).packets \in Seq(Seq(Seg)) /\ PacketsOut(segs).partial \in Seq(Seg)
    BY PacketsType
  <2> QED
    BY <1>5, <2>1, Zenon
<1>7. PICK dec \in Decoder : dec = [filled EXCEPT !.partial = out.partial]
  <2>1. [filled EXCEPT !.partial = out.partial] \in Decoder
    BY <1>4, <1>6 DEF Decoder
  <2> QED
    BY <2>1, Zenon
<1>8. PICK queue \in Seq(Seq(Seg)) : queue = queues[s] \o out.packets
  <2>1. PICK ps \in Seq(Seq(Seg)) : ps = out.packets
    BY <1>6
  <2>2. queues[s] \o ps \in Seq(Seq(Seg))
    BY ConcatIs
  <2> QED
    BY <2>1, <2>2, Zenon
<1>9. PICK d, q : d = [decs EXCEPT ![s] = dec] /\ q = [queues EXCEPT ![s] = queue]
  OBVIOUS
<1>10. /\ d \in [D -> Decoder] /\ d[s] = dec /\ \A t \in D : t # s => d[t] = decs[t]
       /\ q \in [Streams -> Seq(Seq(Seg))] /\ q[s] = queue /\ \A t \in Streams : t # s => q[t] = queues[t]
  BY <1>2, <1>3, <1>9
<1>11. d \in DecoderMaps /\ DOMAIN d = D
  BY <1>10 DEF DecoderMaps
<1>12. new = [p EXCEPT !.decs = d, !.queues = q]
  BY <1>0, <1>1, <1>7, <1>8, <1>9, ZenonT(30)
<1>13. /\ new \in Pump /\ new.decs = d /\ new.queues = q
       /\ new.order = p.order /\ new.done = p.done /\ new.sawData = p.sawData
  BY <1>10, <1>11, <1>12 DEF Pump
<1> QED
  BY <1>0, <1>1, <1>3, <1>7, <1>8, <1>10, <1>11, <1>13, ZenonT(30) DEF Takes

LEMMA FeedPageIs ==
    ASSUME NEW p \in Pump, NEW page \in PageSet
    PROVE  IF page.serial \in DOMAIN p.decs \/ page.bos
           THEN Follows(FeedPage(p, page), p, page)
           ELSE Skips(FeedPage(p, page), p, page)
<1>1. PICK s \in Streams : s = page.serial
  BY DEF PageSet
<1>2. PICK o : o = Opened(p, page)
  OBVIOUS
<1>3. PICK filled, out : filled = PageIn(o.decs[s], page) /\ out = PacketsOut(filled.partial)
  OBVIOUS
<1>4. FeedPage(p, page) = IF s \notin DOMAIN o.decs THEN o
                          ELSE [o EXCEPT !.decs[s] = [filled EXCEPT !.partial = out.partial],
                                         !.queues[s] = @ \o out.packets]
  BY <1>1, <1>2, <1>3, Zenon DEF FeedPage
<1>5. CASE s \notin DOMAIN p.decs /\ ~page.bos
  <2>1. /\ o \in Pump /\ o.decs = p.decs /\ o.order = p.order
        /\ o.done = p.done /\ o.queues = p.queues
        /\ o.sawData <=> p.sawData \/ ~page.bos
    BY <1>2, <1>5, OpenedSkips
  <2>2. FeedPage(p, page) = o
    BY <1>4, <1>5, <2>1, Zenon
  <2>3. o.sawData = TRUE
    BY <1>5, <2>1 DEF Pump
  <2> QED
    BY <1>1, <1>5, <2>1, <2>2, <2>3, Zenon DEF Skips
<1>6. CASE s \in DOMAIN p.decs
  <2>1. /\ o \in Pump /\ o.decs = p.decs /\ o.order = p.order
        /\ o.done = p.done /\ o.queues = p.queues
        /\ o.sawData <=> p.sawData \/ ~page.bos
    BY <1>1, <1>2, <1>6, OpenedSkips
  <2>2. PICK new : new = Took(o, s, filled, out)
    OBVIOUS
  <2>3. FeedPage(p, page) = new
    BY <1>4, <1>6, <2>1, <2>2, Zenon DEF Took
  <2>4. Takes(new, o, s, filled, out)
    BY <1>3, <1>6, <2>1, <2>2, PumpFeeds, Zenon
  <2>5. DecOf(p, s) = o.decs[s] /\ DOMAIN p.decs = DOMAIN p.decs \cup {s}
    BY <1>6, <2>1 DEF DecOf
  <2> QED
    <3>1. filled = PageIn(DecOf(p, s), page) /\ out = PacketsOut(filled.partial)
      BY <1>3, <2>5, Zenon
    <3>3. new.order = (IF s \in DOMAIN p.decs THEN p.order ELSE Append(p.order, s))
      BY <1>6, <2>1, <2>4, Zenon DEF Takes
    <3>4. new.sawData <=> p.sawData \/ ~page.bos
      BY <2>1, <2>4, Zenon DEF Takes
    <3>5. /\ new \in Pump
          /\ DOMAIN new.decs = DOMAIN p.decs \cup {s}
          /\ new.decs[s] = [filled EXCEPT !.partial = out.partial]
          /\ \A t \in DOMAIN p.decs : t # s => new.decs[t] = p.decs[t]
          /\ new.queues[s] = p.queues[s] \o out.packets
          /\ \A t \in Streams : t # s => new.queues[t] = p.queues[t]
          /\ new.done = p.done
      BY <2>1, <2>4, <2>5, ZenonT(30) DEF Takes
    <3>6. Follows(new, p, page)
      BY <1>1, <3>1, <3>3, <3>4, <3>5, Zenon DEF Follows
    <3> QED
      BY <1>1, <1>6, <2>3, <3>6, Zenon
<1>7. CASE s \notin DOMAIN p.decs /\ page.bos
  <2>1. /\ o \in Pump
        /\ DOMAIN o.decs = DOMAIN p.decs \cup {s}
        /\ o.decs[s] = NewDecoder
        /\ \A t \in DOMAIN p.decs : o.decs[t] = p.decs[t]
        /\ o.order = Append(p.order, s)
        /\ o.done = p.done /\ o.queues = p.queues
        /\ o.sawData = p.sawData
    BY <1>1, <1>2, <1>7, OpenedAdds
  <2>a. s \in DOMAIN o.decs
    BY <2>1
  <2>2. PICK new : new = Took(o, s, filled, out)
    OBVIOUS
  <2>3. FeedPage(p, page) = new
    BY <1>4, <2>a, <2>2, Zenon DEF Took
  <2>4. Takes(new, o, s, filled, out)
    BY <1>3, <2>a, <2>1, <2>2, PumpFeeds, Zenon
  <2>5. DecOf(p, s) = o.decs[s]
    BY <1>7, <2>1, Zenon DEF DecOf
  <2>6. \A t \in DOMAIN p.decs : t \in DOMAIN o.decs
    BY <2>1
  <2> QED
    <3>1. filled = PageIn(DecOf(p, s), page) /\ out = PacketsOut(filled.partial)
      BY <1>3, <2>5, Zenon
    <3>3. new.order = (IF s \in DOMAIN p.decs THEN p.order ELSE Append(p.order, s))
      BY <1>7, <2>1, <2>4, Zenon DEF Takes
    <3>4. new.sawData <=> p.sawData \/ ~page.bos
      BY <1>7, <2>1, <2>4, Zenon DEF Takes
    <3>5. /\ new \in Pump
          /\ DOMAIN new.decs = DOMAIN p.decs \cup {s}
          /\ new.decs[s] = [filled EXCEPT !.partial = out.partial]
          /\ \A t \in DOMAIN p.decs : t # s => new.decs[t] = p.decs[t]
          /\ new.queues[s] = p.queues[s] \o out.packets
          /\ \A t \in Streams : t # s => new.queues[t] = p.queues[t]
          /\ new.done = p.done
      BY <2>1, <2>4, <2>6, Zenon DEF Takes
    <3>6. Follows(new, p, page)
      BY <1>1, <3>1, <3>3, <3>4, <3>5, Zenon DEF Follows
    <3> QED
      BY <1>1, <1>7, <2>3, <3>6, Zenon
<1> QED
  BY <1>1, <1>5, <1>6, <1>7, Zenon

-----------------------------------------------------------------------------
(* The reader, stream by stream.                                           *)

\* Each segment that was written is on a page.
LEMMA OnPage ==
    ASSUME NEW T, NEW off, Offsets(off, T), NEW a \in Nat, NEW b \in Nat, a <= b, b < Len(off),
           NEW k \in off[a + 1] + 1 .. off[b + 1]
    PROVE  \E n \in a .. b - 1 : k \in off[n + 1] + 1 .. off[n + 2]
<1>1. PICK w \in Nat : w = Len(off)
  BY OffsetsIs
<1>2. \A i \in 1 .. w : off[i] \in Nat
  BY <1>1 DEF Offsets
<1>a. \A d \in Nat : a + d < w => a + d + 1 \in 1 .. w
  OBVIOUS
<1>b. k \in Int /\ off[a + 1] + 1 <= k /\ k <= off[b + 1]
  OBVIOUS
<1> DEFINE Fine(d) == a + d < w /\ k <= off[a + d + 1] =>
                         \E n \in a .. a + d - 1 : k \in off[n + 1] + 1 .. off[n + 2]
           Good == {d \in Nat : Fine(d)}
<1>3. 0 \in Good
  <2>1. ASSUME a + 0 < w, k <= off[a + 0 + 1] PROVE FALSE
    <3>1. a + 0 + 1 = a + 1 /\ a + 1 \in 1 .. w
      BY <2>1
    <3>2. PICK x \in Nat : x = off[a + 1]
      BY <1>2, <3>1
    <3>3. x + 1 <= k /\ k <= x
      BY <1>b, <2>1, <3>1, <3>2, Zenon
    <3> QED
      BY <1>b, <3>3
  <2> QED
    BY <2>1, Zenon
<1>4. ASSUME NEW d \in Nat, d \in Good PROVE d + 1 \in Good
  <2>0. d + 1 \in Nat
    OBVIOUS
  <2>1. SUFFICES ASSUME a + (d + 1) < w, k <= off[a + (d + 1) + 1]
                 PROVE  \E n \in a .. a + (d + 1) - 1 : k \in off[n + 1] + 1 .. off[n + 2]
    BY <2>0, Zenon
  <2>2. /\ a + d < w /\ a + d + 1 \in 1 .. w /\ a + d \in a .. a + (d + 1) - 1
        /\ a + (d + 1) + 1 = (a + d) + 2 /\ (a + d) + 2 \in 1 .. w
        /\ \A n \in a .. a + d - 1 : n \in a .. a + (d + 1) - 1
    BY <2>1
  <2>3. PICK x \in Nat, y \in Nat : x = off[(a + d) + 1] /\ y = off[(a + d) + 2]
    BY <1>2, <2>2
  <2>4. CASE k <= x
    <3>1. Fine(d)
      BY <1>4
    <3>2. \E n \in a .. a + d - 1 : k \in off[n + 1] + 1 .. off[n + 2]
      BY <2>2, <2>3, <2>4, <3>1, Zenon
    <3> QED
      BY <2>2, <3>2, Zenon
  <2>5. CASE ~(k <= x)
    <3>1. k <= y
      BY <2>1, <2>2, <2>3, Zenon
    <3>2. k \in x + 1 .. y
      BY <1>b, <2>5, <3>1
    <3> QED
      BY <2>2, <2>3, <3>2, Zenon
  <2> QED
    BY <2>4, <2>5
<1>5. Nat \subseteq Good
  <2> HIDE DEF Good
  <2> QED
    BY <1>3, <1>4, Induction
<1>6. PICK d \in Nat : b = a + d
  <2>1. b - a \in Nat /\ b = a + (b - a)
    OBVIOUS
  <2> QED
    BY <2>1, Zenon
<1>7. Fine(d)
  BY <1>5
<1>8. a + d < w /\ k <= off[a + d + 1]
  BY <1>1, <1>b, <1>6, Zenon
<1>9. \E n \in a .. a + d - 1 : k \in off[n + 1] + 1 .. off[n + 2]
  BY <1>7, <1>8
<1> HIDE DEF Fine
<1> QED
  BY <1>6, <1>9

\* A decoder that is new has seen nothing.
LEMMA DecoderNew ==
    ASSUME NEW T, NEW sz, Framed(T, sz), NEW off, Offsets(off, T)
    PROVE  DecoderAt(NewDecoder, <<>>, T, sz, off, {})
<1>1. NewDecoder.partial = <<>> /\ NewDecoder.pageno = 0
  BY DEF NewDecoder
<1>2. PICK w \in Nat : w = Len(off) /\ w # 0
  BY DEF Offsets
<1>3. 0 < w /\ 0 + 1 = 1 /\ 0 <= 0
  BY <1>2
<1>4. off[1] = 0
  BY Zenon DEF Offsets
<1>5. T \in Seq(Seg)
  BY Zenon DEF Framed
<1>6. <<>> = SubSeq(T, 0 + 1, 0)
  BY <1>5
<1>7. (\A k \in 0 + 1 .. 0 : FALSE) /\ (\A k \in 1 .. 0 : FALSE) /\ ~(0 < 0)
  OBVIOUS
<1>8. Unfinished(<<>>, T, 0, 0)
  BY <1>6, <1>7, Zenon DEF Unfinished
<1>9. <<>> \in Seq(Seq(Seg)) /\ \A i \in 1 .. Len(<<>>) : FALSE
  OBVIOUS
<1>10. WholePackets(<<>>, T, sz, 0, 0)
  BY <1>9, Zenon DEF WholePackets
<1>11. Covered(<<>>, T, 0, {})
  BY <1>7, Zenon DEF Covered
<1>12. NewDecoder.pageno \in Nat /\ NewDecoder.pageno < Len(off) /\ off[NewDecoder.pageno + 1] = 0
  BY <1>1, <1>2, <1>3, <1>4
<1>13. 0 \in Nat /\ 0 <= 0
  OBVIOUS
<1> QED
  BY <1>1, <1>8, <1>10, <1>11, <1>12, <1>13, Zenon DEF DecoderAt

LEMMA BrokenMore ==
    ASSUME NEW dec, NEW taken, NEW T, NEW sz, NEW off, NEW some, NEW broken, some \subseteq broken,
           DecoderAt(dec, taken, T, sz, off, some)
    PROVE  DecoderAt(dec, taken, T, sz, off, broken)
<1>1. \A r \in Nat : Covered(taken, T, r, some) => Covered(taken, T, r, broken)
  BY Zenon DEF Covered
<1> QED
  BY <1>1, Zenon DEF DecoderAt

\* After the first page of a stream there is a packet of it.
LEMMA FirstTaken ==
    ASSUME NEW T, NEW sz \in Seq(Nat), Framed(T, sz), NEW off, Offsets(off, T), FirstPage(off, T),
           NEW dec, NEW taken, dec.pageno = 1, DecoderAt(dec, taken, T, sz, off, {})
    PROVE  taken # <<>>
<1>1. PICK w \in Nat : w = Len(off) /\ 1 < w
  BY OffsetsIs, Zenon DEF DecoderAt
<1>2. off \in Seq(Nat) /\ off[1] < off[2] /\ off[1] = 0
  <2>1. 1 \in 1 .. w /\ 2 \in 1 .. w /\ 1 < 2
    BY <1>1
  <2> QED
    BY <1>1, <2>1, Zenon DEF Offsets
<1>3. PICK e \in Nat : e = off[2] /\ e # 0
  BY <1>1, <1>2
<1>4. 1 + 1 = 2 /\ 1 < Len(off)
  BY <1>1
<1>5. PICK r \in Nat : r <= e /\ Unfinished(dec.partial, T, r, e) /\ Covered(taken, T, r, {})
  BY <1>3, <1>4, Zenon DEF DecoderAt
<1>6. Ends(T[e])
  <2>1. Len(off) > 1
    BY <1>1
  <2> QED
    BY <1>3, <2>1, Zenon DEF FirstPage
<1>7. ~(e \in r + 1 .. e)
  BY <1>5, <1>6, Zenon DEF Unfinished
<1>8. 1 \in 1 .. r
  BY <1>3, <1>5, <1>7
<1>9. \E i \in 1 .. Len(taken) : Number(taken[i]) = T[1].packet
  BY <1>5, <1>8, Zenon DEF Covered
<1>10. 1 .. Len(<<>>) = {}
  OBVIOUS
<1> QED
  BY <1>9, <1>10

\* A page of the file that the reader does not see.
Missing(s, n) == \E i \in lost : i \in 1 .. Len(file) /\ file[i].serial = s /\ file[i].no = n

\* The packets that have a part on such a page.
Broken(s, off) ==
    {q \in Nat : \E n \in 0 .. Len(off) - 2 :
        Missing(s, n) /\ \E k \in off[n + 1] + 1 .. off[n + 2] : Stream(s)[k].packet = q}

\* After the first k of them, page n of s is still to come.
ToCome(s, k, n) == \E j \in k + 1 .. Len(unread) : unread[j].serial = s /\ unread[j].no = n

\* What the reader sees of a stream are pages of it, in their order.
Laid(s, off) ==
    /\ \A j \in 1 .. Len(unread) : unread[j].serial = s => PageLaid(unread[j], Stream(s), off)
    /\ \A j, l \in 1 .. Len(unread) :
          j < l /\ unread[j].serial = s /\ unread[l].serial = s => unread[j].no < unread[l].no

\* The pump after the first k pages: what it has of a stream, and what is missing.
ReadTo(p, k, s, off) ==
    IF s \in DOMAIN p.decs
    THEN /\ DecoderAt(p.decs[s], got[s] \o p.queues[s], Stream(s), sizes[s], off, Broken(s, off))
         /\ got[s] \o p.queues[s] # <<>>
         /\ \A j \in k + 1 .. Len(unread) :
               unread[j].serial = s => p.decs[s].pageno <= unread[j].no
         /\ \A n \in p.decs[s].pageno .. Len(off) - 2 : Missing(s, n) \/ ToCome(s, k, n)
    ELSE /\ p.queues[s] = <<>> /\ got[s] = <<>>
         /\ ToCome(s, k, 0) => \A n \in 0 .. Len(off) - 2 : Missing(s, n) \/ ToCome(s, k, n)

ReaderTypes ==
    /\ unread \in Seq(PageSet) /\ pump \in Pump
    /\ got \in [Streams -> Seq(Seq(Seg))]
    /\ lost \in SUBSET (1 .. Len(file))

\* What lies between the page that is due and the page that comes is broken.
LEMMA GapBroken ==
    ASSUME NEW s \in Streams, NEW off, StreamAt(s, off), NEW a \in Nat, NEW b \in Nat,
           a <= b, b + 1 < Len(off), \A n \in a .. b - 1 : Missing(s, n),
           NEW k \in off[a + 1] + 1 .. off[b + 1]
    PROVE  Stream(s)[k].packet \in Broken(s, off)
<1>1. PICK T \in Seq(Seg) : T = Stream(s) /\ Framed(T, sizes[s]) /\ Offsets(off, T) /\ sizes[s] \in Seq(Nat)
  BY StreamIs, Zenon DEF StreamAt, PagedAt, SizesAt
<1>2. PICK w \in Nat : w = Len(off)
  BY <1>1, OffsetsIs
<1>3. b < Len(off)
  BY <1>2
<1>4. PICK n \in a .. b - 1 : k \in off[n + 1] + 1 .. off[n + 2]
  BY <1>1, <1>3, OnPage
<1>5. n \in 0 .. Len(off) - 2
  BY <1>2
<1>6. T[k].packet \in Nat
  <2>1. k \in 1 .. Len(T)
    <3>1. n + 1 \in 1 .. w /\ n + 2 \in 1 .. w
      BY <1>2
    <3>2. off[n + 1] \in Nat /\ off[n + 2] \in Nat /\ off[n + 2] <= Len(T)
      BY <1>1, <1>2, <3>1 DEF Offsets
    <3> QED
      BY <1>4, <3>2
  <2>2. T[k].packet \in 1 .. Len(sizes[s])
    BY <1>1, <2>1, Zenon DEF Framed
  <2> QED
    BY <1>1, <2>2
<1>7. Missing(s, n)
  BY <1>4
<1> QED
  BY <1>1, <1>4, <1>5, <1>6, <1>7, Zenon DEF Broken

\* The packets taken when page k + 1 of those to be read is one of s.
LEMMA QueuesAssociative ==
    \A x, y, z \in Seq(Seq(Seg)) : x \o (y \o z) = (x \o y) \o z
OBVIOUS

LEMMA FedHere ==
    ASSUME ReaderTypes, NEW s \in Streams, NEW off, StreamAt(s, off), Laid(s, off),
           NEW k \in Nat, k + 1 <= Len(unread), unread[k + 1].serial = s,
           NEW p \in Pump, ReadTo(p, k, s, off),
           NEW new, Follows(new, p, unread[k + 1]), s \in DOMAIN p.decs \/ unread[k + 1].bos
    PROVE  ReadTo(new, k + 1, s, off)
<1>1. PICK page \in PageSet : page = unread[k + 1] /\ page.serial = s
  <2>1. k + 1 \in 1 .. Len(unread) /\ unread \in Seq(PageSet)
    BY DEF ReaderTypes
  <2>2. unread[k + 1] \in PageSet
    BY <2>1
  <2> QED
    BY <2>2, Zenon
<1>2. PICK T \in Seq(Seg), sz \in Seq(Nat) :
          /\ T = Stream(s) /\ sz = sizes[s] /\ Framed(T, sz) /\ Offsets(off, T) /\ FirstPage(off, T)
  BY StreamIs, Zenon DEF StreamAt, PagedAt, SizesAt
<1>3. PICK w \in Nat : w = Len(off)
  BY <1>2, OffsetsIs
<1>4. PICK len \in Nat : len = Len(unread) /\ k + 1 \in 1 .. len
  <2>1. unread \in Seq(PageSet)
    BY Zenon DEF ReaderTypes
  <2>2. Len(unread) \in Nat /\ k + 1 \in 1 .. Len(unread)
    BY <2>1
  <2> QED
    BY <2>2, Zenon
<1>5. PageLaid(page, T, off)
  BY <1>1, <1>2, <1>4, Zenon DEF Laid
<1>6. PICK no \in Nat : no = page.no /\ no + 1 < w
  BY <1>3, <1>5, Zenon DEF PageLaid
<1>7. \A j \in (k + 1) + 1 .. len : /\ j \in k + 1 .. len /\ j \in 1 .. len /\ k + 1 < j
                                    /\ unread[j].serial = s => no < unread[j].no
  <2>1. \A j \in (k + 1) + 1 .. len : j \in k + 1 .. len /\ j \in 1 .. len /\ k + 1 < j
    OBVIOUS
  <2> QED
    BY <1>1, <1>4, <1>6, <2>1, Zenon DEF Laid
<1>8. \A n \in Nat : ToCome(s, k, n) => n = no \/ ToCome(s, k + 1, n)
  <2>1. \A j \in k + 1 .. len : j = k + 1 \/ j \in (k + 1) + 1 .. len
    OBVIOUS
  <2> QED
    BY <1>1, <1>4, <1>6, <2>1, Zenon DEF ToCome
<1>9. \A j \in (k + 1) + 1 .. len : unread[j].serial = s => unread[j].no \in Nat /\ no + 1 <= unread[j].no
  <2>1. ASSUME NEW j \in (k + 1) + 1 .. len, unread[j].serial = s
        PROVE  unread[j].no \in Nat /\ no + 1 <= unread[j].no
    <3>1. unread[j] \in PageSet
      <4>1. unread \in Seq(PageSet)
        BY Zenon DEF ReaderTypes
      <4> QED
        BY <1>4, <1>7, <4>1
    <3>2. PICK m \in Nat : m = unread[j].no
      BY <3>1 DEF PageSet
    <3>3. no < m
      BY <1>7, <2>1, <3>2, Zenon
    <3>4. no + 1 <= m
      BY <3>3
    <3> QED
      BY <3>2, <3>4, Zenon
  <2> QED
    BY <2>1, Zenon
<1>c. PICK filled : filled = PageIn(DecOf(p, s), page)
  OBVIOUS
<1>d. PICK out : out = PacketsOut(filled.partial)
  OBVIOUS
<1>10. /\ filled = PageIn(DecOf(p, s), page) /\ out = PacketsOut(filled.partial)
       /\ new.decs[s] = [filled EXCEPT !.partial = out.partial]
       /\ new.queues[s] = p.queues[s] \o out.packets
       /\ s \in DOMAIN new.decs /\ new \in Pump
  <2>1. Follows(new, p, page)
    BY <1>1, Zenon
  <2>2. DOMAIN new.decs = DOMAIN p.decs \cup {s}
    BY <1>1, <2>1, Zenon DEF Follows
  <2>3. s \in DOMAIN new.decs
    BY <2>2
  <2> QED
    BY <1>1, <1>c, <1>d, <2>1, <2>3, Zenon DEF Follows
<1>11. PICK dec : dec = new.decs[s]
  OBVIOUS
<1>a. PICK g \in Seq(Seq(Seg)), q \in Seq(Seq(Seg)), x \in Seq(Seq(Seg)) :
          g = got[s] /\ q = p.queues[s] /\ new.queues[s] = q \o x /\ x = out.packets
  <2>1. got[s] \in Seq(Seq(Seg))
    BY DEF ReaderTypes
  <2>2. p.queues[s] \in Seq(Seq(Seg))
    BY DEF Pump
  <2>3. out.packets \in Seq(Seq(Seg))
    <3>1. DecOf(p, s) \in Decoder
      <4>1. CASE s \in DOMAIN p.decs
        <5>1. PICK d \in DecoderMaps : d = p.decs
          BY DEF Pump
        <5>2. d[s] \in Decoder
          BY <4>1, <5>1 DEF DecoderMaps
        <5> QED
          BY <4>1, <5>1, <5>2, Zenon DEF DecOf
      <4>2. CASE s \notin DOMAIN p.decs
        <5>1. NewDecoder \in Decoder
          BY DEF NewDecoder, Decoder
        <5> QED
          BY <4>2, <5>1, Zenon DEF DecOf
      <4> QED
        BY <4>1, <4>2
    <3>2. PageIn(DecOf(p, s), page) \in Decoder
      BY <3>1, PageInType
    <3>3. PICK segs \in Seq(Seg) : segs = filled.partial
      BY <1>10, <3>2 DEF Decoder
    <3>4. PacketsOut(segs).packets \in Seq(Seq(Seg))
      BY PacketsType
    <3> QED
      BY <1>10, <3>3, <3>4, Zenon
  <2> QED
    BY <1>10, <2>1, <2>2, <2>3, Zenon
<1>b. g \o (q \o x) = (g \o q) \o x
  BY QueuesAssociative, Zenon
<1>12. /\ dec.pageno = no + 1
       /\ DecoderAt(dec, g \o (q \o x), T, sz, off, Broken(s, off))
       /\ g \o (q \o x) # <<>>
       /\ \A n \in no + 1 .. w - 2 : Missing(s, n) \/ ToCome(s, k, n)
  <2>1. CASE s \in DOMAIN p.decs
    <3>1. PICK old : old = p.decs[s] /\ DecOf(p, s) = old
      BY <2>1, Zenon DEF DecOf
    <3>2. /\ DecoderAt(old, g \o q, T, sz, off, Broken(s, off))
          /\ g \o q # <<>>
          /\ \A j \in k + 1 .. Len(unread) : unread[j].serial = s => old.pageno <= unread[j].no
          /\ \A n \in old.pageno .. Len(off) - 2 : Missing(s, n) \/ ToCome(s, k, n)
      BY <1>2, <1>a, <2>1, <3>1, Zenon DEF ReadTo
    <3>3. PICK m \in Nat : m = old.pageno
      BY <3>2, Zenon DEF DecoderAt
    <3>4. m <= no
      <4>1. k + 1 \in k + 1 .. len
        BY <1>4
      <4> QED
        BY <1>1, <1>4, <1>6, <3>2, <3>3, <4>1, Zenon
    <3>5. ASSUME NEW n \in m .. no - 1 PROVE Missing(s, n)
      <4>1. n \in m .. w - 2 /\ n \in Nat /\ n < no
        <5>1. no + 1 < w
          BY <1>6, Zenon
        <5> QED
          BY <5>1
      <4>2. Missing(s, n) \/ ToCome(s, k, n)
        BY <1>3, <3>2, <3>3, <4>1, Zenon
      <4>3. ~ToCome(s, k, n)
        <5>1. SUFFICES ASSUME ToCome(s, k, n) PROVE FALSE
          BY Zenon
        <5>2. n # no
          BY <4>1
        <5>3. ToCome(s, k + 1, n)
          BY <1>8, <4>1, <5>1, <5>2, Zenon
        <5>4. PICK j \in (k + 1) + 1 .. len : unread[j].serial = s /\ unread[j].no = n
          BY <1>4, <5>3, Zenon DEF ToCome
        <5>5. no + 1 <= n
          BY <1>9, <5>4, Zenon
        <5> QED
          BY <4>1, <5>5
      <4> QED
        BY <4>2, <4>3
    <3>6. \A i \in off[m + 1] + 1 .. off[no + 1] : T[i].packet \in Broken(s, off)
      <4>1. no + 1 < Len(off)
        BY <1>3, <1>6, Zenon
      <4>2. \A i \in off[m + 1] + 1 .. off[no + 1] : Stream(s)[i].packet \in Broken(s, off)
        BY <3>4, <3>5, <4>1, GapBroken
      <4> QED
        BY <1>2, <4>2, Zenon
    <3>7. /\ old.pageno <= page.no
          /\ \A i \in off[old.pageno + 1] + 1 .. off[page.no + 1] : T[i].packet \in Broken(s, off)
      BY <1>6, <3>3, <3>4, <3>6, Zenon
    <3>8. dec.pageno = page.no + 1 /\ DecoderAt(dec, (g \o q) \o out.packets, T, sz, off, Broken(s, off))
      <4>1. out = PacketsOut(PageIn(old, page).partial) /\ dec = LeftOf(PageIn(old, page), out)
        BY <1>10, <1>11, <3>1, Zenon DEF LeftOf
      <4>a. Due(old, page, T, off, Broken(s, off))
        BY <3>7, Zenon DEF Due
      <4>2. Framed(T, sz) /\ Offsets(off, T) /\ PageLaid(page, T, off)
        BY <1>2, <1>5, Zenon
      <4>3. DecoderAt(old, g \o q, T, sz, off, Broken(s, off))
        BY <3>2, Zenon
      <4>4. FedAt(dec, page, (g \o q) \o out.packets, T, sz, off, Broken(s, off))
        BY <4>a, <4>1, <4>2, <4>3, PageFed, Zenon
      <4> QED
        BY <4>4, Zenon DEF FedAt
    <3>9. (g \o q) \o x # <<>>
      BY <3>2
    <3>10. \A n \in no + 1 .. w - 2 : n \in m .. w - 2
      BY <3>4, SMTT(30)
    <3> QED
      BY <1>3, <1>6, <1>a, <1>b, <3>2, <3>3, <3>8, <3>9, <3>10, Zenon
  <2>2. CASE s \notin DOMAIN p.decs
    <3>1. /\ q = <<>> /\ g = <<>>
          /\ ToCome(s, k, 0) => \A n \in 0 .. Len(off) - 2 : Missing(s, n) \/ ToCome(s, k, n)
      BY <1>a, <2>2, Zenon DEF ReadTo
    <3>2. no = 0
      BY <1>1, <1>5, <1>6, <2>2, Zenon DEF PageLaid
    <3>3. ToCome(s, k, 0)
      <4>1. k + 1 \in k + 1 .. len
        BY <1>4
      <4> QED
        BY <1>1, <1>4, <1>6, <3>2, <4>1, Zenon DEF ToCome
    <3>4. DecOf(p, s) = NewDecoder
      BY <2>2, Zenon DEF DecOf
    <3>5. DecoderAt(NewDecoder, <<>>, T, sz, off, {})
      BY <1>2, DecoderNew
    <3>6. NewDecoder.pageno = 0
      BY DEF NewDecoder
    <3>7. /\ NewDecoder.pageno <= page.no
          /\ \A i \in off[NewDecoder.pageno + 1] + 1 .. off[page.no + 1] : T[i].packet \in {}
      <4>1. off[1] = 0
        BY <1>2, Zenon DEF Offsets
      <4>2. page.no = 0 /\ 0 <= 0 /\ 0 + 1 = 1 /\ (\A i \in 0 + 1 .. 0 : FALSE)
        BY <1>6, <3>2
      <4> QED
        BY <3>6, <4>1, <4>2, Zenon
    <3>8. dec.pageno = page.no + 1 /\ DecoderAt(dec, <<>> \o out.packets, T, sz, off, {})
      <4>1. /\ out = PacketsOut(PageIn(NewDecoder, page).partial)
            /\ dec = LeftOf(PageIn(NewDecoder, page), out)
        BY <1>10, <1>11, <3>4, Zenon DEF LeftOf
      <4>a. Due(NewDecoder, page, T, off, {})
        BY <3>7, Zenon DEF Due
      <4> QED
        <5>1. Framed(T, sz) /\ Offsets(off, T) /\ PageLaid(page, T, off)
          BY <1>2, <1>5, Zenon
        <5>2. FedAt(dec, page, <<>> \o out.packets, T, sz, off, {})
          BY <4>a, <3>5, <4>1, <5>1, PageFed, Zenon
        <5> QED
          BY <5>2, Zenon DEF FedAt
    <3>9. g \o (q \o x) = x /\ <<>> \o x = x
      <4>1. <<>> \o x = x
        BY ConcatEmpty
      <4> QED
        BY <3>1, <4>1, Zenon
    <3>10. dec.pageno = 1 /\ DecoderAt(dec, x, T, sz, off, {})
      <4>1. page.no + 1 = 1
        BY <1>6, <3>2
      <4> QED
        BY <1>a, <3>8, <3>9, <4>1, Zenon
    <3>11. x # <<>>
      BY <1>2, <3>10, FirstTaken
    <3>12. DecoderAt(dec, x, T, sz, off, Broken(s, off))
      BY <3>10, BrokenMore
    <3>13. \A n \in no + 1 .. w - 2 : n \in 0 .. w - 2
      OBVIOUS
    <3> QED
      BY <1>3, <1>6, <3>1, <3>3, <3>8, <3>9, <3>11, <3>12, <3>13, Zenon
  <2> QED
    BY <2>1, <2>2
<1>13. \A n \in no + 1 .. w - 2 : Missing(s, n) \/ ToCome(s, k + 1, n)
  <2>1. \A n \in no + 1 .. w - 2 : n \in Nat /\ n # no
    OBVIOUS
  <2> QED
    BY <1>8, <1>12, <2>1, Zenon
<1>14. got[s] \o new.queues[s] = g \o (q \o x)
  BY <1>a, Zenon
<1>15. \A j \in (k + 1) + 1 .. Len(unread) :
          unread[j].serial = s => new.decs[s].pageno <= unread[j].no
  BY <1>4, <1>9, <1>11, <1>12, Zenon
<1>16. \A n \in new.decs[s].pageno .. Len(off) - 2 : Missing(s, n) \/ ToCome(s, k + 1, n)
  BY <1>3, <1>11, <1>12, <1>13, Zenon
<1>17. DecoderAt(new.decs[s], got[s] \o new.queues[s], Stream(s), sizes[s], off, Broken(s, off))
  BY <1>2, <1>11, <1>12, <1>14, Zenon
<1>18. got[s] \o new.queues[s] # <<>>
  BY <1>12, <1>14, Zenon
<1> QED
  BY <1>10, <1>15, <1>16, <1>17, <1>18, Zenon DEF ReadTo

\* A page that says nothing to a stream.
Passes(new, p, s) ==
    /\ s \in DOMAIN new.decs <=> s \in DOMAIN p.decs
    /\ s \in DOMAIN p.decs => new.decs[s] = p.decs[s]
    /\ new.queues[s] = p.queues[s]

LEMMA FedElsewhere ==
    ASSUME NEW s \in Streams, NEW off, NEW k \in Nat, Len(unread) \in Nat,
           k + 1 <= Len(unread), unread[k + 1].serial # s,
           NEW p, ReadTo(p, k, s, off), NEW new, Passes(new, p, s)
    PROVE  ReadTo(new, k + 1, s, off)
<1>1. PICK len \in Nat : len = Len(unread)
  OBVIOUS
<1>2. \A j \in (k + 1) + 1 .. len : j \in k + 1 .. len
  OBVIOUS
<1>3. \A j \in k + 1 .. len : j = k + 1 \/ j \in (k + 1) + 1 .. len
  OBVIOUS
<1>4. \A n : ToCome(s, k, n) <=> ToCome(s, k + 1, n)
  BY <1>1, <1>2, <1>3, Zenon DEF ToCome
<1>5. CASE s \in DOMAIN p.decs
  <2>1. /\ DecoderAt(new.decs[s], got[s] \o new.queues[s], Stream(s), sizes[s], off, Broken(s, off))
        /\ got[s] \o new.queues[s] # <<>>
        /\ \A n \in new.decs[s].pageno .. Len(off) - 2 : Missing(s, n) \/ ToCome(s, k + 1, n)
    BY <1>4, <1>5, Zenon DEF ReadTo, Passes
  <2>2. \A j \in (k + 1) + 1 .. Len(unread) :
            unread[j].serial = s => new.decs[s].pageno <= unread[j].no
    BY <1>1, <1>2, <1>5, Zenon DEF ReadTo, Passes
  <2> QED
    BY <1>5, <2>1, <2>2, Zenon DEF ReadTo, Passes
<1>6. CASE s \notin DOMAIN p.decs
  BY <1>4, <1>6, Zenon DEF ReadTo, Passes
<1> QED
  BY <1>5, <1>6

\* A page of a stream whose first page was lost.
LEMMA FedSkipped ==
    ASSUME ReaderTypes, NEW s \in Streams, NEW off, Laid(s, off), NEW k \in Nat,
           k + 1 <= Len(unread), unread[k + 1].serial = s,
           NEW p, s \notin DOMAIN p.decs, ReadTo(p, k, s, off),
           NEW new, Skips(new, p, unread[k + 1])
    PROVE  ReadTo(new, k + 1, s, off)
<1>1. PICK len \in Nat : len = Len(unread) /\ k + 1 \in 1 .. len
  <2>1. unread \in Seq(PageSet)
    BY Zenon DEF ReaderTypes
  <2>2. Len(unread) \in Nat /\ k + 1 \in 1 .. Len(unread)
    BY <2>1
  <2> QED
    BY <2>2, Zenon
<1>2. unread[k + 1].no \in Nat
  <2>1. unread[k + 1] \in PageSet
    BY <1>1 DEF ReaderTypes
  <2> QED
    BY <2>1 DEF PageSet
<1>3. ~ToCome(s, k + 1, 0)
  <2>1. SUFFICES ASSUME NEW j \in (k + 1) + 1 .. len, unread[j].serial = s, unread[j].no = 0
                 PROVE  FALSE
    BY <1>1, Zenon DEF ToCome
  <2>2. j \in 1 .. len /\ k + 1 < j
    OBVIOUS
  <2>3. unread[k + 1].no < unread[j].no
    BY <1>1, <2>1, <2>2, Zenon DEF Laid
  <2> QED
    BY <1>2, <2>1, <2>3
<1> QED
  BY <1>3, Zenon DEF ReadTo, Skips

LEMMA ReadOn ==
    ASSUME ReaderTypes, NEW s \in Streams, NEW off, StreamAt(s, off), Laid(s, off),
           NEW k \in Nat, k + 1 <= Len(unread), NEW p \in Pump, ReadTo(p, k, s, off)
    PROVE  ReadTo(FeedPage(p, unread[k + 1]), k + 1, s, off)
<1>1. PICK page \in PageSet : page = unread[k + 1]
  <2>1. unread[k + 1] \in PageSet
    BY DEF ReaderTypes
  <2> QED
    BY <2>1, Zenon
<1>2. Len(unread) \in Nat
  BY DEF ReaderTypes
<1>3. PICK new : new = FeedPage(p, page)
  OBVIOUS
<1>4. IF page.serial \in DOMAIN p.decs \/ page.bos THEN Follows(new, p, page) ELSE Skips(new, p, page)
  BY <1>3, FeedPageIs, Zenon
<1>5. CASE page.serial = s /\ (s \in DOMAIN p.decs \/ page.bos)
  <2>1. Follows(new, p, unread[k + 1]) /\ unread[k + 1].serial = s /\ (s \in DOMAIN p.decs \/ unread[k + 1].bos)
    BY <1>1, <1>4, <1>5, Zenon
  <2>2. ReadTo(new, k + 1, s, off)
    BY <2>1, FedHere, Zenon
  <2> QED
    BY <1>1, <1>3, <2>2, Zenon
<1>6. CASE page.serial = s /\ s \notin DOMAIN p.decs /\ ~page.bos
  <2>1. Skips(new, p, unread[k + 1]) /\ unread[k + 1].serial = s
    BY <1>1, <1>4, <1>6, Zenon
  <2>2. ReadTo(new, k + 1, s, off)
    BY <1>6, <2>1, FedSkipped, Zenon
  <2> QED
    BY <1>1, <1>3, <2>2, Zenon
<1>7. CASE page.serial # s
  <2>1. Passes(new, p, s)
    <3>1. CASE Follows(new, p, page)
      <4>1. DOMAIN new.decs = DOMAIN p.decs \cup {page.serial}
        BY <3>1, Zenon DEF Follows
      <4>2. s \in DOMAIN new.decs <=> s \in DOMAIN p.decs
        BY <1>7, <4>1
      <4>3. /\ s \in DOMAIN p.decs => new.decs[s] = p.decs[s]
            /\ new.queues[s] = p.queues[s]
        BY <1>7, <3>1, Zenon DEF Follows
      <4> QED
        BY <4>2, <4>3, Zenon DEF Passes
    <3>2. CASE Skips(new, p, page)
      BY <3>2, Zenon DEF Skips, Passes
    <3> QED
      BY <1>4, <3>1, <3>2, Zenon
  <2>2. unread[k + 1].serial # s
    BY <1>1, <1>7, Zenon
  <2>3. ReadTo(new, k + 1, s, off)
    BY <1>2, <2>1, <2>2, FedElsewhere, Zenon
  <2> QED
    BY <1>1, <1>3, <2>3, Zenon
<1> QED
  BY <1>5, <1>6, <1>7, Zenon

\* A page of the file that a stream begins with, before any that is not one.
InFront(i) ==
    /\ i \in (1 .. Len(file)) \ lost
    /\ file[i].bos /\ \A j \in (1 .. i) \ lost : file[j].bos

\* The streams whose first page is in front have a decoder, or will have.
Found(p, k) ==
    \A i : InFront(i) =>
        \/ file[i].serial \in DOMAIN p.decs
        \/ /\ ~p.sawData
           /\ \E j \in k + 1 .. Len(unread) :
                 unread[j] = file[i] /\ \A l \in k + 1 .. j : unread[l].bos

Ordered(p) ==
    /\ \A i \in 1 .. Len(p.order) : p.order[i] \in DOMAIN p.decs
    /\ \A s \in DOMAIN p.decs : \E i \in 1 .. Len(p.order) : p.order[i] = s
    /\ \A i, j \in 1 .. Len(p.order) : i < j => p.order[i] # p.order[j]

PumpAt(p, k) == p \in Pump /\ Found(p, k) /\ Ordered(p) /\ ~p.done

LEMMA FoundOn ==
    ASSUME ReaderTypes, NEW k \in Nat, k + 1 <= Len(unread), NEW p \in Pump, Found(p, k)
    PROVE  Found(FeedPage(p, unread[k + 1]), k + 1)
<1>1. PICK page \in PageSet : page = unread[k + 1]
  <2>1. unread[k + 1] \in PageSet
    BY DEF ReaderTypes
  <2> QED
    BY <2>1, Zenon
<1>2. PICK len \in Nat : len = Len(unread)
  BY DEF ReaderTypes
<1>3. PICK new : new = FeedPage(p, page)
  OBVIOUS
<1>4. IF page.serial \in DOMAIN p.decs \/ page.bos THEN Follows(new, p, page) ELSE Skips(new, p, page)
  BY <1>3, FeedPageIs, Zenon
<1>5. SUFFICES ASSUME NEW i, InFront(i)
               PROVE  \/ file[i].serial \in DOMAIN new.decs
                      \/ /\ ~new.sawData
                         /\ \E j \in (k + 1) + 1 .. len :
                               unread[j] = file[i] /\ \A l \in (k + 1) + 1 .. j : unread[l].bos
  BY <1>1, <1>2, <1>3, ZenonT(30) DEF Found
<1>6. CASE file[i].serial \in DOMAIN p.decs
  <2>1. file[i].serial \in DOMAIN new.decs
    <3>1. CASE Follows(new, p, page)
      <4>1. DOMAIN new.decs = DOMAIN p.decs \cup {page.serial}
        BY <3>1, Zenon DEF Follows
      <4> QED
        BY <1>6, <4>1
    <3>2. CASE Skips(new, p, page)
      BY <1>6, <3>2, Zenon DEF Skips
    <3> QED
      BY <1>4, <3>1, <3>2, Zenon
  <2> QED
    BY <2>1
<1>7. CASE file[i].serial \notin DOMAIN p.decs
  <2>1. PICK j \in k + 1 .. len : unread[j] = file[i] /\ \A l \in k + 1 .. j : unread[l].bos
    BY <1>2, <1>5, <1>7, Zenon DEF Found
  <2>a. ~p.sawData
    BY <1>5, <1>7, Zenon DEF Found
  <2>2. page.bos
    <3>1. k + 1 \in k + 1 .. j
      OBVIOUS
    <3> QED
      BY <1>1, <2>1, <3>1, Zenon
  <2>3. Follows(new, p, page)
    BY <1>4, <2>2, Zenon
  <2>4. CASE j = k + 1
    <3>1. DOMAIN new.decs = DOMAIN p.decs \cup {page.serial}
      BY <2>3, Zenon DEF Follows
    <3>2. file[i].serial = page.serial
      BY <1>1, <2>1, <2>4, Zenon
    <3> QED
      BY <3>1, <3>2
  <2>5. CASE j # k + 1
    <3>1. j \in (k + 1) + 1 .. len /\ \A l \in (k + 1) + 1 .. j : l \in k + 1 .. j
      BY <2>5
    <3>2. ~new.sawData
      BY <2>2, <2>3, <2>a, Zenon DEF Follows
    <3> QED
      BY <2>1, <3>1, <3>2, Zenon
  <2> QED
    BY <2>4, <2>5
<1> QED
  BY <1>6, <1>7

LEMMA OrderedOn ==
    ASSUME NEW p \in Pump, NEW page \in PageSet, Ordered(p)
    PROVE  Ordered(FeedPage(p, page))
<1>3. PICK new : new = FeedPage(p, page)
  OBVIOUS
<1>4. IF page.serial \in DOMAIN p.decs \/ page.bos THEN Follows(new, p, page) ELSE Skips(new, p, page)
  BY <1>3, FeedPageIs, Zenon
<1>5. PICK s \in Streams, order \in Seq(Streams) : s = page.serial /\ order = p.order
  BY DEF PageSet, Pump
<1>6. CASE Follows(new, p, page) /\ s \notin DOMAIN p.decs
  <2>1. DOMAIN new.decs = DOMAIN p.decs \cup {s} /\ new.order = Append(order, s)
    BY <1>5, <1>6, Zenon DEF Follows
  <2>2. PICK n \in Nat : n = Len(order)
    OBVIOUS
  <2>3. PICK more : more = Append(order, s)
    OBVIOUS
  <2>4. Len(more) = n + 1 /\ more[n + 1] = s /\ \A i \in 1 .. n : more[i] = order[i]
    BY <2>2, <2>3
  <2>5. n + 1 \in 1 .. n + 1 /\ \A i \in 1 .. n + 1 : i \in 1 .. n \/ i = n + 1
    OBVIOUS
  <2>6. \A i \in 1 .. n : i \in 1 .. n + 1
    OBVIOUS
  <2>7. /\ \A i \in 1 .. n : order[i] \in DOMAIN p.decs
        /\ \A t \in DOMAIN p.decs : \E i \in 1 .. n : order[i] = t
        /\ \A i, j \in 1 .. n : i < j => order[i] # order[j]
    BY <1>5, <2>2, Zenon DEF Ordered
  <2>8. \A i \in 1 .. n : order[i] # s
    BY <1>6, <2>7, Zenon
  <2>9. \A i, j \in 1 .. n + 1 : i < j => i \in 1 .. n /\ (j \in 1 .. n \/ j = n + 1)
    OBVIOUS
  <2>10. \A i, j \in 1 .. n + 1 : i < j => more[i] # more[j]
    BY <2>4, <2>7, <2>8, <2>9, Zenon
  <2>11. \A i \in 1 .. n + 1 : more[i] \in DOMAIN p.decs \cup {s}
    BY <2>4, <2>5, <2>7
  <2>12. \A t \in DOMAIN p.decs \cup {s} : \E i \in 1 .. n + 1 : more[i] = t
    <3>1. \A t \in DOMAIN p.decs \cup {s} : t \in DOMAIN p.decs \/ t = s
      OBVIOUS
    <3> QED
      BY <2>4, <2>5, <2>6, <2>7, <3>1, Zenon
  <2>13. DOMAIN new.decs = DOMAIN p.decs \cup {s} /\ new.order = more /\ Len(more) = n + 1
    BY <2>1, <2>3, <2>4, Zenon
  <2>14. Ordered(new)
    BY <2>10, <2>11, <2>12, <2>13, Zenon DEF Ordered
  <2> QED
    BY <1>3, <2>14, Zenon
<1>7. CASE Follows(new, p, page) /\ s \in DOMAIN p.decs
  <2>1. DOMAIN new.decs = DOMAIN p.decs \cup {s} /\ new.order = p.order
    BY <1>5, <1>7, Zenon DEF Follows
  <2>2. DOMAIN new.decs = DOMAIN p.decs
    BY <1>7, <2>1
  <2>3. Ordered(new)
    BY <2>1, <2>2, Zenon DEF Ordered
  <2> QED
    BY <1>3, <2>3, Zenon
<1>8. CASE Skips(new, p, page)
  <2>1. new.decs = p.decs /\ new.order = p.order
    BY <1>8, Zenon DEF Skips
  <2>2. Ordered(new)
    BY <2>1, Zenon DEF Ordered
  <2> QED
    BY <1>3, <2>2, Zenon
<1> QED
  BY <1>4, <1>6, <1>7, <1>8, Zenon

LEMMA PumpOn ==
    ASSUME ReaderTypes, NEW k \in Nat, k + 1 <= Len(unread), NEW p \in Pump
    PROVE  /\ FeedPage(p, unread[k + 1]) \in Pump
           /\ FeedPage(p, unread[k + 1]).done = p.done
           /\ \A s \in DOMAIN p.decs : s \in DOMAIN FeedPage(p, unread[k + 1]).decs
<1>1. PICK page \in PageSet : page = unread[k + 1]
  <2>1. unread[k + 1] \in PageSet
    BY DEF ReaderTypes
  <2> QED
    BY <2>1, Zenon
<1>3. PICK new : new = FeedPage(p, page)
  OBVIOUS
<1>4. IF page.serial \in DOMAIN p.decs \/ page.bos THEN Follows(new, p, page) ELSE Skips(new, p, page)
  BY <1>3, FeedPageIs, Zenon
<1>5. DOMAIN new.decs = DOMAIN p.decs \cup {page.serial} \/ new.decs = p.decs
  BY <1>4, Zenon DEF Follows, Skips
<1>6. \A s \in DOMAIN p.decs : s \in DOMAIN new.decs
  BY <1>5
<1>7. new \in Pump /\ new.done = p.done
  BY <1>4, Zenon DEF Follows, Skips
<1> QED
  BY <1>1, <1>3, <1>6, <1>7, Zenon

\* The pump after the first k pages.
FedOn(p, k) ==
    /\ p \in Pump /\ p.done = pump.done
    /\ \A s \in DOMAIN pump.decs : s \in DOMAIN p.decs
    /\ Ordered(pump) => Ordered(p)
    /\ Found(pump, 0) => Found(p, k)
    /\ \A s \in Streams : \A off :
          StreamAt(s, off) /\ Laid(s, off) /\ ReadTo(pump, 0, s, off) => ReadTo(p, k, s, off)

LEMMA FedOnIs ==
    ASSUME ReaderTypes, NEW m \in Nat, m <= Len(unread)
    PROVE  FedOn(Fed(m), m)
<1>1. PICK f : Feeding(f, m) /\ Fed(m) = f[m]
  BY FedIs, Zenon
<1> DEFINE Good == {k \in Nat : k <= m => FedOn(f[k], k)}
<1>2. 0 \in Good
  <2>1. f[0] = pump /\ pump \in Pump
    BY <1>1, Zenon DEF Feeding, ReaderTypes
  <2>2. FedOn(pump, 0)
    BY <2>1, Zenon DEF FedOn
  <2> QED
    BY <2>1, <2>2, Zenon
<1>3. ASSUME NEW k \in Nat, k \in Good PROVE k + 1 \in Good
  <2>0. k + 1 \in Nat
    OBVIOUS
  <2>1. SUFFICES ASSUME k + 1 <= m PROVE FedOn(f[k + 1], k + 1)
    BY <2>0, Zenon
  <2>2. FedOn(f[k], k)
    <3>1. k <= m
      BY <2>1
    <3> QED
      BY <1>3, <3>1, Zenon
  <2>3. k + 1 <= Len(unread) /\ k + 1 \in 1 .. m /\ (k + 1) - 1 = k
    <3>1. Len(unread) \in Nat
      BY DEF ReaderTypes
    <3> QED
      BY <2>1, <3>1
  <2>4. PICK p \in Pump : p = f[k]
    BY <2>2, Zenon DEF FedOn
  <2>5. PICK new : new = FeedPage(p, unread[k + 1]) /\ new = f[k + 1]
    <3>1. f[k + 1] = FeedPage(f[(k + 1) - 1], unread[k + 1])
      BY <1>1, <2>3, Zenon DEF Feeding
    <3> QED
      BY <2>3, <2>4, <3>1, Zenon
  <2>6. /\ new \in Pump /\ new.done = p.done
        /\ \A s \in DOMAIN p.decs : s \in DOMAIN new.decs
    <3>1. /\ FeedPage(p, unread[k + 1]) \in Pump
          /\ FeedPage(p, unread[k + 1]).done = p.done
          /\ \A s \in DOMAIN p.decs : s \in DOMAIN FeedPage(p, unread[k + 1]).decs
      BY <2>3, PumpOn
    <3> QED
      BY <2>5, <3>1, Zenon
  <2>7. ASSUME Ordered(pump) PROVE Ordered(new)
    <3>1. Ordered(p)
      BY <2>2, <2>4, <2>7, Zenon DEF FedOn
    <3>2. PICK page \in PageSet : page = unread[k + 1]
      <4>1. unread[k + 1] \in PageSet
        BY <2>3 DEF ReaderTypes
      <4> QED
        BY <4>1, Zenon
    <3> QED
      BY <2>5, <3>1, <3>2, OrderedOn, Zenon
  <2>8. ASSUME Found(pump, 0) PROVE Found(new, k + 1)
    <3>1. Found(p, k)
      BY <2>2, <2>4, <2>8, Zenon DEF FedOn
    <3> QED
      BY <2>3, <2>5, <3>1, FoundOn, Zenon
  <2>9. ASSUME NEW s \in Streams, NEW off, StreamAt(s, off), Laid(s, off), ReadTo(pump, 0, s, off)
        PROVE  ReadTo(new, k + 1, s, off)
    <3>1. ReadTo(p, k, s, off)
      BY <2>2, <2>4, <2>9, Zenon DEF FedOn
    <3> QED
      BY <2>3, <2>5, <2>9, <3>1, ReadOn, Zenon
  <2>10. new.done = pump.done /\ \A s \in DOMAIN pump.decs : s \in DOMAIN new.decs
    BY <2>2, <2>4, <2>6, Zenon DEF FedOn
  <2>11. FedOn(new, k + 1)
    BY <2>6, <2>7, <2>8, <2>9, <2>10, Zenon DEF FedOn
  <2> QED
    BY <2>5, <2>11, Zenon
<1>4. Nat \subseteq Good
  <2> HIDE DEF Good
  <2> QED
    BY <1>2, <1>3, Induction
<1>5. m <= m
  OBVIOUS
<1> QED
  BY <1>1, <1>4, <1>5

-----------------------------------------------------------------------------
(* The invariant.                                                          *)

Nothing == got = [s \in Streams |-> <<>>]

\* The streams in front are listed already, or about to be.
FrontIn(S) == \A i : InFront(i) => file[i].serial \in S

\* NewReader has these streams still to list, and nothing of them was taken.
Waiting(todo) ==
    /\ todo \in Seq(Streams) /\ todo # <<>>
    /\ \A i \in 1 .. Len(todo) : todo[i] \in DOMAIN pump.decs /\ got[todo[i]] = <<>>
    /\ \A i, j \in 1 .. Len(todo) : i < j => todo[i] # todo[j]
    /\ FrontIn(listed \cup {todo[i] : i \in 1 .. Len(todo)})

ReaderAt ==
    \/ /\ reader = [op |-> "none"] /\ pump = NewPump /\ unread = <<>> /\ Nothing
       /\ lost = {} /\ listed = {}
    \/ /\ reader = [op |-> "scan"] /\ Nothing /\ Found(pump, 0) /\ Ordered(pump)
    \/ \E todo : reader = [op |-> "list", todo |-> todo] /\ Waiting(todo)
    \/ reader = [op |-> "idle"] /\ FrontIn(listed)
    \/ \E s \in Streams : reader = [op |-> "read", stream |-> s] /\ FrontIn(listed)

Known ==
    /\ pump.done => unread = <<>>
    /\ listed \in SUBSET Streams /\ \A s \in listed : s \in DOMAIN pump.decs

InStream(s) ==
    \E off : /\ StreamAt(s, off) /\ (Writing => WriterAt(s, off) /\ Open(file, s))
             /\ Laid(s, off) /\ ReadTo(pump, 0, s, off)

Inv == /\ WriterTypes /\ ReaderTypes /\ ReaderAt /\ Known
       /\ \A s \in Streams : InStream(s)

NotReading ==
    /\ reader = [op |-> "none"] /\ pump = NewPump /\ unread = <<>> /\ Nothing
    /\ lost = {} /\ listed = {}

\* Before a file is opened nothing is known of it.
LEMMA NothingRead ==
    ASSUME NotReading, file \in Seq(PageSet)
    PROVE  /\ ReaderTypes /\ ReaderAt /\ Known
           /\ \A s \in Streams : \A off : Laid(s, off) /\ ReadTo(pump, 0, s, off)
<1>1. NewPump \in Pump /\ DOMAIN NewPump.decs = {} /\ NewPump.queues = [s \in Streams |-> <<>>] /\ NewPump.done = FALSE
  <2>1. <<>> \in DecoderMaps /\ DOMAIN <<>> = {}
    <3>1. <<>> \in [{} -> Decoder]
      OBVIOUS
    <3> QED
      BY <3>1 DEF DecoderMaps
  <2>2. [s \in Streams |-> <<>>] \in [Streams -> Seq(Seq(Seg))] /\ <<>> \in Seq(Streams)
    OBVIOUS
  <2> QED
    BY <2>1, <2>2 DEF NewPump, Pump
<1>2. ReaderTypes
  <2>1. got \in [Streams -> Seq(Seq(Seg))]
    BY DEF NotReading, Nothing
  <2>2. <<>> \in Seq(PageSet) /\ {} \in SUBSET (1 .. Len(file))
    OBVIOUS
  <2> QED
    BY <1>1, <2>1, <2>2, Zenon DEF NotReading, ReaderTypes
<1>3. ReaderAt
  BY Zenon DEF NotReading, ReaderAt
<1>4. Known
  <2>1. {} \in SUBSET Streams /\ \A s \in {} : FALSE
    OBVIOUS
  <2> QED
    BY <1>1, <2>1, Zenon DEF NotReading, Known
<1>5. ASSUME NEW s \in Streams, NEW off PROVE Laid(s, off) /\ ReadTo(pump, 0, s, off)
  <2>1. Len(unread) = 0 /\ 1 .. 0 = {} /\ 0 + 1 .. 0 = {}
    BY DEF NotReading
  <2>2. Laid(s, off) /\ ~ToCome(s, 0, 0)
    BY <2>1 DEF Laid, ToCome
  <2>3. s \notin DOMAIN pump.decs
    BY <1>1 DEF NotReading
  <2>4. pump.queues[s] = <<>> /\ got[s] = <<>>
    BY <1>1 DEF NotReading, Nothing
  <2> QED
    BY <2>2, <2>3, <2>4, Zenon DEF ReadTo
<1> QED
  BY <1>2, <1>3, <1>4, <1>5, Zenon

LEMMA OpNone ==
    ASSUME Inv, reader.op = "none"
    PROVE  NotReading
<1>1. CASE reader = [op |-> "scan"]
  BY <1>1
<1>2. CASE \E todo : reader = [op |-> "list", todo |-> todo]
  BY <1>2
<1>3. CASE reader = [op |-> "idle"]
  BY <1>3
<1>4. CASE \E s \in Streams : reader = [op |-> "read", stream |-> s]
  BY <1>4
<1> QED
  BY <1>1, <1>2, <1>3, <1>4, Zenon DEF Inv, ReaderAt, NotReading

\* The calls of the Writer.
LEMMA WriterStep ==
    ASSUME Inv, Writing, UNCHANGED reading, WriterTypes',
           \A s \in Streams : \E off : StreamAt(s, off)' /\ (Writing' => WriterAt(s, off)' /\ Open(file, s)')
    PROVE  Inv'
<1>1. NotReading
  BY OpNone, Zenon DEF Writing
<1>2. NotReading' /\ file' \in Seq(PageSet)
  <2>1. reader' = reader /\ pump' = pump /\ unread' = unread /\ got' = got /\ lost' = lost /\ listed' = listed
    BY DEF reading
  <2> QED
    BY <1>1, <2>1, Zenon DEF NotReading, Nothing, WriterTypes
<1>3. (NotReading /\ file \in Seq(PageSet) =>
            /\ ReaderTypes /\ ReaderAt /\ Known
            /\ \A s \in Streams : \A off : Laid(s, off) /\ ReadTo(pump, 0, s, off))'
  BY NothingRead, PTL
<1>4. /\ ReaderTypes' /\ ReaderAt' /\ Known'
      /\ \A s \in Streams : \A off : Laid(s, off)' /\ ReadTo(pump, 0, s, off)'
  BY <1>2, <1>3
<1>5. \A s \in Streams : InStream(s)'
  BY <1>4, Zenon DEF InStream
<1> QED
  BY <1>4, <1>5, Zenon DEF Inv

LEMMA InitInv ==
    ASSUME Init
    PROVE  Inv
<1>1. NotReading /\ file = <<>> /\ closed = FALSE
  BY DEF Init, NotReading, Nothing
<1>2. NewEncoder \in Encoder
  BY DEF NewEncoder, Encoder
<1>3. WriterTypes
  <2>1. encs \in [Streams -> Encoder] /\ pending \in [Streams -> Nat] /\ eosFlag \in [Streams -> BOOLEAN]
    BY <1>2 DEF Init
  <2>2. <<>> \in Seq(Nat) /\ <<>> \in Seq(PageSet) /\ FALSE \in BOOLEAN
    OBVIOUS
  <2>3. sizes \in [Streams -> Seq(Nat)]
    BY <2>2 DEF Init
  <2> QED
    BY <1>1, <2>1, <2>2, <2>3, Zenon DEF WriterTypes
<1>4. /\ ReaderTypes /\ ReaderAt /\ Known
      /\ \A s \in Streams : \A off : Laid(s, off) /\ ReadTo(pump, 0, s, off)
  BY <1>1, <1>3, NothingRead, Zenon DEF WriterTypes
<1>5. ASSUME NEW s \in Streams
      PROVE  StreamAt(s, <<0>>) /\ WriterAt(s, <<0>>) /\ Open(file, s)
  <2>1. sizes[s] = <<>> /\ pending[s] = 0 /\ encs[s] = NewEncoder
    BY <1>2 DEF Init
  <2>2. Stream(s) = <<>> /\ Given(s) = 0
    <3>1. Len(<<>>) = 0 /\ Whole(<<>>, 0) = <<>>
      BY WholeNone
    <3> QED
      BY <2>1, <3>1, Zenon DEF Stream, Given, Held
  <2>3. SizesAt(s)
    BY <2>1 DEF SizesAt
  <2>4. Offsets(<<0>>, <<>>) /\ FirstPage(<<0>>, <<>>)
    BY DEF Offsets, FirstPage
  <2>5. FileAt(<<>>, s, <<>>, <<0>>)
    BY DEF FileAt
  <2>6. EncoderAt(NewEncoder, <<>>, <<0>>, 0)
    <3>1. SubSeq(<<>>, 0 + 1, 0) = <<>>
      OBVIOUS
    <3> QED
      BY <1>2, <3>1 DEF EncoderAt, NewEncoder
  <2>7. NewEncoder.eos = FALSE
    BY DEF NewEncoder
  <2>8. Open(<<>>, s)
    BY DEF Open
  <2>9. pending[s] \in {0, Len(sizes[s])}
    BY <2>1
  <2> QED
    BY <1>1, <2>1, <2>2, <2>3, <2>4, <2>5, <2>6, <2>7, <2>8, <2>9, Zenon DEF StreamAt, PagedAt, WriterAt
<1>6. \A s \in Streams : InStream(s)
  BY <1>4, <1>5, Zenon DEF InStream
<1> QED
  BY <1>3, <1>4, <1>6, Zenon DEF Inv

\* What a stream has in the file is not the reader's to change.
LEMMA StreamKept ==
    ASSUME NEW s, NEW off, StreamAt(s, off), file' = file, sizes' = sizes
    PROVE  StreamAt(s, off)' /\ Stream(s)' = Stream(s)
<1>1. Stream(s)' = Stream(s)
  BY Zenon DEF Stream
<1> QED
  BY <1>1, Zenon DEF StreamAt, SizesAt, PagedAt

LEMMA WriterSame ==
    ASSUME WriterTypes, UNCHANGED writer
    PROVE  WriterTypes' /\ file' = file /\ sizes' = sizes
<1>1. /\ encs' = encs /\ pending' = pending /\ eosFlag' = eosFlag /\ closed' = closed
      /\ file' = file /\ sizes' = sizes
  BY DEF writer
<1> QED
  BY <1>1, Zenon DEF WriterTypes

\* The pages to be read, without the first n of them.
Trimmed(new, n) ==
    /\ new \in Seq(PageSet) /\ Len(new) = Len(unread) - n
    /\ \A j \in 1 .. Len(new) : n + j \in n + 1 .. Len(unread) /\ new[j] = unread[n + j]
    /\ \A j \in n + 1 .. Len(unread) : j - n \in 1 .. Len(new) /\ new[j - n] = unread[j]

LEMMA UnreadAfter ==
    ASSUME ReaderTypes, NEW n \in Nat, n <= Len(unread), NEW new, new = SubSeq(unread, n + 1, Len(unread))
    PROVE  Trimmed(new, n)
<1>1. unread \in Seq(PageSet)
  BY Zenon DEF ReaderTypes
<1>2. new \in Seq(PageSet) /\ Len(new) = Len(unread) - n
  BY <1>1
<1>3. \A j \in 1 .. Len(new) : n + j \in n + 1 .. Len(unread) /\ new[j] = unread[n + j]
  BY <1>1, <1>2
<1>4. ASSUME NEW j \in n + 1 .. Len(unread)
      PROVE  j - n \in 1 .. Len(new) /\ new[j - n] = unread[j]
  <2>1. j - n \in 1 .. Len(new) /\ n + (j - n) = j
    BY <1>1, <1>2
  <2> QED
    BY <1>3, <2>1, Zenon
<1> QED
  BY <1>2, <1>3, <1>4, Zenon DEF Trimmed

LEMMA ReadShift ==
    ASSUME ReaderTypes, NEW n \in Nat, n <= Len(unread), unread' = SubSeq(unread, n + 1, Len(unread)),
           NEW s \in Streams, NEW off, StreamAt(s, off), Laid(s, off),
           file' = file, sizes' = sizes, got' = got, lost' = lost,
           NEW p, ReadTo(p, n, s, off),
           pump'.decs = p.decs, pump'.queues = p.queues
    PROVE  Laid(s, off)' /\ ReadTo(pump, 0, s, off)'
<1>0. Trimmed(unread', n)
  BY UnreadAfter, Zenon
<1>1. PICK len \in Nat, new \in Seq(PageSet) : len = Len(unread) /\ new = unread'
  <2>1. unread' \in Seq(PageSet)
    BY <1>0, Zenon DEF Trimmed
  <2>2. Len(unread) \in Nat
    BY DEF ReaderTypes
  <2> QED
    BY <2>1, <2>2, Zenon
<1>2. PICK rest \in Nat : rest = Len(new) /\ rest = len - n
  <2>1. Len(new) = len - n
    BY <1>0, <1>1, Zenon DEF Trimmed
  <2>2. Len(new) \in Nat
    OBVIOUS
  <2> QED
    BY <2>1, <2>2, Zenon
<1>3. /\ \A j \in 1 .. rest : n + j \in n + 1 .. len /\ new[j] = unread[n + j]
      /\ \A j \in n + 1 .. len : j - n \in 1 .. rest /\ new[j - n] = unread[j]
  BY <1>0, <1>1, <1>2, Zenon DEF Trimmed
<1>a. 0 + 1 = 1
  OBVIOUS
<1>4. \A m : ToCome(s, 0, m)' <=> ToCome(s, n, m)
  <2>1. \A m : ToCome(s, 0, m)' <=> \E j \in 1 .. rest : new[j].serial = s /\ new[j].no = m
    BY <1>a, <1>1, <1>2, Zenon DEF ToCome
  <2>2. \A m : ToCome(s, n, m) <=> \E j \in n + 1 .. len : unread[j].serial = s /\ unread[j].no = m
    BY <1>1, Zenon DEF ToCome
  <2> QED
    <3>1. ASSUME NEW m, NEW j \in 1 .. rest, new[j].serial = s, new[j].no = m PROVE ToCome(s, n, m)
      <4>1. n + j \in n + 1 .. len /\ unread[n + j].serial = s /\ unread[n + j].no = m
        BY <1>3, <3>1, Zenon
      <4> QED
        BY <2>2, <4>1, Zenon
    <3>2. ASSUME NEW m, NEW j \in n + 1 .. len, unread[j].serial = s, unread[j].no = m PROVE ToCome(s, 0, m)'
      <4>1. j - n \in 1 .. rest /\ new[j - n].serial = s /\ new[j - n].no = m
        BY <1>3, <3>2, Zenon
      <4> QED
        BY <2>1, <4>1, Zenon
    <3> QED
      BY <2>1, <2>2, <3>1, <3>2, Zenon
<1>5. Stream(s)' = Stream(s)
  BY StreamKept
<1>6. \A m : Missing(s, m)' <=> Missing(s, m)
  BY Zenon DEF Missing
<1>7. Broken(s, off)' = Broken(s, off)
  BY <1>5, <1>6, Zenon DEF Broken
<1>8. Laid(s, off)'
  <2>1. \A j \in 1 .. rest : n + j \in 1 .. len
    BY <1>2
  <2>2. ASSUME NEW j \in 1 .. rest, new[j].serial = s PROVE PageLaid(new[j], Stream(s), off)
    BY <1>1, <1>3, <2>1, <2>2, Zenon DEF Laid
  <2>3. ASSUME NEW j \in 1 .. rest, NEW l \in 1 .. rest, j < l, new[j].serial = s, new[l].serial = s
        PROVE  new[j].no < new[l].no
    <3>1. n + j < n + l
      BY <2>3
    <3>2. new[j] = unread[n + j] /\ new[l] = unread[n + l] /\ n + j \in 1 .. len /\ n + l \in 1 .. len
      BY <1>3, <2>1, Zenon
    <3>3. PICK a, b : a = n + j /\ b = n + l
      OBVIOUS
    <3>4. a \in 1 .. len /\ b \in 1 .. len /\ a < b /\ unread[a].serial = s /\ unread[b].serial = s
      BY <2>3, <3>1, <3>2, <3>3, Zenon
    <3>5. unread[a].no < unread[b].no
      BY <1>1, <3>4, Zenon DEF Laid
    <3> QED
      BY <3>2, <3>3, <3>5, Zenon
  <2> QED
    BY <1>1, <1>2, <1>5, <2>2, <2>3, Zenon DEF Laid
<1>9. ReadTo(pump, 0, s, off)'
  <2>1. CASE s \in DOMAIN p.decs
    <3>1. /\ DecoderAt(p.decs[s], got[s] \o p.queues[s], Stream(s), sizes[s], off, Broken(s, off))
          /\ got[s] \o p.queues[s] # <<>>
          /\ \A j \in n + 1 .. Len(unread) :
                 unread[j].serial = s => p.decs[s].pageno <= unread[j].no
          /\ \A m \in p.decs[s].pageno .. Len(off) - 2 : Missing(s, m) \/ ToCome(s, n, m)
      BY <2>1, Zenon DEF ReadTo
    <3>2. \A j \in 1 .. rest : new[j].serial = s => p.decs[s].pageno <= new[j].no
      <4>1. ASSUME NEW j \in 1 .. rest, new[j].serial = s PROVE p.decs[s].pageno <= new[j].no
        <5>1. n + j \in n + 1 .. Len(unread) /\ new[j] = unread[n + j]
          BY <1>1, <1>3, <4>1, Zenon
        <5> QED
          BY <3>1, <4>1, <5>1, Zenon
      <4> QED
        BY <4>1, Zenon
    <3> QED
      BY <1>a, <1>1, <1>2, <1>4, <1>5, <1>6, <1>7, <2>1, <3>1, <3>2, Zenon DEF ReadTo
  <2>2. CASE s \notin DOMAIN p.decs
    BY <1>4, <1>6, <2>2, Zenon DEF ReadTo
  <2> QED
    BY <2>1, <2>2
<1> QED
  BY <1>8, <1>9

LEMMA FoundShift ==
    ASSUME ReaderTypes, NEW n \in Nat, n <= Len(unread), unread' = SubSeq(unread, n + 1, Len(unread)),
           file' = file, lost' = lost, NEW p, Found(p, n),
           pump'.decs = p.decs, pump'.sawData = p.sawData
    PROVE  Found(pump, 0)'
<1>0. Trimmed(unread', n)
  BY UnreadAfter, Zenon
<1>1. PICK len \in Nat, new \in Seq(PageSet) : len = Len(unread) /\ new = unread'
  <2>1. unread' \in Seq(PageSet)
    BY <1>0, Zenon DEF Trimmed
  <2>2. Len(unread) \in Nat
    BY DEF ReaderTypes
  <2> QED
    BY <2>1, <2>2, Zenon
<1>2. PICK rest \in Nat : rest = Len(new) /\ rest = len - n
  <2>1. Len(new) = len - n
    BY <1>0, <1>1, Zenon DEF Trimmed
  <2>2. Len(new) \in Nat
    OBVIOUS
  <2> QED
    BY <2>1, <2>2, Zenon
<1>3. /\ \A j \in 1 .. rest : n + j \in n + 1 .. len /\ new[j] = unread[n + j]
      /\ \A j \in n + 1 .. len : j - n \in 1 .. rest /\ new[j - n] = unread[j]
  BY <1>0, <1>1, <1>2, Zenon DEF Trimmed
<1>4. SUFFICES ASSUME NEW i, InFront(i), file[i].serial \notin DOMAIN p.decs
               PROVE  /\ ~p.sawData
                      /\ \E j \in 0 + 1 .. rest : new[j] = file[i] /\ \A l \in 0 + 1 .. j : new[l].bos
  <2>1. \A i : InFront(i)' <=> InFront(i)
    BY Zenon DEF InFront
  <2> QED
    BY <1>1, <1>2, <2>1, ZenonT(30) DEF Found
<1>5. PICK j \in n + 1 .. len : unread[j] = file[i] /\ \A l \in n + 1 .. j : unread[l].bos
  BY <1>1, <1>4, Zenon DEF Found
<1>6. ~p.sawData
  BY <1>4, Zenon DEF Found
<1>7. j - n \in 0 + 1 .. rest /\ \A l \in 0 + 1 .. j - n : l \in 1 .. rest /\ n + l \in n + 1 .. j
  BY <1>2, <1>5
<1>8. new[j - n] = file[i] /\ \A l \in 0 + 1 .. j - n : new[l].bos
  BY <1>3, <1>5, <1>7, Zenon
<1> QED
  BY <1>6, <1>7, <1>8, Zenon

\* The calls of the Reader.
LEMMA ReaderStep ==
    ASSUME Inv, UNCHANGED writer, reader'.op # "none", ReaderTypes', ReaderAt', Known',
           \A s \in Streams : \A off :
              StreamAt(s, off) /\ Laid(s, off) /\ ReadTo(pump, 0, s, off)
                  => Laid(s, off)' /\ ReadTo(pump, 0, s, off)'
    PROVE  Inv'
<1>1. WriterTypes' /\ file' = file /\ sizes' = sizes
  BY WriterSame, Zenon DEF Inv
<1>2. ~Writing'
  BY Zenon DEF Writing
<1>3. ASSUME NEW s \in Streams PROVE InStream(s)'
  <2>1. PICK off : StreamAt(s, off) /\ Laid(s, off) /\ ReadTo(pump, 0, s, off)
    BY Zenon DEF Inv, InStream
  <2>2. StreamAt(s, off)'
    BY <1>1, <2>1, StreamKept, Zenon
  <2>3. Laid(s, off)' /\ ReadTo(pump, 0, s, off)'
    BY <2>1, Zenon
  <2> QED
    BY <1>2, <2>2, <2>3, Zenon DEF InStream
<1> QED
  BY <1>1, <1>3, Zenon DEF Inv

LEMMA FrontSame ==
    ASSUME file' = file, lost' = lost, NEW S, NEW T, \A e \in S : e \in T, FrontIn(S)
    PROVE  \A i : InFront(i)' => file'[i].serial \in T
BY Zenon DEF FrontIn, InFront

LEMMA FeedKeeps ==
    ASSUME Inv, NEW n \in 0 .. MaxPerRead, NEW end \in BOOLEAN, Feed(n, end), reader.op # "none"
    PROVE  Inv'
<1>1. /\ ~pump.done /\ (end => n = Len(unread))
      /\ n <= Min({Len(unread), MaxPerRead})
      /\ pump' = [Fed(n) EXCEPT !.done = end]
      /\ unread' = SubSeq(unread, n + 1, Len(unread))
      /\ reader' = reader /\ listed' = listed /\ got' = got /\ lost' = lost /\ UNCHANGED writer
  BY Zenon DEF Feed
<1>2. ReaderTypes /\ WriterTypes /\ ReaderAt /\ Known
  BY Zenon DEF Inv
<1>3. PICK len \in Nat : len = Len(unread)
  BY <1>2 DEF ReaderTypes
<1>4. n \in Nat /\ n <= len
  <2>1. MaxPerRead \in Nat
    BY FileAssumption
  <2>2. Min({len, MaxPerRead}) = IF len <= MaxPerRead THEN len ELSE MaxPerRead
    BY <2>1, MinOfTwo
  <2>3. n <= Min({len, MaxPerRead})
    BY <1>1, <1>3, Zenon
  <2> QED
    BY <2>1, <2>2, <2>3
<1>5. WriterTypes' /\ file' = file /\ sizes' = sizes
  BY <1>1, <1>2, WriterSame, Zenon
<1>6. PICK p : p = Fed(n) /\ FedOn(p, n)
  BY <1>2, <1>3, <1>4, FedOnIs, Zenon
<1>7. p \in Pump /\ \A s \in DOMAIN pump.decs : s \in DOMAIN p.decs
  BY <1>6, Zenon DEF FedOn
<1>8. PICK new : new = [p EXCEPT !.done = end] /\ new = pump'
  BY <1>1, <1>6, Zenon
<1>9. /\ new \in Pump /\ new.decs = p.decs /\ new.queues = p.queues /\ new.order = p.order
      /\ new.sawData = p.sawData /\ new.done = end
  BY <1>7, <1>8 DEF Pump
<1>10. Trimmed(unread', n)
  BY <1>1, <1>2, <1>3, <1>4, UnreadAfter, Zenon
<1>11. ReaderTypes'
  <2>1. unread' \in Seq(PageSet)
    BY <1>10, Zenon DEF Trimmed
  <2> QED
    BY <1>1, <1>2, <1>5, <1>8, <1>9, <2>1, Zenon DEF ReaderTypes
<1>12. Known'
  <2>1. ASSUME end PROVE unread' = <<>>
    <3>1. PICK u \in Seq(PageSet) : u = unread'
      BY <1>10, Zenon DEF Trimmed
    <3>2. Len(u) = len - n
      BY <1>3, <1>10, <3>1, Zenon DEF Trimmed
    <3>3. n = len
      BY <1>1, <1>3, <2>1, Zenon
    <3>4. Len(u) = 0
      BY <3>2, <3>3
    <3>5. u = <<>>
      BY <3>4
    <3> QED
      BY <3>1, <3>5, Zenon
  <2> QED
    BY <1>1, <1>2, <1>7, <1>8, <1>9, <2>1, Zenon DEF Known
<1>13. ReaderAt'
  <2>1. CASE reader = [op |-> "scan"] /\ Nothing /\ Found(pump, 0) /\ Ordered(pump)
    <3>1. Found(p, n) /\ Ordered(p)
      BY <1>6, <2>1, Zenon DEF FedOn
    <3>2. pump'.decs = p.decs /\ pump'.sawData = p.sawData
      BY <1>8, <1>9, Zenon
    <3>3. Found(pump, 0)'
      BY <1>1, <1>2, <1>3, <1>4, <1>5, <3>1, <3>2, FoundShift, Zenon
    <3>4. Ordered(new)
      <4>1. new.decs = p.decs /\ new.order = p.order /\ Ordered(p)
        BY <1>9, <3>1, Zenon
      <4> QED
        BY <4>1, Zenon DEF Ordered
    <3>5. Ordered(pump)'
      BY <1>8, <3>4, Zenon
    <3>6. Nothing'
      BY <1>1, <2>1, Zenon DEF Nothing
    <3> QED
      BY <1>1, <2>1, <3>3, <3>5, <3>6, Zenon DEF ReaderAt
  <2>2. CASE \E todo : reader = [op |-> "list", todo |-> todo] /\ Waiting(todo)
    <3>1. PICK todo : reader = [op |-> "list", todo |-> todo] /\ Waiting(todo)
      BY <2>2
    <3>2. \A i \in 1 .. Len(todo) : todo[i] \in DOMAIN new.decs /\ got[todo[i]] = <<>>
      BY <1>7, <1>9, <3>1, Zenon DEF Waiting
    <3>3. FrontIn(listed \cup {todo[i] : i \in 1 .. Len(todo)})'
      <4>1. PICK S : S = listed \cup {todo[i] : i \in 1 .. Len(todo)}
        OBVIOUS
      <4>2. \A i : InFront(i)' => file'[i].serial \in S
        BY <1>1, <1>5, <3>1, <4>1, FrontSame, Zenon DEF Waiting
      <4> QED
        BY <1>1, <4>1, <4>2, Zenon DEF FrontIn
    <3>4. Waiting(todo)'
      BY <1>1, <1>8, <3>1, <3>2, <3>3, Zenon DEF Waiting
    <3> QED
      BY <1>1, <3>1, <3>4, Zenon DEF ReaderAt
  <2>3. CASE FrontIn(listed) /\ (reader = [op |-> "idle"] \/ \E s \in Streams : reader = [op |-> "read", stream |-> s])
    <3>1. \A i : InFront(i)' => file'[i].serial \in listed
      BY <1>1, <1>5, <2>3, FrontSame, Zenon
    <3>2. FrontIn(listed)'
      BY <1>1, <3>1, Zenon DEF FrontIn
    <3> QED
      BY <1>1, <2>3, <3>2, Zenon DEF ReaderAt
  <2>4. reader # [op |-> "none"]
    OBVIOUS
  <2> QED
    BY <1>2, <2>1, <2>2, <2>3, <2>4, Zenon DEF ReaderAt
<1>14. ASSUME NEW s \in Streams, NEW off, StreamAt(s, off), Laid(s, off), ReadTo(pump, 0, s, off)
       PROVE  Laid(s, off)' /\ ReadTo(pump, 0, s, off)'
  <2>1. ReadTo(p, n, s, off)
    BY <1>6, <1>14, Zenon DEF FedOn
  <2>2. pump'.decs = p.decs /\ pump'.queues = p.queues
    BY <1>8, <1>9, Zenon
  <2> QED
    BY <1>1, <1>2, <1>3, <1>4, <1>5, <1>14, <2>1, <2>2, ReadShift, Zenon
<1>15. reader'.op # "none"
  BY <1>1, Zenon
<1> QED
  BY <1>1, <1>11, <1>12, <1>13, <1>14, <1>15, ReaderStep, Zenon

\* A packet that is taken was in the queue and is now with the caller.
LEMMA TakeMoves ==
    ASSUME ReaderTypes, NEW s \in Streams, Take(s)
    PROVE  /\ pump' \in Pump /\ pump'.decs = pump.decs /\ pump'.done = pump.done
           /\ got' \in [Streams -> Seq(Seq(Seg))]
           /\ \A t \in Streams : got'[t] \o pump'.queues[t] = got[t] \o pump.queues[t]
           /\ \A t \in Streams : t # s => pump'.queues[t] = pump.queues[t] /\ got'[t] = got[t]
           /\ pump.queues[s] # <<>>
<1>1. PICK q \in [Streams -> Seq(Seq(Seg))] : q = pump.queues
  BY DEF ReaderTypes, Pump
<1>2. PICK h \in Seq(Seq(Seg)) : h = q[s] /\ h # <<>>
  <2>1. q[s] \in Seq(Seq(Seg)) /\ q[s] # <<>>
    BY <1>1 DEF Take
  <2> QED
    BY <2>1, Zenon
<1>3. PICK more : more = [q EXCEPT ![s] = Tail(h)]
  OBVIOUS
<1>4. pump' = [pump EXCEPT !.queues = more]
  <2>1. pump' = [pump EXCEPT !.queues[s] = Tail(@)]
    BY Zenon DEF Take
  <2> QED
    BY <1>1, <1>2, <1>3, <2>1
<1>5. Tail(h) \in Seq(Seq(Seg)) /\ Head(h) \in Seq(Seg)
  BY <1>2
<1>6. more \in [Streams -> Seq(Seq(Seg))] /\ more[s] = Tail(h) /\ \A t \in Streams : t # s => more[t] = q[t]
  BY <1>3, <1>5
<1>7. pump' \in Pump /\ pump'.decs = pump.decs /\ pump'.done = pump.done /\ pump'.queues = more
  BY <1>4, <1>6 DEF ReaderTypes, Pump
<1>8. PICK g \in [Streams -> Seq(Seq(Seg))] : g = got
  BY DEF ReaderTypes
<1>9. PICK new : new = [g EXCEPT ![s] = Append(@, Head(h))] /\ new = got'
  BY <1>1, <1>2, <1>8, Zenon DEF Take
<1>10. PICK a \in Seq(Seq(Seg)) : a = g[s]
  OBVIOUS
<1>11. Append(a, Head(h)) \in Seq(Seq(Seg))
  BY <1>5
<1>12. new \in [Streams -> Seq(Seq(Seg))] /\ new[s] = Append(a, Head(h)) /\ \A t \in Streams : t # s => new[t] = g[t]
  BY <1>9, <1>10, <1>11
<1>13. Append(a, Head(h)) \o Tail(h) = a \o h
  BY <1>2
<1>14. ASSUME NEW t \in Streams PROVE got'[t] \o pump'.queues[t] = got[t] \o pump.queues[t]
  BY <1>1, <1>2, <1>6, <1>7, <1>8, <1>9, <1>10, <1>12, <1>13, Zenon
<1> QED
  BY <1>1, <1>2, <1>6, <1>7, <1>8, <1>9, <1>12, <1>14, Zenon

\* What is to be read of a stream is the same after a call that feeds nothing.
LEMMA ReadSame ==
    ASSUME UNCHANGED writer, unread' = unread, lost' = lost, pump'.decs = pump.decs,
           NEW s \in Streams, NEW off, StreamAt(s, off), Laid(s, off), ReadTo(pump, 0, s, off),
           got'[s] \o pump'.queues[s] = got[s] \o pump.queues[s],
           s \notin DOMAIN pump.decs => pump'.queues[s] = pump.queues[s] /\ got'[s] = got[s]
    PROVE  Laid(s, off)' /\ ReadTo(pump, 0, s, off)'
<1>1. file' = file /\ sizes' = sizes
  BY DEF writer
<1>2. Stream(s)' = Stream(s)
  BY <1>1, StreamKept, Zenon
<1>3. \A m : (Missing(s, m)' <=> Missing(s, m)) /\ (ToCome(s, 0, m)' <=> ToCome(s, 0, m))
  BY <1>1, Zenon DEF Missing, ToCome
<1>4. Broken(s, off)' = Broken(s, off)
  BY <1>2, <1>3, Zenon DEF Broken
<1>5. Laid(s, off)'
  BY <1>2, Zenon DEF Laid
<1>6. CASE s \in DOMAIN pump.decs
  <2>1. /\ DecoderAt(pump.decs[s], got[s] \o pump.queues[s], Stream(s), sizes[s], off, Broken(s, off))
        /\ got[s] \o pump.queues[s] # <<>>
        /\ \A j \in 0 + 1 .. Len(unread) :
               unread[j].serial = s => pump.decs[s].pageno <= unread[j].no
        /\ \A m \in pump.decs[s].pageno .. Len(off) - 2 : Missing(s, m) \/ ToCome(s, 0, m)
    BY <1>6, Zenon DEF ReadTo
  <2>2. ReadTo(pump, 0, s, off)'
    BY <1>1, <1>2, <1>3, <1>4, <1>6, <2>1, Zenon DEF ReadTo
  <2> QED
    BY <1>5, <2>2
<1>7. CASE s \notin DOMAIN pump.decs
  <2>2. ReadTo(pump, 0, s, off)'
    BY <1>3, <1>7, Zenon DEF ReadTo
  <2> QED
    BY <1>5, <2>2
<1> QED
  BY <1>6, <1>7

\* A call that takes nothing.
LEMMA IdleStep ==
    ASSUME Inv, UNCHANGED writer, unread' = unread, lost' = lost, pump' = pump, got' = got,
           listed' = listed, reader'.op # "none", ReaderAt'
    PROVE  Inv'
<1>1. file' = file
  BY DEF writer
<1>2. ReaderTypes'
  BY <1>1, Zenon DEF Inv, ReaderTypes
<1>3. Known'
  BY Zenon DEF Inv, Known
<1>4. \A s \in Streams : \A off :
          StreamAt(s, off) /\ Laid(s, off) /\ ReadTo(pump, 0, s, off)
              => Laid(s, off)' /\ ReadTo(pump, 0, s, off)'
  BY ReadSame, Zenon
<1> QED
  BY <1>2, <1>3, <1>4, ReaderStep, Zenon

LEMMA TakeStep ==
    ASSUME Inv, UNCHANGED writer, unread' = unread, lost' = lost, NEW s \in Streams, Take(s),
           reader'.op # "none", listed' = listed \/ listed' = listed \cup {s}, ReaderAt'
    PROVE  Inv'
<1>1. file' = file
  BY DEF writer
<1>2. /\ pump' \in Pump /\ pump'.decs = pump.decs /\ pump'.done = pump.done
      /\ got' \in [Streams -> Seq(Seq(Seg))]
      /\ \A t \in Streams : got'[t] \o pump'.queues[t] = got[t] \o pump.queues[t]
      /\ \A t \in Streams : t # s => pump'.queues[t] = pump.queues[t] /\ got'[t] = got[t]
      /\ pump.queues[s] # <<>>
  BY TakeMoves DEF Inv
<1>3. s \in DOMAIN pump.decs
  <2>1. PICK off : ReadTo(pump, 0, s, off)
    BY Zenon DEF Inv, InStream
  <2> QED
    BY <1>2, <2>1, Zenon DEF ReadTo
<1>4. ReaderTypes'
  BY <1>1, <1>2, Zenon DEF Inv, ReaderTypes
<1>5. Known'
  <2>1. /\ pump.done => unread = <<>>
        /\ listed \in SUBSET Streams /\ \A t \in listed : t \in DOMAIN pump.decs
    BY Zenon DEF Inv, Known
  <2>2. listed' \in SUBSET Streams /\ \A t \in listed' : t \in DOMAIN pump.decs
    BY <1>3, <2>1
  <2> QED
    BY <1>2, <2>1, <2>2, Zenon DEF Known
<1>6. ASSUME NEW t \in Streams, NEW off, StreamAt(t, off), Laid(t, off), ReadTo(pump, 0, t, off)
      PROVE  Laid(t, off)' /\ ReadTo(pump, 0, t, off)'
  BY <1>2, <1>3, <1>6, ReadSame, Zenon
<1> QED
  BY <1>4, <1>5, <1>6, ReaderStep, Zenon

\* Once the pump is at its end, or has come to data, what was in front is found.
LEMMA FrontFound ==
    ASSUME Inv, reader.op = "scan", pump.sawData \/ pump.done
    PROVE  /\ Ordered(pump) /\ Nothing
           /\ \A i : InFront(i) => \E j \in 1 .. Len(pump.order) : pump.order[j] = file[i].serial
<1>1. Nothing /\ Found(pump, 0) /\ Ordered(pump)
  <2>1. reader # [op |-> "none"] /\ reader # [op |-> "idle"]
    OBVIOUS
  <2>2. (\A todo : reader # [op |-> "list", todo |-> todo]) /\ (\A s : reader # [op |-> "read", stream |-> s])
    OBVIOUS
  <2> QED
    BY <2>1, <2>2, Zenon DEF Inv, ReaderAt
<1>2. ASSUME NEW i, InFront(i) PROVE file[i].serial \in DOMAIN pump.decs
  <2>1. CASE pump.sawData
    BY <1>1, <1>2, <2>1, Zenon DEF Found
  <2>2. CASE pump.done
    <3>1. unread = <<>>
      BY <2>2, Zenon DEF Inv, Known
    <3>2. 0 + 1 .. Len(unread) = {}
      BY <3>1
    <3> QED
      BY <1>1, <1>2, <3>2 DEF Found
  <2> QED
    BY <2>1, <2>2
<1> QED
  BY <1>1, <1>2, Zenon DEF Ordered

LEMMA ScannedKeeps ==
    ASSUME Inv, Scanned
    PROVE  Inv'
<1>1. /\ reader.op = "scan" /\ (pump.sawData \/ pump.done)
      /\ reader' = Listing(pump.order)
      /\ unread' = unread /\ pump' = pump /\ listed' = listed /\ got' = got /\ lost' = lost
      /\ UNCHANGED writer
  BY Zenon DEF Scanned
<1>2. /\ Ordered(pump) /\ Nothing
      /\ \A i : InFront(i) => \E j \in 1 .. Len(pump.order) : pump.order[j] = file[i].serial
  BY <1>1, FrontFound, Zenon
<1>3. file' = file
  BY <1>1 DEF writer
<1>4. PICK todo \in Seq(Streams) : todo = pump.order
  BY DEF Inv, ReaderTypes, Pump
<1>5. \A i : InFront(i)' <=> InFront(i)
  BY <1>1, <1>3, Zenon DEF InFront
<1>6. CASE todo = <<>>
  <2>1. 1 .. Len(todo) = {}
    BY <1>6
  <2>2. \A i : ~InFront(i)
    BY <1>2, <1>4, <2>1
  <2>3. FrontIn(listed)'
    BY <1>5, <2>2, Zenon DEF FrontIn
  <2>4. reader' = [op |-> "idle"]
    BY <1>1, <1>4, <1>6, Zenon DEF Listing
  <2>5. ReaderAt'
    BY <2>3, <2>4, Zenon DEF ReaderAt
  <2>6. reader'.op # "none"
    BY <2>4
  <2> QED
    BY <1>1, <2>5, <2>6, IdleStep, Zenon
<1>7. CASE todo # <<>>
  <2>1. \A i : InFront(i) => file[i].serial \in listed \cup {todo[j] : j \in 1 .. Len(todo)}
    <3>1. ASSUME NEW i, InFront(i) PROVE file[i].serial \in listed \cup {todo[j] : j \in 1 .. Len(todo)}
      <4>1. PICK j \in 1 .. Len(todo) : todo[j] = file[i].serial
        BY <1>2, <1>4, <3>1, Zenon
      <4>2. todo[j] \in listed \cup {todo[l] : l \in 1 .. Len(todo)}
        OBVIOUS
      <4> QED
        BY <4>1, <4>2, Zenon
    <3> QED
      BY <3>1, Zenon
  <2>2. FrontIn(listed \cup {todo[j] : j \in 1 .. Len(todo)})'
    <3>1. PICK S : S = listed \cup {todo[j] : j \in 1 .. Len(todo)}
      OBVIOUS
    <3>2. \A i : InFront(i)' => file'[i].serial \in S
      BY <1>3, <1>5, <2>1, <3>1, Zenon
    <3> QED
      BY <1>1, <3>1, <3>2, Zenon DEF FrontIn
  <2>3. \A i \in 1 .. Len(todo) : todo[i] \in DOMAIN pump.decs /\ got[todo[i]] = <<>>
    <3>1. \A i \in 1 .. Len(todo) : todo[i] \in DOMAIN pump.decs
      BY <1>2, <1>4, Zenon DEF Ordered
    <3>2. \A i \in 1 .. Len(todo) : todo[i] \in Streams
      OBVIOUS
    <3>3. \A s \in Streams : got[s] = <<>>
      BY <1>2 DEF Nothing
    <3> QED
      BY <3>1, <3>2, <3>3, Zenon
  <2>4. \A i, j \in 1 .. Len(todo) : i < j => todo[i] # todo[j]
    BY <1>2, <1>4, Zenon DEF Ordered
  <2>5. Waiting(todo)'
    BY <1>1, <1>7, <2>2, <2>3, <2>4, Zenon DEF Waiting
  <2>6. reader' = [op |-> "list", todo |-> todo]
    BY <1>1, <1>4, <1>7, Zenon DEF Listing
  <2>7. ReaderAt'
    BY <2>5, <2>6, Zenon DEF ReaderAt
  <2>8. reader'.op # "none"
    BY <2>6
  <2> QED
    BY <1>1, <2>7, <2>8, IdleStep, Zenon
<1> QED
  BY <1>6, <1>7

\* The streams still to list, without the first of them.
LEMMA RestWaiting ==
    ASSUME NEW S, NEW todo \in Seq(S), todo # <<>>
    PROVE  /\ Head(todo) \in S /\ Tail(todo) \in Seq(S)
           /\ \A i \in 1 .. Len(Tail(todo)) : i + 1 \in 1 .. Len(todo) /\ Tail(todo)[i] = todo[i + 1]
           /\ \A e \in {todo[i] : i \in 1 .. Len(todo)} :
                 e = Head(todo) \/ e \in {Tail(todo)[i] : i \in 1 .. Len(Tail(todo))}
<1>1. PICK rest \in Seq(S), n \in Nat : rest = Tail(todo) /\ n = Len(rest) /\ Len(todo) = n + 1
  <2>1. Tail(todo) \in Seq(S) /\ Len(Tail(todo)) \in Nat /\ Len(todo) = Len(Tail(todo)) + 1
    OBVIOUS
  <2> QED
    BY <2>1, Zenon
<1>2. \A i \in 1 .. n : i + 1 \in 1 .. Len(todo) /\ rest[i] = todo[i + 1]
  BY <1>1
<1>3. ASSUME NEW i \in 1 .. Len(todo) PROVE todo[i] = Head(todo) \/ \E j \in 1 .. n : rest[j] = todo[i]
  <2>1. i = 1 \/ (i - 1 \in 1 .. n /\ (i - 1) + 1 = i)
    BY <1>1
  <2>2. i = 1 => todo[i] = Head(todo)
    OBVIOUS
  <2> QED
    BY <1>2, <2>1, <2>2, Zenon
<1>4. Head(todo) \in S
  OBVIOUS
<1> QED
  BY <1>1, <1>2, <1>3, <1>4

LEMMA ListStreamKeeps ==
    ASSUME Inv, ListStream
    PROVE  Inv'
<1>1. PICK todo : reader = [op |-> "list", todo |-> todo] /\ Waiting(todo)
  <2>1. reader.op = "list"
    BY Zenon DEF ListStream
  <2>2. reader # [op |-> "none"] /\ reader # [op |-> "idle"] /\ reader # [op |-> "scan"]
    BY <2>1
  <2>3. \A s : reader # [op |-> "read", stream |-> s]
    BY <2>1
  <2> QED
    BY <2>2, <2>3, Zenon DEF Inv, ReaderAt
<1>2. todo \in Seq(Streams) /\ todo # <<>>
  BY <1>1, Zenon DEF Waiting
<1>3. reader.todo = todo
  BY <1>1
<1>4. PICK s \in Streams, rest \in Seq(Streams) : s = Head(todo) /\ rest = Tail(todo)
  <2>1. Head(todo) \in Streams /\ Tail(todo) \in Seq(Streams)
    BY <1>2, RestWaiting
  <2> QED
    BY <2>1, Zenon
<1>5. /\ \A i \in 1 .. Len(rest) : i + 1 \in 1 .. Len(todo) /\ rest[i] = todo[i + 1]
      /\ \A e \in {todo[i] : i \in 1 .. Len(todo)} : e = s \/ e \in {rest[i] : i \in 1 .. Len(rest)}
  <2>1. /\ \A i \in 1 .. Len(Tail(todo)) : i + 1 \in 1 .. Len(todo) /\ Tail(todo)[i] = todo[i + 1]
        /\ \A e \in {todo[i] : i \in 1 .. Len(todo)} :
              e = Head(todo) \/ e \in {Tail(todo)[i] : i \in 1 .. Len(Tail(todo))}
    BY <1>2, RestWaiting
  <2> QED
    BY <1>4, <2>1, Zenon
<1>6. 1 \in 1 .. Len(todo) /\ todo[1] = s
  BY <1>2, <1>4
<1>7. s \in DOMAIN pump.decs /\ got[s] = <<>>
  BY <1>1, <1>6, Zenon DEF Waiting
<1>8. pump.queues[s] # <<>>
  <2>1. PICK off : ReadTo(pump, 0, s, off)
    BY Zenon DEF Inv, InStream
  <2>2. got[s] \o pump.queues[s] # <<>>
    BY <1>7, <2>1, Zenon DEF ReadTo
  <2>3. pump.queues[s] \in Seq(Seq(Seg))
    BY DEF Inv, ReaderTypes, Pump
  <2> QED
    BY <1>7, <2>2, <2>3
<1>9. /\ Take(s) /\ listed' = listed \cup {s} /\ reader' = Listing(rest)
      /\ unread' = unread /\ lost' = lost /\ UNCHANGED writer
  BY <1>3, <1>4, <1>8, Zenon DEF ListStream
<1>10. /\ pump'.decs = pump.decs
       /\ \A t \in Streams : t # s => got'[t] = got[t]
  BY <1>9, TakeMoves DEF Inv
<1>11. file' = file
  BY <1>9 DEF writer
<1>12. \A S : FrontIn(listed \cup {todo[i] : i \in 1 .. Len(todo)}) /\ (\A e \in listed \cup {todo[i] : i \in 1 .. Len(todo)} : e \in S)
          => \A i : InFront(i)' => file'[i].serial \in S
  BY <1>9, <1>11, FrontSame
<1>13. FrontIn(listed \cup {todo[i] : i \in 1 .. Len(todo)})
  BY <1>1, Zenon DEF Waiting
<1>14. CASE rest = <<>>
  <2>1. {rest[i] : i \in 1 .. Len(rest)} = {}
    BY <1>14
  <2>2. \A e \in listed \cup {todo[i] : i \in 1 .. Len(todo)} : e \in listed'
    BY <1>5, <1>9, <2>1
  <2>3. \A i : InFront(i)' => file'[i].serial \in listed'
    BY <1>12, <1>13, <2>2, Zenon
  <2>4. reader' = [op |-> "idle"]
    BY <1>9, <1>14, Zenon DEF Listing
  <2>5. ReaderAt'
    BY <2>3, <2>4, Zenon DEF ReaderAt, FrontIn
  <2>6. reader'.op # "none"
    BY <2>4
  <2> QED
    BY <1>9, <2>5, <2>6, TakeStep, Zenon
<1>15. CASE rest # <<>>
  <2>1. PICK S : S = listed' \cup {rest[i] : i \in 1 .. Len(rest)}
    OBVIOUS
  <2>2. \A e \in listed \cup {todo[i] : i \in 1 .. Len(todo)} : e \in S
    BY <1>5, <1>9, <2>1
  <2>3. \A i : InFront(i)' => file'[i].serial \in S
    BY <1>12, <1>13, <2>2, Zenon
  <2>4. FrontIn(listed \cup {rest[i] : i \in 1 .. Len(rest)})'
    BY <2>1, <2>3, Zenon DEF FrontIn
  <2>5. ASSUME NEW i \in 1 .. Len(rest) PROVE rest[i] \in DOMAIN pump'.decs /\ got'[rest[i]] = <<>>
    <3>1. i + 1 \in 1 .. Len(todo) /\ rest[i] = todo[i + 1] /\ rest[i] \in Streams /\ 1 < i + 1
      <4>1. rest[i] \in Streams /\ 1 < i + 1
        OBVIOUS
      <4> QED
        BY <1>5, <4>1, Zenon
    <3>2. rest[i] # s
      BY <1>1, <1>6, <3>1, Zenon DEF Waiting
    <3>3. todo[i + 1] \in DOMAIN pump.decs /\ got[todo[i + 1]] = <<>>
      BY <1>1, <3>1, Zenon DEF Waiting
    <3> QED
      BY <1>10, <3>1, <3>2, <3>3, Zenon
  <2>6. ASSUME NEW i \in 1 .. Len(rest), NEW j \in 1 .. Len(rest), i < j PROVE rest[i] # rest[j]
    <3>1. PICK a \in Int, b \in Int : a = i + 1 /\ b = j + 1 /\ a < b
      <4>1. i + 1 \in Int /\ j + 1 \in Int /\ i + 1 < j + 1
        BY <2>6
      <4> QED
        BY <4>1, Zenon
    <3>2. a \in 1 .. Len(todo) /\ b \in 1 .. Len(todo) /\ rest[i] = todo[a] /\ rest[j] = todo[b]
      BY <1>5, <3>1, Zenon
    <3>3. todo[a] # todo[b]
      BY <1>1, <3>1, <3>2, Zenon DEF Waiting
    <3> QED
      BY <3>2, <3>3, Zenon
  <2>7. Waiting(rest)'
    BY <1>4, <1>15, <2>4, <2>5, <2>6, Zenon DEF Waiting
  <2>8. reader' = [op |-> "list", todo |-> rest]
    BY <1>9, <1>15, Zenon DEF Listing
  <2>9. ReaderAt'
    BY <2>7, <2>8, Zenon DEF ReaderAt
  <2>10. reader'.op # "none"
    BY <2>8
  <2> QED
    BY <1>9, <2>9, <2>10, TakeStep, Zenon
<1> QED
  BY <1>14, <1>15

\* Once NewReader has listed the streams.
LEMMA AfterListing ==
    ASSUME Inv, reader.op \in {"idle", "read"}
    PROVE  FrontIn(listed) /\ (reader.op = "read" => reader.stream \in Streams)
<1>1. reader # [op |-> "none"] /\ reader # [op |-> "scan"]
  OBVIOUS
<1>2. \A todo : reader # [op |-> "list", todo |-> todo]
  OBVIOUS
<1>3. FrontIn(listed) /\ (reader = [op |-> "idle"] \/ \E s \in Streams : reader = [op |-> "read", stream |-> s])
  BY <1>1, <1>2, Zenon DEF Inv, ReaderAt
<1>4. reader.op = "read" => reader.stream \in Streams
  BY <1>3
<1> QED
  BY <1>3, <1>4, Zenon

LEMMA ReadsKeep ==
    ASSUME Inv, ReadReturns \/ ReadEnds \/ \E s \in Streams : ReadPacket(s)
    PROVE  Inv'
<1>1. reader.op \in {"idle", "read"} /\ listed' = listed /\ lost' = lost /\ unread' = unread /\ UNCHANGED writer
  BY Zenon DEF ReadReturns, ReadEnds, ReadPacket
<1>2. FrontIn(listed) /\ (reader.op = "read" => reader.stream \in Streams)
  BY <1>1, AfterListing, Zenon
<1>3. file' = file
  BY <1>1 DEF writer
<1>4. FrontIn(listed)'
  <2>1. \A i : InFront(i)' => file'[i].serial \in listed
    BY <1>1, <1>2, <1>3, FrontSame, Zenon
  <2> QED
    BY <1>1, <2>1, Zenon DEF FrontIn
<1>5. ASSUME reader' = [op |-> "idle"] \/ \E s \in Streams : reader' = [op |-> "read", stream |-> s]
      PROVE  ReaderAt' /\ reader'.op # "none"
  <2>1. reader'.op # "none"
    BY <1>5
  <2> QED
    BY <1>4, <1>5, <2>1, Zenon DEF ReaderAt
<1>6. CASE ReadReturns
  <2>1. PICK s \in Streams : Take(s)
    BY <1>2, <1>6, Zenon DEF ReadReturns
  <2>2. ReaderAt' /\ reader'.op # "none"
    BY <1>5, <1>6, Zenon DEF ReadReturns
  <2> QED
    BY <1>1, <2>1, <2>2, TakeStep, Zenon
<1>7. CASE ReadEnds
  <2>1. pump' = pump /\ got' = got
    BY <1>7, Zenon DEF ReadEnds
  <2>2. ReaderAt' /\ reader'.op # "none"
    BY <1>5, <1>7, Zenon DEF ReadEnds
  <2> QED
    BY <1>1, <2>1, <2>2, IdleStep, Zenon
<1>8. CASE \E s \in Streams : ReadPacket(s)
  <2>1. PICK s \in Streams : ReadPacket(s)
    BY <1>8
  <2>2. reader.op = "idle"
    BY <2>1, Zenon DEF ReadPacket
  <2>3. reader = [op |-> "idle"]
    <3>1. reader # [op |-> "none"] /\ reader # [op |-> "scan"]
      BY <2>2
    <3>2. (\A todo : reader # [op |-> "list", todo |-> todo]) /\ (\A t : reader # [op |-> "read", stream |-> t])
      BY <2>2
    <3> QED
      BY <3>1, <3>2, Zenon DEF Inv, ReaderAt
  <2>4. CASE Take(s) /\ reader' = reader
    <3>1. ReaderAt' /\ reader'.op # "none"
      BY <1>5, <2>3, <2>4, Zenon
    <3> QED
      BY <1>1, <2>4, <3>1, TakeStep, Zenon
  <2>5. CASE reader' = [op |-> "read", stream |-> s] /\ pump' = pump /\ got' = got
    <3>1. ReaderAt' /\ reader'.op # "none"
      BY <1>5, <2>5, Zenon
    <3> QED
      BY <1>1, <2>5, <3>1, IdleStep, Zenon
  <2> QED
    BY <2>1, <2>4, <2>5, Zenon DEF ReadPacket
<1> QED
  BY <1>6, <1>7, <1>8

LEMMA OpenFileKeeps ==
    ASSUME Inv, OpenFile
    PROVE  Inv'
<1>1. NotReading
  BY OpNone, Zenon DEF OpenFile
<1>2. /\ unread' = FlattenSeq([i \in 1 .. Len(file) |-> IF i \in lost' THEN <<>> ELSE <<file[i]>>])
      /\ reader' = [op |-> "scan"] /\ closed' = TRUE
      /\ encs' = [s \in Streams |-> NewEncoder] /\ pending' = [s \in Streams |-> 0]
      /\ eosFlag' = [s \in Streams |-> FALSE]
      /\ file' = file /\ sizes' = sizes /\ pump' = pump /\ listed' = listed /\ got' = got
  BY Zenon DEF OpenFile
<1>3. lost' \in SUBSET (1 .. Len(file))
  <2>0. PICK end \in 0 .. Len(file) : \E damaged \in SUBSET (1 .. end) :
              lost' = damaged \cup (end + 1 .. Len(file))
    BY Zenon DEF OpenFile
  <2>1. PICK damaged \in SUBSET (1 .. end) : lost' = damaged \cup (end + 1 .. Len(file))
    BY <2>0
  <2>2. PICK len \in Nat : len = Len(file)
    BY DEF Inv, WriterTypes
  <2>3. PICK gone : gone = damaged \cup (end + 1 .. len)
    OBVIOUS
  <2>4. end \in 0 .. len /\ damaged \in SUBSET (1 .. end)
    BY <2>2, Zenon
  <2>5. gone \in SUBSET (1 .. len)
    BY <2>3, <2>4
  <2> QED
    BY <2>1, <2>2, <2>3, <2>5, Zenon
<1>4. WriterTypes'
  <2>1. NewEncoder \in Encoder
    BY DEF NewEncoder, Encoder
  <2>2. encs' \in [Streams -> Encoder] /\ pending' \in [Streams -> Nat] /\ eosFlag' \in [Streams -> BOOLEAN]
    BY <1>2, <2>1
  <2> QED
    BY <1>2, <2>2, Zenon DEF Inv, WriterTypes
<1>5. file \in Seq(PageSet)
  BY Zenon DEF Inv, WriterTypes
<1>6. PICK idx : Survivors(unread', lost', Len(file), idx)
  BY <1>2, <1>5, SurvivorsAre, Zenon
<1>7. PICK seen \in Seq(PageSet) : seen = unread'
  BY <1>6, Zenon DEF Survivors
<1>8. PICK len \in Nat, n \in Nat : len = Len(file) /\ n = Len(seen)
  BY <1>5
<1>9. /\ idx \in [1 .. n -> 1 .. len]
      /\ \A k \in 1 .. n : idx[k] \notin lost' /\ seen[k] = file[idx[k]]
      /\ \A k, l \in 1 .. n : k < l => idx[k] < idx[l]
      /\ \A i \in (1 .. len) \ lost' : \E k \in 1 .. n : idx[k] = i
  BY <1>6, <1>7, <1>8, Zenon DEF Survivors
<1>a. \A k \in 1 .. n : idx[k] \in 1 .. len
  BY <1>9
<1>10. /\ DOMAIN pump.decs = {} /\ pump.sawData = FALSE /\ pump.order = <<>> /\ pump.done = FALSE
       /\ \A s \in Streams : pump.queues[s] = <<>> /\ got[s] = <<>>
       /\ listed = {} /\ Nothing
  BY <1>1 DEF NotReading, NewPump, Nothing
<1>11. ReaderTypes'
  BY <1>2, <1>3, <1>7, Zenon DEF Inv, ReaderTypes
<1>12. Known'
  <2>1. ~pump'.done
    BY <1>2, <1>10, Zenon
  <2>2. listed' \in SUBSET Streams /\ \A s \in listed' : s \in DOMAIN pump'.decs
    BY <1>2, <1>10
  <2> QED
    BY <2>1, <2>2, Zenon DEF Known
<1>13. ASSUME NEW s \in Streams PROVE InStream(s)'
  <2>1. PICK off : StreamAt(s, off)
    BY Zenon DEF Inv, InStream
  <2>2. StreamAt(s, off)' /\ Stream(s)' = Stream(s)
    BY <1>2, <2>1, StreamKept, Zenon
  <2>3. FileAt(file, s, Stream(s), off)
    BY <2>1, Zenon DEF StreamAt
  <2>4. Laid(s, off)'
    <3>1. ASSUME NEW j \in 1 .. n, seen[j].serial = s PROVE PageLaid(seen[j], Stream(s), off)
      BY <1>8, <1>9, <1>a, <2>3, <3>1, Zenon DEF FileAt
    <3>2. ASSUME NEW j \in 1 .. n, NEW l \in 1 .. n, j < l, seen[j].serial = s, seen[l].serial = s
          PROVE  seen[j].no < seen[l].no
      <4>1. PICK x \in 1 .. len, y \in 1 .. len : x = idx[j] /\ y = idx[l]
        BY <1>a
      <4>2. x < y /\ file[x].serial = s /\ file[y].serial = s /\ seen[j] = file[x] /\ seen[l] = file[y]
        BY <1>9, <3>2, <4>1, Zenon
      <4>3. file[x].no < file[y].no
        BY <1>8, <2>3, <4>2, Zenon DEF FileAt
      <4> QED
        BY <4>2, <4>3, Zenon
    <3> QED
      BY <1>7, <1>8, <2>2, <3>1, <3>2, Zenon DEF Laid
  <2>5. ASSUME NEW m \in 0 .. Len(off) - 2 PROVE Missing(s, m)' \/ ToCome(s, 0, m)'
    <3>1. PICK i \in 1 .. len : file[i].serial = s /\ file[i].no = m
      BY <1>8, <2>3, Zenon DEF FileAt
    <3>2. CASE i \in lost'
      BY <1>2, <1>8, <3>1, <3>2, Zenon DEF Missing
    <3>3. CASE i \notin lost'
      <4>1. PICK k \in 1 .. n : idx[k] = i
        BY <1>9, <3>3
      <4>2. k \in 0 + 1 .. n /\ seen[k].serial = s /\ seen[k].no = m
        <5>1. k \in 0 + 1 .. n
          OBVIOUS
        <5> QED
          BY <1>9, <3>1, <4>1, <5>1, Zenon
      <4> QED
        BY <1>7, <1>8, <4>2, Zenon DEF ToCome
    <3> QED
      BY <3>2, <3>3
  <2>6. ReadTo(pump, 0, s, off)'
    <3>1. s \notin DOMAIN pump'.decs /\ pump'.queues[s] = <<>> /\ got'[s] = <<>>
      <4>1. s \notin DOMAIN pump.decs
        BY <1>10
      <4> QED
        BY <1>2, <1>10, <4>1, Zenon
    <3> QED
      BY <2>5, <3>1, Zenon DEF ReadTo
  <2>7. ~Writing'
    BY <1>2, Zenon DEF Writing
  <2> QED
    BY <2>2, <2>4, <2>6, <2>7, Zenon DEF InStream
<1>14. ReaderAt'
  <2>1. Found(pump, 0)'
    <3>0. ~pump'.sawData
      BY <1>2, <1>10, Zenon
    <3> SUFFICES ASSUME NEW i, InFront(i)'
                 PROVE  /\ ~pump'.sawData
                        /\ \E j \in 0 + 1 .. Len(unread') :
                              unread'[j] = file'[i] /\ \A l \in 0 + 1 .. j : unread'[l].bos
      BY Zenon DEF Found
    <3>1. SUFFICES \E j \in 0 + 1 .. n : seen[j] = file[i] /\ \A l \in 0 + 1 .. j : seen[l].bos
      BY <1>2, <1>7, <1>8, <3>0, Zenon
    <3>2. i \in (1 .. len) \ lost' /\ \A j \in (1 .. i) \ lost' : file[j].bos
      BY <1>2, <1>8, Zenon DEF InFront
    <3>3. PICK k \in 1 .. n : idx[k] = i
      BY <1>9, <3>2, Zenon
    <3>4. ASSUME NEW l \in 0 + 1 .. k PROVE seen[l].bos
      <4>1. l \in 1 .. n /\ (l < k \/ l = k)
        OBVIOUS
      <4>2. PICK x \in 1 .. len : x = idx[l] /\ x \notin lost' /\ seen[l] = file[x]
        BY <1>9, <1>a, <4>1, Zenon
      <4>3. x < i \/ x = i
        BY <1>9, <3>3, <4>1, <4>2, Zenon
      <4>4. x \in (1 .. i) \ lost'
        BY <3>2, <4>2, <4>3
      <4> QED
        BY <3>2, <4>2, <4>4, Zenon
    <3>5. k \in 0 + 1 .. n
      OBVIOUS
    <3>6. seen[k] = file[i]
      BY <1>9, <3>3, Zenon
    <3> QED
      BY <3>4, <3>5, <3>6, Zenon
  <2>2. Ordered(pump)'
    <3>1. pump'.order = <<>> /\ DOMAIN pump'.decs = {} /\ 1 .. Len(<<>>) = {}
      BY <1>2, <1>10
    <3> QED
      BY <3>1 DEF Ordered
  <2>3. Nothing'
    BY <1>2, <1>10, Zenon DEF Nothing
  <2> QED
    BY <1>2, <2>1, <2>2, <2>3, Zenon DEF ReaderAt
<1> QED
  BY <1>4, <1>11, <1>12, <1>13, <1>14, Zenon DEF Inv

LEMMA InWritten ==
    ASSUME Inv
    PROVE  WriterTypes /\ \A s \in Streams : Written(s)
BY Zenon DEF Inv, InStream, Written

LEMMA SameInv ==
    ASSUME Inv, UNCHANGED vars
    PROVE  Inv'
<1>1. UNCHANGED writer /\ UNCHANGED reading
  BY DEF vars
<1>2. /\ unread' = unread /\ pump' = pump /\ reader' = reader /\ listed' = listed
      /\ got' = got /\ lost' = lost
  BY <1>1 DEF reading
<1>3. /\ encs' = encs /\ pending' = pending /\ closed' = closed /\ file' = file /\ sizes' = sizes
  BY <1>1 DEF writer
<1>4. WriterTypes'
  BY <1>1, WriterSame, Zenon DEF Inv
<1>5. ReaderTypes'
  BY <1>2, <1>3, Zenon DEF Inv, ReaderTypes
<1>6. Known'
  BY <1>2, Zenon DEF Inv, Known
<1>7. ASSUME NEW s \in Streams PROVE InStream(s)'
  <2>1. PICK off : /\ StreamAt(s, off) /\ (Writing => WriterAt(s, off) /\ Open(file, s))
                   /\ Laid(s, off) /\ ReadTo(pump, 0, s, off)
    BY Zenon DEF Inv, InStream
  <2>2. StreamAt(s, off)' /\ Stream(s)' = Stream(s)
    BY <1>3, <2>1, StreamKept, Zenon
  <2>3. Laid(s, off)' /\ ReadTo(pump, 0, s, off)'
    BY <1>1, <1>2, <2>1, ReadSame, Zenon
  <2>4. Given(s)' = Given(s)
    BY <1>3, Zenon DEF Given, Held
  <2>5. WriterAt(s, off) => WriterAt(s, off)'
    BY <1>3, <2>2, <2>4, Zenon DEF WriterAt
  <2>6. Writing' <=> Writing
    BY <1>2, <1>3, Zenon DEF Writing
  <2>7. Open(file, s) => Open(file, s)'
    BY <1>3, Zenon DEF Open
  <2> QED
    BY <2>1, <2>2, <2>3, <2>5, <2>6, <2>7, Zenon DEF InStream
<1>8. ReaderAt'
  <2>1. \A i : InFront(i)' <=> InFront(i)
    BY <1>2, <1>3, Zenon DEF InFront
  <2>2. \A S : FrontIn(S) => FrontIn(S)'
    BY <1>3, <2>1, Zenon DEF FrontIn
  <2>3. \A todo : Waiting(todo) => Waiting(todo)'
    <3>1. ASSUME NEW todo, Waiting(todo) PROVE Waiting(todo)'
      <4>1. FrontIn(listed \cup {todo[i] : i \in 1 .. Len(todo)})'
        <5>1. PICK S : S = listed \cup {todo[i] : i \in 1 .. Len(todo)}
          OBVIOUS
        <5>2. \A i : InFront(i)' => file'[i].serial \in S
          BY <1>2, <1>3, <3>1, <5>1, FrontSame, Zenon DEF Waiting
        <5> QED
          BY <1>2, <5>1, <5>2, Zenon DEF FrontIn
      <4> QED
        BY <1>2, <3>1, <4>1, Zenon DEF Waiting
    <3> QED
      BY <3>1, Zenon
  <2>4. FrontIn(listed) => FrontIn(listed)'
    BY <1>2, <1>3, <2>1, Zenon DEF FrontIn
  <2>5. Nothing' <=> Nothing
    BY <1>2, Zenon DEF Nothing
  <2>6. Found(pump, 0) => Found(pump, 0)'
    BY <1>2, <1>3, <2>1, Zenon DEF Found
  <2>7. Ordered(pump) => Ordered(pump)'
    BY <1>2, Zenon DEF Ordered
  <2>8. ReaderAt
    BY Zenon DEF Inv
  <2> QED
    BY <1>2, <2>3, <2>4, <2>5, <2>6, <2>7, <2>8, Zenon DEF ReaderAt
<1> QED
  BY <1>4, <1>5, <1>6, <1>7, <1>8, Zenon DEF Inv

LEMMA CallInv ==
    ASSUME Inv, NEW s \in Streams,
           \/ \E size \in Sizes \cup {FirstSize} : WritePacket(s, size)
           \/ ForceFlush(s) \/ SetEOS(s)
    PROVE  Inv'
<1>1. Writing /\ UNCHANGED reading
  BY Zenon DEF WritePacket, ForceFlush, SetEOS
<1>2. WriterTypes /\ \A t \in Streams : Written(t)
  BY InWritten, Zenon
<1>3. WriterTypes' /\ \A t \in Streams : Written(t)'
  <2>1. CASE \E size \in Sizes \cup {FirstSize} : WritePacket(s, size)
    <3>1. PICK size \in Sizes \cup {FirstSize} : WritePacket(s, size)
      BY <2>1
    <3> QED
      BY <1>2, <3>1, WritePacketKeeps, Zenon
  <2>2. CASE ForceFlush(s)
    BY <1>2, <2>2, ForceFlushKeeps, Zenon
  <2>3. CASE SetEOS(s)
    BY <1>2, <2>3, SetEOSKeeps, Zenon
  <2> QED
    BY <2>1, <2>2, <2>3
<1>4. \A t \in Streams : \E off : StreamAt(t, off)' /\ (Writing' => WriterAt(t, off)' /\ Open(file, t)')
  BY <1>3, Zenon DEF Written
<1> QED
  BY <1>1, <1>3, <1>4, WriterStep, Zenon

LEMMA CloseInv ==
    ASSUME Inv, NEW order \in SetToSeqs(Streams), Close(order)
    PROVE  Inv'
<1>1. Writing /\ UNCHANGED reading /\ closed' = TRUE
  BY Zenon DEF Close
<1>2. WriterTypes /\ \A t \in Streams : Written(t)
  BY InWritten, Zenon
<1>3. WriterTypes' /\ \A t \in Streams : Finished(t)
  BY <1>2, CloseKeeps, Zenon
<1>4. \A t \in Streams : \E off : StreamAt(t, off)' /\ (Writing' => WriterAt(t, off)' /\ Open(file, t)')
  BY <1>1, <1>3, Zenon DEF Finished, Writing
<1> QED
  BY <1>1, <1>3, <1>4, WriterStep, Zenon

LEMMA NextInv ==
    ASSUME Inv, Next
    PROVE  Inv'
<1>1. CASE \E s \in Streams : \/ \E size \in Sizes \cup {FirstSize} : WritePacket(s, size)
                              \/ ForceFlush(s) \/ SetEOS(s)
  BY <1>1, CallInv, Zenon
<1>2. CASE \E order \in SetToSeqs(Streams) : Close(order)
  BY <1>2, CloseInv, Zenon
<1>3. CASE OpenFile
  BY <1>3, OpenFileKeeps, Zenon
<1>4. CASE Scanned
  BY <1>4, ScannedKeeps, Zenon
<1>5. CASE ListStream
  BY <1>5, ListStreamKeeps, Zenon
<1>6. CASE ReadReturns \/ ReadEnds \/ \E s \in Streams : ReadPacket(s)
  BY <1>6, ReadsKeep, Zenon
<1>7. CASE \E n \in 0 .. MaxPerRead, end \in BOOLEAN : Scan(n, end) \/ FeedForPacket(n, end)
  <2>1. PICK n \in 0 .. MaxPerRead, end \in BOOLEAN : Scan(n, end) \/ FeedForPacket(n, end)
    BY <1>7
  <2>2. Feed(n, end)
    BY <2>1, Zenon DEF Scan, FeedForPacket
  <2>3. reader.op # "none"
    <3>1. CASE Scan(n, end)
      BY <3>1 DEF Scan
    <3>2. CASE FeedForPacket(n, end)
      BY <3>2 DEF FeedForPacket, Wanted
    <3> QED
      BY <2>1, <3>1, <3>2
  <2> QED
    BY <2>2, <2>3, FeedKeeps, Zenon
<1> QED
  BY <1>1, <1>2, <1>3, <1>4, <1>5, <1>6, <1>7, Zenon DEF Next

\* The strengthening that the properties follow from: what is known at every
\* moment of the encoders, the file, the pages to be read and the decoders.
THEOREM FileInvariant == Spec => []Inv
<1>1. Init => Inv
  BY InitInv
<1>2. Inv /\ [Next]_vars => Inv'
  BY NextInv, SameInv
<1> QED
  BY <1>1, <1>2, PTL DEF Spec

\* What a reader was given are the packets before those its decoder works on.
LEMMA WholeFromInv ==
    ASSUME Inv
    PROVE  PacketsWhole
<1>1. SUFFICES ASSUME NEW s \in Streams, NEW i \in 1 .. Len(Taken(s))
               PROVE  /\ Taken(s)[i] = Packet(s, Number(Taken(s)[i]))
                      /\ i > 1 => Number(Taken(s)[i]) > Number(Taken(s)[i - 1])
  BY Zenon DEF PacketsWhole
<1>2. PICK taken \in Seq(Seq(Seg)) : taken = Taken(s) /\ taken = got[s] \o pump.queues[s]
  <2>1. got[s] \in Seq(Seq(Seg)) /\ pump.queues[s] \in Seq(Seq(Seg))
    BY DEF Inv, ReaderTypes, Pump
  <2>2. got[s] \o pump.queues[s] \in Seq(Seq(Seg))
    BY <2>1, ConcatIs
  <2> QED
    BY <2>2, Zenon DEF Taken
<1>3. PICK off : StreamAt(s, off) /\ ReadTo(pump, 0, s, off)
  BY Zenon DEF Inv, InStream
<1>4. PICK T \in Seq(Seg), sz \in Seq(Nat) : T = Stream(s) /\ sz = sizes[s] /\ Framed(T, sz) /\ Offsets(off, T)
  BY <1>3, StreamIs, Zenon DEF StreamAt, PagedAt, SizesAt
<1>5. s \in DOMAIN pump.decs
  <2>1. SUFFICES ASSUME s \notin DOMAIN pump.decs PROVE FALSE
    OBVIOUS
  <2>2. got[s] = <<>> /\ pump.queues[s] = <<>>
    BY <1>3, <2>1, Zenon DEF ReadTo
  <2>3. Len(taken) = 0
    BY <1>2, <2>2
  <2> QED
    BY <1>2, <2>3
<1>6. DecoderAt(pump.decs[s], taken, T, sz, off, Broken(s, off))
  BY <1>2, <1>3, <1>4, <1>5, Zenon DEF ReadTo
<1>7. PICK m \in Nat, r \in Nat : m < Len(off) /\ r <= off[m + 1] /\ WholePackets(taken, T, sz, 0, r)
  BY <1>6, Zenon DEF DecoderAt
<1>8. r <= Len(T)
  <2>1. m + 1 \in 1 .. Len(off)
    BY <1>4, <1>7 DEF Offsets
  <2>2. off[m + 1] \in Nat /\ off[m + 1] <= Len(T)
    BY <1>4, <2>1 DEF Offsets
  <2> QED
    BY <1>7, <2>2
<1>9. \A j \in 1 .. Len(taken) : taken[j] = Packet(s, Number(taken[j])) /\ Number(taken[j]) \in Nat
  <2>1. ASSUME NEW j \in 1 .. Len(taken)
        PROVE  taken[j] = Packet(s, Number(taken[j])) /\ Number(taken[j]) \in Nat
    <3>1. PICK b \in 0 + 1 .. r : taken[j] = Lacing(T[b].packet, sz[T[b].packet])
      BY <1>7, Zenon DEF WholePackets
    <3>2. b \in 1 .. Len(T)
      BY <1>8
    <3>3. Number(Lacing(T[b].packet, sz[T[b].packet])) = T[b].packet
      BY <1>4, <3>2, NumberOf
    <3>4. T[b].packet \in Nat
      <4>1. T[b].packet \in 1 .. Len(sz)
        BY <1>4, <3>2, Zenon DEF Framed
      <4> QED
        BY <4>1, SMTT(30)
    <3> QED
      BY <1>4, <3>1, <3>3, <3>4, Zenon DEF Packet
  <2> QED
    BY <2>1, Zenon
<1>10. i \in 1 .. Len(taken)
  BY <1>2, Zenon
<1>11. ASSUME i > 1 PROVE Number(taken[i]) > Number(taken[i - 1])
  <2>1. i - 1 \in 1 .. Len(taken) /\ i - 1 < i
    BY <1>10, <1>11
  <2>2. Number(taken[i - 1]) < Number(taken[i])
    BY <1>7, <1>10, <2>1, Zenon DEF WholePackets
  <2> QED
    BY <1>9, <1>10, <2>1, <2>2
<1> QED
  BY <1>2, <1>9, <1>10, <1>11, Zenon

\* Whatever pages are lost, a stream's reader is given whole packets, as they
\* were written, in their order and none twice (PacketsWhole).
THEOREM ReadersGetWholePackets == Spec => []PacketsWhole
BY FileInvariant, WholeFromInv, PTL

\* After the listing every stream in front is listed.
LEMMA FoundFromInv ==
    ASSUME Inv
    PROVE  StreamsFound
<1>1. SUFFICES ASSUME reader.op \in {"idle", "read"}, NEW i \in (1 .. Len(file)) \ lost,
                      file[i].bos, \A j \in (1 .. i) \ lost : file[j].bos
               PROVE  file[i].serial \in listed
  BY Zenon DEF StreamsFound
<1>2. InFront(i)
  BY <1>1, Zenon DEF InFront
<1> QED
  BY <1>1, <1>2, AfterListing, Zenon DEF FrontIn

\* NewReader lists every stream whose first page is among those in front of the
\* first page of data (StreamsFound).
THEOREM ReaderFindsStreams == Spec => []StreamsFound
BY FileInvariant, FoundFromInv, PTL

-----------------------------------------------------------------------------
(* What Close leaves.                                                      *)

\* The pages of a stream among the first m, counted from 0.
Numbered(mine, pages, m, s) ==
    /\ mine \in Seq(PageSet)
    /\ \A i \in 1 .. m : pages[i].serial = s => pages[i].no < Len(mine)
    /\ \A k \in 1 .. Len(mine) :
          \E i \in 1 .. m : pages[i].serial = s /\ mine[k] = pages[i] /\ pages[i].no = k - 1

LEMMA PagesOfIs ==
    ASSUME NEW pages \in Seq(PageSet), NEW s, NEW T, NEW off, Offsets(off, T), FileAt(pages, s, T, off)
    PROVE  Numbered(PagesOf(s, pages), pages, Len(pages), s)
<1>1. PICK len \in Nat, w \in Nat : len = Len(pages) /\ w = Len(off)
  BY OffsetsIs
<1>2. PICK f : f = [i \in 1 .. len |-> IF pages[i].serial = s THEN <<pages[i]>> ELSE <<>>]
  OBVIOUS
<1>3. ASSUME NEW i \in 1 .. len
      PROVE  /\ f[i] \in Seq(PageSet) /\ pages[i] \in PageSet
             /\ f[i] = IF pages[i].serial = s THEN <<pages[i]>> ELSE <<>>
  <2>1. pages[i] \in PageSet
    BY <1>1
  <2>2. f[i] = IF pages[i].serial = s THEN <<pages[i]>> ELSE <<>>
    BY <1>2
  <2>3. <<pages[i]>> \in Seq(PageSet) /\ <<>> \in Seq(PageSet)
    BY <2>1
  <2>4. f[i] \in Seq(PageSet)
    BY <2>2, <2>3, Zenon
  <2> QED
    BY <2>1, <2>2, <2>4, Zenon
<1> DEFINE Mine(m) == FlattenSeq([i \in 1 .. m |-> f[i]])
           Good == {m \in Nat : m <= len => Numbered(Mine(m), pages, m, s)}
<1>4. 0 \in Good
  <2>1. Mine(0) = <<>>
    BY FlattenNone
  <2>2. Numbered(<<>>, pages, 0, s)
    BY DEF Numbered
  <2> QED
    BY <2>1, <2>2, Zenon
<1>5. ASSUME NEW m \in Nat, m \in Good PROVE m + 1 \in Good
  <2>0. m + 1 \in Nat
    OBVIOUS
  <2>1. SUFFICES ASSUME m + 1 <= len PROVE Numbered(Mine(m + 1), pages, m + 1, s)
    BY <2>0, Zenon
  <2>2. Numbered(Mine(m), pages, m, s)
    <3>1. m <= len
      BY <2>1
    <3> QED
      BY <1>5, <3>1, Zenon
  <2>3. PICK mine \in Seq(PageSet) : mine = Mine(m)
    BY <2>2, Zenon DEF Numbered
  <2>4. m + 1 \in 1 .. len /\ \A i \in 1 .. m + 1 : i \in 1 .. len
    BY <2>1
  <2>5. Mine(m + 1) = mine \o f[m + 1]
    <3>1. \A i \in 1 .. m + 1 : f[i] \in Seq(PageSet)
      BY <1>3, <2>4, Zenon
    <3>2. Mine(m + 1) = Mine(m) \o f[m + 1]
      BY <3>1, FlattenNext
    <3> QED
      BY <2>3, <3>2, Zenon
  <2> HIDE DEF Mine
  <2>6. PICK c \in Nat : c = Len(mine)
    OBVIOUS
  <2>7. /\ \A i \in 1 .. m : pages[i].serial = s => pages[i].no < c
        /\ \A k \in 1 .. c :
              \E i \in 1 .. m : pages[i].serial = s /\ mine[k] = pages[i] /\ pages[i].no = k - 1
    BY <2>2, <2>3, <2>6, Zenon DEF Numbered
  <2>8. \A i \in 1 .. m + 1 : i \in 1 .. m \/ i = m + 1
    OBVIOUS
  <2>9. \A i \in 1 .. m : i \in 1 .. m + 1 /\ i < m + 1
    OBVIOUS
  <2>10. PICK page \in PageSet : page = pages[m + 1]
    BY <1>3, <2>4, Zenon
  <2>11. CASE page.serial # s
    <3>1. mine \o f[m + 1] = mine
      <4>1. f[m + 1] = <<>>
        BY <1>3, <2>4, <2>10, <2>11, Zenon
      <4> QED
        BY <4>1, ConcatEmpty
    <3>2. \A i \in 1 .. m + 1 : pages[i].serial = s => pages[i].no < c
      BY <2>7, <2>8, <2>10, <2>11, Zenon
    <3>3. \A k \in 1 .. c :
              \E i \in 1 .. m + 1 : pages[i].serial = s /\ mine[k] = pages[i] /\ pages[i].no = k - 1
      BY <2>7, <2>9, Zenon
    <3>4. Numbered(mine, pages, m + 1, s)
      BY <2>6, <3>2, <3>3, Zenon DEF Numbered
    <3> QED
      BY <2>5, <3>1, <3>4, Zenon
  <2>12. CASE page.serial = s
    <3>1. PageLaid(page, T, off)
      BY <1>1, <2>4, <2>10, <2>12, Zenon DEF FileAt
    <3>2. PICK q \in Nat : q = page.no /\ q + 1 < w
      BY <1>1, <3>1, Zenon DEF PageLaid
    <3>3. \A i \in 1 .. len : i < m + 1 /\ pages[i].serial = s => pages[i].no < q
      BY <1>1, <2>4, <2>10, <2>12, <3>2, Zenon DEF FileAt
    <3>4. \A i \in 1 .. len : m + 1 < i /\ pages[i].serial = s => q < pages[i].no
      BY <1>1, <2>4, <2>10, <2>12, <3>2, Zenon DEF FileAt
    <3>5. ~(q < c)
      <4>1. SUFFICES ASSUME q < c PROVE FALSE
        OBVIOUS
      <4>2. q + 1 \in 1 .. c /\ (q + 1) - 1 = q
        BY <4>1
      <4>3. PICK i \in 1 .. m : pages[i].serial = s /\ pages[i].no = q
        BY <2>7, <4>2, Zenon
      <4>4. q < q
        BY <2>4, <2>9, <3>3, <4>3, Zenon
      <4> QED
        BY <4>4
    <3>6. ~(c < q)
      <4>1. SUFFICES ASSUME c < q PROVE FALSE
        OBVIOUS
      <4>2. c \in 0 .. w - 2
        BY <3>2, <4>1
      <4>3. PICK i \in 1 .. len : pages[i].serial = s /\ pages[i].no = c
        BY <1>1, <4>2, Zenon DEF FileAt
      <4>4. i \in 1 .. m \/ i = m + 1 \/ m + 1 < i
        OBVIOUS
      <4>5. CASE i \in 1 .. m
        <5>1. c < c
          BY <2>7, <4>3, <4>5, Zenon
        <5> QED
          BY <5>1
      <4>6. CASE i = m + 1
        <5>1. q = c
          BY <2>10, <3>2, <4>3, <4>6, Zenon
        <5> QED
          BY <4>1, <5>1
      <4>7. CASE m + 1 < i
        <5>1. q < c
          BY <3>4, <4>3, <4>7, Zenon
        <5> QED
          BY <4>1, <5>1
      <4> QED
        BY <4>4, <4>5, <4>6, <4>7
    <3>7. q = c
      BY <3>5, <3>6
    <3>8. PICK more : more = mine \o <<page>>
      OBVIOUS
    <3>9. more \in Seq(PageSet) /\ Len(more) = c + 1 /\ more[c + 1] = page /\ \A k \in 1 .. c : more[k] = mine[k]
      BY <2>6, <3>8
    <3>10. more = Mine(m + 1)
      <4>1. f[m + 1] = <<page>>
        BY <1>3, <2>4, <2>10, <2>12, Zenon
      <4> QED
        BY <2>5, <3>8, <4>1, Zenon
    <3>11. ASSUME NEW i \in 1 .. m + 1, pages[i].serial = s PROVE pages[i].no < c + 1
      <4>1. CASE i \in 1 .. m
        <5>1. pages[i].no < c /\ pages[i] \in PageSet
          BY <1>3, <2>4, <2>7, <3>11, <4>1, Zenon
        <5>2. pages[i].no \in Nat
          BY <5>1 DEF PageSet
        <5> QED
          BY <5>1, <5>2
      <4>2. CASE i = m + 1
        <5>1. pages[i].no = c
          BY <2>10, <3>2, <3>7, <4>2, Zenon
        <5> QED
          BY <5>1
      <4> QED
        BY <2>8, <4>1, <4>2
    <3>12. ASSUME NEW k \in 1 .. c + 1
           PROVE  \E i \in 1 .. m + 1 : pages[i].serial = s /\ more[k] = pages[i] /\ pages[i].no = k - 1
      <4>1. CASE k \in 1 .. c
        BY <2>7, <2>9, <3>9, <4>1, Zenon
      <4>2. CASE k = c + 1
        <5>1. k - 1 = c /\ m + 1 \in 1 .. m + 1
          BY <4>2
        <5> QED
          BY <2>10, <2>12, <3>2, <3>7, <3>9, <4>2, <5>1, Zenon
      <4>3. k \in 1 .. c \/ k = c + 1
        OBVIOUS
      <4> QED
        BY <4>1, <4>2, <4>3
    <3>13. Numbered(more, pages, m + 1, s)
      BY <3>9, <3>11, <3>12, Zenon DEF Numbered
    <3> QED
      BY <3>10, <3>13, Zenon
  <2> QED
    BY <2>11, <2>12
<1>6. Nat \subseteq Good
  <2> HIDE DEF Good
  <2> QED
    BY <1>4, <1>5, Induction
<1>7. Numbered(Mine(len), pages, len, s)
  <2>1. len <= len
    OBVIOUS
  <2> QED
    BY <1>6, <2>1
<1>8. Mine(len) = PagesOf(s, pages)
  <2>1. f = [i \in 1 .. len |-> f[i]]
    BY <1>2, Zenon
  <2>2. DOMAIN pages = 1 .. len
    BY <1>1
  <2>3. f = [i \in DOMAIN pages |-> IF pages[i].serial = s THEN <<pages[i]>> ELSE <<>>]
    BY <1>2, <2>2, Zenon
  <2> QED
    BY <2>1, <2>3, Zenon DEF PagesOf
<1> QED
  BY <1>1, <1>7, <1>8, Zenon

LEMMA CutJoin ==
    ASSUME NEW T \in Seq(Seg), NEW a \in Nat, NEW b \in Nat, a <= b, b <= Len(T)
    PROVE  SubSeq(T, 1, a) \o SubSeq(T, a + 1, b) = SubSeq(T, 1, b)
<1> DEFINE x == SubSeq(T, 1, a)
           y == SubSeq(T, a + 1, b)
           z == SubSeq(T, 1, b)
<1>1. /\ x \in Seq(Seg) /\ y \in Seq(Seg) /\ z \in Seq(Seg)
      /\ Len(x) = a /\ Len(y) = b - a /\ Len(z) = b
  OBVIOUS
<1>2. /\ \A i \in 1 .. a : z[i] = x[i]
      /\ \A i \in 1 .. b - a : z[a + i] = y[i]
  OBVIOUS
<1> HIDE DEF x, y, z
<1>3. Len(z) = Len(x) + Len(y)
  BY <1>1
<1>4. (\A i \in 1 .. Len(x) : z[i] = x[i]) /\ (\A i \in 1 .. Len(y) : z[Len(x) + i] = y[i])
  BY <1>1, <1>2, Zenon
<1>5. x \o y = z
  BY <1>1, <1>3, <1>4, ConcatOnly
<1> QED
  BY <1>5, Zenon DEF x, y, z

\* Pages 0, 1, .. of a stream hold its segments.
Segments(mine, n) == FlattenSeq([i \in 1 .. n |-> mine[i].segments])
HeldBy(mine, n, T, off) == \A i \in 1 .. n : mine[i].segments = SubSeq(T, off[i] + 1, off[i + 1])

LEMMA SegmentsOf ==
    ASSUME NEW T \in Seq(Seg), NEW off, Offsets(off, T), NEW mine, NEW n \in Nat, n < Len(off),
           HeldBy(mine, n, T, off)
    PROVE  Segments(mine, n) = SubSeq(T, 1, off[n + 1])
<1>1. PICK w \in Nat, len \in Nat : w = Len(off) /\ len = Len(T)
  BY OffsetsIs
<1>2. \A i \in 1 .. w : off[i] \in Nat /\ off[i] <= len
  BY <1>1 DEF Offsets
<1>3. PICK f : f = [i \in 1 .. n |-> mine[i].segments]
  OBVIOUS
<1>4. \A i \in 1 .. n : i \in 1 .. w /\ i + 1 \in 1 .. w /\ i < i + 1
  BY <1>1
<1>5. \A i \in 1 .. n : off[i] < off[i + 1]
  BY <1>1, <1>4, Zenon DEF Offsets
<1>6. ASSUME NEW i \in 1 .. n
      PROVE  f[i] = SubSeq(T, off[i] + 1, off[i + 1]) /\ f[i] \in Seq(Seg)
  <2>1. PICK a \in Nat, b \in Nat : a = off[i] /\ b = off[i + 1] /\ a < b /\ b <= len
    BY <1>2, <1>4, <1>5, Zenon
  <2>2. SubSeq(T, a + 1, b) \in Seq(Seg)
    BY <1>1, <2>1
  <2>3. f[i] = SubSeq(T, off[i] + 1, off[i + 1])
    BY <1>3, Zenon DEF HeldBy
  <2> QED
    BY <2>1, <2>2, <2>3, Zenon
<1> DEFINE All(m) == FlattenSeq([i \in 1 .. m |-> f[i]])
           Good == {m \in Nat : m <= n => All(m) = SubSeq(T, 1, off[m + 1])}
<1>7. 0 \in Good
  <2>1. All(0) = <<>>
    BY FlattenNone
  <2>2. 0 + 1 = 1 /\ off[1] = 0
    BY DEF Offsets
  <2>3. SubSeq(T, 1, 0) = <<>>
    OBVIOUS
  <2> QED
    BY <2>1, <2>2, <2>3, Zenon
<1>8. ASSUME NEW m \in Nat, m \in Good PROVE m + 1 \in Good
  <2>0. m + 1 \in Nat
    OBVIOUS
  <2>1. SUFFICES ASSUME m + 1 <= n PROVE All(m + 1) = SubSeq(T, 1, off[(m + 1) + 1])
    BY <2>0, Zenon
  <2>2. All(m) = SubSeq(T, 1, off[m + 1])
    <3>1. m <= n
      BY <2>1
    <3> QED
      BY <1>8, <3>1, Zenon
  <2>3. m + 1 \in 1 .. n /\ \A i \in 1 .. m + 1 : i \in 1 .. n
    BY <2>1
  <2>4. All(m + 1) = All(m) \o f[m + 1]
    <3>1. \A i \in 1 .. m + 1 : f[i] \in Seq(Seg)
      BY <1>6, <2>3, Zenon
    <3> QED
      BY <3>1, FlattenNext
  <2> HIDE DEF All
  <2>5. PICK a \in Nat, b \in Nat : a = off[m + 1] /\ b = off[(m + 1) + 1] /\ a < b /\ b <= len
    BY <1>2, <1>4, <1>5, <2>3, Zenon
  <2>6. f[m + 1] = SubSeq(T, a + 1, b)
    BY <1>6, <2>3, <2>5, Zenon
  <2>7. SubSeq(T, 1, a) \o SubSeq(T, a + 1, b) = SubSeq(T, 1, b)
    <3>1. a <= b /\ b <= Len(T)
      BY <1>1, <2>5
    <3> QED
      BY <3>1, CutJoin
  <2> QED
    BY <2>2, <2>4, <2>5, <2>6, <2>7, Zenon
<1>9. Nat \subseteq Good
  <2> HIDE DEF Good
  <2> QED
    BY <1>7, <1>8, Induction
<1>10. All(n) = SubSeq(T, 1, off[n + 1])
  <2>1. n <= n
    OBVIOUS
  <2> QED
    BY <1>9, <2>1
<1>11. f = [i \in 1 .. n |-> f[i]]
  BY <1>3, Zenon
<1> QED
  BY <1>3, <1>10, <1>11, Zenon DEF Segments

LEMMA FinishedIs ==
    ASSUME WriterTypes', NEW s \in Streams, Finished(s), sizes' = sizes
    PROVE  LET pages == PagesOf(s, file')
           IN  /\ FlattenSeq([i \in 1 .. Len(pages) |-> pages[i].segments])
                    = FlattenSeq([n \in 1 .. Len(sizes[s]) |-> Packet(s, n)])
               /\ \A i \in 1 .. Len(pages) :
                     pages[i].eos <=> /\ i = Len(pages)
                                      /\ eosFlag[s] /\ pending[s] # 0
<1>1. PICK off : /\ StreamAt(s, off)'
                 /\ off[Len(off)] = Len(Stream(s))
                 /\ Ended(file', s, off, Len(Stream(s)), eosFlag[s] /\ pending[s] # 0)
  BY Zenon DEF Finished
<1>2. Stream(s)' = Stream(s)
  BY Zenon DEF Stream
<1>3. PICK pages \in Seq(PageSet) : pages = file'
  BY Zenon DEF WriterTypes
<1>4. SizesAt(s) /\ Offsets(off, Stream(s)) /\ FileAt(pages, s, Stream(s), off)
  <2>1. SizesAt(s)' /\ PagedAt(s, off)' /\ FileAt(file', s, Stream(s)', off)
    BY <1>1, Zenon DEF StreamAt
  <2> QED
    BY <1>2, <1>3, <2>1, Zenon DEF SizesAt, PagedAt
<1>5. PICK T \in Seq(Seg) : T = Stream(s)
  BY <1>4, StreamIs, Zenon
<1>6. PICK len \in Nat, w \in Nat, c \in Nat : len = Len(pages) /\ w = Len(off) /\ c = Len(T)
  BY <1>4, OffsetsIs
<1>7. PICK mine : mine = PagesOf(s, pages) /\ Numbered(mine, pages, len, s)
  BY <1>4, <1>6, PagesOfIs, Zenon
<1>8. PICK n \in Nat : n = Len(mine)
  BY <1>7 DEF Numbered
<1>9. /\ \A i \in 1 .. len : pages[i].serial = s => pages[i].no < n
      /\ \A k \in 1 .. n :
            \E i \in 1 .. len : pages[i].serial = s /\ mine[k] = pages[i] /\ pages[i].no = k - 1
  BY <1>7, <1>8, Zenon DEF Numbered
<1>10. n = w - 1
  <2>1. ASSUME w - 1 < n PROVE FALSE
    <3>1. n \in 1 .. n /\ n - 1 \in Nat /\ ~((n - 1) + 1 < w)
      BY <1>6, <2>1, <1>4, OffsetsIs
    <3>2. PICK i \in 1 .. len : pages[i].serial = s /\ pages[i].no = n - 1
      BY <1>9, <3>1, Zenon
    <3>3. pages[i].no + 1 < w
      BY <1>4, <1>6, <3>2, Zenon DEF FileAt, PageLaid
    <3> QED
      BY <3>1, <3>2, <3>3, Zenon
  <2>2. ASSUME n < w - 1 PROVE FALSE
    <3>1. n \in 0 .. w - 2
      BY <2>2
    <3>2. PICK i \in 1 .. len : pages[i].serial = s /\ pages[i].no = n
      BY <1>4, <1>6, <3>1, Zenon DEF FileAt
    <3>3. n < n
      BY <1>9, <3>2, Zenon
    <3> QED
      BY <3>3
  <2> QED
    BY <2>1, <2>2
<1>11. ASSUME NEW k \in 1 .. n
       PROVE  /\ mine[k].segments = SubSeq(T, off[k] + 1, off[k + 1])
              /\ mine[k].eos <=> eosFlag[s] /\ pending[s] # 0 /\ off[k + 1] = c
  <2>1. PICK i \in 1 .. len : pages[i].serial = s /\ mine[k] = pages[i] /\ pages[i].no = k - 1
    BY <1>9
  <2>2. (k - 1) + 1 = k /\ (k - 1) + 2 = k + 1
    OBVIOUS
  <2>3. PageLaid(pages[i], T, off)
    BY <1>4, <1>5, <1>6, <2>1, Zenon DEF FileAt
  <2>4. mine[k].segments = SubSeq(T, off[k] + 1, off[k + 1])
    BY <2>1, <2>2, <2>3, Zenon DEF PageLaid
  <2>5. Ended(pages, s, off, c, eosFlag[s] /\ pending[s] # 0)
    BY <1>1, <1>3, <1>5, <1>6, Zenon
  <2>6. mine[k].eos <=> eosFlag[s] /\ pending[s] # 0 /\ off[k + 1] = c
    BY <1>6, <2>1, <2>2, <2>5, Zenon DEF Ended
  <2> QED
    BY <2>4, <2>6, Zenon
<1>12. FlattenSeq([i \in 1 .. n |-> mine[i].segments]) = T
  <2>1. n < Len(off) /\ n + 1 = w
    BY <1>4, <1>6, <1>10, OffsetsIs
  <2>2. Offsets(off, T)
    BY <1>4, <1>5, Zenon
  <2>3. HeldBy(mine, n, T, off)
    BY <1>11, Zenon DEF HeldBy
  <2>4. Segments(mine, n) = SubSeq(T, 1, off[n + 1])
    BY <2>1, <2>2, <2>3, SegmentsOf, Zenon
  <2>5. off[n + 1] = c
    BY <1>1, <1>5, <1>6, <2>1, Zenon
  <2>6. SubSeq(T, 1, c) = T
    BY <1>6
  <2> QED
    BY <2>4, <2>5, <2>6, Zenon DEF Segments
<1>13. T = FlattenSeq([k \in 1 .. Len(sizes[s]) |-> Packet(s, k)])
  BY <1>5, Zenon DEF Stream, Whole, Packet
<1>14. ASSUME NEW k \in 1 .. n PROVE off[k + 1] = c <=> k = n
  <2>1. k + 1 \in 1 .. w /\ n + 1 = w /\ w \in 1 .. w
    BY <1>4, <1>6, <1>10, OffsetsIs
  <2>2. off[w] = c
    BY <1>1, <1>5, <1>6, Zenon
  <2>3. CASE k = n
    BY <2>1, <2>2, <2>3, Zenon
  <2>4. CASE k # n
    <3>1. k + 1 < w
      BY <2>1, <2>4
    <3>2. off[k + 1] < off[w]
      BY <1>4, <1>6, <2>1, <3>1, Zenon DEF Offsets
    <3>3. off[k + 1] # c
      BY <2>2, <3>2
    <3> QED
      BY <2>4, <3>3
  <2> QED
    BY <2>3, <2>4
<1>15. \A i \in 1 .. n : mine[i].eos <=> i = n /\ eosFlag[s] /\ pending[s] # 0
  BY <1>11, <1>14, Zenon
<1> QED
  BY <1>3, <1>7, <1>8, <1>12, <1>13, <1>15, Zenon

\* Close is the only step that closes the Writer and leaves the Reader alone.
LEMMA ClosedByClose ==
    ASSUME Inv, [Next]_vars, closed', ~closed, reader' = reader
    PROVE  \E order \in SetToSeqs(Streams) : Close(order)
<1>1. UNCHANGED vars => closed' = closed
  BY DEF vars, writer
<1>2. UNCHANGED writer => closed' = closed
  BY DEF writer
<1>3. ~OpenFile
  <2>1. SUFFICES ASSUME OpenFile PROVE FALSE
    OBVIOUS
  <2>2. reader.op = "none" /\ reader' = [op |-> "scan"]
    BY <2>1, Zenon DEF OpenFile
  <2>3. reader'.op = "scan"
    BY <2>2
  <2>4. "none" # "scan"
    OBVIOUS
  <2> QED
    BY <2>2, <2>3, <2>4, Zenon
<1>4. Next
  BY <1>1
<1>5. \A s \in Streams : \A size : ~WritePacket(s, size)
  BY Zenon DEF WritePacket
<1>6. \A s \in Streams : ~ForceFlush(s) /\ ~SetEOS(s)
  BY Zenon DEF ForceFlush, SetEOS
<1>7. ~Scanned /\ ~ListStream /\ ~ReadReturns /\ ~ReadEnds /\ \A s \in Streams : ~ReadPacket(s)
  BY <1>2, Zenon DEF Scanned, ListStream, ReadReturns, ReadEnds, ReadPacket
<1>8. \A n, end : ~Scan(n, end) /\ ~FeedForPacket(n, end)
  BY <1>2, Zenon DEF Scan, FeedForPacket, Feed
<1> QED
  BY <1>3, <1>4, <1>5, <1>6, <1>7, <1>8, Zenon DEF Next

\* Close leaves nothing behind: the pages of a stream hold all its packets, and
\* its last one, that page alone, is marked as the end if SetEOS was called and
\* there was still a packet to mark.
THEOREM CloseLeavesNothing == Spec => CloseFinishes
<1>1. ASSUME Inv, [Next]_vars
      PROVE  [closed' /\ ~closed /\ reader' = reader =>
          \A s \in Streams :
              LET pages == PagesOf(s, file')
              IN  /\ FlattenSeq([i \in 1 .. Len(pages) |-> pages[i].segments])
                       = FlattenSeq([n \in 1 .. Len(sizes[s]) |-> Packet(s, n)])
                  /\ \A i \in 1 .. Len(pages) :
                        pages[i].eos <=> /\ i = Len(pages)
                                         /\ eosFlag[s] /\ pending[s] # 0]_vars
  <2>1. SUFFICES ASSUME closed', ~closed, reader' = reader, NEW s \in Streams
                 PROVE  LET pages == PagesOf(s, file')
                        IN  /\ FlattenSeq([i \in 1 .. Len(pages) |-> pages[i].segments])
                                 = FlattenSeq([n \in 1 .. Len(sizes[s]) |-> Packet(s, n)])
                            /\ \A i \in 1 .. Len(pages) :
                                  pages[i].eos <=> /\ i = Len(pages)
                                                   /\ eosFlag[s] /\ pending[s] # 0
    BY Zenon
  <2>2. PICK order \in SetToSeqs(Streams) : Close(order)
    BY <1>1, <2>1, ClosedByClose
  <2>3. WriterTypes /\ \A t \in Streams : Written(t)
    BY <1>1, InWritten, Zenon
  <2>4. WriterTypes' /\ Finished(s)
    BY <2>2, <2>3, CloseKeeps, Zenon
  <2>5. sizes' = sizes
    BY <2>2, Zenon DEF Close
  <2> QED
    BY <2>4, <2>5, FinishedIs, Zenon
<1> QED
  BY <1>1, FileInvariant, PTL DEF CloseFinishes, Spec

-----------------------------------------------------------------------------
(* What a lost page costs.                                                 *)

\* The segments of packet n are those from b + 1 to b + len.
Span(T, n, b, len) ==
    /\ len # 0 /\ b + len <= Len(T) /\ Ends(T[b + len])
    /\ \A k \in 1 .. Len(T) : T[k].packet = n <=> k \in b + 1 .. b + len

LEMMA PacketSpan ==
    ASSUME NEW sz \in Seq(Nat), NEW n \in 1 .. Len(sz)
    PROVE  \E b \in Nat : Span(Whole(sz, Len(sz)), n, b, Len(Lacing(n, sz[n])))
<1>1. PICK m \in Nat, z \in Nat : m = n - 1 /\ m + 1 = n /\ z = sz[n]
  <2>1. n - 1 \in Nat /\ (n - 1) + 1 = n /\ sz[n] \in Nat
    OBVIOUS
  <2> QED
    BY <2>1, Zenon
<1>2. m \in 0 .. Len(sz) /\ m + 1 <= Len(sz) /\ n \in Nat /\ n <= Len(sz) /\ Len(sz) \in Nat
  BY <1>1
<1>3. PICK X \in Seq(Seg), len \in Nat :
          /\ X = Lacing(n, z) /\ len = Len(X) /\ len # 0
          /\ \A i \in 1 .. len : X[i].packet = n /\ (Ends(X[i]) <=> i = len)
  <2>1. PICK q \in Nat : q = n
    BY <1>2, Zenon
  <2>2. /\ Lacing(q, z) \in Seq(Seg) /\ Len(Lacing(q, z)) \in Nat \ {0}
        /\ \A i \in 1 .. Len(Lacing(q, z)) :
              /\ Lacing(q, z)[i].packet = q
              /\ Lacing(q, z)[i].first <=> i = 1
              /\ Ends(Lacing(q, z)[i]) <=> i = Len(Lacing(q, z))
    BY LacingIs, Zenon
  <2>3. Len(Lacing(q, z)) \in Nat /\ Len(Lacing(q, z)) # 0
    BY <2>2
  <2> QED
    BY <2>1, <2>2, <2>3, Zenon
<1>4. PICK A \in Seq(Seg), b \in Nat : /\ A = Whole(sz, m) /\ b = Len(A)
                                       /\ \A k \in 1 .. b : A[k].packet <= m
  <2>1. Framed(Whole(sz, m), sz) /\ \A k \in 1 .. Len(Whole(sz, m)) : Whole(sz, m)[k].packet <= m
    BY <1>2, WholeFramed
  <2>2. PICK A \in Seq(Seg) : A = Whole(sz, m)
    BY <2>1, Zenon DEF Framed
  <2>3. Len(A) \in Nat
    OBVIOUS
  <2> QED
    BY <2>1, <2>2, <2>3, Zenon
<1>5. Whole(sz, n) = A \o X
  <2>1. Whole(sz, m + 1) = Whole(sz, m) \o Lacing(m + 1, sz[m + 1])
    BY <1>2, WholeNext
  <2> QED
    BY <1>1, <1>3, <1>4, <2>1, Zenon
<1>6. PICK R \in Seq(Seg) : Whole(sz, Len(sz)) = (A \o X) \o R
  <2>1. \E R \in Seq(Seg) : Whole(sz, Len(sz)) = Whole(sz, n) \o R
    <3>1. Len(sz) <= Len(sz)
      BY <1>2
    <3> QED
      BY <1>2, <3>1, WholePrefix
  <2> QED
    BY <1>5, <2>1, Zenon
<1>7. PICK T : T = Whole(sz, Len(sz)) /\ Framed(T, sz)
  <2>1. Len(sz) \in 0 .. Len(sz)
    BY <1>2
  <2>2. Framed(Whole(sz, Len(sz)), sz)
    BY <2>1, WholeFramed
  <2> QED
    BY <2>2, Zenon
<1>8. PICK U \in Seq(Seg) : /\ U = A \o X /\ Len(U) = b + len
                            /\ \A i \in 1 .. b : U[i] = A[i]
                            /\ \A i \in 1 .. len : U[b + i] = X[i]
  <2>1. /\ A \o X \in Seq(Seg) /\ Len(A \o X) = Len(A) + Len(X)
        /\ \A i \in 1 .. Len(A) : (A \o X)[i] = A[i]
        /\ \A i \in 1 .. Len(X) : (A \o X)[Len(A) + i] = X[i]
    BY ConcatIs
  <2> QED
    BY <1>3, <1>4, <2>1, ZenonT(30)
<1>9. PICK t \in Nat : t = Len(T) /\ b + len <= t /\ \A i \in 1 .. b + len : T[i] = U[i]
  <2>1. /\ U \o R \in Seq(Seg) /\ Len(U \o R) = Len(U) + Len(R)
        /\ \A i \in 1 .. Len(U) : (U \o R)[i] = U[i]
    BY ConcatIs
  <2>2. Len(U \o R) \in Nat /\ b + len <= Len(U \o R)
    BY <1>8, <2>1
  <2>3. T = U \o R
    BY <1>6, <1>7, <1>8, Zenon
  <2> QED
    BY <1>8, <2>1, <2>2, <2>3, Zenon
<1>10. ASSUME NEW k \in b + 1 .. b + len PROVE T[k].packet = n
  <2>1. PICK i : i \in 1 .. len /\ b + i = k /\ k \in 1 .. b + len
    <3>1. k - b \in 1 .. len /\ b + (k - b) = k /\ k \in 1 .. b + len
      OBVIOUS
    <3> QED
      BY <3>1, Zenon
  <2>2. T[k] = U[k] /\ U[b + i] = X[i] /\ X[i].packet = n
    BY <1>3, <1>8, <1>9, <2>1, Zenon
  <2>3. T[k] = X[i]
    BY <2>1, <2>2, Zenon
  <2> QED
    BY <2>2, <2>3, Zenon
<1>11. T[b + len].packet = n /\ Ends(T[b + len]) /\ b + len \in 1 .. t
  <2>1. len \in 1 .. len /\ b + len \in 1 .. b + len /\ b + len \in b + 1 .. b + len /\ b + len \in 1 .. t
    BY <1>3, <1>9
  <2>2. T[b + len] = X[len]
    BY <1>8, <1>9, <2>1, Zenon
  <2> QED
    BY <1>3, <1>10, <2>1, <2>2, Zenon
<1>12. ASSUME NEW k \in 1 .. t, k < b + 1 PROVE T[k].packet # n
  <2>1. k \in 1 .. b /\ k \in 1 .. b + len
    BY <1>12
  <2>2. T[k] = A[k] /\ A[k].packet <= m
    BY <1>4, <1>8, <1>9, <2>1, Zenon
  <2>3. T[k].packet \in 1 .. Len(sz)
    BY <1>7, <1>9, Zenon DEF Framed
  <2> QED
    BY <1>1, <2>2, <2>3
<1>13. ASSUME NEW k \in 1 .. t, b + len < k PROVE T[k].packet # n
  <2>1. T[b + len].packet < T[k].packet
    BY <1>7, <1>9, <1>11, <1>13, Zenon DEF Framed
  <2>2. n < T[k].packet
    BY <1>11, <2>1, Zenon
  <2> QED
    BY <2>2
<1>14. ASSUME NEW k \in 1 .. t PROVE T[k].packet = n <=> k \in b + 1 .. b + len
  <2>1. k \in b + 1 .. b + len \/ k < b + 1 \/ b + len < k
    OBVIOUS
  <2>2. k \in b + 1 .. b + len => ~(k < b + 1) /\ ~(b + len < k)
    OBVIOUS
  <2> QED
    BY <1>10, <1>12, <1>13, <2>1, <2>2, Zenon
<1>15. Span(T, n, b, len)
  BY <1>3, <1>9, <1>11, <1>14, Zenon DEF Span
<1> QED
  BY <1>1, <1>3, <1>7, <1>15, Zenon

\* Each segment is on one page.
LEMMA SamePage ==
    ASSUME NEW T, NEW off, Offsets(off, T), NEW x \in Nat, NEW y \in Nat,
           x + 1 < Len(off), y + 1 < Len(off), NEW k,
           k \in off[x + 1] + 1 .. off[x + 2], k \in off[y + 1] + 1 .. off[y + 2]
    PROVE  x = y
<1>1. PICK w \in Nat : w = Len(off)
  BY OffsetsIs
<1>2. ASSUME NEW a \in Nat, NEW c \in Nat, a < c, c + 1 < w,
             k \in off[a + 1] + 1 .. off[a + 2], k \in off[c + 1] + 1 .. off[c + 2]
      PROVE  FALSE
  <2>1. a + 2 \in 1 .. w /\ c + 1 \in 1 .. w /\ a + 1 \in 1 .. w /\ c + 2 \in 1 .. w /\ (a + 2 = c + 1 \/ a + 2 < c + 1)
    BY <1>2
  <2>2. off[a + 2] \in Nat /\ off[c + 1] \in Nat /\ off[a + 1] \in Nat /\ off[c + 2] \in Nat
    <3>1. \A i \in 1 .. w : off[i] \in Nat
      BY <1>1, SMTT(30) DEF Offsets
    <3> QED
      BY <2>1, <3>1, Zenon
  <2>3. off[a + 2] = off[c + 1] \/ off[a + 2] < off[c + 1]
    BY <1>1, <2>1, Zenon DEF Offsets
  <2> QED
    BY <1>2, <2>2, <2>3
<1>3. x = y \/ x < y \/ y < x
  OBVIOUS
<1> QED
  BY <1>1, <1>2, <1>3

\* Where the segment of an arrived page is in the stream.
Place(off, at) == off[file[at[1]].no + 1] + at[2]

PlacedAt(s, n, off, at) ==
    /\ at[1] \in (1 .. Len(file)) \ lost /\ file[at[1]].serial = s
    /\ file[at[1]].no \in Nat /\ file[at[1]].no + 1 < Len(off)
    /\ Place(off, at) \in off[file[at[1]].no + 1] + 1 .. off[file[at[1]].no + 2]
    /\ Place(off, at) \in 1 .. Len(Stream(s)) /\ Stream(s)[Place(off, at)].packet = n

LEMMA ArrivedPlaced ==
    ASSUME NEW s, NEW off, StreamAt(s, off), file \in Seq(PageSet), NEW n, NEW at \in Arrived(s, n)
    PROVE  PlacedAt(s, n, off, at)
<1>1. PICK T \in Seq(Seg), len \in Nat, w \in Nat :
          T = Stream(s) /\ Offsets(off, T) /\ len = Len(T) /\ w = Len(off) /\ FileAt(file, s, T, off)
  BY StreamIs, OffsetsIs, Zenon DEF StreamAt, PagedAt
<1>2. PICK i, j : /\ i = at[1] /\ j = at[2] /\ i \in (1 .. Len(file)) \ lost /\ j \in 1 .. MaxSegs
                  /\ file[i].serial = s /\ j \in DOMAIN file[i].segments
                  /\ file[i].segments[j].packet = n
  BY DEF Arrived
<1>3. PageLaid(file[i], T, off)
  <2>1. i \in 1 .. Len(file)
    BY <1>2
  <2> QED
    BY <1>1, <1>2, <2>1, Zenon DEF FileAt
<1>4. PICK no \in Nat : no = file[i].no
  BY <1>3, Zenon DEF PageLaid
<1>5. no + 1 < w
  BY <1>1, <1>3, <1>4, Zenon DEF PageLaid
<1>6. no + 1 \in 1 .. w /\ no + 2 \in 1 .. w /\ no + 1 < no + 2
  BY <1>5
<1>7. PICK a \in Nat, b \in Nat : a = off[no + 1] /\ b = off[no + 2] /\ a < b /\ b <= len
  <2>1. off[no + 1] \in Nat /\ off[no + 2] \in Nat
    BY <1>1, <1>6 DEF Offsets
  <2>2. off[no + 1] < off[no + 2] /\ off[no + 2] <= len
    BY <1>1, <1>6, Zenon DEF Offsets
  <2> QED
    BY <2>1, <2>2, Zenon
<1>8. file[i].segments = SubSeq(T, a + 1, b)
  BY <1>3, <1>4, <1>7, Zenon DEF PageLaid
<1>9. j \in 1 .. b - a
  BY <1>1, <1>2, <1>7, <1>8, SMTT(30)
<1>10. SubSeq(T, a + 1, b)[j] = T[a + j] /\ a + j \in a + 1 .. b /\ a + j \in 1 .. len
  <2>1. SubSeq(T, a + 1, b)[j] = T[a + j]
    <3>1. T \in Seq(Seg) /\ a \in 0 .. Len(T) /\ b \in a .. Len(T)
      BY <1>1, <1>7
    <3>2. \A l \in 1 .. b - a : SubSeq(T, a + 1, b)[l] = T[a + l]
      BY <3>1, CutType
    <3> QED
      BY <1>9, <3>2, Zenon
  <2>2. a + j \in a + 1 .. b /\ a + j \in 1 .. len
    BY <1>7, <1>9, SMTT(30)
  <2> QED
    BY <2>1, <2>2, Zenon
<1>11. Place(off, at) = a + j
  BY <1>2, <1>4, <1>7, Zenon DEF Place
<1> QED
  BY <1>1, <1>2, <1>4, <1>5, <1>7, <1>8, <1>10, <1>11, Zenon DEF PlacedAt

LEMMA ArrivedApart ==
    ASSUME NEW s, NEW off, StreamAt(s, off), file \in Seq(PageSet), NEW n,
           NEW a \in Arrived(s, n), NEW c \in Arrived(s, n), Place(off, a) = Place(off, c)
    PROVE  a = c
<1>1. PICK T, len : /\ T = Stream(s) /\ Offsets(off, T) /\ FileAt(file, s, T, off)
                    /\ len = Len(file) /\ len \in Nat
  <2>1. Len(file) \in Nat
    OBVIOUS
  <2>2. Offsets(off, Stream(s)) /\ FileAt(file, s, Stream(s), off)
    BY Zenon DEF StreamAt, PagedAt
  <2> QED
    BY <2>1, <2>2, Zenon
<1>2. PlacedAt(s, n, off, a) /\ PlacedAt(s, n, off, c)
  BY ArrivedPlaced
<1>3. PICK i, j, k, l : i = a[1] /\ j = a[2] /\ k = c[1] /\ l = c[2]
  OBVIOUS
<1>4. a = <<i, j>> /\ c = <<k, l>> /\ i \in 1 .. len /\ k \in 1 .. len /\ j \in Nat /\ l \in Nat
  <2>1. MaxSegs \in Nat
    BY FramingAssumption
  <2> QED
    BY <1>1, <1>3, <2>1 DEF Arrived
<1>5. PICK x \in Nat, y \in Nat : x = file[i].no /\ y = file[k].no
  BY <1>2, <1>3, Zenon DEF PlacedAt
<1>6. x = y
  BY <1>1, <1>2, <1>3, <1>5, SamePage, Zenon DEF PlacedAt
<1>7. i = k
  <2>1. i < k => x < y
    BY <1>1, <1>2, <1>3, <1>4, <1>5, Zenon DEF FileAt, PlacedAt
  <2>2. k < i => y < x
    BY <1>1, <1>2, <1>3, <1>4, <1>5, Zenon DEF FileAt, PlacedAt
  <2> QED
    BY <1>4, <1>6, <2>1, <2>2
<1>8. PICK o \in Nat : o = off[x + 1]
  <2>1. x + 1 \in 1 .. Len(off)
    <3>1. x + 1 < Len(off)
      BY <1>2, <1>3, <1>5, Zenon DEF PlacedAt
    <3>2. Len(off) \in Nat
      BY <1>1, OffsetsIs
    <3> QED
      BY <3>1, <3>2
  <2> QED
    BY <1>1, <2>1 DEF Offsets
<1>9. o + j = o + l
  BY <1>3, <1>5, <1>6, <1>7, <1>8, Zenon DEF Place
<1>10. j = l
  BY <1>4, <1>9
<1> QED
  BY <1>4, <1>7, <1>10, Zenon

\* If as many of its segments arrived as a packet has, all of them did.
LEMMA AllArrived ==
    ASSUME NEW s, NEW off, StreamAt(s, off), file \in Seq(PageSet), NEW n, NEW b \in Nat, NEW len \in Nat,
           Span(Stream(s), n, b, len), Cardinality(Arrived(s, n)) = len
    PROVE  \A k \in b + 1 .. b + len : \E at \in Arrived(s, n) : Place(off, at) = k
<1>1. PICK P : P = b + 1 .. b + len
  OBVIOUS
<1>2. IsFiniteSet(P) /\ Cardinality(P) = len
  <2>1. b + 1 \in Int /\ b + len \in Int /\ (IF b + 1 > b + len THEN 0 ELSE (b + len) - (b + 1) + 1) = len
    OBVIOUS
  <2>2. /\ IsFiniteSet(b + 1 .. b + len)
        /\ Cardinality(b + 1 .. b + len) = IF b + 1 > b + len THEN 0 ELSE (b + len) - (b + 1) + 1
    BY <2>1, FS_Interval
  <2> QED
    BY <1>1, <2>1, <2>2, Zenon
<1>3. PICK A : A = Arrived(s, n)
  OBVIOUS
<1>4. PICK f : f = [at \in A |-> Place(off, at)]
  OBVIOUS
<1>5. \A at \in A : Place(off, at) \in P
  <2>1. ASSUME NEW at \in A PROVE Place(off, at) \in P
    <3>1. PlacedAt(s, n, off, at)
      BY <1>3, ArrivedPlaced
    <3> QED
      BY <1>1, <3>1, Zenon DEF PlacedAt, Span
  <2> QED
    BY <2>1, Zenon
<1>6. \A a, c \in A : Place(off, a) = Place(off, c) => a = c
  BY <1>3, ArrivedApart
<1>7. f \in Injection(A, P)
  <2>1. f \in [A -> P]
    BY <1>4, <1>5
  <2>2. \A a, c \in A : f[a] = f[c] => a = c
    BY <1>4, <1>6
  <2> QED
    BY <2>1, <2>2, Zenon DEF Injection, IsInjective
<1>8. Cardinality(A) = Cardinality(P)
  BY <1>2, <1>3, Zenon
<1>9. f \in Surjection(A, P)
  BY <1>2, <1>7, <1>8, FS_Injection
<1>10. \A k \in P : \E at \in A : f[at] = k
  BY <1>9 DEF Surjection
<1> QED
  BY <1>1, <1>3, <1>4, <1>10

\* A page that a segment of the packet came on was not lost.
LEMMA SegmentSeen ==
    ASSUME NEW s, NEW off, StreamAt(s, off), file \in Seq(PageSet), NEW n, NEW at \in Arrived(s, n),
           NEW q \in Nat, q + 1 < Len(off), Place(off, at) \in off[q + 1] + 1 .. off[q + 2]
    PROVE  ~Missing(s, q) /\ file[at[1]].no = q
<1>1. PICK T, len : /\ T = Stream(s) /\ Offsets(off, T) /\ FileAt(file, s, T, off)
                    /\ len = Len(file) /\ len \in Nat
  <2>1. Len(file) \in Nat
    OBVIOUS
  <2>2. Offsets(off, Stream(s)) /\ FileAt(file, s, Stream(s), off)
    BY Zenon DEF StreamAt, PagedAt
  <2> QED
    BY <2>1, <2>2, Zenon
<1>2. PlacedAt(s, n, off, at)
  BY ArrivedPlaced
<1>3. PICK i, x : /\ x \in Nat /\ i = at[1] /\ x = file[i].no
                  /\ i \in (1 .. len) \ lost /\ file[i].serial = s
                  /\ x + 1 < Len(off) /\ Place(off, at) \in off[x + 1] + 1 .. off[x + 2]
  <2>1. PICK i : i = at[1]
    OBVIOUS
  <2>2. PICK x \in Nat : x = file[i].no
    BY <1>2, <2>1, Zenon DEF PlacedAt
  <2>3. i \in (1 .. len) \ lost /\ file[i].serial = s
    BY <1>1, <1>2, <2>1, Zenon DEF PlacedAt
  <2>4. x + 1 < Len(off) /\ Place(off, at) \in off[x + 1] + 1 .. off[x + 2]
    BY <1>2, <2>1, <2>2, Zenon DEF PlacedAt
  <2> QED
    BY <2>1, <2>2, <2>3, <2>4, Zenon
<1>4. x = q
  BY <1>1, <1>3, SamePage, Zenon
<1>5. ASSUME Missing(s, q) PROVE FALSE
  <2>1. PICK j \in lost : j \in 1 .. len /\ file[j].serial = s /\ file[j].no = q
    BY <1>1, <1>5, Zenon DEF Missing
  <2>2. i < j \/ j < i
    <3>1. i # j
      BY <1>3, <2>1
    <3> QED
      BY <1>1, <1>3, <2>1, <3>1
  <2>3. ~(q < q)
    OBVIOUS
  <2> QED
    BY <1>1, <1>3, <1>4, <2>1, <2>2, <2>3, Zenon DEF FileAt
<1> QED
  BY <1>3, <1>4, <1>5, Zenon

\* A packet that arrived is not of a lost page, so that the decoder has covered it.
LEMMA LossFromInv ==
    ASSUME Inv
    PROVE  LossIsContained
<1>1. SUFFICES ASSUME NEW s \in listed, reader.op = "idle", pump.done, pump.queues[s] = <<>>,
                      NEW n \in 1 .. Len(sizes[s]), Cardinality(Arrived(s, n)) = Len(Packet(s, n))
               PROVE  \E i \in 1 .. Len(got[s]) : Number(got[s][i]) = n
  BY Zenon DEF LossIsContained
<1>2. s \in Streams /\ s \in DOMAIN pump.decs /\ unread = <<>>
  <2>1. Known
    BY Zenon DEF Inv
  <2>2. listed \in SUBSET Streams
    BY <2>1, Zenon DEF Known
  <2>3. s \in Streams
    BY <2>2
  <2> QED
    BY <1>1, <2>1, <2>3, Zenon DEF Known
<1>3. PICK off : StreamAt(s, off) /\ ReadTo(pump, 0, s, off)
  BY <1>2, Zenon DEF Inv, InStream
<1>4. PICK T \in Seq(Seg), sz \in Seq(Nat) :
          /\ T = Stream(s) /\ sz = sizes[s] /\ T = Whole(sz, Len(sz))
          /\ Framed(T, sz) /\ Offsets(off, T) /\ FileAt(file, s, T, off)
  BY <1>3, StreamIs, Zenon DEF StreamAt, PagedAt, SizesAt, Stream
<1>5. PICK w \in Nat, c \in Nat : w = Len(off) /\ c = Len(T)
  <2>1. Len(T) \in Nat /\ Len(off) \in Nat
    BY <1>4, OffsetsIs
  <2> QED
    BY <2>1, Zenon
<1>6. file \in Seq(PageSet) /\ got[s] \o pump.queues[s] = got[s]
  <2>1. got[s] \in Seq(Seq(Seg))
    BY <1>2 DEF Inv, ReaderTypes
  <2>2. got[s] \o <<>> = got[s]
    BY <2>1
  <2> QED
    BY <1>1, <2>2, Zenon DEF Inv, WriterTypes
<1>7. \A q : ~ToCome(s, 0, q)
  <2>1. Len(unread) = 0 /\ 0 + 1 .. 0 = {}
    BY <1>2
  <2> QED
    BY <2>1 DEF ToCome
<1>8. /\ DecoderAt(pump.decs[s], got[s], T, sz, off, Broken(s, off))
      /\ \A q \in pump.decs[s].pageno .. Len(off) - 2 : Missing(s, q)
  BY <1>2, <1>3, <1>4, <1>6, <1>7, Zenon DEF ReadTo
<1>9. PICK p \in Nat, r \in Nat :
          /\ p < w /\ Covered(got[s], T, r, Broken(s, off))
          /\ \A k \in r + 1 .. off[p + 1] : ~Ends(T[k])
          /\ \A q \in p .. w - 2 : Missing(s, q)
  BY <1>5, <1>8, Zenon DEF DecoderAt, Unfinished
<1>10. PICK b \in Nat, len \in Nat : Span(T, n, b, len) /\ len = Cardinality(Arrived(s, n))
  <2>1. n \in 1 .. Len(sz)
    BY <1>4, Zenon
  <2>2. PICK b \in Nat : Span(T, n, b, Len(Lacing(n, sz[n])))
    BY <1>4, <2>1, PacketSpan, Zenon
  <2>3. n \in Nat /\ sz[n] \in Nat
    BY <2>1
  <2>4. Len(Lacing(n, sz[n])) \in Nat
    BY <2>3, LacingIs
  <2> QED
    BY <1>1, <1>4, <2>2, <2>4, Zenon DEF Packet
<1>11. \A k \in b + 1 .. b + len : \E at \in Arrived(s, n) : Place(off, at) = k
  <2>1. Span(Stream(s), n, b, len) /\ Cardinality(Arrived(s, n)) = len
    BY <1>4, <1>10, Zenon
  <2> QED
    BY <1>3, <1>6, <2>1, AllArrived
<1>12. \A i \in 1 .. w : off[i] \in Nat /\ off[i] <= c
  BY <1>4, <1>5 DEF Offsets
<1>13. ASSUME n \in Broken(s, off) PROVE FALSE
  <2>1. PICK q \in 0 .. w - 2 :
            Missing(s, q) /\ \E k \in off[q + 1] + 1 .. off[q + 2] : T[k].packet = n
    BY <1>4, <1>5, <1>13, Zenon DEF Broken
  <2>2. PICK k \in off[q + 1] + 1 .. off[q + 2] : T[k].packet = n
    BY <2>1
  <2>3. q \in Nat /\ q + 1 < w /\ q + 1 \in 1 .. w /\ q + 2 \in 1 .. w
    BY <2>1
  <2>4. PICK lo \in Nat, hi \in Nat : lo = off[q + 1] /\ hi = off[q + 2] /\ hi <= c
    BY <1>12, <2>3, Zenon
  <2>5. k \in 1 .. c
    <3>1. k \in lo + 1 .. hi
      BY <2>4, Zenon
    <3> QED
      BY <2>4, <3>1
  <2>6. k \in b + 1 .. b + len
    BY <1>5, <1>10, <2>2, <2>5, Zenon DEF Span
  <2>7. PICK at \in Arrived(s, n) : Place(off, at) = k
    BY <1>11, <2>6, Zenon
  <2> QED
    BY <1>3, <1>5, <1>6, <2>1, <2>3, <2>7, SegmentSeen, Zenon
<1>14. PICK e \in Nat : /\ e = b + len /\ e \in b + 1 .. b + len /\ e \in 1 .. c
                        /\ Ends(T[e]) /\ T[e].packet = n
  <2>1. len # 0 /\ b + len <= c /\ Ends(T[b + len])
    BY <1>5, <1>10, Zenon DEF Span
  <2>2. b + len \in b + 1 .. b + len /\ b + len \in 1 .. c /\ b + len \in Nat
    BY <2>1
  <2>3. T[b + len].packet = n
    BY <1>5, <1>10, <2>2, Zenon DEF Span
  <2> QED
    BY <2>1, <2>2, <2>3, Zenon
<1>15. PICK at \in Arrived(s, n) : Place(off, at) = e
  BY <1>11, <1>14, Zenon
<1>16. PICK x \in Nat : x + 1 < w /\ e \in off[x + 1] + 1 .. off[x + 2]
  <2>1. PlacedAt(s, n, off, at)
    BY <1>3, <1>6, ArrivedPlaced
  <2> QED
    BY <1>5, <1>15, <2>1, Zenon DEF PlacedAt
<1>17. ~Missing(s, x)
  BY <1>3, <1>5, <1>6, <1>15, <1>16, SegmentSeen, Zenon
<1>18. x < p
  <2>1. x \notin p .. w - 2
    BY <1>9, <1>17, Zenon
  <2> QED
    BY <1>16, <2>1
<1>19. e <= off[p + 1]
  <2>1. x + 1 \in 1 .. w /\ x + 2 \in 1 .. w /\ p + 1 \in 1 .. w /\ (x + 2 = p + 1 \/ x + 2 < p + 1)
    BY <1>9, <1>16, <1>18
  <2>2. PICK lo \in Nat, hi \in Nat : lo = off[x + 1] /\ hi = off[x + 2]
    BY <1>12, <2>1, Zenon
  <2>3. PICK o \in Nat : o = off[p + 1]
    BY <1>12, <2>1, Zenon
  <2>4. hi = o \/ hi < o
    BY <1>4, <1>5, <2>1, <2>2, <2>3, Zenon DEF Offsets
  <2>5. e \in lo + 1 .. hi
    BY <1>16, <2>2, Zenon
  <2>6. e <= o
    BY <2>4, <2>5
  <2> QED
    BY <2>3, <2>6, Zenon
<1>20. e \in 1 .. r
  <2>1. p + 1 \in 1 .. w
    BY <1>9
  <2>2. PICK o \in Nat : o = off[p + 1]
    BY <1>12, <2>1, Zenon
  <2>3. e \notin r + 1 .. o /\ e <= o
    BY <1>9, <1>14, <1>19, <2>2, Zenon
  <2> QED
    BY <1>14, <2>3
<1> QED
  BY <1>9, <1>13, <1>14, <1>20, Zenon DEF Covered

\* A lost page costs the packets it has a part of and no others: those of which
\* every page arrived have all been read when ReadPacket says io.EOF.
THEOREM LostPagesCostTheirPackets == Spec => []LossIsContained
BY FileInvariant, LossFromInv, PTL
=============================================================================
