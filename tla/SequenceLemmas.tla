--------------------------- MODULE SequenceLemmas ---------------------------
(***************************************************************************)
(* Facts about sequences that the proofs of several components rest on.    *)
(* Induction is over the least number that is not in a set: the library's  *)
(* theorems on well-founded relations give that number for every set, so   *)
(* that a property of all numbers is proved by way of the set of those     *)
(* that have it.                                                           *)
(***************************************************************************)
EXTENDS Integers, Sequences, SequencesExt, FiniteSetsExt, Filters, WellFoundedInduction, TLAPS

LEMMA LeastNat ==
    ASSUME NEW S, S \subseteq Nat, S # {}
    PROVE  \E m \in S : \A n \in S : m <= n
<1>1. \E x \in S : \A y \in S : ~ (<<y, x>> \in OpToRel(<, Nat))
  BY NatLessThanWellFounded, WFMin, Zenon
<1>2. \E x \in S : \A y \in S : ~ (y < x)
  BY <1>1, Zenon DEF OpToRel
<1> QED
  BY <1>2

\* A set that has zero and with each number the next has them all.
LEMMA Induction ==
    ASSUME NEW S, 0 \in S, \A n \in Nat : n \in S => n + 1 \in S
    PROVE  Nat \subseteq S
<1> DEFINE Out == {n \in Nat : n \notin S}
<1> SUFFICES ASSUME Out # {} PROVE FALSE
  OBVIOUS
<1>1. PICK m \in Out : \A n \in Out : m <= n
  BY LeastNat, Zenon
<1>2. m \in Nat /\ m # 0 /\ m \notin S
  BY <1>1
<1>3. m - 1 \in Nat /\ m - 1 \in S
  BY <1>1, <1>2
<1>4. (m - 1) + 1 \in S
  BY <1>3
<1> QED
  BY <1>2, <1>4

LEMMA MinIs ==
    ASSUME NEW S, S \subseteq Nat, S # {}
    PROVE  Min(S) \in S /\ \A n \in S : Min(S) <= n
BY LeastNat DEF Min

LEMMA MaxIs ==
    ASSUME NEW S, NEW m \in Nat, S \subseteq 0 .. m, S # {}
    PROVE  Max(S) \in S /\ \A n \in S : n <= Max(S)
<1> DEFINE T == {n \in 0 .. m : m - n \in S}
<1>1. T \subseteq Nat /\ T # {}
  <2>1. PICK x \in S : TRUE
    OBVIOUS
  <2>2. m - x \in 0 .. m /\ m - (m - x) = x
    BY <2>1
  <2>3. m - x \in T
    BY <2>1, <2>2
  <2>4. T \subseteq Nat
    OBVIOUS
  <2> HIDE DEF T
  <2> QED
    BY <2>3, <2>4
<1>2. PICK l \in T : \A n \in T : l <= n
  BY <1>1, LeastNat, Zenon
<1>3. m - l \in S
  BY <1>2
<1>4. ASSUME NEW n \in S PROVE n <= m - l
  <2>1. m - n \in T
    OBVIOUS
  <2>2. l <= m - n
    BY <1>2, <2>1
  <2> QED
    BY <1>2, <2>2
<1>5. \E k \in S : \A n \in S : k >= n
  BY <1>3, <1>4
<1>6. Max(S) \in S /\ \A n \in S : Max(S) >= n
  BY <1>5, Zenon DEF Max
<1> QED
  BY <1>6

LEMMA SetOfAppend ==
    ASSUME NEW S, NEW s \in Seq(S), NEW e \in S
    PROVE  ToSet(Append(s, e)) = ToSet(s) \cup {e}
<1>1. /\ DOMAIN Append(s, e) = 1 .. Len(s) + 1 /\ DOMAIN s = 1 .. Len(s)
      /\ Append(s, e)[Len(s) + 1] = e
      /\ \A i \in 1 .. Len(s) : Append(s, e)[i] = s[i]
  OBVIOUS
<1> DEFINE t == Append(s, e)
<1> HIDE DEF t
<1>2. ASSUME NEW x \in ToSet(t) PROVE x \in ToSet(s) \cup {e}
  <2>1. PICK i \in DOMAIN t : x = t[i]
    BY DEF ToSet
  <2>2. i \in 1 .. Len(s) \/ i = Len(s) + 1
    BY <1>1, <2>1 DEF t
  <2> QED
    BY <1>1, <2>1, <2>2 DEF ToSet, t
<1>3. e \in ToSet(t)
  BY <1>1 DEF ToSet, t
<1>4. ASSUME NEW x \in ToSet(s) PROVE x \in ToSet(t)
  <2>1. PICK i \in DOMAIN s : x = s[i]
    BY DEF ToSet
  <2>2. i \in DOMAIN t /\ t[i] = x
    BY <1>1, <2>1 DEF t
  <2> QED
    BY <2>2 DEF ToSet
<1> QED
  BY <1>2, <1>3, <1>4 DEF t

LEMMA ConcatIs ==
    ASSUME NEW S, NEW s \in Seq(S), NEW t \in Seq(S)
    PROVE  /\ s \o t \in Seq(S)
           /\ Len(s \o t) = Len(s) + Len(t)
           /\ \A i \in 1 .. Len(s) : (s \o t)[i] = s[i]
           /\ \A i \in 1 .. Len(t) : (s \o t)[Len(s) + i] = t[i]
OBVIOUS

LEMMA SeqEqual ==
    ASSUME NEW S, NEW s \in Seq(S), NEW t \in Seq(S), Len(s) = Len(t),
           \A i \in 1 .. Len(s) : s[i] = t[i]
    PROVE  s = t
OBVIOUS

\* The only one with these elements is s \o t.
LEMMA ConcatOnly ==
    ASSUME NEW S, NEW s \in Seq(S), NEW t \in Seq(S), NEW u \in Seq(S),
           Len(u) = Len(s) + Len(t),
           \A i \in 1 .. Len(s) : u[i] = s[i],
           \A i \in 1 .. Len(t) : u[Len(s) + i] = t[i]
    PROVE  u = s \o t
<1>1. PICK v \in Seq(S) : v = s \o t
  BY ConcatIs, Zenon
<1>2. /\ Len(v) = Len(s) + Len(t)
      /\ \A i \in 1 .. Len(s) : v[i] = s[i]
      /\ \A i \in 1 .. Len(t) : v[Len(s) + i] = t[i]
  BY <1>1, ConcatIs
<1>3. ASSUME NEW i \in 1 .. Len(u) PROVE u[i] = v[i]
  <2>1. CASE i <= Len(s)
    BY <1>2, <2>1
  <2>2. CASE i > Len(s)
    <3>1. PICK k : k = i - Len(s)
      OBVIOUS
    <3>2. k \in 1 .. Len(t) /\ i = Len(s) + k
      BY <2>2, <3>1
    <3> QED
      BY <1>2, <3>2
  <2> QED
    BY <2>1, <2>2
<1> QED
  BY <1>1, <1>2, <1>3, SeqEqual

\* u is s, and t behind it.
Joins(u, s, t) ==
    /\ Len(u) = Len(s) + Len(t)
    /\ \A i \in 1 .. Len(s) : u[i] = s[i]
    /\ \A i \in 1 .. Len(t) : u[Len(s) + i] = t[i]

LEMMA ConcatJoins ==
    ASSUME NEW S, NEW s \in Seq(S), NEW t \in Seq(S)
    PROVE  Joins(s \o t, s, t)
BY ConcatIs DEF Joins

\* The parts are known by their lengths.
LEMMA ConcatCancel ==
    ASSUME NEW S, NEW a \in Seq(S), NEW b \in Seq(S), NEW c \in Seq(S), NEW d \in Seq(S),
           a \o b = c \o d, Len(a) = Len(c)
    PROVE  b = d
<1>0. PICK u : u = a \o b
  OBVIOUS
<1>1. Joins(a \o b, a, b) /\ Joins(c \o d, c, d)
  BY ConcatJoins, Zenon
<1>2. Joins(u, a, b)
  BY <1>0, <1>1, Zenon
<1>3. Joins(u, c, d)
  BY <1>0, <1>1, Zenon
<1> USE DEF Joins
<1>4. Len(b) = Len(d)
  BY <1>2, <1>3
<1>5. \A i \in 1 .. Len(b) : b[i] = d[i]
  BY <1>2, <1>3, <1>4
<1> QED
  BY <1>4, <1>5, SeqEqual

\* What RemoveFirst takes out, and where.
LEMMA RemoveFirstIs ==
    ASSUME NEW S, NEW s \in Seq(S), NEW e
    PROVE  \/ e \notin ToSet(s) /\ RemoveFirst(s, e) = s
           \/ \E n \in 1 .. Len(s) :
                /\ s[n] = e
                /\ RemoveFirst(s, e) \in Seq(S)
                /\ Len(RemoveFirst(s, e)) = Len(s) - 1
                /\ \A i \in 1 .. Len(s) - 1 :
                      RemoveFirst(s, e)[i] = IF i < n THEN s[i] ELSE s[i + 1]
<1>1. CASE e \notin ToSet(s)
  <2>1. ~ \E i \in 1 .. Len(s) : s[i] = e
    BY <1>1 DEF ToSet
  <2>2. RemoveFirst(s, e) = s
    BY <2>1, Zenon DEF RemoveFirst
  <2> QED
    BY <1>1, <2>2
<1>2. CASE e \in ToSet(s)
  <2> DEFINE I == {i \in 1 .. Len(s) : s[i] = e}
             n == Min(I)
  <2>1. I \subseteq Nat /\ I # {}
    BY <1>2 DEF ToSet
  <2>2. n \in I
    BY <2>1, MinIs, Zenon
  <2>3. SelectInSeq(s, LAMBDA v : v = e) = n
    BY <2>1, Zenon DEF SelectInSeq
  <2>4. RemoveFirst(s, e) = RemoveAt(s, n)
    BY <2>1, <2>3, Zenon DEF RemoveFirst
  <2> HIDE DEF n
  <2>5. n \in 1 .. Len(s) /\ s[n] = e
    BY <2>2
  <2>6. RemoveFirst(s, e) = SubSeq(s, 1, n - 1) \o SubSeq(s, n + 1, Len(s))
    BY <2>4 DEF RemoveAt
  <2> DEFINE r == RemoveFirst(s, e)
             l == SubSeq(s, 1, n - 1)
             h == SubSeq(s, n + 1, Len(s))
  <2>7. l \in Seq(S) /\ Len(l) = n - 1 /\ \A i \in 1 .. n - 1 : l[i] = s[i]
    BY <2>5
  <2>8. h \in Seq(S) /\ Len(h) = Len(s) - n /\ \A i \in 1 .. Len(s) - n : h[i] = s[n + i]
    BY <2>5
  <2> HIDE DEF l, h
  <2>9. r = l \o h
    BY <2>6 DEF l, h
  <2>10. r \in Seq(S) /\ Len(r) = Len(s) - 1
    BY <2>5, <2>7, <2>8, <2>9
  <2>11. ASSUME NEW i \in 1 .. Len(s) - 1
         PROVE  r[i] = IF i < n THEN s[i] ELSE s[i + 1]
    <3>1. CASE i < n
      <4>1. i \in 1 .. Len(l) /\ i \in 1 .. n - 1
        BY <2>5, <2>7, <3>1
      <4>2. r[i] = l[i]
        BY <2>9, <4>1
      <4> QED
        BY <2>7, <3>1, <4>1, <4>2
    <3>2. CASE i >= n
      <4>1. PICK k : k = i - (n - 1)
        OBVIOUS
      <4>2. k \in 1 .. Len(s) - n /\ Len(l) + k = i /\ n + k = i + 1 /\ ~ (i < n)
        BY <2>5, <2>7, <3>2, <4>1
      <4>3. r[Len(l) + k] = h[k]
        BY <2>7, <2>8, <2>9, <4>2, ConcatIs
      <4> QED
        BY <2>8, <4>2, <4>3
    <3> QED
      BY <2>5, <3>1, <3>2
  <2> QED
    BY <2>5, <2>10, <2>11, Zenon
<1> QED
  BY <1>1, <1>2

-----------------------------------------------------------------------------
(* FlattenSeq                                                              *)

\* f[i] is the first i sequences of ss one after another.
Flat(f, ss) ==
    f = [i \in 1 .. Len(ss) |-> IF i = 1 THEN ss[i] ELSE f[i - 1] \o ss[i]]

LEMMA FlatExists ==
    ASSUME NEW S, NEW ss \in Seq(Seq(S))
    PROVE  \E f \in [1 .. Len(ss) -> Seq(S)] : Flat(f, ss)
<1> DEFINE Step(f, i) == IF i = 1 THEN ss[i] ELSE f[i - 1] \o ss[i]
           Has(n) == \E f \in [1 .. n -> Seq(S)] : \A i \in 1 .. n : f[i] = Step(f, i)
           Good == {n \in Nat : n <= Len(ss) => Has(n)}
<1>1. 0 \in Good
  <2>1. <<>> \in [1 .. 0 -> Seq(S)] /\ \A i \in 1 .. 0 : <<>>[i] = Step(<<>>, i)
    OBVIOUS
  <2>2. Has(0)
    BY <2>1, Zenon
  <2> QED
    BY <2>2
<1>2. ASSUME NEW n \in Nat, n \in Good PROVE n + 1 \in Good
  <2>1. ASSUME n + 1 <= Len(ss) PROVE Has(n + 1)
    <3>1. n <= Len(ss)
      BY <2>1
    <3>2. Has(n)
      BY <1>2, <3>1, Zenon
    <3>3. PICK f \in [1 .. n -> Seq(S)] : \A i \in 1 .. n : f[i] = Step(f, i)
      BY <3>2, Zenon
    <3> DEFINE e == Step(f, n + 1)
               g == [i \in 1 .. n + 1 |-> IF i = n + 1 THEN e ELSE f[i]]
    <3>4. ss[n + 1] \in Seq(S) /\ (n + 1 # 1 => f[n] \in Seq(S))
      BY <2>1
    <3>5. e \in Seq(S)
      BY <3>4
    <3> HIDE DEF e
    <3>6. g \in [1 .. n + 1 -> Seq(S)]
      BY <3>5
    <3>7. ASSUME NEW i \in 1 .. n + 1 PROVE g[i] = Step(g, i)
      <4>1. CASE i = n + 1
        <5>1. g[i] = e
          BY <4>1
        <5>2. i # 1 => g[i - 1] = f[i - 1]
          BY <4>1
        <5> QED
          BY <4>1, <5>1, <5>2 DEF e
      <4>2. CASE i \in 1 .. n
        <5>1. g[i] = f[i] /\ (i # 1 => g[i - 1] = f[i - 1])
          BY <4>2
        <5> QED
          BY <3>3, <4>2, <5>1
      <4> QED
        BY <4>1, <4>2
    <3> HIDE DEF g
    <3> QED
      BY <3>6, <3>7, Zenon
  <2> HIDE DEF Has
  <2> QED
    BY <2>1
<1> HIDE DEF Has
<1>3. Nat \subseteq Good
  <2> HIDE DEF Good
  <2> QED
    BY <1>1, <1>2, Induction
<1>4. Has(Len(ss))
  BY <1>3
<1>5. PICK f \in [1 .. Len(ss) -> Seq(S)] : \A i \in 1 .. Len(ss) : f[i] = Step(f, i)
  BY <1>4, Zenon DEF Has
<1>6. Flat(f, ss)
  BY <1>5 DEF Flat
<1> QED
  BY <1>6

\* The first n of ss are the first n of tt.
Alike(n, ss, tt) ==
    /\ n \in Nat /\ Len(ss) \in Nat /\ Len(tt) \in Nat
    /\ n <= Len(ss) /\ n <= Len(tt)
    /\ \A i \in 1 .. n : ss[i] = tt[i]

\* There is one such function, for as many of the sequences as agree.
LEMMA FlatAgrees ==
    ASSUME NEW ss, NEW tt, NEW f, NEW g, NEW n,
           Flat(f, ss), Flat(g, tt), Alike(n, ss, tt)
    PROVE  \A i \in 1 .. n : f[i] = g[i]
<1> USE DEF Alike
<1> DEFINE Good == {k \in Nat : k \in 1 .. n => f[k] = g[k]}
<1>1. 0 \in Good
  OBVIOUS
<1>2. ASSUME NEW k \in Nat, k \in Good PROVE k + 1 \in Good
  <2> SUFFICES ASSUME k + 1 \in 1 .. n PROVE f[k + 1] = g[k + 1]
    OBVIOUS
  <2>1. k + 1 \in 1 .. Len(ss) /\ k + 1 \in 1 .. Len(tt)
    OBVIOUS
  <2>2. f[k + 1] = IF k + 1 = 1 THEN ss[k + 1] ELSE f[(k + 1) - 1] \o ss[k + 1]
    BY <2>1, Zenon DEF Flat
  <2>3. g[k + 1] = IF k + 1 = 1 THEN tt[k + 1] ELSE g[(k + 1) - 1] \o tt[k + 1]
    BY <2>1, Zenon DEF Flat
  <2>4. (k + 1) - 1 = k /\ ss[k + 1] = tt[k + 1] /\ (k + 1 # 1 => f[k] = g[k])
    BY <1>2
  <2> QED
    BY <2>2, <2>3, <2>4, Zenon
<1> HIDE DEF Good
<1>3. Nat \subseteq Good
  BY <1>1, <1>2, Induction
<1> QED
  BY <1>3 DEF Good

LEMMA FlattenIs ==
    ASSUME NEW S, NEW ss \in Seq(Seq(S)), NEW f, Flat(f, ss), Len(ss) # 0
    PROVE  FlattenSeq(ss) = f[Len(ss)]
<1> DEFINE Eq(g) == g = [i \in 1 .. Len(ss) |-> IF i = 1 THEN ss[i] ELSE g[i - 1] \o ss[i]]
           h == CHOOSE g : Eq(g)
<1>1. FlattenSeq(ss) = h[Len(ss)]
  BY Zenon DEF FlattenSeq
<1>2. Flat(h, ss)
  BY Zenon DEF Flat
<1> HIDE DEF h
<1>3. Alike(Len(ss), ss, ss) /\ Len(ss) \in 1 .. Len(ss)
  BY DEF Alike
<1>4. \A i \in 1 .. Len(ss) : h[i] = f[i]
  BY <1>2, <1>3, FlatAgrees
<1> QED
  BY <1>1, <1>3, <1>4

LEMMA FlattenEmpty == FlattenSeq(<<>>) = <<>>
BY DEF FlattenSeq

LEMMA FlattenType ==
    ASSUME NEW S, NEW ss \in Seq(Seq(S))
    PROVE  FlattenSeq(ss) \in Seq(S)
<1>1. CASE Len(ss) = 0
  <2>1. ss = <<>> /\ <<>> \in Seq(S)
    BY <1>1
  <2> QED
    BY <2>1, FlattenEmpty, Zenon
<1>2. CASE Len(ss) # 0
  <2>1. PICK f \in [1 .. Len(ss) -> Seq(S)] : Flat(f, ss)
    BY FlatExists
  <2>2. FlattenSeq(ss) = f[Len(ss)] /\ Len(ss) \in 1 .. Len(ss)
    BY <1>2, <2>1, FlattenIs
  <2> QED
    BY <2>1, <2>2
<1> QED
  BY <1>1, <1>2

LEMMA FlattenAppend ==
    ASSUME NEW S, NEW ss \in Seq(Seq(S)), NEW x \in Seq(S)
    PROVE  FlattenSeq(Append(ss, x)) = FlattenSeq(ss) \o x
<1>1. PICK tt : tt = Append(ss, x)
  OBVIOUS
<1>2. PICK n : n = Len(ss)
  OBVIOUS
<1>3. /\ tt \in Seq(Seq(S)) /\ Len(tt) = n + 1 /\ tt[n + 1] = x /\ n \in Nat
      /\ Len(tt) # 0 /\ n + 1 \in 1 .. Len(tt)
  BY <1>1, <1>2
<1>4. Alike(n, ss, tt)
  BY <1>1, <1>2 DEF Alike
<1>5. PICK f \in [1 .. Len(ss) -> Seq(S)] : Flat(f, ss)
  BY FlatExists
<1>6. PICK g \in [1 .. Len(tt) -> Seq(S)] : Flat(g, tt)
  BY <1>3, FlatExists
<1>7. FlattenSeq(tt) = g[n + 1]
  BY <1>3, <1>6, FlattenIs
<1>8. \A i \in 1 .. n : f[i] = g[i]
  BY <1>4, <1>5, <1>6, FlatAgrees
<1>9. g[n + 1] = IF n + 1 = 1 THEN tt[n + 1] ELSE g[(n + 1) - 1] \o tt[n + 1]
  BY <1>3, <1>6, Zenon DEF Flat
<1>10. CASE n = 0
  <2>1. Len(ss) = 0
    BY <1>2, <1>10
  <2>2. ss = <<>>
    BY <2>1
  <2> QED
    BY <1>1, <1>3, <1>7, <1>9, <1>10, <2>2, FlattenEmpty
<1>11. CASE n # 0
  <2>1. FlattenSeq(ss) = f[n]
    BY <1>2, <1>5, <1>11, FlattenIs
  <2>2. f[n] = g[n] /\ (n + 1) - 1 = n /\ n + 1 # 1
    BY <1>3, <1>8, <1>11
  <2> QED
    BY <1>1, <1>3, <1>7, <1>9, <2>1, <2>2, Zenon
<1> QED
  BY <1>10, <1>11

-----------------------------------------------------------------------------
(* Induction over sequences, and what follows by it.                       *)

LEMMA SeqInduction ==
    ASSUME NEW S, NEW P, <<>> \in P,
           \A s \in Seq(S), e \in S : s \in P => Append(s, e) \in P
    PROVE  Seq(S) \subseteq P
<1> DEFINE Good == {n \in Nat : \A s \in Seq(S) : Len(s) = n => s \in P}
<1>1. 0 \in Good
  <2>1. ASSUME NEW s \in Seq(S), Len(s) = 0 PROVE s = <<>>
    BY <2>1
  <2> QED
    BY <2>1
<1>2. ASSUME NEW n \in Nat, n \in Good PROVE n + 1 \in Good
  <2>1. ASSUME NEW s \in Seq(S), Len(s) = n + 1 PROVE s \in P
    <3> DEFINE r == SubSeq(s, 1, n)
    <3>1. r \in Seq(S) /\ Len(r) = n /\ s[n + 1] \in S
      BY <2>1
    <3>2. s = Append(r, s[n + 1])
      BY <2>1
    <3> HIDE DEF r
    <3>3. r \in P
      BY <1>2, <3>1
    <3> QED
      BY <3>1, <3>2, <3>3, Zenon
  <2> QED
    BY <2>1
<1> HIDE DEF Good
<1>3. Nat \subseteq Good
  BY <1>1, <1>2, Induction
<1>4. ASSUME NEW s \in Seq(S) PROVE s \in P
  <2>1. Len(s) \in Good
    BY <1>3
  <2> QED
    BY <2>1 DEF Good
<1> QED
  BY <1>4

LEMMA ConcatAssociative ==
    ASSUME NEW S
    PROVE  \A s, t, u \in Seq(S) : (s \o t) \o u = s \o (t \o u)
OBVIOUS

LEMMA ConcatEmpty ==
    ASSUME NEW S, NEW s \in Seq(S)
    PROVE  s \o <<>> = s /\ <<>> \o s = s
OBVIOUS

LEMMA ConcatAppend ==
    ASSUME NEW S, NEW s \in Seq(S), NEW t \in Seq(S), NEW e \in S
    PROVE  s \o Append(t, e) = Append(s \o t, e)
OBVIOUS

LEMMA FlattenConcat ==
    ASSUME NEW S, NEW ss \in Seq(Seq(S)), NEW tt \in Seq(Seq(S))
    PROVE  FlattenSeq(ss \o tt) = FlattenSeq(ss) \o FlattenSeq(tt)
<1> DEFINE P == {u \in Seq(Seq(S)) : FlattenSeq(ss \o u) = FlattenSeq(ss) \o FlattenSeq(u)}
<1>1. <<>> \in P
  <2>1. <<>> \in Seq(Seq(S)) /\ ss \o <<>> = ss
    OBVIOUS
  <2>2. FlattenSeq(ss) \o <<>> = FlattenSeq(ss)
    BY FlattenType
  <2> QED
    BY <2>1, <2>2, FlattenEmpty
<1>2. ASSUME NEW u \in Seq(Seq(S)), NEW x \in Seq(S), u \in P PROVE Append(u, x) \in P
  <2>1. ss \o Append(u, x) = Append(ss \o u, x) /\ ss \o u \in Seq(Seq(S))
        /\ Append(u, x) \in Seq(Seq(S))
    OBVIOUS
  <2>2. FlattenSeq(Append(ss \o u, x)) = FlattenSeq(ss \o u) \o x
    BY <2>1, FlattenAppend
  <2>3. FlattenSeq(ss \o u) = FlattenSeq(ss) \o FlattenSeq(u)
    BY <1>2
  <2>4. (FlattenSeq(ss) \o FlattenSeq(u)) \o x = FlattenSeq(ss) \o (FlattenSeq(u) \o x)
    <3>1. FlattenSeq(ss) \in Seq(S) /\ FlattenSeq(u) \in Seq(S)
      BY FlattenType
    <3>2. PICK k \in Seq(S) : k = FlattenSeq(ss)
      BY <3>1, Zenon
    <3>3. PICK l \in Seq(S) : l = FlattenSeq(u)
      BY <3>1, Zenon
    <3>4. \A r, s, t \in Seq(S) : (r \o s) \o t = r \o (s \o t)
      BY ConcatAssociative, SMTT(60)
    <3>5. (k \o l) \o x = k \o (l \o x)
      BY <3>4, Zenon
    <3> QED
      BY <3>2, <3>3, <3>5, Zenon
  <2>5. FlattenSeq(Append(u, x)) = FlattenSeq(u) \o x
    BY FlattenAppend
  <2> QED
    BY <2>1, <2>2, <2>3, <2>4, <2>5, Zenon
<1> HIDE DEF P
<1>3. Seq(Seq(S)) \subseteq P
  BY <1>1, <1>2, SeqInduction
<1> QED
  BY <1>3 DEF P

LEMMA FlattenOne ==
    ASSUME NEW S, NEW x \in Seq(S)
    PROVE  FlattenSeq(<<x>>) = x
<1>1. <<x>> = Append(<<>>, x) /\ <<>> \in Seq(Seq(S)) /\ <<>> \o x = x
  OBVIOUS
<1> QED
  BY <1>1, FlattenAppend, FlattenEmpty

-----------------------------------------------------------------------------
(* Keep                                                                    *)

LEMMA KeepEmpty == ASSUME NEW T PROVE Keep(<<>>, T) = <<>>
<1>1. [i \in DOMAIN <<>> |-> IF <<>>[i] \in T THEN <<<<>>[i]>> ELSE <<>>] = <<>>
  OBVIOUS
<1> QED
  BY <1>1, FlattenEmpty DEF Keep

\* The sequences that Keep puts one after another.
LEMMA KeptPieces ==
    ASSUME NEW S, NEW s \in Seq(S), NEW T
    PROVE  [i \in DOMAIN s |-> IF s[i] \in T THEN <<s[i]>> ELSE <<>>] \in Seq(Seq(S \cap T))
<1>1. ASSUME NEW i \in 1 .. Len(s)
      PROVE  (IF s[i] \in T THEN <<s[i]>> ELSE <<>>) \in Seq(S \cap T)
  <2>1. s[i] \in S /\ <<>> \in Seq(S \cap T)
    OBVIOUS
  <2>2. s[i] \in T => <<s[i]>> \in Seq(S \cap T)
    BY <2>1
  <2> QED
    BY <2>1, <2>2
<1>2. DOMAIN s = 1 .. Len(s) /\ Len(s) \in Nat
  OBVIOUS
<1> DEFINE p(i) == IF s[i] \in T THEN <<s[i]>> ELSE <<>>
<1> HIDE DEF p
<1>3. [i \in 1 .. Len(s) |-> p(i)] \in Seq(Seq(S \cap T))
  <2>1. \A i \in 1 .. Len(s) : p(i) \in Seq(S \cap T)
    BY <1>1 DEF p
  <2> QED
    BY <1>2, <2>1
<1> QED
  BY <1>2, <1>3 DEF p

LEMMA KeepType ==
    ASSUME NEW S, NEW s \in Seq(S), NEW T
    PROVE  Keep(s, T) \in Seq(S \cap T)
BY KeptPieces, FlattenType DEF Keep

LEMMA KeepAppend ==
    ASSUME NEW S, NEW s \in Seq(S), NEW e \in S, NEW T
    PROVE  Keep(Append(s, e), T) = IF e \in T THEN Append(Keep(s, T), e) ELSE Keep(s, T)
<1> DEFINE p(i) == IF s[i] \in T THEN <<s[i]>> ELSE <<>>
           q(i) == IF Append(s, e)[i] \in T THEN <<Append(s, e)[i]>> ELSE <<>>
           x == IF e \in T THEN <<e>> ELSE <<>>
           n == Len(s)
<1>1. /\ n \in Nat /\ DOMAIN s = 1 .. n /\ DOMAIN Append(s, e) = 1 .. n + 1
      /\ \A i \in 1 .. n : q(i) = p(i)
      /\ q(n + 1) = x
      /\ x \in Seq(S \cap T)
  <2>1. n \in Nat /\ DOMAIN s = 1 .. n /\ DOMAIN Append(s, e) = 1 .. n + 1
    OBVIOUS
  <2>2. /\ \A i \in 1 .. n : Append(s, e)[i] = s[i]
        /\ Append(s, e)[n + 1] = e
    OBVIOUS
  <2>3. x \in Seq(S \cap T)
    <3>1. <<>> \in Seq(S \cap T) /\ (e \in T => <<e>> \in Seq(S \cap T))
      OBVIOUS
    <3> QED
      BY <3>1
  <2> QED
    BY <2>1, <2>2, <2>3, Zenon
<1>2. [i \in 1 .. n |-> p(i)] \in Seq(Seq(S \cap T))
  BY <1>1, KeptPieces
<1> HIDE DEF p, q, x, n
<1>3. [i \in 1 .. n + 1 |-> q(i)] = Append([i \in 1 .. n |-> p(i)], x)
  BY <1>1
<1>4. FlattenSeq([i \in 1 .. n + 1 |-> q(i)]) = FlattenSeq([i \in 1 .. n |-> p(i)]) \o x
  BY <1>1, <1>2, <1>3, FlattenAppend
<1>5. Keep(Append(s, e), T) = FlattenSeq([i \in 1 .. n + 1 |-> q(i)])
  BY <1>1, Zenon DEF Keep, q
<1>6. Keep(s, T) = FlattenSeq([i \in 1 .. n |-> p(i)])
  BY <1>1, Zenon DEF Keep, p
<1>7. Keep(s, T) \in Seq(S)
  <2>1. Keep(s, T) \in Seq(S \cap T)
    BY KeepType
  <2> QED
    BY <2>1
<1>8. Keep(Append(s, e), T) = Keep(s, T) \o x
  BY <1>4, <1>5, <1>6
<1> QED
  BY <1>7, <1>8 DEF x

LEMMA KeepConcat ==
    ASSUME NEW S, NEW s \in Seq(S), NEW t \in Seq(S), NEW T
    PROVE  Keep(s \o t, T) = Keep(s, T) \o Keep(t, T)
<1> DEFINE P == {u \in Seq(S) : Keep(s \o u, T) = Keep(s, T) \o Keep(u, T)}
<1>0. \A u \in Seq(S) : Keep(u, T) \in Seq(S \cap T)
  BY KeepType
<1>1. <<>> \in P
  BY <1>0, KeepEmpty, ConcatEmpty
<1>2. ASSUME NEW u \in Seq(S), NEW e \in S, u \in P PROVE Append(u, e) \in P
  <2>1. s \o Append(u, e) = Append(s \o u, e) /\ s \o u \in Seq(S) /\ Append(u, e) \in Seq(S)
    OBVIOUS
  <2>2. Keep(Append(s \o u, e), T)
          = IF e \in T THEN Append(Keep(s \o u, T), e) ELSE Keep(s \o u, T)
    BY <2>1, KeepAppend
  <2>3. Keep(Append(u, e), T) = IF e \in T THEN Append(Keep(u, T), e) ELSE Keep(u, T)
    BY KeepAppend
  <2>4. Keep(s \o u, T) = Keep(s, T) \o Keep(u, T)
    BY <1>2
  <2>5. e \in T => Append(Keep(s, T) \o Keep(u, T), e) = Keep(s, T) \o Append(Keep(u, T), e)
    <3>1. Keep(s, T) \in Seq(S \cap T) /\ Keep(u, T) \in Seq(S \cap T)
      BY <1>0
    <3>2. Keep(s, T) \in Seq(S) /\ Keep(u, T) \in Seq(S)
      BY <3>1
    <3>3. \A k \in Seq(S), l \in Seq(S) : k \o Append(l, e) = Append(k \o l, e)
      BY ConcatAppend
    <3> QED
      BY <3>2, <3>3
  <2> QED
    BY <2>1, <2>2, <2>3, <2>4, <2>5, Zenon
<1> HIDE DEF P
<1>3. Seq(S) \subseteq P
  BY <1>1, <1>2, SeqInduction
<1> QED
  BY <1>3 DEF P

LEMMA KeepSet ==
    ASSUME NEW S, NEW s \in Seq(S), NEW T
    PROVE  ToSet(Keep(s, T)) = ToSet(s) \cap T
<1> DEFINE P == {u \in Seq(S) : ToSet(Keep(u, T)) = ToSet(u) \cap T}
<1>1. <<>> \in P
  <2>1. ToSet(<<>>) = {} /\ <<>> \in Seq(S)
    BY DEF ToSet
  <2> QED
    BY <2>1, KeepEmpty
<1>2. ASSUME NEW u \in Seq(S), NEW e \in S, u \in P PROVE Append(u, e) \in P
  <2>1. Keep(Append(u, e), T) = IF e \in T THEN Append(Keep(u, T), e) ELSE Keep(u, T)
    BY KeepAppend
  <2>2. Keep(u, T) \in Seq(S \cap T) /\ Append(u, e) \in Seq(S)
    BY KeepType
  <2>3. ToSet(Append(u, e)) = ToSet(u) \cup {e}
    BY SetOfAppend
  <2>4. e \in T => ToSet(Append(Keep(u, T), e)) = ToSet(Keep(u, T)) \cup {e}
    BY <2>2, SetOfAppend
  <2> QED
    BY <1>2, <2>1, <2>2, <2>3, <2>4
<1> HIDE DEF P
<1>3. Seq(S) \subseteq P
  BY <1>1, <1>2, SeqInduction
<1> QED
  BY <1>3 DEF P

LEMMA KeepAll ==
    ASSUME NEW S, NEW T
    PROVE  \A s \in Seq(S) : (\A i \in DOMAIN s : s[i] \in T) => Keep(s, T) = s
<1> DEFINE P == {u \in Seq(S) : (\A i \in DOMAIN u : u[i] \in T) => Keep(u, T) = u}
<1>1. <<>> \in P
  <2>1. <<>> \in Seq(S)
    OBVIOUS
  <2> QED
    BY <2>1, KeepEmpty
<1>2. ASSUME NEW u \in Seq(S), NEW e \in S, u \in P PROVE Append(u, e) \in P
  <2>1. Keep(Append(u, e), T) = IF e \in T THEN Append(Keep(u, T), e) ELSE Keep(u, T)
    BY KeepAppend
  <2>0. Append(u, e) \in Seq(S)
    OBVIOUS
  <2>2. SUFFICES ASSUME \A i \in DOMAIN Append(u, e) : Append(u, e)[i] \in T
                 PROVE  Keep(Append(u, e), T) = Append(u, e)
    BY <2>0, Zenon
  <2>3. (\A i \in DOMAIN u : u[i] \in T) /\ e \in T
    <3>1. ASSUME NEW i \in DOMAIN u PROVE u[i] \in T
      <4>1. i \in DOMAIN Append(u, e) /\ Append(u, e)[i] = u[i]
        OBVIOUS
      <4> QED
        BY <2>2, <4>1
    <3>2. Len(u) + 1 \in DOMAIN Append(u, e) /\ Append(u, e)[Len(u) + 1] = e
      OBVIOUS
    <3> QED
      BY <2>2, <3>1, <3>2
  <2> QED
    BY <1>2, <2>1, <2>3
<1> HIDE DEF P
<1>3. Seq(S) \subseteq P
  BY <1>1, <1>2, SeqInduction
<1> QED
  BY <1>3 DEF P

LEMMA KeepNone ==
    ASSUME NEW S, NEW T
    PROVE  \A s \in Seq(S) : (\A i \in DOMAIN s : s[i] \notin T) => Keep(s, T) = <<>>
<1> SUFFICES ASSUME NEW s \in Seq(S), \A i \in DOMAIN s : s[i] \notin T
             PROVE  Keep(s, T) = <<>>
  OBVIOUS
<1>1. ToSet(s) \cap T = {}
  BY DEF ToSet
<1>2. ToSet(Keep(s, T)) = {}
  BY <1>1, KeepSet
<1>3. Keep(s, T) \in Seq(S \cap T)
  BY KeepType
<1>4. ASSUME Len(Keep(s, T)) # 0 PROVE FALSE
  <2>1. 1 \in DOMAIN Keep(s, T)
    BY <1>3, <1>4
  <2> QED
    BY <1>2, <2>1 DEF ToSet
<1>5. Len(Keep(s, T)) = 0
  BY <1>4
<1> QED
  BY <1>3, <1>5

-----------------------------------------------------------------------------
(* The larger and the smaller of two numbers, and InsertAt.                *)

LEMMA MaxOfTwo ==
    ASSUME NEW x \in Int, NEW y \in Int
    PROVE  Max({x, y}) = IF x >= y THEN x ELSE y
<1>1. PICK m : m = IF x >= y THEN x ELSE y
  OBVIOUS
<1>2. m \in {x, y} /\ \A z \in {x, y} : m >= z
  BY <1>1
<1>3. \A k \in {x, y} : (\A z \in {x, y} : k >= z) => k = m
  BY <1>1
<1> QED
  BY <1>1, <1>2, <1>3 DEF Max

LEMMA MinOfTwo ==
    ASSUME NEW x \in Int, NEW y \in Int
    PROVE  Min({x, y}) = IF x <= y THEN x ELSE y
<1>1. PICK m : m = IF x <= y THEN x ELSE y
  OBVIOUS
<1>2. m \in {x, y} /\ \A z \in {x, y} : m <= z
  BY <1>1
<1>3. \A k \in {x, y} : (\A z \in {x, y} : k <= z) => k = m
  BY <1>1
<1> QED
  BY <1>1, <1>2, <1>3 DEF Min

LEMMA InsertedSet ==
    ASSUME NEW S, NEW s \in Seq(S), NEW e \in S, NEW i \in 1 .. Len(s) + 1
    PROVE  /\ InsertAt(s, i, e) \in Seq(S)
           /\ ToSet(InsertAt(s, i, e)) = ToSet(s) \cup {e}
<1> DEFINE l == SubSeq(s, 1, i - 1)
           h == SubSeq(s, i, Len(s))
<1>1. l \in Seq(S) /\ Len(l) = i - 1 /\ \A k \in 1 .. i - 1 : l[k] = s[k]
  OBVIOUS
<1>2. h \in Seq(S) /\ Len(h) = Len(s) - i + 1 /\ \A k \in 1 .. Len(s) - i + 1 : h[k] = s[i - 1 + k]
  OBVIOUS
<1>3. InsertAt(s, i, e) = l \o <<e>> \o h
  BY DEF InsertAt
<1> HIDE DEF l, h
<1> DEFINE r == l \o <<e>> \o h
<1>4. r \in Seq(S) /\ Len(r) = Len(s) + 1
  BY <1>1, <1>2
<1>5. \A k \in 1 .. Len(s) + 1 : r[k] = IF k < i THEN s[k] ELSE IF k = i THEN e ELSE s[k - 1]
  BY <1>1, <1>2
<1> HIDE DEF r
<1>6. ToSet(r) = ToSet(s) \cup {e}
  <2>1. DOMAIN r = 1 .. Len(s) + 1 /\ DOMAIN s = 1 .. Len(s) /\ Len(s) \in Nat
    BY <1>4
  <2>2. r[i] = e
    BY <1>5
  <2>3. ASSUME NEW k \in 1 .. Len(s) PROVE s[k] \in ToSet(r)
    <3>1. CASE k < i
      BY <1>5, <2>1, <3>1 DEF ToSet
    <3>2. CASE k >= i
      <4>1. k + 1 \in 1 .. Len(s) + 1 /\ r[k + 1] = s[k]
        BY <1>5, <3>2
      <4> QED
        BY <2>1, <4>1 DEF ToSet
    <3> QED
      BY <3>1, <3>2
  <2>4. ASSUME NEW k \in 1 .. Len(s) + 1 PROVE r[k] \in ToSet(s) \cup {e}
    <3>1. CASE k < i
      BY <1>5, <2>1, <3>1 DEF ToSet
    <3>2. CASE k = i
      BY <2>2, <3>2
    <3>3. CASE k > i
      <4>1. k - 1 \in 1 .. Len(s) /\ r[k] = s[k - 1]
        BY <1>5, <3>3
      <4> QED
        BY <2>1, <4>1 DEF ToSet
    <3> QED
      BY <3>1, <3>2, <3>3
  <2>5. e \in ToSet(r)
    BY <2>1, <2>2 DEF ToSet
  <2>6. ToSet(r) \subseteq ToSet(s) \cup {e}
    BY <2>1, <2>4 DEF ToSet
  <2>7. ToSet(s) \subseteq ToSet(r)
    BY <2>1, <2>3, Zenon DEF ToSet
  <2> QED
    BY <2>5, <2>6, <2>7
<1> QED
  BY <1>3, <1>4, <1>6 DEF r

\* The elements behind the new one move up by one.
Inserts(r, s, i, e) ==
    /\ Len(r) = Len(s) + 1
    /\ \A k \in 1 .. Len(s) + 1 : r[k] = IF k < i THEN s[k] ELSE IF k = i THEN e ELSE s[k - 1]

LEMMA InsertedItems ==
    ASSUME NEW S, NEW s \in Seq(S), NEW e \in S, NEW i \in 1 .. Len(s) + 1
    PROVE  Inserts(InsertAt(s, i, e), s, i, e)
<1> DEFINE l == SubSeq(s, 1, i - 1)
           h == SubSeq(s, i, Len(s))
<1>1. l \in Seq(S) /\ Len(l) = i - 1 /\ \A k \in 1 .. i - 1 : l[k] = s[k]
  OBVIOUS
<1>2. h \in Seq(S) /\ Len(h) = Len(s) - i + 1 /\ \A k \in 1 .. Len(s) - i + 1 : h[k] = s[i - 1 + k]
  OBVIOUS
<1>3. InsertAt(s, i, e) = l \o <<e>> \o h
  BY DEF InsertAt
<1> HIDE DEF l, h
<1> DEFINE r == l \o <<e>> \o h
<1>4. Len(r) = Len(s) + 1
  BY <1>1, <1>2
<1>5. \A k \in 1 .. Len(s) + 1 : r[k] = IF k < i THEN s[k] ELSE IF k = i THEN e ELSE s[k - 1]
  BY <1>1, <1>2
<1> HIDE DEF r
<1> QED
  BY <1>3, <1>4, <1>5, Zenon DEF r, Inserts

\* No element is there twice, and what r says of them grows.
Ranked(s, r) ==
    \A i, j \in DOMAIN s : i < j => s[i] # s[j] /\ r[s[i]] <= r[s[j]]

LEMMA RankedAppend ==
    ASSUME NEW S, NEW s \in Seq(S), NEW e \in S, NEW r
    PROVE  Ranked(Append(s, e), r) <=>
              Ranked(s, r) /\ \A x \in ToSet(s) : x # e /\ r[x] <= r[e]
<1> DEFINE t == Append(s, e)
           n == Len(s)
<1>1. /\ n \in Nat /\ DOMAIN s = 1 .. n /\ DOMAIN t = 1 .. n + 1
      /\ t[n + 1] = e /\ \A i \in 1 .. n : t[i] = s[i]
  OBVIOUS
<1> HIDE DEF t, n
<1>2. ASSUME Ranked(t, r) PROVE Ranked(s, r) /\ \A x \in ToSet(s) : x # e /\ r[x] <= r[e]
  <2>1. ASSUME NEW i \in 1 .. n, NEW j \in 1 .. n, i < j PROVE s[i] # s[j] /\ r[s[i]] <= r[s[j]]
    <3>1. t[i] # t[j] /\ r[t[i]] <= r[t[j]]
      BY <1>1, <1>2, <2>1 DEF Ranked
    <3> QED
      BY <1>1, <3>1, Zenon
  <2>2. ASSUME NEW i \in 1 .. n PROVE s[i] # e /\ r[s[i]] <= r[e]
    <3>1. n + 1 \in 1 .. n + 1 /\ i \in 1 .. n + 1 /\ i < n + 1
      BY <1>1
    <3>2. t[i] # t[n + 1] /\ r[t[i]] <= r[t[n + 1]]
      BY <1>1, <1>2, <3>1, Zenon DEF Ranked
    <3>3. t[i] = s[i] /\ t[n + 1] = e
      BY <1>1
    <3> QED
      BY <3>2, <3>3
  <2> QED
    BY <1>1, <2>1, <2>2, Zenon DEF Ranked, ToSet
<1>3. ASSUME Ranked(s, r), \A x \in ToSet(s) : x # e /\ r[x] <= r[e] PROVE Ranked(t, r)
  <2>1. ASSUME NEW i \in 1 .. n + 1, NEW j \in 1 .. n + 1, i < j
        PROVE  t[i] # t[j] /\ r[t[i]] <= r[t[j]]
    <3>1. i \in 1 .. n /\ (j \in 1 .. n \/ j = n + 1)
      BY <1>1, <2>1
    <3>2. CASE j \in 1 .. n
      <4>1. s[i] # s[j] /\ r[s[i]] <= r[s[j]]
        BY <1>1, <1>3, <2>1, <3>1, <3>2, Zenon DEF Ranked
      <4> QED
        BY <1>1, <3>1, <3>2, <4>1, Zenon
    <3>3. CASE j = n + 1
      <4>1. s[i] \in ToSet(s)
        BY <1>1, <3>1, Zenon DEF ToSet
      <4> QED
        BY <1>1, <1>3, <3>1, <3>3, <4>1, Zenon
    <3> QED
      BY <3>1, <3>2, <3>3, Zenon
  <2> QED
    BY <1>1, <2>1, Zenon DEF Ranked
<1> QED
  BY <1>2, <1>3, Zenon DEF t

LEMMA KeepRanked ==
    ASSUME NEW S, NEW r, NEW T
    PROVE  \A s \in Seq(S) : Ranked(s, r) => Ranked(Keep(s, T), r)
<1> DEFINE P == {u \in Seq(S) : Ranked(u, r) => Ranked(Keep(u, T), r)}
<1>1. <<>> \in P
  BY KeepEmpty
<1>2. ASSUME NEW u \in Seq(S), NEW e \in S, u \in P PROVE Append(u, e) \in P
  <2> SUFFICES ASSUME Ranked(Append(u, e), r) PROVE Ranked(Keep(Append(u, e), T), r)
    OBVIOUS
  <2>1. Ranked(u, r) /\ \A x \in ToSet(u) : x # e /\ r[x] <= r[e]
    BY RankedAppend
  <2>2. Keep(Append(u, e), T) = IF e \in T THEN Append(Keep(u, T), e) ELSE Keep(u, T)
    BY KeepAppend
  <2>3. PICK k \in Seq(S) : k = Keep(u, T)
    <3>1. Keep(u, T) \in Seq(S \cap T)
      BY KeepType
    <3>2. Keep(u, T) \in Seq(S)
      BY <3>1
    <3> QED
      BY <3>2, Zenon
  <2>4. Ranked(k, r) /\ ToSet(k) \subseteq ToSet(u)
    BY <1>2, <2>1, <2>3, KeepSet
  <2>5. \A x \in ToSet(k) : x # e /\ r[x] <= r[e]
    BY <2>1, <2>4
  <2>6. Ranked(Append(k, e), r)
    BY <2>4, <2>5, RankedAppend
  <2> QED
    BY <2>2, <2>3, <2>4, <2>6
<1> HIDE DEF P
<1>3. Seq(S) \subseteq P
  BY <1>1, <1>2, SeqInduction
<1> QED
  BY <1>3 DEF P

-----------------------------------------------------------------------------
(* Cutting a sequence.                                                     *)

LEMMA CutType ==
    ASSUME NEW S, NEW s \in Seq(S), NEW m \in 0 .. Len(s), NEW n \in m .. Len(s)
    PROVE  /\ SubSeq(s, m + 1, n) \in Seq(S)
           /\ Len(SubSeq(s, m + 1, n)) = n - m
           /\ \A i \in 1 .. n - m : SubSeq(s, m + 1, n)[i] = s[m + i]
OBVIOUS

\* From m to n and from n to l is from m to l.
LEMMA CutTwice ==
    ASSUME NEW S, NEW s \in Seq(S), NEW m \in 0 .. Len(s), NEW n \in m .. Len(s),
           NEW l \in n .. Len(s)
    PROVE  SubSeq(s, m + 1, n) \o SubSeq(s, n + 1, l) = SubSeq(s, m + 1, l)
<1>0. /\ SubSeq(s, m + 1, n) \in Seq(S)
      /\ SubSeq(s, n + 1, l) \in Seq(S)
      /\ SubSeq(s, m + 1, l) \in Seq(S)
  BY CutType
<1>1. PICK a \in Seq(S) : a = SubSeq(s, m + 1, n)
  BY <1>0, Zenon
<1>2. PICK b \in Seq(S) : b = SubSeq(s, n + 1, l)
  BY <1>0, Zenon
<1>3. PICK c \in Seq(S) : c = SubSeq(s, m + 1, l)
  BY <1>0, Zenon
<1>4. Len(a) = n - m /\ \A i \in 1 .. n - m : a[i] = s[m + i]
  BY <1>1, CutType
<1>5. Len(b) = l - n /\ \A i \in 1 .. l - n : b[i] = s[n + i]
  BY <1>2, CutType
<1>6. Len(c) = l - m /\ \A i \in 1 .. l - m : c[i] = s[m + i]
  BY <1>3, CutType
<1>7. PICK d \in Seq(S) : d = a \o b
  BY ConcatIs, Zenon
<1>8. /\ Len(d) = Len(a) + Len(b)
      /\ \A i \in 1 .. Len(a) : d[i] = a[i]
      /\ \A i \in 1 .. Len(b) : d[Len(a) + i] = b[i]
  BY <1>7, ConcatIs
<1>9. Len(d) = Len(c)
  BY <1>4, <1>5, <1>6, <1>8
<1>10. ASSUME NEW i \in 1 .. Len(d) PROVE d[i] = c[i]
  <2>1. CASE i <= n - m
    BY <1>4, <1>6, <1>8, <1>9, <2>1
  <2>2. CASE i > n - m
    <3>1. PICK k : k = i - (n - m)
      OBVIOUS
    <3>2. k \in 1 .. Len(b) /\ k \in 1 .. l - n /\ i = Len(a) + k /\ n + k = m + i
          /\ i \in 1 .. l - m
      BY <1>4, <1>5, <1>8, <2>2, <3>1
    <3> QED
      BY <1>5, <1>6, <1>8, <3>2
  <2> QED
    BY <2>1, <2>2
<1> QED
  BY <1>1, <1>2, <1>3, <1>7, <1>9, <1>10, SeqEqual, Zenon

LEMMA CutAll ==
    ASSUME NEW S, NEW s \in Seq(S)
    PROVE  SubSeq(s, 1, Len(s)) = s
OBVIOUS

LEMMA CutNothing ==
    ASSUME NEW S, NEW s \in Seq(S), NEW n \in Int
    PROVE  SubSeq(s, n + 1, n) = <<>>
OBVIOUS

\* What is cut off the head of s \o t is cut off s, when s is long enough.
LEMMA CutConcat ==
    ASSUME NEW S, NEW s \in Seq(S), NEW t \in Seq(S), NEW n \in 0 .. Len(s)
    PROVE  SubSeq(s \o t, n + 1, Len(s \o t)) = SubSeq(s, n + 1, Len(s)) \o t
<1>1. PICK u \in Seq(S) : u = s \o t
  BY ConcatIs, Zenon
<1>2. /\ Len(u) = Len(s) + Len(t)
      /\ \A i \in 1 .. Len(s) : u[i] = s[i]
      /\ \A i \in 1 .. Len(t) : u[Len(s) + i] = t[i]
  BY <1>1, ConcatIs
<1>3. Len(s) \in Nat /\ Len(t) \in Nat /\ n \in 0 .. Len(u)
  BY <1>2
<1>0. SubSeq(u, n + 1, Len(u)) \in Seq(S) /\ SubSeq(s, n + 1, Len(s)) \in Seq(S)
  BY <1>3, CutType
<1>4. PICK a \in Seq(S) : a = SubSeq(u, n + 1, Len(u))
  BY <1>0, Zenon
<1>5. PICK b \in Seq(S) : b = SubSeq(s, n + 1, Len(s))
  BY <1>0, Zenon
<1>6. Len(a) = Len(u) - n /\ \A i \in 1 .. Len(u) - n : a[i] = u[n + i]
  BY <1>3, <1>4, CutType
<1>7. Len(b) = Len(s) - n /\ \A i \in 1 .. Len(s) - n : b[i] = s[n + i]
  BY <1>5, CutType
<1>8. PICK d \in Seq(S) : d = b \o t
  BY ConcatIs, Zenon
<1>9. /\ Len(d) = Len(b) + Len(t)
      /\ \A i \in 1 .. Len(b) : d[i] = b[i]
      /\ \A i \in 1 .. Len(t) : d[Len(b) + i] = t[i]
  BY <1>8, ConcatIs
<1>10. Len(d) = Len(a)
  BY <1>2, <1>3, <1>6, <1>7, <1>9
<1>11. ASSUME NEW i \in 1 .. Len(d) PROVE d[i] = a[i]
  <2>1. CASE i <= Len(s) - n
    <3>1. i \in 1 .. Len(b) /\ n + i \in 1 .. Len(s) /\ i \in 1 .. Len(u) - n
      BY <1>2, <1>3, <1>7, <2>1
    <3> QED
      BY <1>2, <1>6, <1>7, <1>9, <3>1
  <2>2. CASE i > Len(s) - n
    <3>1. PICK k : k = i - (Len(s) - n)
      OBVIOUS
    <3>2. k \in 1 .. Len(t) /\ i = Len(b) + k /\ n + i = Len(s) + k /\ i \in 1 .. Len(u) - n
      BY <1>2, <1>3, <1>7, <1>9, <2>2, <3>1
    <3> QED
      BY <1>2, <1>6, <1>9, <3>2
  <2> QED
    BY <1>3, <2>1, <2>2
<1> QED
  BY <1>1, <1>4, <1>5, <1>8, <1>10, <1>11, SeqEqual, Zenon

=============================================================================
