--------------------------- MODULE TimelineProofs ---------------------------
(***************************************************************************)
(* Proofs about Timeline and Timing for any cues, any lengths within what  *)
(* int64 holds, any history of calls: that a number of frames survives the *)
(* way through a duration, that playback stays in step with the cursor,    *)
(* that an appended cue comes right behind those its Append saw, and that  *)
(* no cue is forgotten.                                                    *)
(***************************************************************************)
EXTENDS Timeline, SequenceLemmas

-----------------------------------------------------------------------------
(* Frames and durations (Timing).                                          *)

\* The quotient is the number whose multiple is next below.
LEMMA QuotientIs ==
    ASSUME NEW x \in Nat, NEW y \in Nat \ {0}, NEW q \in Nat,
           y * q <= x, x < y * (q + 1)
    PROVE  x \div y = q
<1> DEFINE p == x \div y
<1>1. p \in Int /\ y * p <= x /\ x < y * (p + 1)
  BY Z3
<1>2. p \in Int
  BY <1>1
<1> HIDE DEF p
<1>3. ~(p + 1 <= q)
  <2>1. ASSUME p + 1 <= q PROVE y * (p + 1) <= y * q
    BY <1>2, <2>1, Z3
  <2>2. QED
    BY <1>1, <1>2, <2>1, Z3
<1>4. ~(q + 1 <= p)
  <2>1. ASSUME q + 1 <= p PROVE y * (q + 1) <= y * p
    BY <1>2, <2>1, Z3
  <2>2. QED
    BY <1>1, <1>2, <2>1, Z3
<1>5. p = q
  BY <1>2, <1>3, <1>4
<1>6. QED
  BY <1>5 DEF p

\* What fits an int64 comes out as it is.
LEMMA Int64Fits ==
    ASSUME NEW x \in Nat, x < Word \div 2
    PROVE  Int64(x) = x
<1> DEFINE half == Word \div 2
<1>1. half \in Nat /\ Word = 2 * half
  BY TimingAssumption
<1> HIDE DEF half
<1>2. x + half \in Nat /\ x + half < Word /\ x < half
  BY <1>1 DEF half
<1>3. (x + half) % Word = x + half
  BY <1>2, TimingAssumption
<1>4. QED
  BY <1>1, <1>3 DEF Int64, half

\* Rounding to the nearest frame makes the way to a duration and back the
\* identity (mutations/timing.go:16-18), when a frame lasts two units of time
\* or more and the product stays within int64.
THEOREM RoundTrip ==
    ASSUME NEW frames \in Nat,
           Rate <= Second \div 2,
           frames * Second + Second \div 2 < Word \div 2
    PROVE  DurationToFrames(FramesToDuration(frames)) = frames
<1> DEFINE half == Second \div 2
           total == frames * Second
           d == total \div Rate
<1>1. half \in Nat /\ total \in Nat /\ 2 * half <= Second
  BY TimingAssumption
<1>2. FramesToDuration(frames) = d
  <2>1. Int64(total) = total
    BY <1>1, Int64Fits, TimingAssumption
  <2>2. QED
    BY <1>1, <2>1 DEF FramesToDuration, Quotient
<1>3. d \in Nat /\ d * Rate <= total /\ total < d * Rate + Rate
  <2> HIDE DEF total
  <2>1. d \in Int /\ Rate * d <= total /\ total < Rate * (d + 1)
    BY <1>1, TimingAssumption, Z3
  <2>2. d >= 0
    BY <1>1, TimingAssumption, Z3
  <2> HIDE DEF d
  <2>3. QED
    BY <2>1, <2>2, TimingAssumption, Z3
<1> HIDE DEF d
<1>4. d * Rate \in Nat
  BY <1>3, TimingAssumption
<1>5. Int64(d * Rate) = d * Rate
  BY <1>1, <1>3, <1>4, Int64Fits, TimingAssumption
<1>6. Int64(d * Rate + half) = d * Rate + half
  BY <1>1, <1>3, <1>4, Int64Fits, TimingAssumption
<1>7. (d * Rate + half) \div Second = frames
  <2>1. Second * frames = total
    BY TimingAssumption
  <2>2. Second * (frames + 1) = total + Second
    BY <2>1, TimingAssumption
  <2> HIDE DEF total
  <2>3. Second * frames <= d * Rate + half
    BY <1>1, <1>3, <1>4, <2>1, TimingAssumption DEF half
  <2>4. d * Rate + half < Second * (frames + 1)
    BY <1>1, <1>3, <1>4, <2>2, TimingAssumption
  <2> DEFINE n == d * Rate + half
  <2>5. n \in Nat
    BY <1>1, <1>4
  <2>6. Second * frames <= n /\ n < Second * (frames + 1)
    BY <2>3, <2>4
  <2> HIDE DEF n
  <2>7. n \div Second = frames
    BY <2>5, <2>6, QuotientIs, TimingAssumption, Zenon
  <2>8. QED
    BY <2>7 DEF n
<1>8. QED
  <2>1. DurationToFrames(d) = Quotient(d * Rate + half, Second)
    BY <1>3, <1>5, <1>6 DEF DurationToFrames
  <2>2. QED
    BY <1>1, <1>2, <1>4, <1>7, <2>1 DEF Quotient

-----------------------------------------------------------------------------
(* What the theorems assume of the constants and of the axis.              *)

\* A source's length fits a duration.
LengthsFit ==
    /\ Rate <= Second \div 2
    /\ \A l \in Lengths : l # Indefinite => l * Second + Second \div 2 < Word \div 2

\* The axis fits a duration: it is shorter than 292 years.
AxisFits == end * Second + Second \div 2 < Word \div 2

\* The frames a cue has played when the cursor is at k.
Played(c, k) ==
    IF Finite(c) THEN Min({length[c], Max({0, k - start[c]})}) ELSE Max({0, k - start[c]})

Scheduled == {c \in Cues : state[c] = "scheduled"}

Typed ==
    /\ cursor \in Nat /\ end \in Nat /\ keepHistory \in BOOLEAN
    /\ active \in Seq(Cues)
    /\ start \in [Cues -> Nat] /\ length \in [Cues -> Lengths] /\ pos \in [Cues -> Nat]
    /\ state \in [Cues -> {"new", "appending", "scheduled", "refused"}]

LEMMA LengthIs ==
    ASSUME Typed, LengthsFit, NEW c \in Cues, Finite(c)
    PROVE  /\ length[c] \in Nat \ {0}
           /\ ThroughDuration(length[c]) = length[c]
           /\ \A from \in Nat : EndOf(c, from) = from + length[c]
<1>1. length[c] \in Nat \ {0} /\ length[c] \in Lengths /\ length[c] # Indefinite
  BY TimelineAssumption DEF Typed, Finite
<1>2. ThroughDuration(length[c]) = length[c]
  BY <1>1, RoundTrip DEF LengthsFit, ThroughDuration
<1> QED
  BY <1>1, <1>2 DEF EndOf

LEMMA PlayedIs ==
    ASSUME Typed, LengthsFit, NEW c \in Cues, NEW k \in Nat
    PROVE  Played(c, k) = IF k <= start[c] THEN 0
                          ELSE IF Finite(c) /\ length[c] <= k - start[c] THEN length[c]
                          ELSE k - start[c]
<1>1. start[c] \in Nat
  BY DEF Typed
<1>2. Max({0, k - start[c]}) = IF k <= start[c] THEN 0 ELSE k - start[c]
  BY <1>1, MaxOfTwo
<1>3. PICK m \in Nat : m = Max({0, k - start[c]})
  BY <1>1, <1>2
<1>4. CASE Finite(c)
  <2>1. length[c] \in Nat \ {0}
    BY <1>4, LengthIs
  <2>2. Min({length[c], m}) = IF length[c] <= m THEN length[c] ELSE m
    BY <2>1, MinOfTwo
  <2> QED
    BY <1>1, <1>2, <1>3, <1>4, <2>1, <2>2 DEF Played
<1>5. CASE ~Finite(c)
  BY <1>1, <1>2, <1>5 DEF Played
<1> QED
  BY <1>4, <1>5

LEMMA SeqSet ==
    ASSUME NEW S, NEW s \in Seq(S)
    PROVE  ToSet(s) \subseteq S
BY DEF ToSet

\* insertActive puts the cue among the others.
LEMMA InsertedIs ==
    ASSUME Typed, NEW c \in Cues, NEW from \in Nat
    PROVE  Inserted(c, from) \in Seq(Cues) /\ ToSet(Inserted(c, from)) = ToSet(active) \cup {c}
<1> DEFINE later == {i \in DOMAIN active : from < start[active[i]]}
           at == IF later = {} THEN Len(active) + 1 ELSE Min(later)
<1>1. active \in Seq(Cues) /\ DOMAIN active = 1 .. Len(active) /\ Len(active) \in Nat
  BY DEF Typed
<1>2. at \in 1 .. Len(active) + 1
  <2>1. CASE later = {}
    BY <1>1, <2>1
  <2>2. CASE later # {}
    <3>1. later \subseteq Nat
      BY <1>1
    <3> HIDE DEF later
    <3>2. Min(later) \in later
      BY <2>2, <3>1, MinIs
    <3>3. later \subseteq 1 .. Len(active)
      BY <1>1 DEF later
    <3>4. at = Min(later)
      BY <2>2
    <3>5. at \in 1 .. Len(active)
      BY <3>2, <3>3, <3>4
    <3> HIDE DEF at
    <3> QED
      BY <1>1, <3>5
  <2> QED
    BY <2>1, <2>2
<1>3. Inserted(c, from) = InsertAt(active, at, c)
  BY DEF Inserted
<1> HIDE DEF at
<1> QED
  BY <1>1, <1>2, <1>3, InsertedSet

-----------------------------------------------------------------------------
(* Playback.                                                               *)

OnlyScheduled ==
    /\ ToSet(active) \subseteq Scheduled /\ done \subseteq Scheduled
    /\ placed \subseteq Scheduled
    /\ appended \subseteq {c \in Cues : state[c] # "new"}

PlayInv == Typed /\ OnlyScheduled /\ InStep /\ NothingForgotten

LEMMA PlayInitial == Init => PlayInv
<1> SUFFICES ASSUME Init PROVE PlayInv
  OBVIOUS
<1>1. ToSet(active) = {}
  BY DEF Init, ToSet
<1>2. Typed
  BY DEF Init, Typed
<1>3. OnlyScheduled /\ InStep
  BY <1>1 DEF Init, OnlyScheduled, InStep
<1>4. NothingForgotten
  BY <1>1 DEF Init, NothingForgotten
<1> QED
  BY <1>2, <1>3, <1>4 DEF PlayInv

\* What does not touch a cue in play leaves it in step.
LEMMA PlaceStep ==
    ASSUME PlayInv, LengthsFit, NEW c \in Cues, NEW from \in Nat,
           state[c] \in {"new", "appending"}, Choose(c), Place(c, from),
           UNCHANGED <<cursor, closed, config, finished, cancelled, appended, astray>>
    PROVE  PlayInv'
<1> USE DEF PlayInv
<1>0. factory \subseteq factory'
  BY DEF Choose
<1>1. c \notin ToSet(active) /\ c \notin done /\ c \notin finished
  BY DEF OnlyScheduled, Scheduled, NothingForgotten
<1>2. ToSet(active) \subseteq Cues /\ done \subseteq Cues
  BY DEF OnlyScheduled, Scheduled
<1>3. \A d \in Cues : d # c => start'[d] = start[d] /\ pos'[d] = pos[d] /\ state'[d] = state[d]
  BY DEF Place, Typed
<1>4. UNCHANGED <<cursor, keepHistory, length, finished, cancelled, appended, astray>>
  BY DEF config
<1>5. CASE closed
  <2>1. /\ UNCHANGED <<active, end, start, pos, done, placed>>
        /\ state' = [state EXCEPT ![c] = "refused"]
    BY <1>5 DEF Place
  <2>2. Typed'
    BY <1>4, <2>1 DEF Typed
  <2>3. OnlyScheduled'
    BY <1>1, <1>2, <1>3, <1>4, <2>1 DEF OnlyScheduled, Scheduled, Typed
  <2>4. InStep'
    BY <1>4, <2>1 DEF InStep, Finite
  <2>5. NothingForgotten'
    BY <1>0, <1>4, <2>1 DEF NothingForgotten, Typed
  <2> QED
    BY <2>2, <2>3, <2>4, <2>5
<1>6. CASE /\ done' = done \cup {c}
           /\ state' = [state EXCEPT ![c] = "scheduled"]
           /\ start' = [start EXCEPT ![c] = from]
           /\ UNCHANGED <<active, end, pos, placed>>
  <2>1. Typed'
    BY <1>4, <1>6 DEF Typed
  <2>2. OnlyScheduled'
    BY <1>1, <1>2, <1>3, <1>4, <1>6 DEF OnlyScheduled, Scheduled, Typed
  <2>3. \A d \in ToSet(active) : d \in Cues /\ start'[d] = start[d]
    BY <1>1, <1>2, <1>3
  <2>4. InStep'
    BY <1>4, <1>6, <2>3 DEF InStep, Finite
  <2>5. NothingForgotten'
    BY <1>0, <1>1, <1>3, <1>4, <1>6 DEF NothingForgotten, Typed
  <2> QED
    BY <2>1, <2>2, <2>4, <2>5
<1>7. CASE /\ ~MustEnd(c, from)
           /\ \E n \in Advanced(c, from) : pos' = [pos EXCEPT ![c] = n]
           /\ active' = Inserted(c, from)
           /\ end' = EndAfter(c, from)
           /\ start' = [start EXCEPT ![c] = from]
           /\ state' = [state EXCEPT ![c] = "scheduled"]
           /\ placed' = placed \cup {c}
           /\ UNCHANGED done
  <2>1. active' \in Seq(Cues) /\ ToSet(active') = ToSet(active) \cup {c}
    BY <1>7, InsertedIs
  <2>2. PICK n \in Nat : n = Max({0, cursor - from}) /\ pos' = [pos EXCEPT ![c] = n]
    <3>1. cursor \in Int /\ cursor - from \in Int
      BY DEF Typed
    <3>2. Max({0, cursor - from}) = IF 0 >= cursor - from THEN 0 ELSE cursor - from
      BY <3>1, MaxOfTwo
    <3>3. Max({0, cursor - from}) \in Nat
      BY <3>1, <3>2
    <3>4. pos' = [pos EXCEPT ![c] = Max({0, cursor - from})]
      BY <1>7 DEF Advanced
    <3> QED
      BY <3>3, <3>4
  <2>3. EndOf(c, from) \in Int
    BY LengthIs DEF EndOf, Indefinite, Typed
  <2>4. end' \in Nat
    <3>1. end' = IF end >= EndOf(c, from) THEN end ELSE EndOf(c, from)
      BY <1>7, <2>3, MaxOfTwo DEF EndAfter, Typed
    <3> QED
      BY <2>3, <3>1 DEF Typed
  <2>5. Typed'
    BY <1>4, <1>7, <2>1, <2>2, <2>4 DEF Typed
  <2>6. OnlyScheduled'
    BY <1>2, <1>4, <1>7, <2>1 DEF OnlyScheduled, Scheduled, Typed
  <2>7. \A d \in ToSet(active) : d \in Cues /\ start'[d] = start[d] /\ pos'[d] = pos[d]
    BY <1>1, <1>2, <1>3
  <2>9. start'[c] = from /\ pos'[c] = n
    BY <1>7, <2>2 DEF Typed
  <2>10. Finite(c) => ~(n > length[c])
    <3>1. SUFFICES ASSUME Finite(c), n > length[c] PROVE FALSE
      OBVIOUS
    <3>2. length[c] \in Nat \ {0}
      BY <3>1, LengthIs
    <3>3. n = IF 0 >= cursor - from THEN 0 ELSE cursor - from
      BY <2>2, MaxOfTwo DEF Typed
    <3>4. cursor > from /\ cursor - from > length[c]
      BY <3>1, <3>2, <3>3 DEF Typed
    <3>5. MustEnd(c, from)
      BY <3>1, <3>2, <3>4 DEF MustEnd, SkippedToEnd, Typed
    <3> QED
      BY <1>7, <3>5
  <2>11. InStep'
    <3>1. ASSUME NEW d \in ToSet(active) \ (finished \cup cancelled \cup astray)
          PROVE  (LET elapsed == Max({0, cursor - start[d]})
                  IN pos[d] = IF Finite(d) THEN Min({length[d], elapsed}) ELSE elapsed)'
      BY <1>4, <2>7, <3>1 DEF InStep, Finite
    <3>2. (LET elapsed == Max({0, cursor - start[c]})
           IN pos[c] = IF Finite(c) THEN Min({length[c], elapsed}) ELSE elapsed)'
      <4>1. Finite(c) => Min({length[c], n}) = n
        <5>1. SUFFICES ASSUME Finite(c) PROVE Min({length[c], n}) = n
          OBVIOUS
        <5>2. length[c] \in Nat \ {0}
          BY <5>1, LengthIs
        <5>3. Min({length[c], n}) = IF length[c] <= n THEN length[c] ELSE n
          BY <5>2, MinOfTwo
        <5> QED
          BY <2>10, <5>1, <5>2, <5>3
      <4> QED
        BY <1>4, <2>2, <2>9, <4>1 DEF Finite
    <3> QED
      BY <1>4, <2>1, <3>1, <3>2 DEF InStep
  <2>12. NothingForgotten'
    BY <1>0, <1>1, <1>3, <1>4, <1>7, <2>1 DEF NothingForgotten, Typed
  <2> QED
    BY <2>5, <2>6, <2>11, <2>12
<1> QED
  BY <1>5, <1>6, <1>7 DEF Place

LEMMA ReadStep ==
    ASSUME PlayInv, LengthsFit, AxisFits, NEW c \in Cues, AppendRead(c)
    PROVE  PlayInv'
<1> USE DEF PlayInv
<1>0. ThroughDuration(end) = end
  BY RoundTrip DEF LengthsFit, AxisFits, ThroughDuration, Typed
<1>1. /\ state[c] = "new"
      /\ start' = [start EXCEPT ![c] = end]
      /\ state' = [state EXCEPT ![c] = "appending"]
      /\ appended' = appended \cup {c}
      /\ UNCHANGED <<cursor, end, closed, active, keepHistory, length, factory, pos,
                     finished, cancelled, done, placed, astray>>
  BY <1>0 DEF AppendRead, axis, config, handles
<1>2. c \notin ToSet(active) /\ c \notin done /\ c \notin placed
  BY <1>1 DEF OnlyScheduled, Scheduled
<1>3. ToSet(active) \subseteq Cues
  BY DEF OnlyScheduled, Scheduled
<1>4. Typed'
  BY <1>1 DEF Typed
<1>5. OnlyScheduled'
  BY <1>1, <1>2 DEF OnlyScheduled, Scheduled, Typed
<1>6. \A d \in ToSet(active) : start'[d] = start[d]
  BY <1>1, <1>2, <1>3 DEF Typed
<1>8. InStep'
  BY <1>1, <1>6 DEF InStep, Finite
<1>9. NothingForgotten'
  BY <1>1 DEF NothingForgotten, Typed
<1> QED
  BY <1>4, <1>5, <1>8, <1>9

\* InStep says that every cue still to be played has played what Played says.
LEMMA InStepIs == InStep <=> \A c \in ToSet(active) \ (finished \cup cancelled \cup astray) :
                                pos[c] = Played(c, cursor)
BY DEF InStep, Played

LEMMA WantedIs ==
    ASSUME Typed, NEW c \in Cues, NEW n \in Nat
    PROVE  Wanted(c, n) = IF start[c] >= cursor THEN n - (start[c] - cursor) ELSE n
<1>1. start[c] \in Nat /\ cursor \in Nat
  BY DEF Typed
<1>2. Max({0, start[c] - cursor}) = IF 0 >= start[c] - cursor THEN 0 ELSE start[c] - cursor
  BY <1>1, MaxOfTwo
<1> QED
  BY <1>1, <1>2 DEF Wanted

\* A cue that is in step before a Pull has been read as far as it must after it.
LEMMA ReadIs ==
    ASSUME Typed, LengthsFit, NEW n \in Nat, NEW c \in Cues,
           start[c] < cursor + n, pos[c] = Played(c, cursor)
    PROVE  ReadTo(c, n) = Played(c, cursor + n)
<1>1. start[c] \in Nat /\ cursor \in Nat /\ pos[c] \in Nat /\ cursor + n \in Nat
  BY DEF Typed
<1>2. PICK w : w = Wanted(c, n)
  OBVIOUS
<1>3. w = IF start[c] >= cursor THEN n - (start[c] - cursor) ELSE n
  BY <1>2, WantedIs
<1>4. w \in Nat
  BY <1>1, <1>3
<1>5. pos[c] = IF cursor <= start[c] THEN 0
               ELSE IF Finite(c) /\ length[c] <= cursor - start[c] THEN length[c]
               ELSE cursor - start[c]
  BY <1>1, PlayedIs
<1>6. Played(c, cursor + n) = IF Finite(c) /\ length[c] <= cursor + n - start[c] THEN length[c]
                              ELSE cursor + n - start[c]
  BY <1>1, PlayedIs
<1>7. CASE Finite(c)
  <2>1. length[c] \in Nat \ {0}
    BY <1>7, LengthIs
  <2>2. ReadTo(c, n) = IF length[c] <= pos[c] + w THEN length[c] ELSE pos[c] + w
    <3>1. ReadTo(c, n) = Min({length[c], pos[c] + w})
      BY <1>2, <1>7 DEF ReadTo
    <3>2. length[c] \in Int /\ pos[c] + w \in Int
      BY <1>1, <1>4, <2>1
    <3> QED
      BY <3>1, <3>2, MinOfTwo
  <2> QED
    BY <1>1, <1>3, <1>4, <1>5, <1>6, <1>7, <2>1, <2>2
<1>8. CASE ~Finite(c)
  <2>1. ReadTo(c, n) = pos[c] + w
    BY <1>2, <1>8 DEF ReadTo
  <2> QED
    BY <1>1, <1>3, <1>5, <1>6, <1>8, <2>1
<1> QED
  BY <1>7, <1>8

\* However far a cue has been read, a Pull reads it no less far.
LEMMA ReadIsNat ==
    ASSUME Typed, LengthsFit, NEW n \in Nat, NEW c \in Cues, start[c] < cursor + n
    PROVE  ReadTo(c, n) \in Nat
<1>1. start[c] \in Nat /\ cursor \in Nat /\ pos[c] \in Nat
  BY DEF Typed
<1>2. PICK w : w = Wanted(c, n)
  OBVIOUS
<1>3. w \in Nat
  BY <1>1, <1>2, WantedIs
<1>4. CASE Finite(c)
  <2>1. length[c] \in Nat \ {0}
    BY <1>4, LengthIs
  <2>2. ReadTo(c, n) = Min({length[c], pos[c] + w})
    BY <1>2, <1>4 DEF ReadTo
  <2>3. length[c] \in Int /\ pos[c] + w \in Int
    BY <1>1, <1>3, <2>1
  <2>4. Min({length[c], pos[c] + w}) = IF length[c] <= pos[c] + w THEN length[c]
                                       ELSE pos[c] + w
    BY <2>3, MinOfTwo
  <2> QED
    BY <1>1, <1>3, <2>1, <2>2, <2>4
<1>5. CASE ~Finite(c)
  BY <1>1, <1>2, <1>3, <1>5 DEF ReadTo
<1> QED
  BY <1>4, <1>5

LEMMA PullStep ==
    ASSUME PlayInv, LengthsFit, NEW n \in PullSizes, Pull(n)
    PROVE  PlayInv'
<1> USE DEF PlayInv
<1>1. n \in Nat \ {0}
  BY TimelineAssumption
<1>2. PICK ended \in SUBSET AtEnd(n) :
         /\ PastEnd(n) \subseteq ended
         /\ done' = done \cup (cancelled \cap ToSet(active)) \cup ended
         /\ finished' = finished \cup ended
         /\ active' = Keep(active, Cues \ Dropped(n, ended))
  BY DEF Pull
<1>3. /\ pos' = [c \in Cues |-> IF c \in Mixed(n) THEN ReadTo(c, n) ELSE pos[c]]
      /\ cursor' = cursor + n
      /\ UNCHANGED <<end, closed, start, keepHistory, length, factory, cancelled, state,
                     appended, placed, astray>>
  BY DEF Pull, config, history
<1>4. ToSet(active) \subseteq Scheduled /\ Scheduled \subseteq Cues
  BY DEF OnlyScheduled, Scheduled
<1>5. ended \subseteq ToSet(active) /\ ended \subseteq Mixed(n)
  BY <1>2 DEF AtEnd, Mixed
<1>6. /\ active' \in Seq(Cues)
      /\ ToSet(active') = ToSet(active) \ Dropped(n, ended)
  <2>1. active \in Seq(Cues)
    BY DEF Typed
  <2>2. active' \in Seq(Cues \cap (Cues \ Dropped(n, ended)))
    BY <1>2, <2>1, KeepType
  <2>3. active' \in Seq(Cues)
    BY <2>2
  <2>4. ToSet(active') = ToSet(active) \cap (Cues \ Dropped(n, ended))
    BY <1>2, <2>1, KeepSet
  <2> QED
    BY <1>4, <2>3, <2>4
<1>7. Typed'
  <2>1. pos' \in [Cues -> Nat]
    BY <1>1, <1>3, ReadIsNat DEF Typed, Mixed
  <2> QED
    BY <1>1, <1>3, <1>6, <2>1 DEF Typed
<1>8. OnlyScheduled'
  BY <1>2, <1>3, <1>4, <1>5, <1>6 DEF OnlyScheduled, Scheduled
<1>10. InStep'
  <2>1. SUFFICES ASSUME NEW c \in ToSet(active'), c \notin finished', c \notin cancelled,
                        c \notin astray
                 PROVE  pos'[c] = Played(c, cursor)'
    BY <1>3 DEF InStep, Played
  <2>2. c \in ToSet(active) /\ c \notin finished /\ c \in Cues
    BY <1>2, <1>4, <1>6, <2>1
  <2>3. pos[c] = Played(c, cursor)
    BY <2>1, <2>2, InStepIs
  <2>4. Played(c, cursor)' = Played(c, cursor + n)
    BY <1>3 DEF Played, Finite
  <2>5. CASE start[c] < cursor + n
    <3>1. pos'[c] = ReadTo(c, n)
      BY <1>3, <2>1, <2>2, <2>5 DEF Mixed
    <3> QED
      BY <1>1, <2>2, <2>3, <2>4, <2>5, <3>1, ReadIs
  <2>6. CASE ~(start[c] < cursor + n)
    <3>1. pos'[c] = pos[c]
      BY <1>3, <2>2, <2>6 DEF Mixed
    <3>2. start[c] \in Nat /\ cursor \in Nat /\ cursor + n \in Nat
      BY <1>1, <2>2 DEF Typed
    <3>3. Played(c, cursor) = 0 /\ Played(c, cursor + n) = 0
      BY <1>1, <2>2, <2>6, <3>2, PlayedIs
    <3> QED
      BY <2>3, <2>4, <3>1, <3>3
  <2> QED
    BY <2>5, <2>6
<1>11. NothingForgotten'
  <2>1. ASSUME NEW c \in Cues, state[c] = "scheduled", c \notin done'
        PROVE  c \in ToSet(active')
    <3>1. c \in ToSet(active) /\ c \notin cancelled
      BY <1>2, <2>1 DEF NothingForgotten
    <3>2. c \notin finished /\ c \notin ended
      BY <1>2, <2>1 DEF NothingForgotten
    <3> QED
      BY <1>6, <3>1, <3>2 DEF Dropped
  <2>2. finished' \subseteq done'
    BY <1>2 DEF NothingForgotten
  <2>3. ASSUME NEW c \in ToSet(active') \ finished', c \in done'
        PROVE  c \in cancelled \cup factory
    BY <1>2, <1>6, <2>3 DEF NothingForgotten
  <2> QED
    BY <1>3, <2>1, <2>2, <2>3 DEF NothingForgotten
<1> QED
  BY <1>7, <1>8, <1>10, <1>11

LEMMA SeekStep ==
    ASSUME PlayInv, LengthsFit, NEW delta \in Deltas, Seek(delta)
    PROVE  PlayInv'
<1> USE DEF PlayInv
<1> DEFINE target == cursor + delta
<1>1. /\ delta < 0 => keepHistory
      /\ target \in 0 .. MaxCursor
      /\ pos' = [c \in Cues |-> IF c \in Fresh(target) THEN Max({0, target - start[c]}) ELSE pos[c]]
      /\ finished' = (finished \cup Ended(target)) \ Fresh(target)
      /\ done' = done \cup (Ended(target) \ finished)
      /\ cursor' = IF Stuck(target) = {} THEN target ELSE cursor
      /\ astray' = Misplaced(target)
      /\ UNCHANGED <<end, closed, active, start, keepHistory, length, factory, cancelled,
                     state, appended, placed>>
  BY DEF Seek, config
<1>2. target \in Nat /\ cursor \in Nat /\ delta \in Int
  BY <1>1, TimelineAssumption DEF Typed
<1> HIDE DEF target
<1>4. ToSet(active) \subseteq Scheduled /\ Scheduled \subseteq Cues
  BY DEF OnlyScheduled, Scheduled
<1>5. Met(target) \subseteq ToSet(active)
  BY DEF Met, ToSet
<1>6. Stuck(target) = {} => Met(target) = ToSet(active)
  <2>1. DOMAIN active = 1 .. Len(active) /\ Len(active) \in Nat
    BY DEF Typed
  <2>2. ASSUME Stuck(target) = {}
        PROVE  {j \in DOMAIN active : \A k \in 1 .. j : active[k] \notin Stuck(target)} = DOMAIN active
    BY <2>2
  <2> QED
    BY <2>2, Zenon DEF Met, ToSet
<1>7. Fresh(target) \subseteq factory
  <2>1. SUFFICES ASSUME NEW c \in Fresh(target) PROVE c \in factory
    OBVIOUS
  <2>2. PICK i \in DOMAIN active :
           active[i] = c /\ \A k \in 1 .. i : active[k] \notin Stuck(target)
    BY <2>1 DEF Fresh, Met
  <2>3. i \in 1 .. i
    BY <2>2 DEF Typed
  <2>4. c \in ToSet(active) /\ Replayed(c, target) /\ c \notin Stuck(target)
    BY <1>5, <2>1, <2>2, <2>3 DEF Fresh
  <2> QED
    BY <2>4 DEF Stuck
<1>8. Fresh(target) \subseteq ToSet(active) /\ Ended(target) \subseteq ToSet(active)
      /\ Fresh(target) \cap Ended(target) = {}
  BY <1>5 DEF Fresh, Ended, Replayed
<1>10. Typed'
  <2>1. ASSUME NEW c \in Cues PROVE Max({0, target - start[c]}) \in Nat
    <3>1. start[c] \in Nat /\ target - start[c] \in Int
      BY <1>2 DEF Typed
    <3>2. Max({0, target - start[c]}) = IF 0 >= target - start[c] THEN 0 ELSE target - start[c]
      BY <3>1, MaxOfTwo
    <3> QED
      BY <3>1, <3>2
  <2>2. pos' \in [Cues -> Nat]
    BY <1>1, <2>1 DEF Typed
  <2>3. cursor' \in Nat
    BY <1>1, <1>2
  <2> QED
    BY <1>1, <2>2, <2>3 DEF Typed
<1>11. OnlyScheduled'
  BY <1>1, <1>4, <1>8 DEF OnlyScheduled, Scheduled
<1>13. InStep'
  <2>1. SUFFICES ASSUME NEW c \in ToSet(active), c \notin finished', c \notin cancelled,
                        c \notin astray'
                 PROVE  pos'[c] = Played(c, cursor)'
    BY <1>1 DEF InStep, Played
  <2>2. Played(c, cursor)' = Played(c, cursor')
    BY <1>1 DEF Played, Finite
  <2>3. c \in Cues /\ start[c] \in Nat
    BY <1>4, <2>1 DEF Typed
  <2>4. CASE Stuck(target) # {}
    <3>1. c \notin astray /\ c \notin Fresh(target)
      BY <1>1, <2>1, <2>4 DEF Misplaced
    <3>2. pos'[c] = pos[c] /\ c \notin finished /\ cursor' = cursor
      BY <1>1, <2>1, <2>3, <2>4, <3>1
    <3> QED
      BY <2>1, <2>2, <3>1, <3>2, InStepIs
  <2>5. CASE Stuck(target) = {}
    <3>1. cursor' = target /\ c \in Met(target) /\ ~Behind(c, target)
      BY <1>1, <1>6, <1>8, <2>1, <2>5 DEF Ended
    <3>2. Played(c, target) = IF target <= start[c] THEN 0 ELSE target - start[c]
      <4>1. Finite(c) => length[c] \in Nat /\ target < start[c] + length[c]
        <5>1. SUFFICES ASSUME Finite(c) PROVE length[c] \in Nat /\ target < start[c] + length[c]
          OBVIOUS
        <5>2. length[c] \in Nat /\ EndOf(c, start[c]) = start[c] + length[c]
          BY <2>3, <5>1, LengthIs
        <5> QED
          BY <1>2, <2>3, <3>1, <5>1, <5>2 DEF Behind
      <4> QED
        BY <1>2, <2>3, <4>1, PlayedIs
    <3>3. CASE c \in Fresh(target)
      <4>1. pos'[c] = Max({0, target - start[c]})
        BY <1>1, <2>3, <3>3
      <4>2. Max({0, target - start[c]}) = IF 0 >= target - start[c] THEN 0 ELSE target - start[c]
        BY <1>2, <2>3, MaxOfTwo
      <4> QED
        BY <1>2, <2>2, <2>3, <3>1, <3>2, <4>1, <4>2
    <3>4. CASE c \notin Fresh(target)
      <4>1. ToCome(c, target) /\ pos'[c] = pos[c]
        BY <1>1, <2>3, <3>1, <3>4 DEF Fresh, Replayed
      <4>2. c \notin finished /\ target < start[c]
        BY <4>1 DEF ToCome
      <4>3. cursor <= start[c] /\ c \notin astray
        <5>1. c \notin Passed(target) /\ c \notin astray
          BY <1>1, <2>1, <2>5, <3>4 DEF Misplaced
        <5> QED
          BY <1>2, <2>1, <2>3, <4>1, <5>1 DEF Passed
      <4>4. pos[c] = Played(c, cursor)
        BY <2>1, <4>2, <4>3, InStepIs
      <4>5. Played(c, cursor) = 0
        BY <1>2, <2>3, <4>3, PlayedIs
      <4> QED
        BY <1>2, <2>2, <2>3, <3>1, <3>2, <4>1, <4>2, <4>4, <4>5
    <3> QED
      BY <3>3, <3>4
  <2> QED
    BY <2>4, <2>5
<1>14. NothingForgotten'
  <2>1. ASSUME NEW c \in Cues, state[c] = "scheduled", c \notin done'
        PROVE  c \in ToSet(active)
    BY <1>1, <2>1 DEF NothingForgotten
  <2>2. finished' \subseteq done'
    BY <1>1 DEF NothingForgotten
  <2>3. ASSUME NEW c \in ToSet(active) \ finished', c \in done'
        PROVE  c \in cancelled \cup factory
    <3>1. c \notin Ended(target) /\ c \in done
      BY <1>1, <1>8, <2>3
    <3>2. CASE c \notin finished
      BY <2>3, <3>1, <3>2 DEF NothingForgotten
    <3>3. CASE c \in finished
      BY <1>1, <1>7, <2>3, <3>3
    <3> QED
      BY <3>2, <3>3
  <2> QED
    BY <1>1, <2>1, <2>2, <2>3 DEF NothingForgotten
<1> QED
  BY <1>10, <1>11, <1>13, <1>14

LEMMA PlayStep ==
    ASSUME PlayInv, LengthsFit, AxisFits, [Next]_vars
    PROVE  PlayInv'
<1>1. ASSUME NEW c \in Cues, NEW from \in Starts, Schedule(c, from)
      PROVE  PlayInv'
  <2>1. from \in Nat
    BY TimelineAssumption
  <2> QED
    BY <1>1, <2>1, PlaceStep DEF Schedule
<1>2. ASSUME NEW c \in Cues, AppendSchedule(c)
      PROVE  PlayInv'
  <2>1. start[c] \in Nat
    BY DEF PlayInv, Typed
  <2> QED
    BY <1>2, <2>1, PlaceStep DEF AppendSchedule
<1>3. ASSUME NEW c \in Cues, Cancel(c)
      PROVE  PlayInv'
  <2> USE DEF PlayInv
  <2>1. /\ state[c] = "scheduled"
        /\ cancelled' = cancelled \cup {c} /\ done' = done \cup {c}
        /\ UNCHANGED <<cursor, end, closed, active, start, keepHistory, length, factory, pos,
                       finished, state, appended, placed, astray>>
    BY <1>3 DEF Cancel, axis, config, history
  <2>2. Typed'
    BY <2>1 DEF Typed
  <2>3. OnlyScheduled'
    BY <2>1 DEF OnlyScheduled, Scheduled
  <2>4. InStep'
    BY <2>1 DEF InStep, Finite
  <2>5. NothingForgotten'
    BY <2>1 DEF NothingForgotten
  <2> QED
    BY <2>2, <2>3, <2>4, <2>5
<1>4. CASE Close
  <2> USE DEF PlayInv
  <2>1. /\ done' = done \cup ToSet(active) /\ active' = <<>>
        /\ UNCHANGED <<cursor, end, start, keepHistory, length, factory, pos, finished,
                       cancelled, state, appended, placed, astray>>
    BY <1>4 DEF Close, config, history, FinishedByClose
  <2>2. ToSet(active') = {}
    BY <2>1 DEF ToSet
  <2>3. Typed'
    BY <2>1 DEF Typed
  <2>4. OnlyScheduled' /\ InStep'
    BY <2>1, <2>2 DEF OnlyScheduled, Scheduled, InStep
  <2>5. NothingForgotten'
    BY <2>1, <2>2 DEF NothingForgotten
  <2> QED
    BY <2>3, <2>4, <2>5
<1>5. CASE UNCHANGED vars
  <2> USE DEF PlayInv
  <2>1. UNCHANGED <<cursor, end, closed, keepHistory, length, active, start, factory, pos,
                    finished, cancelled, done, state, appended, placed, astray>>
    BY <1>5 DEF vars, config, axis, handles, history
  <2>2. Typed' /\ OnlyScheduled'
    BY <2>1 DEF Typed, OnlyScheduled, Scheduled
  <2>3. InStep' /\ NothingForgotten'
    BY <2>1 DEF InStep, NothingForgotten, Finite
  <2> QED
    BY <2>2, <2>3
<1> QED
  BY <1>1, <1>2, <1>3, <1>4, <1>5, ReadStep, PullStep, SeekStep DEF Next

\* Every cue that is still to be played is exactly as far into its source as the
\* cursor is past its start, after any Pulls, Seeks and late Schedules.
THEOREM KeepsInStep ==
    ASSUME LengthsFit
    PROVE  Spec /\ []AxisFits => []InStep
<1>1. Init => PlayInv
  BY PlayInitial
<1>2. PlayInv /\ AxisFits /\ [Next]_vars => PlayInv'
  BY PlayStep
<1>3. PlayInv => InStep
  BY DEF PlayInv
<1> QED
  BY <1>1, <1>2, <1>3, PTL DEF Spec

\* A scheduled cue whose Done is open is on the list, and the Done of a cue is
\* closed when it has ended, was cancelled or the timeline was closed, and only
\* then, unless a Seek plays it again.
THEOREM ForgetsNothing ==
    ASSUME LengthsFit
    PROVE  Spec /\ []AxisFits => []NothingForgotten
<1>1. Init => PlayInv
  BY PlayInitial
<1>2. PlayInv /\ AxisFits /\ [Next]_vars => PlayInv'
  BY PlayStep
<1>3. PlayInv => NothingForgotten
  BY DEF PlayInv
<1> QED
  BY <1>1, <1>2, <1>3, PTL DEF Spec

-----------------------------------------------------------------------------
(* Append.                                                                 *)

Ends(cues) == {0} \cup {EndOf(c, start[c]) : c \in cues}

\* The end is the furthest frame that a cue put on the axis has reached.
EndIsFurthest == end \in Ends(placed) /\ \A e \in Ends(placed) : e <= end

SeenArePlaced ==
    before \in [Cues -> SUBSET Cues] /\ \A d \in Cues : before[d] \subseteq placed

AppendInv == PlayInv /\ EndIsFurthest /\ SeenArePlaced /\ AppendsBackToBack

LEMMA MaxIsTop ==
    ASSUME NEW S \in SUBSET Int, NEW m \in S, \A x \in S : x <= m
    PROVE  Max(S) = m
<1>1. Max(S) \in S /\ \A x \in S : Max(S) >= x
  <2>1. \E t \in S : \A x \in S : t >= x
    OBVIOUS
  <2> QED
    BY <2>1, Zenon DEF Max
<1>2. PICK t \in S : t = Max(S) /\ \A x \in S : t >= x
  BY <1>1
<1>3. t >= m /\ t <= m /\ t \in Int /\ m \in Int
  BY <1>2
<1> QED
  BY <1>2, <1>3

LEMMA EndsAreInt ==
    ASSUME Typed, LengthsFit, NEW cues \in SUBSET Cues
    PROVE  Ends(cues) \subseteq Int
<1>1. \A c \in Cues : EndOf(c, start[c]) \in Int
  BY LengthIs DEF EndOf, Indefinite, Typed
<1> QED
  BY <1>1 DEF Ends

LEMMA AppendInitial == Init => AppendInv
<1> SUFFICES ASSUME Init PROVE AppendInv
  OBVIOUS
<1>1. placed = {} /\ end = 0 /\ appended = {} /\ before = [c \in Cues |-> {}]
  BY DEF Init
<1>2. EndIsFurthest /\ SeenArePlaced /\ AppendsBackToBack
  BY <1>1 DEF EndIsFurthest, Ends, SeenArePlaced, AppendsBackToBack
<1> QED
  BY <1>2, PlayInitial DEF AppendInv

\* Where cues end depends on their starts and lengths.
LEMMA SameEnds ==
    ASSUME NEW cues, length' = length, \A c \in cues : start'[c] = start[c]
    PROVE  Ends(cues)' = Ends(cues) /\ \A c \in cues : EndOf(c, start[c])' = EndOf(c, start[c])
BY DEF Ends, EndOf, Finite

\* What an Append saw stays as it was, however the axis grows.
LEMMA BehindStays ==
    ASSUME AppendInv, length' = length, placed \subseteq placed',
           UNCHANGED <<appended, before>>,
           \A c \in appended \cup placed : start'[c] = start[c]
    PROVE  SeenArePlaced' /\ AppendsBackToBack'
<1>1. SeenArePlaced'
  BY DEF AppendInv, SeenArePlaced
<1>2. ASSUME NEW d \in appended
      PROVE  start'[d] = Max({0} \cup {EndOf(c, start[c])' : c \in before'[d]})
  <2>1. d \in Cues /\ before[d] \subseteq placed
    BY DEF AppendInv, PlayInv, OnlyScheduled, SeenArePlaced
  <2>2. Ends(before[d])' = Ends(before[d])
    BY <2>1, SameEnds
  <2>3. start[d] = Max(Ends(before[d]))
    BY DEF AppendInv, AppendsBackToBack, Ends
  <2> QED
    BY <2>2, <2>3 DEF Ends
<1> QED
  BY <1>1, <1>2 DEF AppendsBackToBack

LEMMA AppendIdle ==
    ASSUME AppendInv, PlayInv', UNCHANGED <<end, length, start, appended, placed, before>>
    PROVE  AppendInv'
<1>1. Ends(placed)' = Ends(placed)
  BY SameEnds
<1>2. EndIsFurthest'
  BY <1>1 DEF AppendInv, EndIsFurthest
<1> QED
  BY <1>2, BehindStays DEF AppendInv

\* The cues that Place puts on the axis move its end to theirs, if it is further.
LEMMA AppendPlace ==
    ASSUME AppendInv, PlayInv', LengthsFit, NEW c \in Cues, NEW from \in Nat,
           c \notin placed, c \in appended => start[c] = from,
           Place(c, from), UNCHANGED <<config, appended, before>>
    PROVE  AppendInv'
<1> USE DEF AppendInv
<1>0. /\ Typed /\ end \in Nat /\ start \in [Cues -> Nat] /\ length' = length
      /\ placed \subseteq Cues /\ appended \subseteq Cues
  BY DEF PlayInv, Typed, OnlyScheduled, Scheduled, config
<1>1. /\ start' = start \/ start' = [start EXCEPT ![c] = from]
      /\ placed \subseteq placed'
  BY DEF Place
<1>2. \A d \in appended \cup placed : start'[d] = start[d]
  BY <1>0, <1>1
<1>3. Ends(placed)' = {0} \cup {EndOf(d, start[d])' : d \in placed'}
  BY DEF Ends
<1>4. \A d \in placed : EndOf(d, start[d])' = EndOf(d, start[d])
  BY <1>0, <1>2, SameEnds
<1>5. EndIsFurthest'
  <2>1. CASE end' = end /\ placed' = placed
    <3>1. Ends(placed)' = Ends(placed)
      BY <1>3, <1>4, <2>1 DEF Ends
    <3> QED
      BY <2>1, <3>1 DEF EndIsFurthest
  <2>2. CASE /\ end' = EndAfter(c, from) /\ placed' = placed \cup {c}
             /\ start' = [start EXCEPT ![c] = from]
    <3>1. EndOf(c, start[c])' = EndOf(c, from)
      BY <1>0, <2>2 DEF EndOf, Finite
    <3>2. EndOf(c, from) \in Int
      BY <1>0, LengthIs DEF EndOf, Indefinite
    <3>3. end' = IF end >= EndOf(c, from) THEN end ELSE EndOf(c, from)
      BY <1>0, <2>2, <3>2, MaxOfTwo DEF EndAfter
    <3>4. Ends(placed)' = Ends(placed) \cup {EndOf(c, from)}
      BY <1>3, <1>4, <2>2, <3>1 DEF Ends
    <3>5. end \in Ends(placed) /\ \A e \in Ends(placed) : e \in Int /\ e <= end
      BY <1>0, EndsAreInt DEF EndIsFurthest
    <3>6. end' \in Ends(placed)'
      BY <3>3, <3>4, <3>5
    <3>7. ASSUME NEW e \in Ends(placed)' PROVE e <= end'
      <4>1. e \in Ends(placed) \/ e = EndOf(c, from)
        BY <3>4
      <4>2. EndOf(c, from) <= end' /\ end <= end' /\ end' \in Int
        BY <1>0, <3>2, <3>3
      <4>3. CASE e \in Ends(placed)
        BY <1>0, <3>5, <4>2, <4>3
      <4> QED
        BY <4>1, <4>2, <4>3
    <3> QED
      BY <3>6, <3>7 DEF EndIsFurthest
  <2> QED
    BY <2>1, <2>2 DEF Place
<1> QED
  BY <1>0, <1>1, <1>2, <1>5, BehindStays

LEMMA AppendReads ==
    ASSUME AppendInv, PlayInv', LengthsFit, AxisFits, NEW c \in Cues, AppendRead(c)
    PROVE  AppendInv'
<1> USE DEF AppendInv
<1>0. /\ Typed /\ end \in Nat /\ start \in [Cues -> Nat]
      /\ placed \subseteq Cues /\ appended \subseteq Cues
  BY DEF PlayInv, Typed, OnlyScheduled, Scheduled
<1>1. ThroughDuration(end) = end
  BY <1>0, RoundTrip DEF LengthsFit, AxisFits, ThroughDuration
<1>2. /\ start' = [start EXCEPT ![c] = end]
      /\ before' = [before EXCEPT ![c] = placed]
      /\ appended' = appended \cup {c}
      /\ UNCHANGED <<end, length, placed>>
  BY <1>1 DEF AppendRead, axis, config
<1>3. c \notin placed /\ c \notin appended
  BY DEF AppendRead, PlayInv, OnlyScheduled, Scheduled
<1>4. \A d \in Cues : d # c => start'[d] = start[d] /\ before'[d] = before[d]
  BY <1>0, <1>2 DEF SeenArePlaced
<1>5. before'[c] = placed /\ start'[c] = end
  BY <1>0, <1>2 DEF SeenArePlaced
<1>6. Ends(placed)' = Ends(placed)
  <2>1. \A d \in placed : start'[d] = start[d]
    BY <1>0, <1>3, <1>4
  <2> QED
    BY <1>2, <2>1, SameEnds DEF Ends
<1>7. EndIsFurthest'
  BY <1>2, <1>6 DEF EndIsFurthest
<1>8. SeenArePlaced'
  BY <1>0, <1>2, <1>4, <1>5 DEF SeenArePlaced
<1>9. ASSUME NEW d \in appended' PROVE start'[d] = Max(Ends(before[d])')
  <2>1. CASE d = c
    <3>1. Ends(placed) \subseteq Int
      BY <1>0, EndsAreInt
    <3>2. Max(Ends(placed)) = end
      BY <3>1, MaxIsTop DEF EndIsFurthest
    <3>3. Ends(before[c])' = Ends(placed)
      BY <1>2, <1>5, <1>6 DEF Ends
    <3> QED
      BY <1>5, <2>1, <3>2, <3>3
  <2>2. CASE d # c
    <3>1. d \in appended /\ d \in Cues /\ before[d] \subseteq placed
      BY <1>0, <1>2, <2>2 DEF SeenArePlaced
    <3>2. \A e \in before[d] : start'[e] = start[e]
      BY <1>0, <1>3, <1>4, <3>1
    <3>3. Ends(before[d])' = Ends(before[d])
      BY <1>2, <3>1, <3>2, <1>4, <2>2 DEF Ends, EndOf, Finite
    <3>4. start[d] = Max(Ends(before[d]))
      BY <3>1 DEF AppendsBackToBack, Ends
    <3> QED
      BY <1>4, <2>2, <3>1, <3>3, <3>4
  <2> QED
    BY <2>1, <2>2
<1> QED
  BY <1>7, <1>8, <1>9 DEF AppendsBackToBack, Ends

LEMMA AppendStep ==
    ASSUME AppendInv, LengthsFit, AxisFits, [Next]_vars
    PROVE  AppendInv'
<1> USE DEF AppendInv
<1>0. PlayInv' /\ start \in [Cues -> Nat]
  BY PlayStep DEF PlayInv, Typed
<1>1. ASSUME NEW c \in Cues, NEW from \in Starts, Schedule(c, from)
      PROVE  AppendInv'
  <2>1. /\ from \in Nat /\ Place(c, from) /\ c \notin placed /\ c \notin appended
        /\ UNCHANGED <<config, appended, before>>
    BY <1>1, TimelineAssumption DEF Schedule, PlayInv, OnlyScheduled, Scheduled
  <2> QED
    BY <1>0, <2>1, AppendPlace
<1>2. ASSUME NEW c \in Cues, AppendSchedule(c)
      PROVE  AppendInv'
  <2>1. /\ start[c] \in Nat /\ Place(c, start[c]) /\ c \notin placed
        /\ UNCHANGED <<config, appended, before>>
    BY <1>0, <1>2 DEF AppendSchedule, PlayInv, OnlyScheduled, Scheduled
  <2> QED
    BY <1>0, <2>1, AppendPlace
<1>3. ASSUME NEW c \in Cues, AppendRead(c)
      PROVE  AppendInv'
  BY <1>0, <1>3, AppendReads
<1>4. ASSUME UNCHANGED <<end, length, start, appended, placed, before>>
      PROVE  AppendInv'
  BY <1>0, <1>4, AppendIdle
<1>5. ASSUME NEW c \in Cues, Cancel(c)
      PROVE  UNCHANGED <<end, length, start, appended, placed, before>>
  BY <1>5 DEF Cancel, axis, config, history
<1>6. ASSUME NEW n \in PullSizes, Pull(n)
      PROVE  UNCHANGED <<end, length, start, appended, placed, before>>
  BY <1>6 DEF Pull, config, history
<1>7. ASSUME NEW delta \in Deltas, Seek(delta)
      PROVE  UNCHANGED <<end, length, start, appended, placed, before>>
  BY <1>7 DEF Seek, config
<1>8. CASE Close \/ UNCHANGED vars
  <2>1. UNCHANGED <<end, length, start, appended, placed, before>>
    BY <1>8 DEF Close, config, vars, axis, history
  <2> QED
    BY <1>4, <2>1
<1> QED
  BY <1>1, <1>2, <1>3, <1>4, <1>5, <1>6, <1>7, <1>8 DEF Next

\* Every appended cue starts at the frame at which the last of those its Append
\* found on the axis is over, whatever is scheduled, pulled, sought, cancelled
\* or appended by others meanwhile (impl.go:158-160).
THEOREM AppendsFollow ==
    ASSUME LengthsFit
    PROVE  Spec /\ []AxisFits => []AppendsBackToBack
<1>1. Init => AppendInv
  BY AppendInitial
<1>2. AppendInv /\ AxisFits /\ [Next]_vars => AppendInv'
  BY AppendStep
<1>3. AppendInv => AppendsBackToBack
  BY DEF AppendInv
<1> QED
  BY <1>1, <1>2, <1>3, PTL DEF Spec

-----------------------------------------------------------------------------
(* The order of the list.                                                  *)

\* What PlayInv says nothing of.
Marks ==
    /\ cursor \in 0 .. MaxCursor /\ closed \in BOOLEAN
    /\ factory \subseteq Cues /\ finished \subseteq Cues /\ cancelled \subseteq done
    /\ astray \subseteq Cues /\ before \in [Cues -> SUBSET Cues]

ListInv == PlayInv /\ Marks /\ Ranked(active, start)

\* The list stays in order when only the starts of other cues change.
LEMMA RankedStays ==
    ASSUME NEW list \in Seq(Cues), NEW r, NEW q, Ranked(list, r),
           \A x \in ToSet(list) : q[x] = r[x]
    PROVE  Ranked(list, q)
BY Zenon DEF Ranked, ToSet

\* insertActive keeps the list in order: those before the new cue start no
\* later than it, those behind it later.
LEMMA InsertedRanked ==
    ASSUME Typed, Ranked(active, start), NEW c \in Cues, c \notin ToSet(active),
           NEW from \in Nat, NEW r, r = [start EXCEPT ![c] = from]
    PROVE  Ranked(Inserted(c, from), r)
<1> DEFINE later == {i \in DOMAIN active : from < start[active[i]]}
           at == IF later = {} THEN Len(active) + 1 ELSE Min(later)
<1>1. /\ active \in Seq(Cues) /\ DOMAIN active = 1 .. Len(active) /\ Len(active) \in Nat
      /\ start \in [Cues -> Nat]
  BY DEF Typed
<1>2. PICK n \in Nat : n = Len(active)
  BY <1>1
<1>3. later \subseteq 1 .. n /\ \A i \in 1 .. n : i \in later <=> from < start[active[i]]
  BY <1>1, <1>2
<1>4. Inserted(c, from) = InsertAt(active, at, c)
  BY DEF Inserted
<1> HIDE DEF later
<1>5. at \in 1 .. n + 1 /\ (at <= n => at \in later) /\ \A i \in later : at <= i
  <2>1. CASE later = {}
    BY <1>2, <2>1
  <2>2. CASE later # {}
    <3>1. later \subseteq Nat
      BY <1>3
    <3>2. PICK m \in later : m = Min(later) /\ \A i \in later : m <= i
      BY <2>2, <3>1, MinIs
    <3>3. at = m /\ m \in 1 .. n
      BY <1>3, <2>2, <3>2
    <3> HIDE DEF at
    <3> QED
      BY <3>2, <3>3
  <2> QED
    BY <2>1, <2>2
<1> HIDE DEF at
<1>6. ASSUME NEW i \in 1 .. n
      PROVE  /\ active[i] \in Cues /\ active[i] # c /\ r[active[i]] = start[active[i]]
             /\ start[active[i]] \in Nat
             /\ i < at => start[active[i]] <= from
             /\ i >= at => from <= start[active[i]]
  <2>1. active[i] \in Cues /\ active[i] # c
    BY <1>1, <1>2 DEF ToSet
  <2>2. r[active[i]] = start[active[i]] /\ start[active[i]] \in Nat
    BY <1>1, <2>1
  <2>3. i < at => start[active[i]] <= from
    <3>1. i < at => i \notin later
      BY <1>5
    <3> QED
      BY <1>3, <2>2, <3>1
  <2>4. i >= at => from <= start[active[i]]
    <3>1. CASE i = at
      BY <1>3, <1>5, <2>2, <3>1
    <3>2. CASE i > at
      <4>1. at \in 1 .. n /\ at \in later /\ start[active[at]] \in Nat
        BY <1>1, <1>2, <1>5, <3>2
      <4>2. from < start[active[at]]
        BY <1>3, <4>1, Zenon
      <4>3. start[active[at]] <= start[active[i]]
        BY <1>1, <1>2, <3>2, <4>1, Zenon DEF Ranked
      <4> QED
        BY <2>2, <4>1, <4>2, <4>3
    <3> QED
      BY <3>1, <3>2, <1>5
  <2> QED
    BY <2>1, <2>2, <2>3, <2>4
<1>7. \A i, j \in 1 .. n :
         i < j => active[i] # active[j] /\ r[active[i]] <= r[active[j]]
  <2>1. \A i, j \in 1 .. n :
           i < j => active[i] # active[j] /\ start[active[i]] <= start[active[j]]
    BY <1>1, <1>2, Zenon DEF Ranked
  <2> QED
    BY <1>6, <2>1, Zenon
<1>8. r[c] = from
  BY <1>1
<1>9. PICK l : /\ l = Inserted(c, from) /\ DOMAIN l = 1 .. n + 1
               /\ \A k \in 1 .. n + 1 :
                     l[k] = IF k < at THEN active[k] ELSE IF k = at THEN c ELSE active[k - 1]
  <2>1. /\ InsertAt(active, at, c) \in Seq(Cues)
        /\ Len(InsertAt(active, at, c)) = n + 1
        /\ \A k \in 1 .. n + 1 :
              InsertAt(active, at, c)[k] =
                 IF k < at THEN active[k] ELSE IF k = at THEN c ELSE active[k - 1]
    <3>1. at \in 1 .. Len(active) + 1
      BY <1>2, <1>5
    <3>2. InsertAt(active, at, c) \in Seq(Cues)
      BY <1>1, <3>1, InsertedSet
    <3>3. Inserts(InsertAt(active, at, c), active, at, c)
      BY <1>1, <3>1, InsertedItems
    <3> QED
      BY <1>2, <3>2, <3>3, Zenon DEF Inserts
  <2>2. DOMAIN InsertAt(active, at, c) = 1 .. n + 1
    BY <2>1
  <2> QED
    BY <1>4, <2>1, <2>2, Zenon
<1>10. ASSUME NEW i \in 1 .. n + 1, NEW j \in 1 .. n + 1, i < j
       PROVE  l[i] # l[j] /\ r[l[i]] <= r[l[j]]
  <2>1. CASE j < at
    <3>1. i \in 1 .. n /\ j \in 1 .. n /\ i < at
      BY <1>5, <1>10, <2>1
    <3> QED
      BY <1>7, <1>9, <1>10, <2>1, <3>1
  <2>2. CASE j = at
    <3>1. i \in 1 .. n /\ i < at
      BY <1>5, <1>10, <2>2
    <3>2. l[i] = active[i] /\ l[j] = c
      BY <1>9, <2>2, <3>1
    <3> QED
      BY <1>6, <1>8, <3>1, <3>2
  <2>3. CASE j > at
    <3>1. j - 1 \in 1 .. n /\ j - 1 >= at /\ l[j] = active[j - 1]
      BY <1>5, <1>9, <1>10, <2>3
    <3>2. CASE i < at
      <4>1. i \in 1 .. n /\ i < j - 1 /\ l[i] = active[i]
        BY <1>5, <1>9, <1>10, <3>1, <3>2
      <4> QED
        BY <1>7, <3>1, <4>1
    <3>3. CASE i = at
      <4>1. l[i] = c
        BY <1>9, <3>3
      <4> QED
        BY <1>6, <1>8, <3>1, <4>1
    <3>4. CASE i > at
      <4>1. i - 1 \in 1 .. n /\ i - 1 < j - 1 /\ l[i] = active[i - 1]
        BY <1>5, <1>9, <1>10, <3>4
      <4> QED
        BY <1>7, <3>1, <4>1
    <3> QED
      BY <1>5, <3>2, <3>3, <3>4
  <2> QED
    BY <1>5, <2>1, <2>2, <2>3
<1> QED
  BY <1>9, <1>10, Zenon DEF Ranked

LEMMA ListInitial == Init => ListInv
<1> SUFFICES ASSUME Init PROVE ListInv
  OBVIOUS
<1>1. Marks
  <2>1. cursor = 0 /\ closed = FALSE /\ factory = {} /\ finished = {} /\ cancelled = {}
    BY Zenon DEF Init
  <2>2. 0 \in 0 .. MaxCursor
    BY TimelineAssumption
  <2>3. astray = {} /\ before = [c \in Cues |-> {}]
    BY Zenon DEF Init
  <2> QED
    BY <2>1, <2>2, <2>3 DEF Marks
<1>2. Ranked(active, start)
  <2>1. active = <<>> /\ DOMAIN <<>> = {}
    BY DEF Init
  <2> QED
    BY <2>1, Zenon DEF Ranked
<1> QED
  BY <1>1, <1>2, PlayInitial DEF ListInv

LEMMA ListPlace ==
    ASSUME ListInv, LengthsFit, NEW c \in Cues, NEW from \in Nat,
           state[c] \in {"new", "appending"}, Choose(c), Place(c, from),
           UNCHANGED <<cursor, closed, config, finished, cancelled, before, astray>>
    PROVE  Marks' /\ Ranked(active, start)'
<1> USE DEF ListInv
<1>1. c \notin ToSet(active) /\ active \in Seq(Cues) /\ start \in [Cues -> Nat]
  BY DEF PlayInv, Typed, OnlyScheduled, Scheduled
<1>2. Marks'
  <2>1. factory' \subseteq Cues
    BY DEF Choose, Marks
  <2>2. done \subseteq done'
    BY DEF Place
  <2> QED
    BY <2>1, <2>2 DEF Marks
<1>3. CASE active' = active /\ (start' = start \/ start' = [start EXCEPT ![c] = from])
  <2>1. \A x \in ToSet(active) : start'[x] = start[x]
    BY <1>1, <1>3 DEF ToSet
  <2>2. Ranked(active, start')
    BY <1>1, <2>1, RankedStays
  <2> QED
    BY <1>2, <1>3, <2>2
<1>4. CASE active' = Inserted(c, from) /\ start' = [start EXCEPT ![c] = from]
  <2>1. Ranked(Inserted(c, from), start')
    BY <1>1, <1>4, InsertedRanked DEF PlayInv
  <2> QED
    BY <1>2, <1>4, <2>1
<1> QED
  BY <1>3, <1>4 DEF Place

LEMMA ListStep ==
    ASSUME ListInv, LengthsFit, [Next]_vars
    PROVE  Marks' /\ Ranked(active, start)'
<1> USE DEF ListInv
<1>0. active \in Seq(Cues) /\ start \in [Cues -> Nat] /\ ToSet(active) \subseteq Scheduled
  BY DEF PlayInv, Typed, OnlyScheduled
<1>1. ASSUME NEW c \in Cues, NEW from \in Starts, Schedule(c, from)
      PROVE  Marks' /\ Ranked(active, start)'
  <2>1. /\ state[c] \in {"new", "appending"} /\ Choose(c) /\ Place(c, from)
        /\ UNCHANGED <<cursor, closed, config, finished, cancelled, before, astray>>
    BY <1>1 DEF Schedule
  <2>2. from \in Nat
    BY TimelineAssumption
  <2> QED
    BY <2>1, <2>2, ListPlace
<1>2. ASSUME NEW c \in Cues, AppendRead(c)
      PROVE  Marks' /\ Ranked(active, start)'
  <2>1. /\ state[c] = "new" /\ start' = [start EXCEPT ![c] = ThroughDuration(end)]
        /\ UNCHANGED <<cursor, closed, active, factory, finished, cancelled, done, astray>>
        /\ before' = [before EXCEPT ![c] = placed]
    BY <1>2 DEF AppendRead, axis, handles
  <2>2. \A x \in ToSet(active) : start'[x] = start[x]
    BY <1>0, <2>1 DEF Scheduled
  <2>3. Ranked(active, start')
    BY <1>0, <2>2, RankedStays
  <2>4. placed \subseteq Cues
    BY DEF PlayInv, OnlyScheduled, Scheduled
  <2>5. before' \in [Cues -> SUBSET Cues]
    BY <2>1, <2>4, Zenon DEF Marks
  <2> QED
    BY <2>1, <2>3, <2>5 DEF Marks
<1>3. ASSUME NEW c \in Cues, AppendSchedule(c)
      PROVE  Marks' /\ Ranked(active, start)'
  <2>1. /\ state[c] \in {"new", "appending"} /\ Choose(c) /\ Place(c, start[c])
        /\ UNCHANGED <<cursor, closed, config, finished, cancelled, before, astray>>
    BY <1>3 DEF AppendSchedule
  <2> QED
    BY <1>0, <2>1, ListPlace
<1>4. ASSUME NEW c \in Cues, Cancel(c)
      PROVE  Marks' /\ Ranked(active, start)'
  BY <1>4 DEF Cancel, axis, history, Marks
<1>5. ASSUME NEW n \in PullSizes, Pull(n)
      PROVE  Marks' /\ Ranked(active, start)'
  <2>1. PICK ended \in SUBSET AtEnd(n) :
           /\ done' = done \cup (cancelled \cap ToSet(active)) \cup ended
           /\ finished' = finished \cup ended
           /\ active' = Keep(active, Cues \ Dropped(n, ended))
    BY <1>5 DEF Pull
  <2>2. /\ cursor' = cursor + n /\ cursor + n <= MaxCursor /\ n \in Nat
        /\ UNCHANGED <<closed, start, factory, cancelled, before, astray>>
    BY <1>5, TimelineAssumption DEF Pull, Bounded, history
  <2>3. ended \subseteq Cues
    BY <1>0 DEF AtEnd, Mixed, Scheduled
  <2>4. Marks'
    BY <2>1, <2>2, <2>3 DEF Marks
  <2>5. Ranked(Keep(active, Cues \ Dropped(n, ended)), start)
    BY <1>0, KeepRanked
  <2> QED
    BY <2>1, <2>2, <2>4, <2>5
<1>6. ASSUME NEW delta \in Deltas, Seek(delta)
      PROVE  Marks' /\ Ranked(active, start)'
  <2>1. PICK target \in 0 .. MaxCursor :
           /\ finished' = (finished \cup Ended(target)) \ Fresh(target)
           /\ done' = done \cup (Ended(target) \ finished)
           /\ cursor' = IF Stuck(target) = {} THEN target ELSE cursor
           /\ astray' = Misplaced(target)
           /\ UNCHANGED <<closed, active, start, factory, cancelled, before>>
    BY <1>6 DEF Seek
  <2>2. Ended(target) \subseteq Cues /\ astray' \subseteq Cues
    <3>1. Met(target) \subseteq ToSet(active) /\ ToSet(active) \subseteq Cues
      BY <1>0 DEF Met, ToSet, Scheduled
    <3> QED
      BY <2>1, <3>1 DEF Ended, Fresh, Passed, Misplaced, Marks
  <2>3. cursor' \in 0 .. MaxCursor
    BY <2>1 DEF Marks
  <2> QED
    BY <2>1, <2>2, <2>3 DEF Marks
<1>7. CASE Close
  <2>1. /\ closed' = TRUE /\ done \subseteq done' /\ active' = <<>>
        /\ UNCHANGED <<cursor, factory, finished, cancelled, before, astray>>
    BY <1>7 DEF Close, history
  <2>2. DOMAIN <<>> = {}
    OBVIOUS
  <2>3. Ranked(active, start)'
    BY <2>1, <2>2, Zenon DEF Ranked
  <2> QED
    BY <2>1, <2>3 DEF Marks
<1>8. CASE UNCHANGED vars
  BY <1>8 DEF vars, axis, handles, history, Marks
<1> QED
  BY <1>1, <1>2, <1>3, <1>4, <1>5, <1>6, <1>7, <1>8 DEF Next

\* The list is in the order of the starts and holds no cue twice, however cues
\* are scheduled late, dropped, cancelled and played again (impl.go:410-424).
THEOREM StaysInOrder ==
    ASSUME LengthsFit
    PROVE  Spec /\ []AxisFits => []TypeOK
<1>1. ListInv /\ AxisFits /\ [Next]_vars => ListInv'
  BY PlayStep, ListStep DEF ListInv
<1>2. ASSUME ListInv PROVE TypeOK
  <2>1. /\ \A i, j \in DOMAIN active :
              i < j => active[i] # active[j] /\ start[active[i]] <= start[active[j]]
        /\ DOMAIN active \subseteq Nat /\ active \in Seq(Cues)
    BY <1>2 DEF ListInv, Ranked, PlayInv, Typed
  <2>2. IsInjective(active)
    BY <2>1 DEF IsInjective
  <2>3. done \subseteq Cues /\ appended \subseteq Cues /\ placed \subseteq Cues
    BY <1>2 DEF ListInv, PlayInv, OnlyScheduled, Scheduled
  <2> QED
    BY <1>2, <2>1, <2>2, <2>3, Zenon DEF ListInv, PlayInv, Typed, Marks, TypeOK
<1> QED
  BY <1>1, <1>2, ListInitial, PTL DEF Spec
=============================================================================
