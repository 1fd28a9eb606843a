------------------------ MODULE DuplexCaptureProofs ------------------------
(***************************************************************************)
(* That the capture half loses nothing, tags every frame right and sends   *)
(* whole utterances, for every frame size, queue, batch, lead-in, pre-roll *)
(* and length of push, and whatever the detector announces.                *)
(***************************************************************************)
EXTENDS DuplexCapture, SequenceLemmas

-----------------------------------------------------------------------------
(* Nothing is lost.                                                        *)

\* How samples that are put one after another may be grouped.
LEMMA Joined ==
    ASSUME NEW S, NEW a \in Seq(S), NEW b \in Seq(S)
    PROVE  a \o b \in Seq(S)
OBVIOUS

Groups(a, b, c, d) ==
    /\ ((a \o b) \o c) \o d = (a \o b) \o (c \o d)
    /\ (a \o b) \o (c \o d) = (a \o (b \o c)) \o d
    /\ (a \o (b \o c)) \o d = ((a \o b) \o c) \o d

LEMMA Grouped ==
    ASSUME NEW S, NEW a \in Seq(S), NEW b \in Seq(S), NEW c \in Seq(S), NEW d \in Seq(S)
    PROVE  Groups(a, b, c, d)
<1>1. PICK x \in Seq(S) : x = a \o b
  BY Joined, Zenon
<1>2. (x \o c) \o d = x \o (c \o d)
  OBVIOUS
<1>3. (a \o b) \o c = a \o (b \o c)
  OBVIOUS
<1> QED
  BY <1>1, <1>2, <1>3, Zenon DEF Groups

\* A sequence is its first n and what is after them.
LEMMA CutInTwo ==
    ASSUME NEW S, NEW s \in Seq(S), NEW n \in 0 .. Len(s)
    PROVE  /\ SubSeq(s, 1, n) \in Seq(S) /\ SubSeq(s, n + 1, Len(s)) \in Seq(S)
           /\ s = SubSeq(s, 1, n) \o SubSeq(s, n + 1, Len(s))
<1>1. 0 \in 0 .. Len(s) /\ n \in 0 .. Len(s) /\ Len(s) \in n .. Len(s) /\ 0 + 1 = 1
  OBVIOUS
<1>2. SubSeq(s, 0 + 1, n) \o SubSeq(s, n + 1, Len(s)) = SubSeq(s, 0 + 1, Len(s))
  BY <1>1, CutTwice
<1>3. SubSeq(s, 1, Len(s)) = s
  BY CutAll
<1>4. SubSeq(s, 0 + 1, n) \in Seq(S) /\ SubSeq(s, n + 1, Len(s)) \in Seq(S)
  BY <1>1, CutType
<1> QED
  BY <1>1, <1>2, <1>3, <1>4

\* What the two ends of the queue do to the samples in it.
LEMMA QueueGrows ==
    \A q \in Seq(Seq(Samples)), p, a, b \in Seq(Samples) :
        /\ Append(q, p) \in Seq(Seq(Samples))
        /\ Len(FlattenSeq(Append(q, p))) = Len(FlattenSeq(q)) + Len(p)
        /\ (a \o b \o FlattenSeq(q)) \o p = a \o b \o FlattenSeq(Append(q, p))
<1> SUFFICES ASSUME NEW q \in Seq(Seq(Samples)), NEW p \in Seq(Samples),
                    NEW a \in Seq(Samples), NEW b \in Seq(Samples)
             PROVE  /\ Append(q, p) \in Seq(Seq(Samples))
                    /\ Len(FlattenSeq(Append(q, p))) = Len(FlattenSeq(q)) + Len(p)
                    /\ (a \o b \o FlattenSeq(q)) \o p = a \o b \o FlattenSeq(Append(q, p))
  OBVIOUS
<1>1. FlattenSeq(Append(q, p)) = FlattenSeq(q) \o p
  BY FlattenAppend
<1>2. PICK f \in Seq(Samples) : f = FlattenSeq(q)
  BY FlattenType, Zenon
<1>3. Len(f \o p) = Len(f) + Len(p)
  BY ConcatIs
<1>4. ((a \o b) \o f) \o p = (a \o b) \o (f \o p)
  <2>1. Groups(a, b, f, p)
    BY Grouped, Zenon
  <2> QED
    BY <2>1, Zenon DEF Groups
<1>5. Append(q, p) \in Seq(Seq(Samples))
  OBVIOUS
<1> QED
  BY <1>1, <1>2, <1>3, <1>4, <1>5, Zenon

Shrinks(q, n, a, b) ==
    LET l == SubSeq(q, 1, n)
        r == SubSeq(q, n + 1, Len(q))
    IN /\ l \in Seq(Seq(Samples)) /\ r \in Seq(Seq(Samples))
       /\ FlattenSeq(l) \in Seq(Samples) /\ FlattenSeq(r) \in Seq(Samples)
       /\ Len(FlattenSeq(q)) = Len(FlattenSeq(l)) + Len(FlattenSeq(r))
       /\ a \o b \o FlattenSeq(q) = a \o (b \o FlattenSeq(l)) \o FlattenSeq(r)

LEMMA QueueShrinks ==
    \A q \in Seq(Seq(Samples)), n \in Nat, a, b \in Seq(Samples) :
        n <= Len(q) => Shrinks(q, n, a, b)
<1> SUFFICES ASSUME NEW q \in Seq(Seq(Samples)), NEW n \in Nat, n <= Len(q),
                    NEW a \in Seq(Samples), NEW b \in Seq(Samples)
             PROVE  Shrinks(q, n, a, b)
  BY Zenon
<1>0. n \in 0 .. Len(q)
  OBVIOUS
<1>1. /\ SubSeq(q, 1, n) \in Seq(Seq(Samples)) /\ SubSeq(q, n + 1, Len(q)) \in Seq(Seq(Samples))
      /\ q = SubSeq(q, 1, n) \o SubSeq(q, n + 1, Len(q))
  BY <1>0, CutInTwo
<1>2. PICK l \in Seq(Seq(Samples)) : l = SubSeq(q, 1, n)
  BY <1>1, Zenon
<1>3. PICK r \in Seq(Seq(Samples)) : r = SubSeq(q, n + 1, Len(q))
  BY <1>1, Zenon
<1>4. FlattenSeq(l \o r) = FlattenSeq(l) \o FlattenSeq(r)
  BY FlattenConcat
<1>5. PICK f \in Seq(Samples) : f = FlattenSeq(l)
  BY FlattenType, Zenon
<1>6. PICK g \in Seq(Samples) : g = FlattenSeq(r)
  BY FlattenType, Zenon
<1>7. Len(f \o g) = Len(f) + Len(g)
  BY ConcatIs
<1>8. (a \o b) \o (f \o g) = (a \o (b \o f)) \o g
  <2>1. Groups(a, b, f, g)
    BY Grouped, Zenon
  <2> QED
    BY <2>1, Zenon DEF Groups
<1> QED
  BY <1>1, <1>2, <1>3, <1>4, <1>5, <1>6, <1>7, <1>8, Zenon DEF Shrinks

\* Where the samples are: the queue and the accumulator, from the cursor on,
\* hold what was taken and not yet processed.
StreamTypes ==
    /\ queue \in Seq(Seq(Samples))
    /\ accum \in Seq(Samples) /\ fed \in Seq(Samples) /\ taken \in Seq(Samples)
    /\ ticking \in BOOLEAN /\ left \in 0 .. Batch

CountsAgree ==
    /\ total = Count(queue) /\ total <= CaptureBuffer
    /\ off \in 0 .. Len(accum)
    /\ ~ticking => off = 0

StreamInv == StreamTypes /\ CountsAgree /\ NothingLost

LEMMA HeldType ==
    ASSUME StreamInv
    PROVE  Held \in Seq(Samples) /\ Len(Held) = Len(accum) - off
<1>0. accum \in Seq(Samples) /\ off \in 0 .. Len(accum)
  BY DEF StreamInv, StreamTypes, CountsAgree
<1>1. Len(accum) \in off .. Len(accum)
  BY <1>0
<1> QED
  BY <1>0, <1>1, CutType DEF Held

LEMMA StreamInit == Init => StreamInv
<1> SUFFICES ASSUME Init PROVE StreamInv
  OBVIOUS
<1>1. <<>> \in Seq(Seq(Samples)) /\ <<>> \in Seq(Samples) /\ Len(<<>>) = 0
  OBVIOUS
<1>2. Held = <<>>
  BY DEF Init, Held
<1>3. <<>> \o <<>> \o <<>> = <<>>
  OBVIOUS
<1>4. NothingLost
  BY <1>2, <1>3, FlattenEmpty DEF Init, NothingLost
<1>5. CountsAgree
  BY <1>1, FlattenEmpty, CaptureAssumption DEF Init, Count, CountsAgree
<1>6. StreamTypes
  <2>1. 0 \in 0 .. Batch
    BY CaptureAssumption
  <2> QED
    BY <1>1, <2>1, Zenon DEF Init, StreamTypes
<1> QED
  BY <1>4, <1>5, <1>6 DEF StreamInv

\* The frame a push brings.
Pushed(n) == [k \in 1 .. n |-> [tag |-> NextTag, at |-> k]]

LEMMA PushedType ==
    ASSUME taken \in Seq(Samples), NEW n \in PushLengths
    PROVE  Pushed(n) \in Seq(Samples) /\ Len(Pushed(n)) = n /\ n \in Nat \ {0}
<1>1. n \in Nat \ {0}
  BY CaptureAssumption
<1>2. NextTag \in Nat \ {0}
  <2>1. CASE taken = <<>>
    BY <2>1 DEF NextTag
  <2>2. CASE taken # <<>>
    <3>1. Last(taken) \in Samples
      BY <2>2 DEF Last
    <3> QED
      BY <2>2, <3>1 DEF NextTag, Samples
  <2> QED
    BY <2>1, <2>2
<1>3. \A k \in 1 .. n : [tag |-> NextTag, at |-> k] \in Samples
  BY <1>1, <1>2 DEF Samples
<1> QED
  BY <1>1, <1>3 DEF Pushed

LEMMA StreamPush ==
    ASSUME StreamInv, NEW n \in PushLengths, Push(n)
    PROVE  StreamInv'
<1>1. StreamTypes /\ CountsAgree /\ NothingLost /\ Held \in Seq(Samples)
  BY HeldType DEF StreamInv
<1>2. queue \in Seq(Seq(Samples)) /\ fed \in Seq(Samples) /\ taken \in Seq(Samples)
  BY <1>1, Zenon DEF StreamTypes
<1>3. PICK p \in Seq(Samples) : p = Pushed(n) /\ Len(p) = n /\ n \in Nat
  BY <1>2, PushedType, Zenon
<1>4. queue' = Append(queue, p) /\ taken' = taken \o p
  BY <1>3, Zenon DEF Push, Pushed
<1>5. /\ accum' = accum /\ fed' = fed /\ off' = off /\ ticking' = ticking /\ left' = left
      /\ total' = total + n /\ total + n <= CaptureBuffer
  BY DEF Push, Fits, cursor, speech
<1>6. /\ Append(queue, p) \in Seq(Seq(Samples))
      /\ Len(FlattenSeq(Append(queue, p))) = Len(FlattenSeq(queue)) + Len(p)
      /\ (fed \o Held \o FlattenSeq(queue)) \o p = fed \o Held \o FlattenSeq(Append(queue, p))
  <2>1. \A a, b \in Seq(Samples) :
          /\ Append(queue, p) \in Seq(Seq(Samples))
          /\ Len(FlattenSeq(Append(queue, p))) = Len(FlattenSeq(queue)) + Len(p)
          /\ (a \o b \o FlattenSeq(queue)) \o p = a \o b \o FlattenSeq(Append(queue, p))
    BY <1>2, QueueGrows, Zenon
  <2> QED
    BY <1>1, <1>2, <2>1, Zenon
<1>7. taken \o p \in Seq(Samples)
  BY <1>2, ConcatIs
<1>8. StreamTypes'
  BY <1>1, <1>4, <1>5, <1>6, <1>7, Zenon DEF StreamTypes
<1>9. Count(queue') = Count(queue) + n
  BY <1>3, <1>4, <1>6, Zenon DEF Count
<1>10. CountsAgree'
  BY <1>1, <1>5, <1>9, Zenon DEF CountsAgree
<1>11. NothingLost'
  BY <1>1, <1>4, <1>5, <1>6, Zenon DEF NothingLost, Held
<1> QED
  BY <1>8, <1>10, <1>11 DEF StreamInv

\* How many pushed frames a tick drains.
LEMMA DrainedType ==
    ASSUME queue \in Seq(Seq(Samples))
    PROVE  Drained \in Nat /\ Drained <= Len(queue)
<1> DEFINE E == {k \in 0 .. Len(queue) : k = Len(queue) \/ Enough(k)}
<1>0. Len(queue) \in Nat
  OBVIOUS
<1>1. E \subseteq Nat /\ Len(queue) \in E
  BY <1>0
<1>2. Min(E) \in E /\ \A k \in E : Min(E) <= k
  BY <1>1, MinIs, Zenon
<1>3. Drained = Min(E)
  BY Zenon DEF Drained
<1> HIDE DEF E
<1> QED
  BY <1>1, <1>2, <1>3

LEMMA StreamDrain ==
    ASSUME StreamInv, DrainInto
    PROVE  StreamInv'
<1>1. StreamTypes /\ CountsAgree /\ NothingLost
  BY DEF StreamInv
<1>2. /\ queue \in Seq(Seq(Samples)) /\ fed \in Seq(Samples)
      /\ accum \in Seq(Samples) /\ taken \in Seq(Samples)
  BY <1>1, Zenon DEF StreamTypes
<1>3. PICK n \in Nat : n = Drained /\ n <= Len(queue)
  BY <1>2, DrainedType, Zenon
<1>4. PICK l : l = SubSeq(queue, 1, n)
  OBVIOUS
<1>5. PICK r : r = SubSeq(queue, n + 1, Len(queue))
  OBVIOUS
<1>6. /\ l \in Seq(Seq(Samples)) /\ r \in Seq(Seq(Samples))
      /\ FlattenSeq(l) \in Seq(Samples) /\ FlattenSeq(r) \in Seq(Samples)
      /\ Len(FlattenSeq(queue)) = Len(FlattenSeq(l)) + Len(FlattenSeq(r))
      /\ fed \o accum \o FlattenSeq(queue) = fed \o (accum \o FlattenSeq(l)) \o FlattenSeq(r)
  <2>1. Shrinks(queue, n, fed, accum)
    BY <1>2, <1>3, QueueShrinks, Zenon
  <2> QED
    BY <1>4, <1>5, <2>1, Zenon DEF Shrinks
<1>7. /\ ~ticking /\ ticking' = TRUE /\ left' = Batch
      /\ queue' = r /\ accum' = accum \o FlattenSeq(l)
      /\ total' = total - Len(FlattenSeq(l))
      /\ fed' = fed /\ taken' = taken /\ off' = off
  BY <1>3, <1>4, <1>5 DEF DrainInto, Count, speech
<1>8. off = 0
  BY <1>1, <1>7 DEF CountsAgree
<1>9. accum \o FlattenSeq(l) \in Seq(Samples)
  BY <1>2, <1>6, Joined, Zenon
<1>10. Held = accum
  BY <1>2, <1>8, CutAll DEF Held
<1>11. Held' = accum'
  <2>1. SubSeq(accum', 1, Len(accum')) = accum'
    BY <1>7, <1>9, CutAll
  <2> QED
    BY <1>7, <1>8, <2>1 DEF Held
<1>12. NothingLost'
  BY <1>1, <1>6, <1>7, <1>10, <1>11, Zenon DEF NothingLost
<1>13. Len(FlattenSeq(l)) \in Nat /\ Len(FlattenSeq(r)) \in Nat
  BY <1>6
<1>14. CountsAgree'
  <2>1. total = Len(FlattenSeq(l)) + Len(FlattenSeq(r)) /\ total <= CaptureBuffer
    BY <1>1, <1>6, Zenon DEF CountsAgree, Count
  <2>2. total' = Len(FlattenSeq(r)) /\ total' <= CaptureBuffer
    BY <1>7, <1>13, <2>1, CaptureAssumption
  <2>3. total' = Count(queue')
    BY <1>7, <2>2, Zenon DEF Count
  <2>4. 0 \in 0 .. Len(accum')
    BY <1>7, <1>9
  <2> QED
    BY <1>7, <1>8, <2>2, <2>3, <2>4, Zenon DEF CountsAgree
<1>15. StreamTypes'
  <2>1. Batch \in 0 .. Batch
    BY CaptureAssumption
  <2> QED
    BY <1>2, <1>6, <1>7, <1>9, <2>1, Zenon DEF StreamTypes
<1> QED
  BY <1>12, <1>14, <1>15 DEF StreamInv

\* The cursor passes n samples.
LEMMA HeldPassed ==
    ASSUME StreamInv, NEW n \in Nat, n <= Len(accum) - off
    PROVE  /\ SubSeq(accum, off + 1, off + n) \in Seq(Samples)
           /\ SubSeq(accum, (off + n) + 1, Len(accum)) \in Seq(Samples)
           /\ Held = SubSeq(accum, off + 1, off + n) \o SubSeq(accum, (off + n) + 1, Len(accum))
<1>1. accum \in Seq(Samples) /\ off \in 0 .. Len(accum)
  BY DEF StreamInv, StreamTypes, CountsAgree
<1>2. off + n \in off .. Len(accum) /\ Len(accum) \in off + n .. Len(accum)
      /\ off + n \in 0 .. Len(accum)
  BY <1>1
<1>3. SubSeq(accum, off + 1, off + n) \in Seq(Samples)
  BY <1>1, <1>2, CutType
<1>4. SubSeq(accum, (off + n) + 1, Len(accum)) \in Seq(Samples)
  BY <1>1, <1>2, CutType
<1>5. SubSeq(accum, off + 1, off + n) \o SubSeq(accum, (off + n) + 1, Len(accum))
        = SubSeq(accum, off + 1, Len(accum))
  BY <1>1, <1>2, CutTwice
<1> QED
  BY <1>3, <1>4, <1>5, Zenon DEF Held

LEMMA StreamProcess ==
    ASSUME StreamInv, ProcessFrame
    PROVE  StreamInv'
<1>1. StreamTypes /\ CountsAgree /\ NothingLost
  BY DEF StreamInv
<1>2. /\ queue \in Seq(Seq(Samples)) /\ fed \in Seq(Samples)
      /\ accum \in Seq(Samples) /\ taken \in Seq(Samples)
  BY <1>1, Zenon DEF StreamTypes
<1>3. FrameSamples \in Nat /\ FrameSamples <= Len(accum) - off /\ left > 0
      /\ off \in 0 .. Len(accum) /\ left \in 0 .. Batch
  BY <1>1, <1>2, CaptureAssumption DEF ProcessFrame, More, CountsAgree, StreamTypes
<1>4. PICK f : f = SubSeq(accum, off + 1, off + FrameSamples)
  OBVIOUS
<1>5. PICK h : h = SubSeq(accum, (off + FrameSamples) + 1, Len(accum))
  OBVIOUS
<1>6. f \in Seq(Samples) /\ h \in Seq(Samples) /\ Held = f \o h
  BY <1>3, <1>4, <1>5, HeldPassed
<1>7. /\ fed' = fed \o f /\ off' = off + FrameSamples /\ left' = left - 1
      /\ accum' = accum /\ queue' = queue /\ taken' = taken /\ total' = total
      /\ ticking /\ ticking' = ticking
  BY <1>4 DEF ProcessFrame, producer
<1>8. Held' = h
  BY <1>5, <1>7, Zenon DEF Held
<1>9. PICK q \in Seq(Samples) : q = FlattenSeq(queue)
  <2>1. FlattenSeq(queue) \in Seq(Samples)
    BY <1>2, FlattenType
  <2> QED
    BY <2>1, Zenon
<1>10. (fed \o (f \o h)) \o q = ((fed \o f) \o h) \o q
  <2>1. Groups(fed, f, h, q)
    BY <1>2, <1>6, Grouped, Zenon
  <2> QED
    BY <2>1, Zenon DEF Groups
<1>11. NothingLost'
  BY <1>1, <1>6, <1>7, <1>8, <1>9, <1>10, Zenon DEF NothingLost
<1>12. CountsAgree'
  <2>1. off' \in 0 .. Len(accum')
    BY <1>2, <1>3, <1>7
  <2> QED
    BY <1>1, <1>7, <2>1, Zenon DEF CountsAgree, Count
<1>13. StreamTypes'
  <2>1. fed \o f \in Seq(Samples)
    BY <1>2, <1>6, Joined, Zenon
  <2>2. left' \in 0 .. Batch
    BY <1>3, <1>7, CaptureAssumption
  <2> QED
    BY <1>1, <1>2, <1>7, <2>1, <2>2, Zenon DEF StreamTypes
<1> QED
  BY <1>11, <1>12, <1>13 DEF StreamInv

LEMMA StreamTickEnds ==
    ASSUME StreamInv, TickEnds
    PROVE  StreamInv'
<1>1. StreamTypes /\ CountsAgree /\ NothingLost /\ Held \in Seq(Samples)
  BY HeldType DEF StreamInv
<1>2. /\ accum' = Held /\ off' = 0 /\ ticking' = FALSE /\ left' = left
      /\ queue' = queue /\ taken' = taken /\ total' = total /\ fed' = fed
  BY DEF TickEnds, Rest, Held, producer, speech
<1>3. Held' = Held
  <2>1. SubSeq(accum', 0 + 1, Len(accum')) = accum'
    BY <1>1, <1>2, CutAll
  <2> QED
    BY <1>2, <2>1, Zenon DEF Held
<1>4. NothingLost'
  BY <1>1, <1>2, <1>3, Zenon DEF NothingLost
<1>5. CountsAgree'
  <2>1. 0 \in 0 .. Len(accum')
    BY <1>1, <1>2
  <2> QED
    BY <1>1, <1>2, <2>1, Zenon DEF CountsAgree, Count
<1>6. StreamTypes'
  BY <1>1, <1>2, Zenon DEF StreamTypes
<1> QED
  BY <1>4, <1>5, <1>6 DEF StreamInv

LEMMA StreamStays ==
    ASSUME StreamInv, UNCHANGED vars
    PROVE  StreamInv'
BY Zenon DEF vars, producer, cursor, speech, StreamInv, StreamTypes, CountsAgree, NothingLost,
    Held, Count

LEMMA StreamStep == StreamInv /\ [Next]_vars => StreamInv'
<1> SUFFICES ASSUME StreamInv, [Next]_vars PROVE StreamInv'
  OBVIOUS
<1>1. CASE \E n \in PushLengths : Push(n)
  BY <1>1, StreamPush
<1>2. CASE \E n \in PushLengths : PushOverflow(n)
  BY <1>2, StreamStays DEF PushOverflow
<1>3. CASE DrainInto
  BY <1>3, StreamDrain
<1>4. CASE ProcessFrame
  BY <1>4, StreamProcess
<1>5. CASE TickEnds
  BY <1>5, StreamTickEnds
<1>6. CASE UNCHANGED vars
  BY <1>6, StreamStays
<1> QED
  BY <1>1, <1>2, <1>3, <1>4, <1>5, <1>6 DEF Next

LEMMA StreamAlways == Spec => []StreamInv
BY StreamInit, StreamStep, PTL DEF Spec

\* Every sample that Push accepted is in the frames processed, in the
\* accumulator behind the cursor or in the queue, once and in its order.
THEOREM Lossless == Spec => []NothingLost
<1>1. StreamInv => NothingLost
  BY DEF StreamInv
<1> QED
  BY <1>1, StreamAlways, PTL

-----------------------------------------------------------------------------
(* The spans and the tags they stand for.                                  *)

Spans == [tag : Nat \ {0}, n : Nat \ {0}]

\* The tags of a span's samples, and those of samples.
Run(span) == [k \in 1 .. span.n |-> span.tag]
Runs(list) == [i \in DOMAIN list |-> Run(list[i])]
Tags(s) == [k \in DOMAIN s |-> s[k].tag]

LEMMA RunType ==
    ASSUME NEW span \in Spans
    PROVE  Run(span) \in Seq(Nat) /\ Len(Run(span)) = span.n /\ span.n \in Nat \ {0}
BY DEF Run, Spans

LEMMA RunsType ==
    ASSUME NEW list \in Seq(Spans)
    PROVE  /\ Runs(list) \in Seq(Seq(Nat)) /\ Len(Runs(list)) = Len(list)
           /\ TagsOf(list) = FlattenSeq(Runs(list))
           /\ TagsOf(list) \in Seq(Nat)
<1>1. \A i \in 1 .. Len(list) : Run(list[i]) \in Seq(Nat)
  BY RunType
<1>2. DOMAIN list = 1 .. Len(list) /\ Len(list) \in Nat
  OBVIOUS
<1>3. Runs(list) \in Seq(Seq(Nat)) /\ Len(Runs(list)) = Len(list)
  BY <1>1, <1>2 DEF Runs
<1>4. TagsOf(list) = FlattenSeq(Runs(list))
  BY Zenon DEF TagsOf, Runs, Run
<1>5. FlattenSeq(Runs(list)) \in Seq(Nat)
  BY <1>3, FlattenType
<1> QED
  BY <1>3, <1>4, <1>5

LEMMA TagsOfConcat ==
    ASSUME NEW l \in Seq(Spans), NEW m \in Seq(Spans)
    PROVE  TagsOf(l \o m) = TagsOf(l) \o TagsOf(m)
<1>1. PICK n \in Seq(Spans) : n = l \o m
  BY ConcatIs, Zenon
<1>2. /\ Len(n) = Len(l) + Len(m)
      /\ \A i \in 1 .. Len(l) : n[i] = l[i]
      /\ \A i \in 1 .. Len(m) : n[Len(l) + i] = m[i]
  BY <1>1, ConcatIs
<1>3. PICK a \in Seq(Seq(Nat)) : a = Runs(l) /\ Len(a) = Len(l)
  BY RunsType, Zenon
<1>4. PICK b \in Seq(Seq(Nat)) : b = Runs(m) /\ Len(b) = Len(m)
  BY RunsType, Zenon
<1>5. PICK c \in Seq(Seq(Nat)) : c = Runs(n) /\ Len(c) = Len(n)
  BY RunsType, Zenon
<1>6. /\ \A i \in 1 .. Len(l) : a[i] = Run(l[i])
      /\ \A i \in 1 .. Len(m) : b[i] = Run(m[i])
      /\ \A i \in 1 .. Len(n) : c[i] = Run(n[i])
  BY <1>3, <1>4, <1>5 DEF Runs
<1>7. /\ Len(c) = Len(a) + Len(b)
      /\ \A i \in 1 .. Len(a) : c[i] = a[i]
      /\ \A i \in 1 .. Len(b) : c[Len(a) + i] = b[i]
  <2>1. Len(c) = Len(a) + Len(b)
    BY <1>2, <1>3, <1>4, <1>5
  <2>2. ASSUME NEW i \in 1 .. Len(a) PROVE c[i] = a[i]
    <3>1. i \in 1 .. Len(l) /\ i \in 1 .. Len(n)
      BY <1>2, <1>3
    <3>2. n[i] = l[i]
      BY <1>2, <3>1
    <3> QED
      BY <1>6, <3>1, <3>2
  <2>3. ASSUME NEW i \in 1 .. Len(b) PROVE c[Len(a) + i] = b[i]
    <3>1. i \in 1 .. Len(m) /\ Len(l) + i \in 1 .. Len(n) /\ Len(a) = Len(l)
      BY <1>2, <1>3, <1>4
    <3>2. n[Len(l) + i] = m[i]
      BY <1>2, <3>1
    <3> QED
      BY <1>6, <3>1, <3>2
  <2> QED
    BY <2>1, <2>2, <2>3
<1>8. c = a \o b
  BY <1>7, ConcatOnly
<1>9. FlattenSeq(a \o b) = FlattenSeq(a) \o FlattenSeq(b)
  BY FlattenConcat
<1>10. /\ TagsOf(l) = FlattenSeq(a) /\ TagsOf(m) = FlattenSeq(b)
       /\ TagsOf(n) = FlattenSeq(c)
  BY <1>3, <1>4, <1>5, RunsType, Zenon
<1> QED
  BY <1>1, <1>8, <1>9, <1>10, Zenon

LEMMA TagsOfOne ==
    ASSUME NEW span \in Spans
    PROVE  TagsOf(<<span>>) = Run(span) /\ <<span>> \in Seq(Spans)
<1>1. Run(span) \in Seq(Nat)
  BY RunType
<1>2. <<span>> \in Seq(Spans) /\ Runs(<<span>>) = <<Run(span)>>
  BY DEF Runs
<1>3. TagsOf(<<span>>) = FlattenSeq(<<Run(span)>>)
  BY <1>2, RunsType
<1>4. FlattenSeq(<<Run(span)>>) = Run(span)
  BY <1>1, FlattenOne
<1> QED
  BY <1>2, <1>3, <1>4

LEMMA TagsOfNone == TagsOf(<<>>) = <<>>
<1>1. <<>> \in Seq(Spans) /\ Runs(<<>>) = <<>>
  BY DEF Runs
<1> QED
  BY <1>1, RunsType, FlattenEmpty

LEMMA TagsType ==
    ASSUME NEW s \in Seq(Samples)
    PROVE  /\ Tags(s) \in Seq(Nat) /\ Len(Tags(s)) = Len(s)
           /\ \A i \in 1 .. Len(s) : Tags(s)[i] = s[i].tag
<1>1. ASSUME NEW i \in 1 .. Len(s) PROVE s[i].tag \in Nat
  <2>1. s[i] \in Samples
    OBVIOUS
  <2> QED
    BY <2>1 DEF Samples
<1> QED
  BY <1>1 DEF Tags

LEMMA TagsConcat ==
    ASSUME NEW s \in Seq(Samples), NEW t \in Seq(Samples)
    PROVE  Tags(s \o t) = Tags(s) \o Tags(t)
<1>1. PICK u \in Seq(Samples) : u = s \o t
  BY Joined, Zenon
<1>2. /\ Len(u) = Len(s) + Len(t)
      /\ \A i \in 1 .. Len(s) : u[i] = s[i]
      /\ \A i \in 1 .. Len(t) : u[Len(s) + i] = t[i]
  BY <1>1, ConcatIs
<1>3. PICK a \in Seq(Nat) : a = Tags(s) /\ Len(a) = Len(s) /\ \A i \in 1 .. Len(s) : a[i] = s[i].tag
  BY TagsType, Zenon
<1>4. PICK b \in Seq(Nat) : b = Tags(t) /\ Len(b) = Len(t) /\ \A i \in 1 .. Len(t) : b[i] = t[i].tag
  BY TagsType, Zenon
<1>5. PICK c \in Seq(Nat) : c = Tags(u) /\ Len(c) = Len(u) /\ \A i \in 1 .. Len(u) : c[i] = u[i].tag
  BY TagsType, Zenon
<1>6. /\ Len(c) = Len(a) + Len(b)
      /\ \A i \in 1 .. Len(a) : c[i] = a[i]
      /\ \A i \in 1 .. Len(b) : c[Len(a) + i] = b[i]
  <2>1. Len(c) = Len(a) + Len(b)
    BY <1>2, <1>3, <1>4, <1>5
  <2>2. ASSUME NEW i \in 1 .. Len(a) PROVE c[i] = a[i]
    <3>1. i \in 1 .. Len(s) /\ i \in 1 .. Len(u)
      BY <1>2, <1>3
    <3>2. u[i] = s[i]
      BY <1>2, <3>1
    <3> QED
      BY <1>3, <1>5, <3>1, <3>2, Zenon
  <2>3. ASSUME NEW i \in 1 .. Len(b) PROVE c[Len(a) + i] = b[i]
    <3>1. i \in 1 .. Len(t) /\ Len(s) + i \in 1 .. Len(u) /\ Len(a) = Len(s)
      BY <1>2, <1>3, <1>4
    <3>2. u[Len(s) + i] = t[i]
      BY <1>2, <3>1
    <3> QED
      BY <1>4, <1>5, <3>1, <3>2, Zenon
  <2> QED
    BY <2>1, <2>2, <2>3
<1>7. c = a \o b
  BY <1>6, ConcatOnly
<1> QED
  BY <1>1, <1>3, <1>4, <1>5, <1>7, Zenon

\* A span without its first few samples.
LEMMA RunCut ==
    ASSUME NEW s \in Spans, NEW used \in Nat, used < s.n,
           NEW m, m = [s EXCEPT !.n = @ - used]
    PROVE  /\ m \in Spans
           /\ \E v \in Seq(Nat) : Len(v) = used /\ Run(s) = v \o Run(m)
<1>1. m \in Spans /\ m.n = s.n - used /\ m.tag = s.tag /\ s.n \in Nat /\ s.tag \in Nat
  <2>1. s.n - used \in Nat \ {0} /\ s.n \in Nat /\ s.tag \in Nat
    BY DEF Spans
  <2>2. m = [tag |-> s.tag, n |-> s.n - used]
    BY DEF Spans
  <2> QED
    BY <2>1, <2>2 DEF Spans
<1>2. PICK v : v = [i \in 1 .. used |-> s.tag]
  OBVIOUS
<1>3. v \in Seq(Nat) /\ Len(v) = used
  <2>1. PICK c \in Nat : c = s.tag
    BY <1>1, Zenon
  <2>2. v = [i \in 1 .. used |-> c]
    BY <1>2, <2>1, Zenon
  <2> HIDE <1>2
  <2> QED
    BY <2>2
<1>4. PICK g \in Seq(Nat) : g = Run(s) /\ Len(g) = s.n
  BY RunType, Zenon
<1>5. PICK h \in Seq(Nat) : h = Run(m) /\ Len(h) = m.n
  BY <1>1, RunType, Zenon
<1>6. \A i \in 1 .. s.n : g[i] = s.tag
  BY <1>1, <1>4 DEF Run
<1>7. \A i \in 1 .. m.n : h[i] = s.tag
  BY <1>1, <1>5 DEF Run
<1>8. \A i \in 1 .. Len(v) : g[i] = v[i]
  <2>1. ASSUME NEW i \in 1 .. Len(v) PROVE g[i] = v[i]
    <3>1. i \in 1 .. used /\ i \in 1 .. s.n
      BY <1>1, <1>3
    <3> QED
      BY <1>2, <1>6, <3>1
  <2> QED
    BY <2>1
<1>9. \A i \in 1 .. Len(h) : g[Len(v) + i] = h[i]
  <2>1. ASSUME NEW i \in 1 .. Len(h) PROVE g[Len(v) + i] = h[i]
    <3>1. i \in 1 .. m.n /\ Len(v) + i \in 1 .. s.n
      BY <1>1, <1>3, <1>5
    <3> QED
      BY <1>6, <1>7, <3>1, Zenon
  <2> QED
    BY <2>1
<1>10. Len(g) = Len(v) + Len(h)
  BY <1>1, <1>3, <1>4, <1>5
<1>11. g = v \o h
  BY <1>3, <1>8, <1>9, <1>10, ConcatOnly
<1> QED
  BY <1>1, <1>3, <1>4, <1>5, <1>11, Zenon

\* A sequence around one of its elements.
Around(s, k, S) ==
    LET p == SubSeq(s, 1, k)
        r == SubSeq(s, k + 2, Len(s))
    IN /\ s[k + 1] \in S /\ r \in Seq(S) /\ <<s[k + 1]>> \in Seq(S)
       /\ p \o <<s[k + 1]>> = SubSeq(s, 1, k + 1)
       /\ p \o <<s[k + 1]>> \in Seq(S)
       /\ s = (p \o <<s[k + 1]>>) \o r

LEMMA CutAround ==
    ASSUME NEW S, NEW s \in Seq(S), NEW k \in 0 .. Len(s) - 1
    PROVE  Around(s, k, S)
<1>1. /\ 0 + 1 = 1 /\ (k + 1) + 1 = k + 2
      /\ 0 \in 0 .. Len(s) /\ k \in 0 .. Len(s) /\ k + 1 \in k .. Len(s)
      /\ k + 1 \in 0 .. Len(s) /\ Len(s) \in k + 1 .. Len(s)
  OBVIOUS
<1>2. SubSeq(s, k + 1, k + 1) = <<s[k + 1]>> /\ s[k + 1] \in S /\ <<s[k + 1]>> \in Seq(S)
  <2>1. s[k + 1] \in S
    OBVIOUS
  <2>2. PICK c : c = SubSeq(s, k + 1, k + 1)
    OBVIOUS
  <2>3. c \in Seq(S) /\ Len(c) = 1 /\ c[1] = s[k + 1]
    <3>1. k + 1 \in k .. Len(s) /\ k \in 0 .. Len(s) /\ (k + 1) - k = 1 /\ 1 \in 1 .. 1
      OBVIOUS
    <3> QED
      BY <2>2, <3>1, CutType
  <2>4. <<s[k + 1]>> \in Seq(S) /\ Len(<<s[k + 1]>>) = 1 /\ <<s[k + 1]>>[1] = s[k + 1]
    BY <2>1
  <2>5. c = <<s[k + 1]>>
    BY <2>3, <2>4, SeqEqual
  <2> QED
    BY <2>1, <2>2, <2>4, <2>5
<1>3. SubSeq(s, 0 + 1, k) \o SubSeq(s, k + 1, k + 1) = SubSeq(s, 0 + 1, k + 1)
  BY <1>1, CutTwice
<1>4. /\ SubSeq(s, 1, k + 1) \in Seq(S) /\ SubSeq(s, (k + 1) + 1, Len(s)) \in Seq(S)
      /\ s = SubSeq(s, 1, k + 1) \o SubSeq(s, (k + 1) + 1, Len(s))
  BY <1>1, CutInTwo
<1> QED
  BY <1>1, <1>2, <1>3, <1>4, Zenon DEF Around

\* The spans that are left stand for what is left.
LEMMA ConsumeIs ==
    ASSUME spans \in Seq(Spans), NEW n \in Nat, n <= Len(TagsOf(spans))
    PROVE  /\ Consume(n) \in Seq(Spans)
           /\ \E x \in Seq(Nat) : Len(x) = n /\ TagsOf(spans) = x \o TagsOf(Consume(n))
<1> DEFINE U == {k \in 0 .. Len(spans) : Len(TagsOf(SubSeq(spans, 1, k))) <= n}
<1>1. Len(spans) \in Nat /\ TagsOf(spans) \in Seq(Nat) /\ Len(TagsOf(spans)) \in Nat
  BY RunsType
<1>2. 0 \in U
  <2>1. SubSeq(spans, 1, 0) = <<>> /\ Len(<<>>) = 0
    OBVIOUS
  <2> QED
    <3>1. Len(TagsOf(SubSeq(spans, 1, 0))) <= n
      <4>1. TagsOf(SubSeq(spans, 1, 0)) = <<>>
        BY <2>1, TagsOfNone, Zenon
      <4> QED
        BY <2>1, <4>1
    <3> QED
      BY <1>1, <3>1
<1>3. PICK k : k = UsedUp(n)
  OBVIOUS
<1>4. k \in U /\ \A l \in U : l <= k
  <2>1. U \subseteq 0 .. Len(spans) /\ U # {}
    BY <1>2
  <2>2. Max(U) \in U /\ \A l \in U : l <= Max(U)
    BY <1>1, <2>1, MaxIs
  <2> QED
    BY <1>3, <2>2, Zenon DEF UsedUp
<1>5. k \in 0 .. Len(spans)
  BY <1>4
<1>6. PICK p \in Seq(Spans) : p = SubSeq(spans, 1, k)
  BY <1>5, CutInTwo, Zenon
<1>7. PICK t \in Seq(Nat) : t = TagsOf(p)
  BY RunsType, Zenon
<1>8. Len(t) <= n /\ Len(t) \in Nat
  BY <1>4, <1>6, <1>7
<1> HIDE DEF U
<1>9. Consume(n) = IF k = Len(spans) THEN <<>>
                   ELSE <<[spans[k + 1] EXCEPT !.n = @ - (n - Len(t))]>>
                          \o SubSeq(spans, k + 2, Len(spans))
  BY <1>3, <1>6, <1>7, Zenon DEF Consume
<1>10. CASE k = Len(spans)
  <2>1. p = spans
    BY <1>6, <1>10, CutAll
  <2>2. Len(t) = n
    BY <1>7, <1>8, <2>1
  <2>3. t = t \o <<>> /\ <<>> \in Seq(Spans)
    OBVIOUS
  <2> QED
    BY <1>7, <1>9, <1>10, <2>1, <2>2, <2>3, TagsOfNone
<1>11. CASE k # Len(spans)
  <2>1. k \in 0 .. Len(spans) - 1
    BY <1>5, <1>11
  <2>2. PICK s : s = spans[k + 1]
    OBVIOUS
  <2>3. PICK r : r = SubSeq(spans, k + 2, Len(spans))
    OBVIOUS
  <2>4. /\ s \in Spans /\ r \in Seq(Spans) /\ <<s>> \in Seq(Spans)
        /\ p \o <<s>> = SubSeq(spans, 1, k + 1) /\ p \o <<s>> \in Seq(Spans)
        /\ spans = (p \o <<s>>) \o r
    <3>1. Around(spans, k, Spans)
      BY <2>1, CutAround
    <3> QED
      BY <1>6, <2>2, <2>3, <3>1, Zenon DEF Around
  <2>5. PICK u \in Seq(Nat) : u = TagsOf(r)
    BY <2>4, RunsType, Zenon
  <2>6. PICK g \in Seq(Nat) : g = Run(s) /\ Len(g) = s.n
    BY <2>4, RunType, Zenon
  <2>7. TagsOf(p \o <<s>>) = t \o g /\ TagsOf(spans) = (t \o g) \o u
    <3>1. TagsOf(<<s>>) = Run(s)
      BY <2>4, TagsOfOne
    <3>2. TagsOf(p \o <<s>>) = TagsOf(p) \o TagsOf(<<s>>)
      BY <2>4, TagsOfConcat
    <3>3. TagsOf((p \o <<s>>) \o r) = TagsOf(p \o <<s>>) \o TagsOf(r)
      BY <2>4, TagsOfConcat
    <3> QED
      BY <1>7, <2>4, <2>5, <2>6, <3>1, <3>2, <3>3, Zenon
  <2>8. PICK used : used = n - Len(t)
    OBVIOUS
  <2>9. used \in Nat /\ used < s.n
    <3>1. k + 1 \in 0 .. Len(spans) /\ ~ (k + 1 <= k)
      BY <2>1
    <3>2. ~ (Len(TagsOf(SubSeq(spans, 1, k + 1))) <= n)
      BY <1>4, <3>1 DEF U
    <3>3. Len(t \o g) = Len(t) + Len(g)
      BY ConcatIs, Zenon
    <3>4. ~ (Len(t) + s.n <= n)
      BY <2>4, <2>6, <2>7, <3>2, <3>3, Zenon
    <3>5. s.n \in Nat
      BY <2>4 DEF Spans
    <3> QED
      BY <1>8, <2>8, <3>4, <3>5
  <2>10. PICK m : m = [s EXCEPT !.n = @ - used]
    OBVIOUS
  <2>11. m \in Spans
    BY <2>4, <2>9, <2>10, RunCut
  <2>12. PICK v \in Seq(Nat) : Len(v) = used /\ Run(s) = v \o Run(m)
    BY <2>4, <2>9, <2>10, RunCut
  <2>14. PICK w \in Seq(Nat) : w = Run(m)
    BY <2>11, RunType, Zenon
  <2>15. (t \o (v \o w)) \o u = (t \o v) \o (w \o u)
    <3>1. Groups(t, v, w, u)
      BY Grouped, Zenon
    <3> QED
      BY <3>1, Zenon DEF Groups
  <2>16. Consume(n) = <<m>> \o r
    BY <1>9, <1>11, <2>2, <2>3, <2>8, <2>10, Zenon
  <2>17. <<m>> \in Seq(Spans) /\ TagsOf(<<m>> \o r) = w \o u
    <3>1. <<m>> \in Seq(Spans) /\ TagsOf(<<m>>) = Run(m)
      BY <2>11, TagsOfOne
    <3>2. TagsOf(<<m>> \o r) = TagsOf(<<m>>) \o TagsOf(r)
      BY <2>4, <3>1, TagsOfConcat
    <3> QED
      BY <2>5, <2>14, <3>1, <3>2, Zenon
  <2>18. <<m>> \o r \in Seq(Spans)
    BY <2>4, <2>17, Joined, Zenon
  <2>19. t \o v \in Seq(Nat) /\ Len(t \o v) = n
    <3>1. t \o v \in Seq(Nat) /\ Len(t \o v) = Len(t) + Len(v)
      BY ConcatIs
    <3> QED
      BY <1>8, <2>8, <2>12, <3>1
  <2>20. TagsOf(spans) = (t \o v) \o TagsOf(Consume(n))
    BY <2>6, <2>7, <2>12, <2>14, <2>15, <2>16, <2>17, Zenon
  <2> QED
    BY <2>16, <2>18, <2>19, <2>20, Zenon
<1> QED
  BY <1>10, <1>11

\* The first span has the tag of the first sample.
LEMMA FirstTag ==
    ASSUME NEW list \in Seq(Spans), NEW held \in Seq(Samples), Len(held) # 0,
           TagsOf(list) = Tags(held)
    PROVE  list # <<>> /\ list[1].tag = held[1].tag
<1>1. PICK t \in Seq(Nat) : t = Tags(held) /\ Len(t) = Len(held) /\ t[1] = held[1].tag
  <2>1. /\ Tags(held) \in Seq(Nat) /\ Len(Tags(held)) = Len(held)
        /\ \A i \in 1 .. Len(held) : Tags(held)[i] = held[i].tag
    BY TagsType, Zenon
  <2>2. 1 \in 1 .. Len(held)
    OBVIOUS
  <2>3. Tags(held)[1] = held[1].tag
    BY <2>1, <2>2, Zenon
  <2> QED
    BY <2>1, <2>3, Zenon
<1>2. list # <<>>
  BY <1>1, TagsOfNone
<1>3. 0 \in 0 .. Len(list) - 1
  BY <1>2
<1>4. Around(list, 0, Spans)
  BY <1>3, CutAround
<1>5. PICK p : p = list[1]
  OBVIOUS
<1>6. PICK r : r = SubSeq(list, 2, Len(list))
  OBVIOUS
<1>7. p \in Spans /\ <<p>> \in Seq(Spans) /\ r \in Seq(Spans) /\ list = <<p>> \o r
  <2>1. 0 + 1 = 1 /\ 0 + 2 = 2 /\ SubSeq(list, 1, 0) = <<>>
    OBVIOUS
  <2>2. /\ p \in Spans /\ <<p>> \in Seq(Spans) /\ r \in Seq(Spans)
        /\ list = (<<>> \o <<p>>) \o r
    BY <1>4, <1>5, <1>6, <2>1, Zenon DEF Around
  <2>3. <<>> \o <<p>> = <<p>>
    BY <2>2, ConcatEmpty
  <2> QED
    BY <2>2, <2>3, Zenon
<1>8. PICK g \in Seq(Nat) : g = Run(p) /\ Len(g) = p.n /\ p.n \in Nat \ {0}
  BY <1>7, RunType, Zenon
<1>9. PICK u \in Seq(Nat) : u = TagsOf(r)
  BY <1>7, RunsType, Zenon
<1>10. t = g \o u
  <2>1. TagsOf(<<p>>) = Run(p)
    BY <1>7, TagsOfOne
  <2>2. TagsOf(<<p>> \o r) = TagsOf(<<p>>) \o TagsOf(r)
    BY <1>7, TagsOfConcat
  <2> QED
    BY <1>1, <1>7, <1>8, <1>9, <2>1, <2>2, Zenon
<1>11. Joins(g \o u, g, u)
  BY ConcatJoins, Zenon
<1>12. 1 \in 1 .. Len(g) /\ g[1] = p.tag
  BY <1>8 DEF Run
<1>13. t[1] = p.tag
  BY <1>10, <1>11, <1>12, Zenon DEF Joins
<1> QED
  BY <1>1, <1>2, <1>5, <1>13

\* A pushed frame has one tag, and its span stands for it.
Uniform == {s \in Seq(Samples) : Len(s) # 0 /\ \A k \in 1 .. Len(s) : s[k].tag = s[1].tag}

SpansOf(q) == [k \in DOMAIN q |-> SpanOf(q[k])]

LEMMA SpanOfFrame ==
    ASSUME NEW s \in Uniform
    PROVE  SpanOf(s) \in Spans /\ Run(SpanOf(s)) = Tags(s)
<1>1. s \in Seq(Samples) /\ Len(s) \in Nat \ {0} /\ \A k \in 1 .. Len(s) : s[k].tag = s[1].tag
  BY DEF Uniform
<1>2. s[1] \in Samples
  BY <1>1
<1>3. s[1].tag \in Nat \ {0}
  BY <1>2 DEF Samples
<1>4. SpanOf(s).tag = s[1].tag /\ SpanOf(s).n = Len(s)
  BY DEF SpanOf
<1>5. SpanOf(s) \in Spans
  BY <1>1, <1>3 DEF SpanOf, Spans
<1>6. DOMAIN s = 1 .. Len(s)
  BY <1>1
<1>7. [k \in 1 .. Len(s) |-> s[1].tag] = [k \in 1 .. Len(s) |-> s[k].tag]
  BY <1>1
<1> QED
  BY <1>4, <1>5, <1>6, <1>7, Zenon DEF Run, Tags

LEMMA SpansOfFrames ==
    \A q \in Seq(Uniform) :
        /\ FlattenSeq(q) \in Seq(Samples)
        /\ SpansOf(q) \in Seq(Spans)
        /\ TagsOf(SpansOf(q)) = Tags(FlattenSeq(q))
<1> DEFINE P == {q \in Seq(Uniform) : /\ FlattenSeq(q) \in Seq(Samples)
                                      /\ SpansOf(q) \in Seq(Spans)
                                      /\ TagsOf(SpansOf(q)) = Tags(FlattenSeq(q))}
<1>1. <<>> \in P
  <2>1. <<>> \in Seq(Uniform) /\ <<>> \in Seq(Samples) /\ <<>> \in Seq(Spans)
    OBVIOUS
  <2>2. SpansOf(<<>>) = <<>> /\ Tags(<<>>) = <<>>
    BY DEF SpansOf, Tags
  <2> QED
    BY <2>1, <2>2, FlattenEmpty, TagsOfNone, Zenon
<1>2. ASSUME NEW q \in Seq(Uniform), NEW e \in Uniform, q \in P PROVE Append(q, e) \in P
  <2>1. e \in Seq(Samples) /\ q \in Seq(Seq(Samples)) /\ Append(q, e) \in Seq(Uniform)
    BY DEF Uniform
  <2>2. PICK f \in Seq(Samples) : f = FlattenSeq(q)
    BY <1>2, Zenon
  <2>3. PICK l \in Seq(Spans) : l = SpansOf(q)
    BY <1>2, Zenon
  <2>4. FlattenSeq(Append(q, e)) = f \o e
    BY <2>1, <2>2, FlattenAppend
  <2>5. PICK x : x = SpanOf(e)
    OBVIOUS
  <2>6. x \in Spans /\ Run(x) = Tags(e)
    BY <2>5, SpanOfFrame
  <2>7. SpansOf(Append(q, e)) = l \o <<x>>
    <3>1. SpansOf(Append(q, e)) = Append(SpansOf(q), SpanOf(e))
      BY DEF SpansOf
    <3>2. Append(l, x) = l \o <<x>>
      BY <2>6
    <3> QED
      BY <2>3, <2>5, <3>1, <3>2, Zenon
  <2>8. <<x>> \in Seq(Spans) /\ TagsOf(<<x>>) = Run(x)
    BY <2>6, TagsOfOne
  <2>9. TagsOf(l \o <<x>>) = TagsOf(l) \o TagsOf(<<x>>)
    BY <2>8, TagsOfConcat
  <2>10. TagsOf(l) = Tags(f)
    BY <1>2, <2>2, <2>3, Zenon
  <2>11. Tags(f \o e) = Tags(f) \o Tags(e)
    BY <2>1, TagsConcat
  <2>12. f \o e \in Seq(Samples) /\ l \o <<x>> \in Seq(Spans)
    BY <2>1, <2>8, Joined, Zenon
  <2>13. TagsOf(SpansOf(Append(q, e))) = Tags(FlattenSeq(Append(q, e)))
    BY <2>4, <2>6, <2>7, <2>8, <2>9, <2>10, <2>11, Zenon
  <2> QED
    BY <2>1, <2>4, <2>7, <2>12, <2>13, Zenon
<1> HIDE DEF P
<1>3. Seq(Uniform) \subseteq P
  BY <1>1, <1>2, SeqInduction
<1> QED
  BY <1>3 DEF P

-----------------------------------------------------------------------------
(* The spans stand for the samples held.                                   *)

TagInv ==
    /\ spans \in Seq(Spans)
    /\ queue \in Seq(Uniform)
    /\ TagsOf(spans) = Tags(Held)

LEMMA TagInit == Init => TagInv
<1> SUFFICES ASSUME Init PROVE TagInv
  OBVIOUS
<1>1. <<>> \in Seq(Spans) /\ <<>> \in Seq(Uniform)
  OBVIOUS
<1>2. Held = <<>>
  BY DEF Init, Held
<1>3. Tags(<<>>) = <<>>
  BY DEF Tags
<1> QED
  BY <1>1, <1>2, <1>3, TagsOfNone, Zenon DEF Init, TagInv

LEMMA TagPush ==
    ASSUME StreamInv, TagInv, NEW n \in PushLengths, Push(n)
    PROVE  TagInv'
<1>1. taken \in Seq(Samples)
  BY DEF StreamInv, StreamTypes
<1>2. Pushed(n) \in Seq(Samples) /\ Len(Pushed(n)) = n /\ n \in Nat \ {0}
  BY <1>1, PushedType
<1>3. \A k \in 1 .. n : Pushed(n)[k].tag = NextTag
  BY <1>2 DEF Pushed
<1>4. Pushed(n) \in Uniform
  BY <1>2, <1>3 DEF Uniform
<1>5. queue' = Append(queue, Pushed(n)) /\ spans' = spans /\ accum' = accum /\ off' = off
  BY Zenon DEF Push, Pushed, cursor
<1>6. queue \in Seq(Uniform)
  BY DEF TagInv
<1>7. queue' \in Seq(Uniform)
  BY <1>4, <1>5, <1>6
<1> QED
  BY <1>5, <1>7, Zenon DEF TagInv, Held

LEMMA TagDrain ==
    ASSUME StreamInv, TagInv, DrainInto
    PROVE  TagInv'
<1>1. /\ queue \in Seq(Seq(Samples)) /\ accum \in Seq(Samples) /\ off = 0
      /\ queue \in Seq(Uniform) /\ spans \in Seq(Spans)
  BY DEF StreamInv, StreamTypes, CountsAgree, DrainInto, TagInv
<1>2. PICK n \in Nat : n = Drained /\ n <= Len(queue)
  BY <1>1, DrainedType, Zenon
<1>3. PICK l : l = SubSeq(queue, 1, n)
  OBVIOUS
<1>4. PICK r : r = SubSeq(queue, n + 1, Len(queue))
  OBVIOUS
<1>5. l \in Seq(Uniform) /\ r \in Seq(Uniform)
  <2>1. n \in 0 .. Len(queue)
    BY <1>1, <1>2
  <2> QED
    BY <1>1, <1>3, <1>4, <2>1, CutInTwo
<1>6. /\ queue' = r /\ accum' = accum \o FlattenSeq(l) /\ off' = off
      /\ spans' = spans \o SpansOf(l)
  BY <1>2, <1>3, <1>4, Zenon DEF DrainInto, SpansOf
<1>7. PICK f \in Seq(Samples) : f = FlattenSeq(l)
  BY <1>5, SpansOfFrames, Zenon
<1>8. PICK m \in Seq(Spans) : m = SpansOf(l)
  BY <1>5, SpansOfFrames, Zenon
<1>9. TagsOf(m) = Tags(f)
  BY <1>5, <1>7, <1>8, SpansOfFrames, Zenon
<1>10. accum \o f \in Seq(Samples) /\ spans \o m \in Seq(Spans)
  BY <1>1, Joined, Zenon
<1>11. Held = accum
  BY <1>1, CutAll DEF Held
<1>12. Held' = accum \o f
  <2>1. SubSeq(accum', 0 + 1, Len(accum')) = accum'
    BY <1>6, <1>7, <1>10, CutAll
  <2> QED
    BY <1>1, <1>6, <1>7, <2>1, Zenon DEF Held
<1>13. Tags(accum \o f) = Tags(accum) \o Tags(f)
  BY <1>1, TagsConcat
<1>14. TagsOf(spans \o m) = TagsOf(spans) \o TagsOf(m)
  BY <1>1, TagsOfConcat
<1>15. TagsOf(spans') = Tags(Held')
  BY <1>6, <1>8, <1>9, <1>11, <1>12, <1>13, <1>14, Zenon DEF TagInv
<1> QED
  BY <1>5, <1>6, <1>8, <1>10, <1>15, Zenon DEF TagInv

\* What a frame takes: n samples off the head of what is held.
LEMMA FrameCut ==
    ASSUME StreamInv, ProcessFrame
    PROVE  /\ FrameSamples \in Nat \ {0}
           /\ \E f \in Seq(Samples), h \in Seq(Samples) :
                 /\ Len(f) = FrameSamples
                 /\ fed' = fed \o f /\ Held' = h /\ Held = f \o h
<1>1. /\ accum \in Seq(Samples) /\ off \in 0 .. Len(accum)
      /\ FrameSamples \in Nat \ {0} /\ FrameSamples <= Len(accum) - off
  BY CaptureAssumption DEF ProcessFrame, More, StreamInv, StreamTypes, CountsAgree
<1>2. PICK f : f = SubSeq(accum, off + 1, off + FrameSamples)
  OBVIOUS
<1>3. PICK h : h = SubSeq(accum, (off + FrameSamples) + 1, Len(accum))
  OBVIOUS
<1>4. f \in Seq(Samples) /\ h \in Seq(Samples) /\ Held = f \o h
  BY <1>1, <1>2, <1>3, HeldPassed
<1>5. Len(f) = FrameSamples
  <2>1. off + FrameSamples \in off .. Len(accum) /\ (off + FrameSamples) - off = FrameSamples
    BY <1>1
  <2>2. Len(SubSeq(accum, off + 1, off + FrameSamples)) = (off + FrameSamples) - off
    BY <1>1, <2>1, CutType
  <2> QED
    BY <1>2, <2>1, <2>2, Zenon
<1>6. fed' = fed \o f /\ off' = off + FrameSamples /\ accum' = accum
  BY <1>2, Zenon DEF ProcessFrame
<1>7. Held' = h
  BY <1>3, <1>6, Zenon DEF Held
<1> QED
  BY <1>1, <1>4, <1>5, <1>6, <1>7, Zenon

LEMMA TagProcess ==
    ASSUME StreamInv, TagInv, ProcessFrame
    PROVE  TagInv'
<1>1. FrameSamples \in Nat
  BY FrameCut
<1>2. PICK f \in Seq(Samples), h \in Seq(Samples) :
         Len(f) = FrameSamples /\ fed' = fed \o f /\ Held' = h /\ Held = f \o h
  BY FrameCut, Zenon
<1>3. spans \in Seq(Spans) /\ TagsOf(spans) = Tags(Held)
  BY DEF TagInv
<1>4. PICK a \in Seq(Nat) : a = Tags(f) /\ Len(a) = FrameSamples
  BY <1>2, TagsType, Zenon
<1>5. PICK b \in Seq(Nat) : b = Tags(h)
  BY TagsType, Zenon
<1>6. TagsOf(spans) = a \o b
  <2>1. Tags(f \o h) = Tags(f) \o Tags(h)
    BY TagsConcat
  <2> QED
    BY <1>2, <1>3, <1>4, <1>5, <2>1, Zenon
<1>7. FrameSamples <= Len(TagsOf(spans))
  <2>1. Len(a \o b) = Len(a) + Len(b) /\ Len(b) \in Nat
    BY ConcatIs
  <2> QED
    BY <1>1, <1>4, <1>6, <2>1
<1>8. Consume(FrameSamples) \in Seq(Spans)
  BY <1>1, <1>3, <1>7, ConsumeIs
<1>9. PICK x \in Seq(Nat) :
        Len(x) = FrameSamples /\ TagsOf(spans) = x \o TagsOf(Consume(FrameSamples))
  BY <1>1, <1>3, <1>7, ConsumeIs, Zenon
<1>10. PICK c \in Seq(Nat) : c = TagsOf(Consume(FrameSamples))
  BY <1>8, RunsType, Zenon
<1>11. b = c
  <2>1. a \o b = x \o c /\ Len(a) = Len(x)
    BY <1>4, <1>6, <1>9, <1>10, Zenon
  <2> QED
    BY <2>1, ConcatCancel
<1>12. spans' = Consume(FrameSamples) /\ queue' = queue
  BY DEF ProcessFrame, producer
<1> QED
  BY <1>2, <1>5, <1>8, <1>10, <1>11, <1>12, Zenon DEF TagInv

LEMMA TagTickEnds ==
    ASSUME StreamInv, TagInv, TickEnds
    PROVE  TagInv'
<1>1. Held \in Seq(Samples)
  BY HeldType
<1>2. accum' = Held /\ off' = 0 /\ queue' = queue /\ spans' = spans
  BY DEF TickEnds, Rest, Held, producer
<1>3. Held' = Held
  <2>1. SubSeq(accum', 0 + 1, Len(accum')) = accum'
    BY <1>1, <1>2, CutAll
  <2> QED
    BY <1>2, <2>1, Zenon DEF Held
<1> QED
  BY <1>2, <1>3, Zenon DEF TagInv

LEMMA TagStays ==
    ASSUME TagInv, UNCHANGED vars
    PROVE  TagInv'
BY Zenon DEF vars, producer, cursor, speech, TagInv, Held

LEMMA TagStep == StreamInv /\ TagInv /\ [Next]_vars => TagInv'
<1> SUFFICES ASSUME StreamInv, TagInv, [Next]_vars PROVE TagInv'
  OBVIOUS
<1>1. CASE \E n \in PushLengths : Push(n)
  BY <1>1, TagPush
<1>2. CASE \E n \in PushLengths : PushOverflow(n)
  BY <1>2, TagStays DEF PushOverflow
<1>3. CASE DrainInto
  BY <1>3, TagDrain
<1>4. CASE ProcessFrame
  BY <1>4, TagProcess
<1>5. CASE TickEnds
  BY <1>5, TagTickEnds
<1>6. CASE UNCHANGED vars
  BY <1>6, TagStays
<1> QED
  BY <1>1, <1>2, <1>3, <1>4, <1>5, <1>6 DEF Next

LEMMA TagAlways == Spec => []TagInv
BY TagInit, TagStep, StreamAlways, PTL DEF Spec

-----------------------------------------------------------------------------
(* The events of utterances, as a chain of neighbours.                     *)

BackDate == IF LeadInFrames = 0 THEN 0 ELSE TagsPerFrame

\* What may follow what.
Follows(a, b) ==
    /\ a.kind = "stop" <=> b.kind = "start"
    /\ b.kind = "silence" => a.kind \in {"start", "silence"}
    /\ b.kind = "audio" =>
         IF a.kind = "audio" THEN b.frame = a.frame + 1 ELSE a.tag = Clamp(b.tag - BackDate)
    /\ a.kind = "start" /\ b.kind # "stop" => b.tag = a.tag

Chain(s) == \A i \in 1 .. Len(s) - 1 : Follows(s[i], s[i + 1])

\* Every start has its lead-in, and no more than that.
LedIn(s, i) ==
    /\ i + LeadInFrames <= Len(s)
    /\ \A k \in 1 .. LeadInFrames : s[i + k].kind = "silence"
    /\ i + LeadInFrames + 1 <= Len(s) => s[i + LeadInFrames + 1].kind # "silence"

Leads(s) == \A i \in 1 .. Len(s) : s[i].kind = "start" => LedIn(s, i)

Begins(s) == s # <<>> => s[1].kind = "start"

LEMMA UtterancesHold ==
    ASSUME sent \in Seq(Events), Chain(sent), Leads(sent), Begins(sent)
    PROVE  Utterances
<1> USE CaptureAssumption
<1>0. DOMAIN sent = 1 .. Len(sent) /\ Len(sent) \in Nat
  OBVIOUS
<1> SUFFICES ASSUME NEW i \in 1 .. Len(sent)
    PROVE /\ i = 1 => Is(1, "start")
          /\ Is(i, "start") =>
               /\ i > 1 => Is(i - 1, "stop")
               /\ \A k \in 1 .. LeadInFrames : Is(i + k, "silence")
               /\ ~Is(i + LeadInFrames + 1, "silence")
               /\ i < Len(sent) /\ ~Is(i + 1, "stop") => sent[i + 1].tag = sent[i].tag
          /\ Is(i, "silence") => Is(i - 1, "start") \/ Is(i - 1, "silence")
          /\ Is(i, "audio") => ~Is(i - 1, "stop")
          /\ Is(i, "audio") /\ ~Is(i - 1, "audio") =>
               sent[i - 1].tag = Clamp(sent[i].tag - (IF LeadInFrames = 0 THEN 0 ELSE TagsPerFrame))
          /\ Is(i, "audio") /\ Is(i - 1, "audio") => sent[i].frame = sent[i - 1].frame + 1
          /\ Is(i, "stop") /\ i < Len(sent) => Is(i + 1, "start")
  BY <1>0, Zenon DEF Utterances
<1>1. \A j \in Int, kind \in STRING : Is(j, kind) <=> (j \in 1 .. Len(sent) /\ sent[j].kind = kind)
  BY <1>0, Zenon DEF Is
<1>2. i = 1 => sent[i].kind = "start"
  BY DEF Begins
<1>3. i # 1 => i - 1 \in 1 .. Len(sent) /\ Follows(sent[i - 1], sent[i])
  <2>1. i # 1 => i - 1 \in 1 .. Len(sent) - 1 /\ (i - 1) + 1 = i
    BY <1>0
  <2> QED
    BY <2>1 DEF Chain
<1>4. i < Len(sent) => i + 1 \in 1 .. Len(sent) /\ Follows(sent[i], sent[i + 1])
  BY <1>0 DEF Chain
<1>5. sent[i].kind = "start" => LedIn(sent, i)
  BY DEF Leads
<1>6. i = 1 => Is(1, "start")
  BY <1>0, <1>2 DEF Is
<1>7. ASSUME Is(i, "start")
      PROVE  /\ i > 1 => Is(i - 1, "stop")
             /\ \A k \in 1 .. LeadInFrames : Is(i + k, "silence")
             /\ ~Is(i + LeadInFrames + 1, "silence")
             /\ i < Len(sent) /\ ~Is(i + 1, "stop") => sent[i + 1].tag = sent[i].tag
  <2>1. sent[i].kind = "start" /\ LedIn(sent, i)
    BY <1>5, <1>7 DEF Is
  <2>2. i > 1 => Is(i - 1, "stop")
    BY <1>0, <1>3, <2>1 DEF Follows, Is
  <2>3. ASSUME NEW k \in 1 .. LeadInFrames PROVE Is(i + k, "silence")
    <3>1. i + LeadInFrames <= Len(sent) /\ sent[i + k].kind = "silence"
      BY <2>1, Zenon DEF LedIn
    <3>2. i + k \in 1 .. Len(sent)
      BY <1>0, <3>1
    <3> QED
      BY <1>0, <3>1, <3>2, Zenon DEF Is
  <2>4. ~Is(i + LeadInFrames + 1, "silence")
    BY <1>0, <2>1 DEF Is, LedIn
  <2>5. i < Len(sent) /\ ~Is(i + 1, "stop") => sent[i + 1].tag = sent[i].tag
    BY <1>0, <1>4, <2>1 DEF Is, Follows
  <2> QED
    BY <2>2, <2>3, <2>4, <2>5
<1>8. Is(i, "silence") => Is(i - 1, "start") \/ Is(i - 1, "silence")
  BY <1>0, <1>2, <1>3 DEF Is, Follows
<1>9. Is(i, "audio") => ~Is(i - 1, "stop")
  BY <1>0, <1>3 DEF Is, Follows
<1>10. Is(i, "audio") /\ ~Is(i - 1, "audio") =>
               sent[i - 1].tag = Clamp(sent[i].tag - (IF LeadInFrames = 0 THEN 0 ELSE TagsPerFrame))
  <2> SUFFICES ASSUME Is(i, "audio"), ~Is(i - 1, "audio")
               PROVE  sent[i - 1].tag = Clamp(sent[i].tag - BackDate)
    BY Zenon DEF BackDate
  <2>1. sent[i].kind = "audio" /\ i # 1
    BY <1>2 DEF Is
  <2>2. sent[i - 1].kind # "audio"
    BY <1>0, <1>3, <2>1, Zenon DEF Is
  <2> QED
    BY <1>3, <2>1, <2>2, Zenon DEF Follows
<1>11. Is(i, "audio") /\ Is(i - 1, "audio") => sent[i].frame = sent[i - 1].frame + 1
  <2>1. Is(i, "audio") /\ Is(i - 1, "audio") => i # 1
    BY <1>0 DEF Is
  <2> QED
    BY <1>3, <2>1, Zenon DEF Follows, Is
<1>12. Is(i, "stop") /\ i < Len(sent) => Is(i + 1, "start")
  BY <1>0, <1>4, Zenon DEF Follows, Is
<1> QED
  BY <1>6, <1>7, <1>8, <1>9, <1>10, <1>11, <1>12, Zenon

\* Events behind events.
LEMMA GrammarJoins ==
    ASSUME NEW s \in Seq(Events), NEW t \in Seq(Events), Len(t) # 0,
           Chain(s), Chain(t), Leads(s), Leads(t), Begins(s),
           IF s = <<>> THEN t[1].kind = "start" ELSE Follows(s[Len(s)], t[1]),
           t[1].kind # "silence"
    PROVE  Chain(s \o t) /\ Leads(s \o t) /\ Begins(s \o t)
<1> USE CaptureAssumption
<1>1. PICK u \in Seq(Events) : u = s \o t
  BY Joined, Zenon
<1>2. Joins(u, s, t)
  BY <1>1, ConcatJoins, Zenon
<1>3. Len(s) \in Nat /\ Len(t) \in Nat /\ Len(u) = Len(s) + Len(t) /\ 1 \in 1 .. Len(t)
  BY <1>2 DEF Joins
<1>4. /\ \A i \in 1 .. Len(s) : u[i] = s[i]
      /\ \A i \in 1 .. Len(t) : u[Len(s) + i] = t[i]
  BY <1>2, Zenon DEF Joins
<1>5. ASSUME NEW i \in 1 .. Len(u) - 1 PROVE Follows(u[i], u[i + 1])
  <2>1. CASE i < Len(s)
    <3>1. i \in 1 .. Len(s) - 1 /\ i \in 1 .. Len(s) /\ i + 1 \in 1 .. Len(s)
      BY <1>3, <2>1
    <3> QED
      BY <1>4, <3>1, Zenon DEF Chain
  <2>2. CASE i = Len(s)
    <3>1. i \in 1 .. Len(s) /\ s # <<>>
      BY <1>3, <2>2
    <3>2. u[i] = s[Len(s)] /\ u[i + 1] = t[1]
      BY <1>3, <1>4, <2>2, <3>1, Zenon
    <3> QED
      BY <3>1, <3>2, Zenon
  <2>3. CASE i > Len(s)
    <3>1. PICK k : k = i - Len(s)
      OBVIOUS
    <3>2. /\ k \in 1 .. Len(t) - 1 /\ k \in 1 .. Len(t) /\ k + 1 \in 1 .. Len(t)
          /\ i = Len(s) + k /\ i + 1 = Len(s) + (k + 1)
      BY <1>3, <2>3, <3>1
    <3>3. u[i] = t[k] /\ u[i + 1] = t[k + 1]
      BY <1>4, <3>2, Zenon
    <3> QED
      BY <3>2, <3>3, Zenon DEF Chain
  <2> QED
    BY <1>3, <2>1, <2>2, <2>3
<1>6. ASSUME NEW i \in 1 .. Len(u), u[i].kind = "start" PROVE LedIn(u, i)
  <2>1. CASE i <= Len(s)
    <3>1. i \in 1 .. Len(s) /\ s[i].kind = "start"
      BY <1>3, <1>4, <1>6, <2>1
    <3>2. LedIn(s, i)
      BY <3>1, Zenon DEF Leads
    <3>3. i + LeadInFrames <= Len(u)
      BY <1>3, <3>2 DEF LedIn
    <3>4. ASSUME NEW k \in 1 .. LeadInFrames PROVE u[i + k].kind = "silence"
      <4>1. i + LeadInFrames <= Len(s) /\ s[i + k].kind = "silence"
        BY <3>2, Zenon DEF LedIn
      <4>2. i + k \in 1 .. Len(s)
        BY <1>3, <3>1, <4>1
      <4> QED
        BY <1>4, <4>1, <4>2, Zenon
    <3>5. ASSUME i + LeadInFrames + 1 <= Len(u)
          PROVE  u[i + LeadInFrames + 1].kind # "silence"
      <4>1. CASE i + LeadInFrames + 1 <= Len(s)
        <5>1. i + LeadInFrames + 1 \in 1 .. Len(s)
          BY <1>3, <3>1, <4>1
        <5> QED
          BY <1>4, <3>2, <4>1, <5>1, Zenon DEF LedIn
      <4>2. CASE ~ (i + LeadInFrames + 1 <= Len(s))
        <5>1. i + LeadInFrames + 1 = Len(s) + 1
          BY <1>3, <3>1, <3>2, <4>2 DEF LedIn
        <5> QED
          BY <1>3, <1>4, <5>1, Zenon
      <4> QED
        BY <4>1, <4>2
    <3> QED
      BY <3>3, <3>4, <3>5 DEF LedIn
  <2>2. CASE i > Len(s)
    <3>1. PICK j : j = i - Len(s)
      OBVIOUS
    <3>2. j \in 1 .. Len(t) /\ i = Len(s) + j
      BY <1>3, <2>2, <3>1
    <3>3. LedIn(t, j)
      <4>1. t[j].kind = "start"
        BY <1>4, <1>6, <3>2, Zenon
      <4> QED
        BY <3>2, <4>1, Zenon DEF Leads
    <3>4. i + LeadInFrames <= Len(u)
      BY <1>3, <3>2, <3>3 DEF LedIn
    <3>5. ASSUME NEW k \in 1 .. LeadInFrames PROVE u[i + k].kind = "silence"
      <4>1. j + LeadInFrames <= Len(t) /\ t[j + k].kind = "silence"
        BY <3>3, Zenon DEF LedIn
      <4>2. j + k \in 1 .. Len(t) /\ i + k = Len(s) + (j + k)
        BY <1>3, <3>2, <4>1
      <4> QED
        BY <1>4, <4>1, <4>2, Zenon
    <3>6. ASSUME i + LeadInFrames + 1 <= Len(u)
          PROVE  u[i + LeadInFrames + 1].kind # "silence"
      <4>1. /\ j + LeadInFrames + 1 \in 1 .. Len(t) /\ j + LeadInFrames + 1 <= Len(t)
            /\ i + LeadInFrames + 1 = Len(s) + (j + LeadInFrames + 1)
        BY <1>3, <3>2, <3>6
      <4> QED
        BY <1>4, <3>3, <4>1, Zenon DEF LedIn
    <3> QED
      BY <3>4, <3>5, <3>6 DEF LedIn
  <2> QED
    BY <1>3, <2>1, <2>2
<1>7. u[1].kind = "start"
  <2>1. CASE s = <<>>
    <3>1. Len(s) + 1 = 1
      BY <2>1
    <3> QED
      BY <1>3, <1>4, <2>1, <3>1, Zenon
  <2>2. CASE s # <<>>
    <3>1. 1 \in 1 .. Len(s)
      BY <2>2
    <3> QED
      BY <1>4, <2>2, <3>1, Zenon DEF Begins
  <2> QED
    BY <2>1, <2>2
<1>8. Chain(u)
  BY <1>5 DEF Chain
<1>9. Leads(u)
  BY <1>6 DEF Leads
<1> QED
  BY <1>1, <1>7, <1>8, <1>9, Zenon DEF Begins

-----------------------------------------------------------------------------
(* The beginning of an utterance.                                          *)

Rolls == [tag : Nat \ {0}, frame : Nat \ {0}]
AudioEvents == [kind : {"audio"}, tag : Nat, frame : Nat]

Back(roll, tag, k) == Clamp(RealStart(roll, tag) - k * TagsPerFrame)
Onset(roll) == [i \in DOMAIN roll |-> Audio(roll[i].tag, roll[i].frame)]
LeadIn(roll, tag) == [i \in 1 .. LeadInFrames |-> Silence(Back(roll, tag, LeadInFrames - (i - 1)))]

\* The audio among events.
AudioOf(s) == Keep(s, AudioEvents)

LEMMA AudioOfConcat ==
    \A s, t \in Seq(Events) : AudioOf(s \o t) = AudioOf(s) \o AudioOf(t)
BY KeepConcat DEF AudioOf

LEMMA EventTypes ==
    /\ \A t \in Int : Clamp(t) \in Nat
    /\ \A t \in Nat : Start(t) \in Events /\ Silence(t) \in Events /\ Stop(t) \in Events
    /\ \A t, f \in Nat : Audio(t, f) \in Events /\ Audio(t, f) \in AudioEvents
    /\ \A t \in Nat : Start(t) \notin AudioEvents /\ Silence(t) \notin AudioEvents
                     /\ Stop(t) \notin AudioEvents
<1>1. \A t \in Int : Clamp(t) \in Nat
  BY DEF Clamp
<1>2. \A t \in Nat : Start(t) \in Events /\ Silence(t) \in Events /\ Stop(t) \in Events
  BY DEF Start, Silence, Stop, Events
<1>3. \A t, f \in Nat : Audio(t, f) \in Events /\ Audio(t, f) \in AudioEvents
  BY DEF Audio, Events, AudioEvents
<1>4. \A t \in Nat : Start(t) \notin AudioEvents /\ Silence(t) \notin AudioEvents
                     /\ Stop(t) \notin AudioEvents
  BY DEF Start, Silence, Stop, AudioEvents
<1> QED
  BY <1>1, <1>2, <1>3, <1>4

LEMMA BackType ==
    ASSUME NEW roll \in Seq(Rolls), NEW tag \in Nat
    PROVE  RealStart(roll, tag) \in Nat /\ \A k \in Nat : Back(roll, tag, k) \in Nat
<1>1. RealStart(roll, tag) \in Nat
  <2>1. CASE roll = <<>>
    BY <2>1 DEF RealStart
  <2>2. CASE roll # <<>>
    <3>1. roll[1] \in Rolls
      BY <2>2
    <3> QED
      BY <2>2, <3>1 DEF RealStart, Rolls
  <2> QED
    BY <2>1, <2>2
<1>2. ASSUME NEW k \in Nat PROVE RealStart(roll, tag) - k * TagsPerFrame \in Int
  <2>1. k * TagsPerFrame \in Int
    BY CaptureAssumption
  <2> QED
    BY <1>1, <2>1
<1> QED
  BY <1>1, <1>2, EventTypes DEF Back

LEMMA OnsetType ==
    ASSUME NEW roll \in Seq(Rolls)
    PROVE  /\ Onset(roll) \in Seq(Events) /\ Onset(roll) \in Seq(AudioEvents)
           /\ Len(Onset(roll)) = Len(roll)
           /\ \A i \in 1 .. Len(roll) :
                 /\ Onset(roll)[i] = Audio(roll[i].tag, roll[i].frame)
                 /\ Onset(roll)[i] \in AudioEvents
<1>1. DOMAIN roll = 1 .. Len(roll) /\ Len(roll) \in Nat
  OBVIOUS
<1>2. ASSUME NEW i \in 1 .. Len(roll)
      PROVE  Audio(roll[i].tag, roll[i].frame) \in Events /\ Audio(roll[i].tag, roll[i].frame) \in AudioEvents
  <2>1. roll[i] \in Rolls
    OBVIOUS
  <2>2. roll[i].tag \in Nat /\ roll[i].frame \in Nat
    BY <2>1 DEF Rolls
  <2> QED
    BY <2>2, EventTypes
<1>3. Onset(roll) = [i \in 1 .. Len(roll) |-> Audio(roll[i].tag, roll[i].frame)]
  BY <1>1, Zenon DEF Onset
<1> DEFINE e(i) == Audio(roll[i].tag, roll[i].frame)
<1>4. \A i \in 1 .. Len(roll) : e(i) \in Events /\ e(i) \in AudioEvents
  BY <1>2
<1> HIDE DEF e
<1>5. [i \in 1 .. Len(roll) |-> e(i)] \in Seq(Events) /\ [i \in 1 .. Len(roll) |-> e(i)] \in Seq(AudioEvents)
      /\ Len([i \in 1 .. Len(roll) |-> e(i)]) = Len(roll)
  BY <1>1, <1>4
<1>6. Onset(roll) = [i \in 1 .. Len(roll) |-> e(i)]
  BY <1>3 DEF e
<1>7. \A i \in 1 .. Len(roll) : Onset(roll)[i] = e(i)
  BY <1>6
<1> QED
  BY <1>4, <1>5, <1>6, <1>7 DEF e

LEMMA LeadInType ==
    ASSUME NEW roll \in Seq(Rolls), NEW tag \in Nat
    PROVE  /\ LeadIn(roll, tag) \in Seq(Events) /\ Len(LeadIn(roll, tag)) = LeadInFrames
           /\ \A i \in 1 .. LeadInFrames :
                 /\ LeadIn(roll, tag)[i] = Silence(Back(roll, tag, LeadInFrames - (i - 1)))
                 /\ LeadIn(roll, tag)[i] \notin AudioEvents
<1>1. ASSUME NEW i \in 1 .. LeadInFrames
      PROVE  /\ Silence(Back(roll, tag, LeadInFrames - (i - 1))) \in Events
             /\ Silence(Back(roll, tag, LeadInFrames - (i - 1))) \notin AudioEvents
  <2>1. LeadInFrames - (i - 1) \in Nat
    BY CaptureAssumption
  <2>2. Back(roll, tag, LeadInFrames - (i - 1)) \in Nat
    BY <2>1, BackType
  <2> QED
    BY <2>2, EventTypes
<1> DEFINE e(i) == Silence(Back(roll, tag, LeadInFrames - (i - 1)))
<1>2. \A i \in 1 .. LeadInFrames : e(i) \in Events /\ e(i) \notin AudioEvents
  BY <1>1
<1> HIDE DEF e
<1>3. /\ [i \in 1 .. LeadInFrames |-> e(i)] \in Seq(Events)
      /\ Len([i \in 1 .. LeadInFrames |-> e(i)]) = LeadInFrames
  BY <1>2, CaptureAssumption
<1>4. LeadIn(roll, tag) = [i \in 1 .. LeadInFrames |-> e(i)]
  BY DEF e, LeadIn
<1>5. \A i \in 1 .. LeadInFrames : LeadIn(roll, tag)[i] = e(i)
  BY <1>4
<1> QED
  BY <1>2, <1>3, <1>4, <1>5 DEF e

\* The events of a beginning, one by one.
Block(b, roll, tag) ==
    /\ b \in Seq(Events)
    /\ Len(b) = 1 + LeadInFrames + Len(roll)
    /\ b[1] = Start(Back(roll, tag, LeadInFrames))
    /\ \A k \in 1 .. LeadInFrames : b[1 + k] = Silence(Back(roll, tag, LeadInFrames - (k - 1)))
    /\ \A k \in 1 .. Len(roll) : b[1 + LeadInFrames + k] = Audio(roll[k].tag, roll[k].frame)

LEMMA BeginningIs ==
    ASSUME NEW roll \in Seq(Rolls), NEW tag \in Nat
    PROVE  /\ Block(Beginning(roll, tag), roll, tag)
           /\ AudioOf(Beginning(roll, tag)) = Onset(roll)
<1>1. PICK x : x = Start(Back(roll, tag, LeadInFrames))
  OBVIOUS
<1>2. x \in Events /\ x \notin AudioEvents
  <2>1. Back(roll, tag, LeadInFrames) \in Nat
    BY CaptureAssumption, BackType
  <2> QED
    BY <1>1, <2>1, EventTypes
<1>3. PICK h \in Seq(Events) : h = <<x>> /\ Len(h) = 1 /\ h[1] = x
  <2>1. <<x>> \in Seq(Events) /\ Len(<<x>>) = 1 /\ <<x>>[1] = x
    BY <1>2
  <2> QED
    BY <2>1, Zenon
<1>4. PICK l \in Seq(Events) :
        /\ l = LeadIn(roll, tag) /\ Len(l) = LeadInFrames
        /\ \A i \in 1 .. LeadInFrames :
              /\ l[i] = Silence(Back(roll, tag, LeadInFrames - (i - 1)))
              /\ l[i] \notin AudioEvents
  BY LeadInType, Zenon
<1>5. PICK o \in Seq(Events) :
        /\ o = Onset(roll) /\ Len(o) = Len(roll)
        /\ \A i \in 1 .. Len(roll) :
              /\ o[i] = Audio(roll[i].tag, roll[i].frame)
              /\ o[i] \in AudioEvents
  BY OnsetType, Zenon
<1>6. Beginning(roll, tag) = (h \o l) \o o
  BY <1>1, <1>3, <1>4, <1>5, Zenon DEF Beginning, Back, Onset, LeadIn
<1>7. PICK g \in Seq(Events) : g = h \o l
  BY Joined, Zenon
<1>8. PICK b \in Seq(Events) : b = g \o o
  BY Joined, Zenon
<1>9. Joins(g, h, l)
  BY <1>7, ConcatJoins, Zenon
<1>10. Joins(b, g, o)
  BY <1>8, ConcatJoins, Zenon
<1>11. LeadInFrames \in Nat /\ Len(roll) \in Nat
  BY CaptureAssumption
<1>12. Len(g) = 1 + LeadInFrames /\ Len(b) = 1 + LeadInFrames + Len(roll)
  BY <1>3, <1>4, <1>5, <1>9, <1>10, <1>11 DEF Joins
<1>13. b[1] = x
  <2>1. 1 \in 1 .. Len(g) /\ 1 \in 1 .. Len(h)
    BY <1>3, <1>11, <1>12
  <2> QED
    BY <1>3, <1>9, <1>10, <2>1, Zenon DEF Joins
<1>14. ASSUME NEW k \in 1 .. LeadInFrames
       PROVE  b[1 + k] = Silence(Back(roll, tag, LeadInFrames - (k - 1)))
  <2>1. 1 + k \in 1 .. Len(g) /\ k \in 1 .. Len(l) /\ 1 + k = Len(h) + k
    BY <1>3, <1>4, <1>11, <1>12
  <2> QED
    BY <1>4, <1>9, <1>10, <2>1, Zenon DEF Joins
<1>15. ASSUME NEW k \in 1 .. Len(roll)
       PROVE  b[1 + LeadInFrames + k] = Audio(roll[k].tag, roll[k].frame)
  <2>1. k \in 1 .. Len(o) /\ 1 + LeadInFrames + k = Len(g) + k
    BY <1>5, <1>11, <1>12
  <2> QED
    BY <1>5, <1>10, <2>1, Zenon DEF Joins
<1>16. Block(b, roll, tag)
  BY <1>1, <1>12, <1>13, <1>14, <1>15, Zenon DEF Block
<1>17. AudioOf(h) = <<>>
  <2>1. \A i \in DOMAIN h : h[i] \notin AudioEvents
    BY <1>2, <1>3
  <2> QED
    BY <2>1, KeepNone DEF AudioOf
<1>18. AudioOf(l) = <<>>
  <2>1. \A i \in DOMAIN l : l[i] \notin AudioEvents
    BY <1>4
  <2> QED
    BY <2>1, KeepNone DEF AudioOf
<1>19. AudioOf(o) = o
  <2>1. \A i \in DOMAIN o : o[i] \in AudioEvents
    BY <1>5
  <2> QED
    BY <2>1, KeepAll DEF AudioOf
<1>20. AudioOf(g) = <<>>
  <2>1. AudioOf(h \o l) = AudioOf(h) \o AudioOf(l)
    BY AudioOfConcat, Zenon
  <2>2. <<>> \o <<>> = <<>>
    OBVIOUS
  <2> QED
    BY <1>7, <1>17, <1>18, <2>1, <2>2, Zenon
<1>21. AudioOf(b) = o
  <2>1. AudioOf(g \o o) = AudioOf(g) \o AudioOf(o)
    BY AudioOfConcat, Zenon
  <2>2. <<>> \o o = o
    BY ConcatEmpty
  <2> QED
    BY <1>8, <1>19, <1>20, <2>1, <2>2, Zenon
<1> QED
  BY <1>5, <1>6, <1>7, <1>8, <1>16, <1>21, Zenon

\* The roll holds the last frames up to p.
UpTo(roll, p) == \A i \in 1 .. Len(roll) : roll[i].frame = p - Len(roll) + i

\* What the audio of frame f, with its tag, may follow.
ReadyFor(a, tag, f) ==
    /\ a.kind # "stop"
    /\ IF a.kind = "audio" THEN a.frame = f - 1 ELSE a.tag = Clamp(tag - BackDate)

LEMMA BackOnce ==
    ASSUME NEW roll \in Seq(Rolls), NEW tag \in Nat
    PROVE  /\ LeadInFrames = 0 => Back(roll, tag, 0) = Clamp(RealStart(roll, tag) - BackDate)
                                  /\ Back(roll, tag, 0) = RealStart(roll, tag)
           /\ LeadInFrames # 0 => Back(roll, tag, 1) = Clamp(RealStart(roll, tag) - BackDate)
           /\ roll = <<>> => RealStart(roll, tag) = tag
           /\ roll # <<>> => RealStart(roll, tag) = roll[1].tag
<1>1. RealStart(roll, tag) \in Nat
  BY BackType
<1>2. 0 * TagsPerFrame = 0 /\ 1 * TagsPerFrame = TagsPerFrame /\ TagsPerFrame \in Nat
  BY CaptureAssumption
<1>3. RealStart(roll, tag) - 0 = RealStart(roll, tag) /\ Clamp(RealStart(roll, tag)) = RealStart(roll, tag)
  BY <1>1 DEF Clamp
<1>4. Back(roll, tag, 0) = Clamp(RealStart(roll, tag) - 0)
  BY <1>2, Zenon DEF Back
<1>5. Back(roll, tag, 1) = Clamp(RealStart(roll, tag) - TagsPerFrame)
  BY <1>2, Zenon DEF Back
<1>6. roll = <<>> => RealStart(roll, tag) = tag
  BY DEF RealStart
<1>7. roll # <<>> => RealStart(roll, tag) = roll[1].tag
  BY DEF RealStart
<1> QED
  BY <1>3, <1>4, <1>5, <1>6, <1>7, Zenon DEF BackDate

LEMMA BeginningGrammar ==
    ASSUME NEW roll \in Seq(Rolls), NEW tag \in Nat, NEW b, Block(b, roll, tag),
           NEW p \in Nat, UpTo(roll, p)
    PROVE  /\ Chain(b) /\ Leads(b) /\ b[1].kind = "start"
           /\ ReadyFor(b[Len(b)], tag, p + 1)
<1>1. PICK n : n = Len(roll)
  OBVIOUS
<1>2. PICK l : l = LeadInFrames
  OBVIOUS
<1>3. n \in Nat /\ l \in Nat /\ Len(b) = 1 + l + n
  BY <1>1, <1>2, CaptureAssumption DEF Block
<1>4. b[1].kind = "start" /\ b[1].tag = Back(roll, tag, l)
  BY <1>2 DEF Block, Start
<1>5. \A k \in 1 .. l : b[1 + k].kind = "silence" /\ b[1 + k].tag = Back(roll, tag, l - (k - 1))
  <2>1. \A k \in 1 .. l : b[1 + k] = Silence(Back(roll, tag, l - (k - 1)))
    BY <1>2, Zenon DEF Block
  <2>2. \A t : Silence(t).kind = "silence" /\ Silence(t).tag = t
    BY DEF Silence
  <2> QED
    BY <2>1, <2>2, Zenon
<1>6. \A k \in 1 .. n : /\ b[1 + l + k].kind = "audio"
                       /\ b[1 + l + k].tag = roll[k].tag
                       /\ b[1 + l + k].frame = p - n + k
  <2>1. \A k \in 1 .. n : b[1 + l + k] = Audio(roll[k].tag, roll[k].frame)
    BY <1>1, <1>2, Zenon DEF Block
  <2>2. \A k \in 1 .. n : roll[k].frame = p - n + k
    BY <1>1, Zenon DEF UpTo
  <2>3. \A t, f : Audio(t, f).kind = "audio" /\ Audio(t, f).tag = t /\ Audio(t, f).frame = f
    BY DEF Audio
  <2>4. ASSUME NEW k \in 1 .. n
        PROVE  /\ b[1 + l + k].kind = "audio"
               /\ b[1 + l + k].tag = roll[k].tag
               /\ b[1 + l + k].frame = roll[k].frame
    <3>1. b[1 + l + k] = Audio(roll[k].tag, roll[k].frame)
      BY <2>1, Zenon
    <3> QED
      BY <2>3, <3>1
  <2> QED
    BY <2>2, <2>4, Zenon
<1>7. /\ l = 0 => b[1].tag = Clamp(RealStart(roll, tag) - BackDate) /\ b[1].tag = RealStart(roll, tag)
      /\ l # 0 => b[1 + l].tag = Clamp(RealStart(roll, tag) - BackDate) /\ b[1 + 1].tag = b[1].tag
  <2>1. CASE l = 0
    BY <1>2, <1>4, <2>1, BackOnce
  <2>2. CASE l # 0
    <3>1. 1 \in 1 .. l /\ l \in 1 .. l /\ l - (1 - 1) = l /\ l - (l - 1) = 1
      BY <1>3, <2>2
    <3> QED
      BY <1>2, <1>4, <1>5, <2>2, <3>1, BackOnce, Zenon
  <2> QED
    BY <2>1, <2>2
<1>8. n # 0 => RealStart(roll, tag) = roll[1].tag
  BY <1>1, BackOnce
<1>9. n = 0 => RealStart(roll, tag) = tag
  <2>1. n = 0 => roll = <<>>
    <3>1. Len(roll) = 0 => roll = <<>>
      OBVIOUS
    <3> QED
      BY <1>1, <3>1
  <2> QED
    BY <2>1, BackOnce
<1>10. ASSUME NEW i \in 1 .. Len(b) - 1 PROVE Follows(b[i], b[i + 1])
  <2>1. CASE i = 1 /\ l # 0
    <3>1. b[i + 1].kind = "silence" /\ b[i + 1].tag = b[i].tag
      BY <1>3, <1>5, <1>7, <2>1
    <3> QED
      BY <1>4, <2>1, <3>1 DEF Follows
  <2>2. CASE i = 1 /\ l = 0
    <3>1. 1 \in 1 .. n /\ i + 1 = 1 + l + 1 /\ n # 0
      BY <1>3, <2>2
    <3>2. b[i + 1].kind = "audio" /\ b[i + 1].tag = RealStart(roll, tag)
      BY <1>6, <1>8, <3>1
    <3> QED
      BY <1>4, <1>7, <2>2, <3>2 DEF Follows
  <2>3. CASE i \in 2 .. l
    <3>1. PICK k : k = i - 1
      OBVIOUS
    <3>2. k \in 1 .. l /\ k + 1 \in 1 .. l /\ i = 1 + k /\ i + 1 = 1 + (k + 1)
      BY <1>3, <2>3, <3>1
    <3>3. b[i].kind = "silence" /\ b[i + 1].kind = "silence"
      BY <1>5, <3>2, Zenon
    <3> QED
      BY <3>3 DEF Follows
  <2>4. CASE i = 1 + l /\ l # 0
    <3>1. 1 \in 1 .. n /\ i + 1 = 1 + l + 1 /\ n # 0 /\ l \in 1 .. l
      BY <1>3, <2>4
    <3>2. b[i + 1].kind = "audio" /\ b[i + 1].tag = RealStart(roll, tag)
      BY <1>6, <1>8, <3>1
    <3>3. b[i].kind = "silence" /\ b[i].tag = Clamp(RealStart(roll, tag) - BackDate)
      BY <1>5, <1>7, <2>4, <3>1
    <3> QED
      BY <3>2, <3>3 DEF Follows
  <2>5. CASE i > 1 + l
    <3>1. PICK k : k = i - (1 + l)
      OBVIOUS
    <3>2. k \in 1 .. n /\ k + 1 \in 1 .. n /\ i = 1 + l + k /\ i + 1 = 1 + l + (k + 1)
      BY <1>3, <2>5, <3>1
    <3>3. /\ b[i].kind = "audio" /\ b[i + 1].kind = "audio"
          /\ b[i].frame = p - n + k /\ b[i + 1].frame = p - n + (k + 1)
      BY <1>6, <3>2, Zenon
    <3>4. b[i + 1].frame = b[i].frame + 1
      BY <1>3, <3>2, <3>3
    <3> QED
      BY <3>3, <3>4 DEF Follows
  <2> QED
    BY <1>3, <2>1, <2>2, <2>3, <2>4, <2>5
<1>11. ASSUME NEW i \in 1 .. Len(b), b[i].kind = "start" PROVE i = 1
  <2>1. CASE i \in 2 .. 1 + l
    <3>1. i - 1 \in 1 .. l /\ 1 + (i - 1) = i
      BY <1>3, <2>1
    <3> QED
      BY <1>5, <1>11, <3>1
  <2>2. CASE i > 1 + l
    <3>1. i - (1 + l) \in 1 .. n /\ 1 + l + (i - (1 + l)) = i
      BY <1>3, <2>2
    <3> QED
      BY <1>6, <1>11, <3>1
  <2> QED
    BY <1>3, <2>1, <2>2
<1>12. LedIn(b, 1)
  <2>1. 1 + l <= Len(b)
    BY <1>3
  <2>2. 1 + l + 1 <= Len(b) => b[1 + l + 1].kind # "silence"
    <3>1. 1 + l + 1 <= Len(b) => 1 \in 1 .. n
      BY <1>3
    <3> QED
      BY <1>6, <3>1
  <2> QED
    BY <1>2, <1>5, <2>1, <2>2, Zenon DEF LedIn
<1>13. ReadyFor(b[Len(b)], tag, p + 1)
  <2>1. CASE n = 0 /\ l = 0
    <3>1. Len(b) = 1
      BY <1>3, <2>1
    <3> QED
      BY <1>4, <1>7, <1>9, <2>1, <3>1 DEF ReadyFor
  <2>2. CASE n = 0 /\ l # 0
    <3>1. Len(b) = 1 + l /\ l \in 1 .. l
      BY <1>3, <2>2
    <3> QED
      BY <1>5, <1>7, <1>9, <2>2, <3>1 DEF ReadyFor
  <2>3. CASE n # 0
    <3>1. Len(b) = 1 + l + n /\ n \in 1 .. n /\ p - n + n = (p + 1) - 1
      BY <1>3, <2>3
    <3> QED
      BY <1>6, <3>1 DEF ReadyFor
  <2> QED
    BY <2>1, <2>2, <2>3
<1> QED
  BY <1>4, <1>10, <1>11, <1>12, <1>13 DEF Chain, Leads

-----------------------------------------------------------------------------
(* The audio sent and the pre-roll.                                        *)

Rising(a, p) ==
    /\ \A i \in 1 .. Len(a) : a[i].frame \in 1 .. p
    /\ \A i, j \in 1 .. Len(a) : i < j => a[i].frame < a[j].frame

LastIn(a) == IF a = <<>> THEN 0 ELSE Last(a).frame

LEMMA KeptType == Kept \in Nat
<1>1. CASE PreRollSamples = 0
  BY <1>1 DEF Kept
<1>2. CASE PreRollSamples # 0
  <2>1. PICK d : d = PreRollSamples \div FrameSamples
    OBVIOUS
  <2>2. d \in Int
    BY <2>1, CaptureAssumption
  <2>3. Kept = Max({1, d})
    BY <1>2, <2>1, Zenon DEF Kept
  <2>4. Max({1, d}) = IF 1 >= d THEN 1 ELSE d
    BY <2>2, MaxOfTwo
  <2> QED
    BY <2>2, <2>3, <2>4
<1> QED
  BY <1>1, <1>2

LEMMA LastInIs ==
    ASSUME NEW a \in Seq(AudioEvents), NEW p \in Nat, Rising(a, p)
    PROVE  /\ LastIn(a) \in 0 .. p
           /\ \A i \in 1 .. Len(a) : a[i].frame <= LastIn(a)
<1>1. CASE a = <<>>
  <2>1. Len(a) = 0
    BY <1>1
  <2> QED
    BY <1>1, <2>1 DEF LastIn
<1>2. CASE a # <<>>
  <2>1. Len(a) \in 1 .. Len(a) /\ LastIn(a) = a[Len(a)].frame
    BY <1>2 DEF LastIn, Last
  <2>2. a[Len(a)].frame \in 1 .. p
    BY <2>1, Zenon DEF Rising
  <2>3. ASSUME NEW i \in 1 .. Len(a) PROVE a[i].frame <= a[Len(a)].frame
    <3>1. a[i].frame \in 1 .. p
      BY Zenon DEF Rising
    <3>2. i < Len(a) => a[i].frame < a[Len(a)].frame
      BY <2>1, Zenon DEF Rising
    <3>3. i < Len(a) \/ i = Len(a)
      OBVIOUS
    <3> QED
      BY <2>2, <3>1, <3>2, <3>3
  <2> QED
    BY <2>1, <2>2, <2>3
<1> QED
  BY <1>1, <1>2

\* Audio of frames after the last one.
LEMMA RisingJoins ==
    ASSUME NEW a \in Seq(AudioEvents), NEW o \in Seq(AudioEvents), NEW p \in Nat,
           NEW q \in Nat, p <= q, Rising(a, p),
           Len(o) <= q - LastIn(a),
           UpTo(o, q)
    PROVE  /\ a \o o \in Seq(AudioEvents) /\ Rising(a \o o, q)
           /\ LastIn(a \o o) = IF o = <<>> THEN LastIn(a) ELSE q
<1>1. LastIn(a) \in 0 .. p /\ \A i \in 1 .. Len(a) : a[i].frame <= LastIn(a)
  BY LastInIs
<1>2. PICK u \in Seq(AudioEvents) : u = a \o o
  BY Joined, Zenon
<1>3. Joins(u, a, o)
  BY <1>2, ConcatJoins, Zenon
<1>4. Len(u) = Len(a) + Len(o) /\ Len(a) \in Nat /\ Len(o) \in Nat
  BY <1>3 DEF Joins
<1>5. /\ \A i \in 1 .. Len(a) : u[i] = a[i]
      /\ \A i \in 1 .. Len(o) : u[Len(a) + i] = o[i]
  BY <1>3, Zenon DEF Joins
<1>0. \A i \in 1 .. Len(o) : o[i].frame = q - Len(o) + i
  BY Zenon DEF UpTo
<1>6. ASSUME NEW i \in 1 .. Len(u)
      PROVE  \/ i \in 1 .. Len(a) /\ u[i] = a[i]
             \/ /\ i - Len(a) \in 1 .. Len(o)
                /\ u[i].frame = q - Len(o) + (i - Len(a))
  <2>1. CASE i <= Len(a)
    BY <1>4, <1>5, <2>1
  <2>2. CASE i > Len(a)
    <3>1. PICK k : k = i - Len(a)
      OBVIOUS
    <3>2. k \in 1 .. Len(o) /\ i = Len(a) + k
      BY <1>4, <2>2, <3>1
    <3>3. u[i] = o[k] /\ o[k].frame = q - Len(o) + k
      BY <1>0, <1>5, <3>2, Zenon
    <3> QED
      BY <3>1, <3>2, <3>3
  <2> QED
    BY <1>4, <2>1, <2>2
<1>7. ASSUME NEW i \in 1 .. Len(a) PROVE a[i].frame \in 1 .. p /\ a[i].frame <= LastIn(a)
  BY <1>1 DEF Rising
<1>8. ASSUME NEW i \in 1 .. Len(u) PROVE u[i].frame \in 1 .. q
  <2>1. CASE i \in 1 .. Len(a) /\ u[i] = a[i]
    BY <1>7, <2>1
  <2>2. CASE i - Len(a) \in 1 .. Len(o) /\ u[i].frame = q - Len(o) + (i - Len(a))
    BY <1>1, <1>4, <2>2
  <2> QED
    BY <1>6, <2>1, <2>2
<1>9. ASSUME NEW i \in 1 .. Len(u), NEW j \in 1 .. Len(u), i < j PROVE u[i].frame < u[j].frame
  <2>1. CASE i \in 1 .. Len(a) /\ u[i] = a[i]
    <3>1. CASE j \in 1 .. Len(a) /\ u[j] = a[j]
      BY <1>9, <2>1, <3>1, Zenon DEF Rising
    <3>2. CASE j - Len(a) \in 1 .. Len(o) /\ u[j].frame = q - Len(o) + (j - Len(a))
      <4>1. u[i].frame \in 1 .. p /\ u[i].frame <= LastIn(a)
        BY <1>7, <2>1
      <4> QED
        BY <1>1, <1>4, <3>2, <4>1
    <3> QED
      BY <1>6, <3>1, <3>2
  <2>2. CASE i - Len(a) \in 1 .. Len(o) /\ u[i].frame = q - Len(o) + (i - Len(a))
    <3>1. u[j].frame = q - Len(o) + (j - Len(a))
      BY <1>4, <1>6, <1>9, <2>2
    <3> QED
      BY <1>4, <1>9, <2>2, <3>1
  <2> QED
    BY <1>6, <2>1, <2>2
<1>10. LastIn(u) = IF o = <<>> THEN LastIn(a) ELSE q
  <2>1. CASE o = <<>>
    <3>1. u = a
      BY <1>2, <2>1, ConcatEmpty
    <3> QED
      BY <2>1, <3>1
  <2>2. CASE o # <<>>
    <3>1. Len(o) \in 1 .. Len(o) /\ Len(u) = Len(a) + Len(o) /\ u # <<>>
      BY <1>4, <2>2
    <3>2. u[Len(u)] = o[Len(o)] /\ o[Len(o)].frame = q - Len(o) + Len(o)
      BY <1>0, <1>5, <3>1, Zenon
    <3>3. LastIn(u) = u[Len(u)].frame
      BY <3>1, Zenon DEF LastIn, Last
    <3> QED
      BY <1>4, <2>2, <3>2, <3>3
  <2> QED
    BY <2>1, <2>2
<1>11. Rising(u, q)
  BY <1>8, <1>9, Zenon DEF Rising
<1> QED
  BY <1>2, <1>10, <1>11, Zenon

\* The audio of a beginning comes out of the roll.
LEMMA BlockAudio ==
    ASSUME NEW b, NEW roll \in Seq(Rolls), NEW tag \in Nat, Block(b, roll, tag),
           NEW k \in 1 .. Len(b), b[k].kind = "audio"
    PROVE  \E m \in 1 .. Len(roll) : b[k] = Audio(roll[m].tag, roll[m].frame)
<1>1. Len(b) = 1 + LeadInFrames + Len(roll) /\ LeadInFrames \in Nat /\ Len(roll) \in Nat
  BY CaptureAssumption DEF Block
<1>2. CASE k = 1
  BY <1>2 DEF Block, Start
<1>3. CASE k \in 2 .. 1 + LeadInFrames
  <2>1. k - 1 \in 1 .. LeadInFrames /\ 1 + (k - 1) = k
    BY <1>1, <1>3
  <2>2. b[k] = Silence(Back(roll, tag, LeadInFrames - ((k - 1) - 1)))
    BY <2>1, Zenon DEF Block
  <2> QED
    BY <2>2 DEF Silence
<1>4. CASE k > 1 + LeadInFrames
  <2>1. PICK m : m = k - (1 + LeadInFrames)
    OBVIOUS
  <2>2. m \in 1 .. Len(roll) /\ 1 + LeadInFrames + m = k
    BY <1>1, <1>4, <2>1
  <2>3. b[k] = Audio(roll[m].tag, roll[m].frame)
    BY <2>2, Zenon DEF Block
  <2> QED
    BY <2>2, <2>3, Zenon
<1> QED
  BY <1>1, <1>2, <1>3, <1>4

\* The tags of the frames processed; t gives each its own.
Exact(s, p, t) ==
    \A i \in 1 .. Len(s) : s[i].kind = "audio" => s[i].frame \in 1 .. p /\ s[i].tag = t[s[i].frame]
ExactRoll(roll, p, t) ==
    \A i \in 1 .. Len(roll) : roll[i].frame \in 1 .. p /\ roll[i].tag = t[roll[i].frame]

\* What was sent is well formed, in order and tagged right, and the roll holds
\* the frames up to p that are to be kept and were not sent.
Formed(out) == out \in Seq(Events) /\ Chain(out) /\ Leads(out) /\ Begins(out)
Banked(out, roll, p) ==
    /\ Rising(AudioOf(out), p)
    /\ roll \in Seq(Rolls) /\ UpTo(roll, p)
    /\ Len(roll) = Min({Kept, p - LastIn(AudioOf(out))})
Tagged(out, roll, p, t) == Exact(out, p, t) /\ ExactRoll(roll, p, t)

LEMMA AudioOfType ==
    ASSUME NEW out \in Seq(Events)
    PROVE  AudioOf(out) \in Seq(AudioEvents)
<1>1. Keep(out, AudioEvents) \in Seq(Events \cap AudioEvents)
  BY KeepType
<1> QED
  BY <1>1 DEF AudioOf

\* The smaller of what may be kept and what was not sent.
LEMMA SmallerIs ==
    ASSUME NEW a \in Seq(AudioEvents), NEW p \in Nat, Rising(a, p)
    PROVE  /\ Kept \in Nat /\ LastIn(a) \in 0 .. p
           /\ Min({Kept, p - LastIn(a)}) = IF Kept <= p - LastIn(a) THEN Kept ELSE p - LastIn(a)
           /\ Min({Kept, 0}) = 0
<1>1. LastIn(a) \in 0 .. p /\ Kept \in Nat
  BY LastInIs, KeptType
<1>2. PICK d : d = p - LastIn(a)
  OBVIOUS
<1>3. d \in Int
  BY <1>1, <1>2
<1>4. Min({Kept, d}) = IF Kept <= d THEN Kept ELSE d
  BY <1>1, <1>3, MinOfTwo
<1>5. Min({Kept, 0}) = 0
  <2>1. Min({Kept, 0}) = IF Kept <= 0 THEN Kept ELSE 0
    BY <1>1, MinOfTwo
  <2> QED
    BY <1>1, <2>1
<1> QED
  BY <1>1, <1>2, <1>4, <1>5

\* One event more.
LEMMA FormedAppend ==
    ASSUME NEW out, Formed(out), out # <<>>, NEW e \in Events, Follows(out[Len(out)], e),
           e.kind \notin {"start", "silence"}
    PROVE  Formed(Append(out, e)) /\ Append(out, e) = out \o <<e>>
<1>1. out \in Seq(Events) /\ Chain(out) /\ Leads(out) /\ Begins(out)
  BY DEF Formed
<1>2. PICK b : b = <<e>>
  OBVIOUS
<1>3. b \in Seq(Events) /\ Len(b) = 1 /\ b[1] = e
  BY <1>2
<1>4. Chain(b)
  BY <1>3 DEF Chain
<1>5. Leads(b)
  BY <1>3 DEF Leads
<1>6. Chain(out \o b) /\ Leads(out \o b) /\ Begins(out \o b)
  <2>1. Len(b) # 0 /\ b[1].kind # "silence" /\ Follows(out[Len(out)], b[1])
    BY <1>3
  <2> QED
    BY <1>1, <1>3, <1>4, <1>5, <2>1, GrammarJoins
<1>7. Append(out, e) = out \o b
  BY <1>1, <1>2
<1>8. out \o b \in Seq(Events)
  BY <1>1, <1>3, Joined, Zenon
<1> QED
  BY <1>2, <1>6, <1>7, <1>8, Zenon DEF Formed

\* The roll is replayed when an utterance begins.
LEMMA Begun ==
    ASSUME NEW out, NEW roll, NEW tag \in Nat, NEW p \in Nat, NEW t,
           Formed(out), Banked(out, roll, p), Tagged(out, roll, p, t),
           out # <<>> => out[Len(out)].kind = "stop",
           NEW u, u = out \o Beginning(roll, tag)
    PROVE  /\ Formed(u) /\ Banked(u, <<>>, p) /\ Tagged(u, <<>>, p, t)
           /\ u # <<>> /\ ReadyFor(u[Len(u)], tag, p + 1)
<1>1. out \in Seq(Events) /\ Chain(out) /\ Leads(out) /\ Begins(out)
  BY DEF Formed
<1>2. roll \in Seq(Rolls) /\ UpTo(roll, p) /\ Rising(AudioOf(out), p)
      /\ Len(roll) = Min({Kept, p - LastIn(AudioOf(out))})
  BY DEF Banked
<1>3. PICK b : b = Beginning(roll, tag)
  OBVIOUS
<1>4. Block(b, roll, tag) /\ AudioOf(b) = Onset(roll)
  BY <1>2, <1>3, BeginningIs
<1>5. b \in Seq(Events) /\ Len(b) = 1 + LeadInFrames + Len(roll)
  BY <1>4, Zenon DEF Block
<1>6. Chain(b) /\ Leads(b) /\ b[1].kind = "start" /\ ReadyFor(b[Len(b)], tag, p + 1)
  BY <1>2, <1>4, BeginningGrammar
<1>7. Len(b) \in Nat \ {0} /\ Len(b) # 0
  BY <1>2, <1>5, CaptureAssumption
<1>8. b[1].kind # "silence"
  BY <1>6
<1>9. IF out = <<>> THEN b[1].kind = "start" ELSE Follows(out[Len(out)], b[1])
  <2>1. CASE out = <<>>
    BY <1>6, <2>1
  <2>2. CASE out # <<>>
    BY <1>6, <2>2 DEF Follows
  <2> QED
    BY <2>1, <2>2
<1>10. Chain(out \o b) /\ Leads(out \o b) /\ Begins(out \o b)
  BY <1>1, <1>5, <1>6, <1>7, <1>8, <1>9, GrammarJoins
<1>11. u = out \o b /\ u \in Seq(Events)
  BY <1>1, <1>3, <1>5, Joined, Zenon
<1>12. Formed(u)
  BY <1>10, <1>11, Zenon DEF Formed
<1>13. Joins(u, out, b)
  <2>1. Joins(out \o b, out, b)
    BY <1>1, <1>5, ConcatJoins, Zenon
  <2> QED
    BY <1>11, <2>1, Zenon
<1>14. Len(u) = Len(out) + Len(b) /\ Len(out) \in Nat /\ Len(u) # 0
  BY <1>1, <1>7, <1>13 DEF Joins
<1>15. u # <<>> /\ u[Len(u)] = b[Len(b)]
  <2>1. Len(b) \in 1 .. Len(b)
    BY <1>7
  <2>2. u[Len(out) + Len(b)] = b[Len(b)]
    BY <1>13, <2>1, Zenon DEF Joins
  <2>3. u # <<>>
    BY <1>14
  <2> QED
    BY <1>14, <2>2, <2>3, Zenon
<1>16. PICK a \in Seq(AudioEvents) : a = AudioOf(out)
  BY <1>1, AudioOfType, Zenon
<1>17. PICK o \in Seq(AudioEvents) :
         /\ o = Onset(roll) /\ Len(o) = Len(roll)
         /\ \A i \in 1 .. Len(roll) : o[i] = Audio(roll[i].tag, roll[i].frame)
  BY <1>2, OnsetType, Zenon
<1>18. AudioOf(u) = a \o o
  <2>1. AudioOf(out \o b) = AudioOf(out) \o AudioOf(b)
    BY <1>1, <1>5, AudioOfConcat, Zenon
  <2> QED
    BY <1>4, <1>11, <1>16, <1>17, <2>1, Zenon
<1>19. /\ Kept \in Nat /\ LastIn(a) \in 0 .. p
       /\ Min({Kept, p - LastIn(a)}) = IF Kept <= p - LastIn(a) THEN Kept ELSE p - LastIn(a)
       /\ Min({Kept, 0}) = 0
  BY <1>2, <1>16, SmallerIs
<1>20. Len(o) = (IF Kept <= p - LastIn(a) THEN Kept ELSE p - LastIn(a)) /\ Len(o) <= p - LastIn(a)
  <2>1. Len(o) = IF Kept <= p - LastIn(a) THEN Kept ELSE p - LastIn(a)
    BY <1>2, <1>16, <1>17, <1>19, Zenon
  <2> QED
    BY <1>19, <2>1
<1>21. \A i \in 1 .. Len(o) : o[i].frame = p - Len(o) + i
  <2>1. \A x, f : Audio(x, f).frame = f
    BY DEF Audio
  <2>2. ASSUME NEW i \in 1 .. Len(roll) PROVE o[i].frame = p - Len(roll) + i
    <3>1. o[i] = Audio(roll[i].tag, roll[i].frame)
      BY <1>17, Zenon
    <3>2. roll[i].frame = p - Len(roll) + i
      BY <1>2, Zenon DEF UpTo
    <3> QED
      BY <2>1, <3>1, <3>2
  <2> QED
    BY <1>17, <2>2, Zenon
<1>22. Rising(a \o o, p) /\ LastIn(a \o o) = IF o = <<>> THEN LastIn(a) ELSE p
  <2>1. p <= p /\ Rising(a, p) /\ UpTo(o, p)
    BY <1>2, <1>16, <1>21 DEF UpTo
  <2> QED
    BY <1>20, <2>1, RisingJoins
<1>23. Min({Kept, p - LastIn(a \o o)}) = 0
  <2>1. CASE o = <<>>
    <3>1. Len(o) = 0
      BY <2>1
    <3> QED
      BY <1>2, <1>16, <1>17, <1>22, <2>1, <3>1, Zenon
  <2>2. CASE o # <<>>
    <3>1. p - LastIn(a \o o) = 0
      BY <1>22, <2>2
    <3> QED
      BY <1>19, <3>1, Zenon
  <2> QED
    BY <2>1, <2>2
<1>24. Banked(u, <<>>, p)
  <2>1. <<>> \in Seq(Rolls) /\ UpTo(<<>>, p) /\ Len(<<>>) = 0
    BY DEF UpTo
  <2> QED
    BY <1>18, <1>22, <1>23, <2>1, Zenon DEF Banked
<1>25. Tagged(u, <<>>, p, t)
  <2>1. ASSUME NEW i \in 1 .. Len(u), u[i].kind = "audio"
        PROVE  u[i].frame \in 1 .. p /\ u[i].tag = t[u[i].frame]
    <3>1. CASE i <= Len(out)
      <4>1. i \in 1 .. Len(out)
        BY <1>14, <3>1
      <4>2. u[i] = out[i]
        BY <1>13, <4>1, Zenon DEF Joins
      <4> QED
        BY <2>1, <4>1, <4>2, Zenon DEF Tagged, Exact
    <3>2. CASE i > Len(out)
      <4>1. PICK k : k = i - Len(out)
        OBVIOUS
      <4>2. k \in 1 .. Len(b) /\ i = Len(out) + k
        BY <1>14, <3>2, <4>1
      <4>3. u[i] = b[k]
        BY <1>13, <4>2, Zenon DEF Joins
      <4>4. b[k].kind = "audio"
        BY <2>1, <4>3, Zenon
      <4>5. PICK m \in 1 .. Len(roll) : b[k] = Audio(roll[m].tag, roll[m].frame)
        BY <1>2, <1>4, <4>2, <4>4, BlockAudio
      <4>6. b[k].tag = roll[m].tag /\ b[k].frame = roll[m].frame
        BY <4>5 DEF Audio
      <4> QED
        BY <4>3, <4>6, Zenon DEF Tagged, ExactRoll
    <3> QED
      BY <1>14, <3>1, <3>2
  <2>2. ExactRoll(<<>>, p, t)
    BY DEF ExactRoll
  <2> QED
    BY <2>1, <2>2, Zenon DEF Tagged, Exact
<1> QED
  BY <1>6, <1>12, <1>15, <1>24, <1>25, Zenon

\* The last event of events, and the audio among them, when one is added.
LEMMA OneMore ==
    ASSUME NEW out \in Seq(Events), NEW e \in Events
    PROVE  LET u == Append(out, e)
           IN /\ u \in Seq(Events) /\ u # <<>> /\ Len(u) = Len(out) + 1 /\ u[Len(u)] = e
              /\ \A i \in 1 .. Len(out) : u[i] = out[i]
              /\ u = out \o <<e>> /\ <<e>> \in Seq(Events)
OBVIOUS

LEMMA AudioAppend ==
    ASSUME NEW out \in Seq(Events), NEW e \in Events
    PROVE  AudioOf(Append(out, e)) = IF e \in AudioEvents THEN AudioOf(out) \o <<e>> ELSE AudioOf(out)
<1>1. Append(out, e) = out \o <<e>> /\ <<e>> \in Seq(Events)
  BY OneMore
<1>2. PICK b \in Seq(Events) : b = <<e>>
  BY <1>1, Zenon
<1>3. Len(b) = 1 /\ DOMAIN b = {1} /\ b[1] = e
  BY <1>2
<1>4. AudioOf(out \o b) = AudioOf(out) \o AudioOf(b)
  BY AudioOfConcat, Zenon
<1>5. CASE e \in AudioEvents
  <2>1. \A i \in DOMAIN b : b[i] \in AudioEvents
    BY <1>3, <1>5
  <2>2. AudioOf(b) = b
    BY <2>1, KeepAll DEF AudioOf
  <2> QED
    BY <1>1, <1>2, <1>4, <1>5, <2>2, Zenon
<1>6. CASE e \notin AudioEvents
  <2>1. \A i \in DOMAIN b : b[i] \notin AudioEvents
    BY <1>3, <1>6
  <2>2. AudioOf(b) = <<>>
    BY <2>1, KeepNone DEF AudioOf
  <2>3. AudioOf(out) \o <<>> = AudioOf(out)
    BY AudioOfType, ConcatEmpty
  <2> QED
    BY <1>1, <1>2, <1>4, <1>6, <2>2, <2>3, Zenon
<1> QED
  BY <1>5, <1>6

\* The utterance ends.
LEMMA Stopped ==
    ASSUME NEW out, NEW roll, NEW tag \in Nat, NEW p \in Nat, NEW t,
           Formed(out), Banked(out, roll, p), Tagged(out, roll, p, t),
           out # <<>>, ReadyFor(out[Len(out)], tag, p + 1),
           NEW u, u = Append(out, Stop(tag))
    PROVE  /\ Formed(u) /\ Banked(u, roll, p) /\ Tagged(u, roll, p, t)
           /\ u # <<>> /\ u[Len(u)].kind = "stop"
<1>1. PICK e : e = Stop(tag)
  OBVIOUS
<1>2. e \in Events /\ e \notin AudioEvents /\ e.kind = "stop"
  BY <1>1, EventTypes DEF Stop
<1>3. out \in Seq(Events) /\ Len(out) \in Nat
  BY DEF Formed
<1>4. /\ Len(u) = Len(out) + 1 /\ u[Len(u)] = e /\ u # <<>>
      /\ \A i \in 1 .. Len(out) : u[i] = out[i]
  BY <1>1, <1>2, <1>3, OneMore
<1>5. Follows(out[Len(out)], e)
  BY <1>2 DEF ReadyFor, Follows
<1>6. Formed(u)
  <2>1. e.kind \notin {"start", "silence"}
    BY <1>2
  <2> QED
    BY <1>1, <1>2, <1>5, <2>1, FormedAppend
<1>7. AudioOf(u) = AudioOf(out)
  BY <1>1, <1>2, <1>3, AudioAppend
<1>8. Banked(u, roll, p)
  BY <1>7, Zenon DEF Banked
<1>9. ASSUME NEW i \in 1 .. Len(u), u[i].kind = "audio"
      PROVE  u[i].frame \in 1 .. p /\ u[i].tag = t[u[i].frame]
  <2>1. i # Len(u)
    BY <1>2, <1>4, <1>9, Zenon
  <2>2. i \in 1 .. Len(out)
    BY <1>3, <1>4, <2>1
  <2> QED
    BY <1>4, <1>9, <2>2, Zenon DEF Tagged, Exact
<1> QED
  BY <1>2, <1>4, <1>6, <1>8, <1>9, Zenon DEF Tagged, Exact

\* What the live frame can be put behind, and what is there with it.
Sendable(out, tag, p, t) ==
    /\ tag \in Nat /\ p \in Nat
    /\ Formed(out) /\ Banked(out, <<>>, p) /\ Tagged(out, <<>>, p, t)
    /\ out # <<>> /\ ReadyFor(out[Len(out)], tag, p + 1) /\ t[p + 1] = tag
Extended(u, q, t) ==
    /\ Formed(u) /\ Banked(u, <<>>, q) /\ Tagged(u, <<>>, q, t)
    /\ u # <<>> /\ u[Len(u)].kind = "audio" /\ u[Len(u)].frame = q

\* The live frame is sent.
LEMMA Live ==
    \A out, tag, p, t : Sendable(out, tag, p, t) => Extended(Append(out, Audio(tag, p + 1)), p + 1, t)
<1> SUFFICES ASSUME NEW out, NEW tag, NEW p, NEW t, Sendable(out, tag, p, t)
             PROVE  Extended(Append(out, Audio(tag, p + 1)), p + 1, t)
  OBVIOUS
<1>0. /\ tag \in Nat /\ p \in Nat
      /\ Formed(out) /\ Banked(out, <<>>, p) /\ Tagged(out, <<>>, p, t)
      /\ out # <<>> /\ ReadyFor(out[Len(out)], tag, p + 1) /\ t[p + 1] = tag
  BY Zenon DEF Sendable
<1> USE <1>0
<1>18. PICK u : u = Append(out, Audio(tag, p + 1))
  OBVIOUS
<1> USE <1>18
<1>1. PICK e : e = Audio(tag, p + 1)
  OBVIOUS
<1>2. e \in Events /\ e \in AudioEvents /\ e.kind = "audio" /\ e.frame = p + 1 /\ e.tag = tag
  BY <1>1, EventTypes DEF Audio
<1>3. out \in Seq(Events) /\ Len(out) \in Nat /\ Leads(out)
  BY DEF Formed
<1>4. /\ Len(u) = Len(out) + 1 /\ u[Len(u)] = e /\ u # <<>>
      /\ \A i \in 1 .. Len(out) : u[i] = out[i]
  BY <1>1, <1>2, <1>3, OneMore
<1>5. PICK a : a = out[Len(out)]
  OBVIOUS
<1>6. a.kind = "start" => a.tag = tag
  <2>1. CASE LeadInFrames = 0
    <3>1. BackDate = 0 /\ tag - 0 = tag /\ Clamp(tag) = tag
      BY <2>1 DEF BackDate, Clamp
    <3> QED
      BY <1>5, <3>1, Zenon DEF ReadyFor
  <2>2. CASE LeadInFrames # 0
    <3>1. Len(out) \in 1 .. Len(out) /\ ~ (Len(out) + LeadInFrames <= Len(out))
      BY <1>3, <2>2, CaptureAssumption
    <3>2. a.kind # "start"
      BY <1>3, <1>5, <3>1, Zenon DEF Leads, LedIn
    <3> QED
      BY <3>2
  <2> QED
    BY <2>1, <2>2
<1>7. Follows(out[Len(out)], e)
  <2>1. a.kind # "stop" /\ IF a.kind = "audio" THEN a.frame = (p + 1) - 1 ELSE a.tag = Clamp(tag - BackDate)
    BY <1>5, Zenon DEF ReadyFor
  <2>2. a.kind = "audio" => e.frame = a.frame + 1
    BY <1>2, <2>1
  <2> QED
    BY <1>2, <1>5, <1>6, <2>1, <2>2 DEF Follows
<1>8. Formed(u)
  <2>1. e.kind \notin {"start", "silence"}
    BY <1>2
  <2> QED
    BY <1>1, <1>2, <1>7, <2>1, FormedAppend
<1>9. PICK b \in Seq(AudioEvents) : b = AudioOf(out)
  BY <1>3, AudioOfType, Zenon
<1>10. AudioOf(u) = b \o <<e>>
  BY <1>1, <1>2, <1>3, <1>9, AudioAppend
<1>11. Rising(b, p)
  BY <1>9, Zenon DEF Banked
<1>12. LastIn(b) \in 0 .. p
  BY <1>11, LastInIs
<1>13. Rising(b \o <<e>>, p + 1) /\ LastIn(b \o <<e>>) = p + 1
  <2>1. PICK o \in Seq(AudioEvents) : o = <<e>>
    <3>1. <<e>> \in Seq(AudioEvents)
      BY <1>2
    <3> QED
      BY <3>1, Zenon
  <2>2. Len(o) = 1 /\ o # <<>> /\ o[1] = e
    BY <2>1
  <2>3. PICK q \in Nat : q = p + 1 /\ p <= q
    OBVIOUS
  <2>4. Len(o) <= q - LastIn(b)
    BY <1>12, <2>2, <2>3
  <2>5. \A i \in 1 .. Len(o) : o[i].frame = q - Len(o) + i
    BY <1>2, <2>2, <2>3
  <2>7. UpTo(o, q)
    BY <2>5, Zenon DEF UpTo
  <2>6. Rising(b \o o, q) /\ LastIn(b \o o) = IF o = <<>> THEN LastIn(b) ELSE q
    BY <1>11, <2>3, <2>4, <2>7, RisingJoins
  <2> QED
    BY <2>1, <2>2, <2>3, <2>6, Zenon
<1>14. Banked(u, <<>>, p + 1)
  <2>1. <<>> \in Seq(Rolls) /\ UpTo(<<>>, p + 1) /\ Len(<<>>) = 0
    BY DEF UpTo
  <2>2. (p + 1) - (p + 1) = 0
    OBVIOUS
  <2>3. Min({Kept, 0}) = 0
    BY <1>11, SmallerIs
  <2> QED
    BY <1>10, <1>13, <2>1, <2>2, <2>3, Zenon DEF Banked
<1>15. ASSUME NEW i \in 1 .. Len(u), u[i].kind = "audio"
       PROVE  u[i].frame \in 1 .. p + 1 /\ u[i].tag = t[u[i].frame]
  <2>1. CASE i = Len(u)
    <3>1. p + 1 \in 1 .. p + 1
      OBVIOUS
    <3> QED
      BY <1>2, <1>4, <2>1, <3>1, Zenon
  <2>2. CASE i # Len(u)
    <3>1. i \in 1 .. Len(out)
      BY <1>3, <1>4, <2>2
    <3>2. out[i].frame \in 1 .. p /\ out[i].tag = t[out[i].frame]
      BY <1>4, <1>15, <3>1, Zenon DEF Tagged, Exact
    <3>3. out[i].frame \in 1 .. p + 1
      BY <3>2
    <3> QED
      BY <1>4, <3>1, <3>2, <3>3, Zenon
  <2> QED
    BY <2>1, <2>2
<1>16. ExactRoll(<<>>, p + 1, t)
  BY DEF ExactRoll
<1> QED
  BY <1>2, <1>4, <1>8, <1>14, <1>15, <1>16, Zenon DEF Tagged, Exact, Extended

\* The live frame goes into the pre-roll, with what it pushes out of it.
LEMMA BankIs ==
    ASSUME NEW out, NEW roll, NEW tag \in Nat \ {0}, NEW p \in Nat, NEW t,
           Formed(out), Banked(out, roll, p), Tagged(out, roll, p, t), t[p + 1] = tag,
           NEW v, v = Bank(roll, p + 1, tag)
    PROVE  Banked(out, v, p + 1) /\ Tagged(out, v, p + 1, t)
<1>1. out \in Seq(Events) /\ roll \in Seq(Rolls) /\ UpTo(roll, p)
  BY DEF Formed, Banked
<1>2. PICK a \in Seq(AudioEvents) : a = AudioOf(out)
  BY <1>1, AudioOfType, Zenon
<1>3. Rising(a, p) /\ Len(roll) = Min({Kept, p - LastIn(a)})
  BY <1>2, Zenon DEF Banked
<1>4. /\ Kept \in Nat /\ LastIn(a) \in 0 .. p
      /\ Min({Kept, p - LastIn(a)}) = IF Kept <= p - LastIn(a) THEN Kept ELSE p - LastIn(a)
  BY <1>3, SmallerIs
<1>5. PICK q \in Nat : q = p + 1 /\ p <= q
  OBVIOUS
<1>6. Rising(a, q)
  <2>1. \A i \in 1 .. Len(a) : a[i].frame \in 1 .. p
    BY <1>3, Zenon DEF Rising
  <2>2. \A i \in 1 .. Len(a) : a[i].frame \in 1 .. q
    BY <1>5, <2>1
  <2> QED
    BY <1>3, <2>2, Zenon DEF Rising
<1>7. Min({Kept, q - LastIn(a)}) = IF Kept <= q - LastIn(a) THEN Kept ELSE q - LastIn(a)
  BY <1>6, SmallerIs
<1>8. PICK n \in Nat : n = Len(roll)
  BY <1>1
<1>9. n = IF Kept <= p - LastIn(a) THEN Kept ELSE p - LastIn(a)
  BY <1>3, <1>4, <1>8, Zenon
<1>10. PICK e \in Rolls : e = [tag |-> tag, frame |-> q]
  <2>1. [tag |-> tag, frame |-> q] \in Rolls
    BY <1>5 DEF Rolls
  <2> QED
    BY <2>1, Zenon
<1>11. PICK all \in Seq(Rolls) :
         /\ all = Append(roll, e) /\ Len(all) = n + 1 /\ all[n + 1] = e
         /\ \A i \in 1 .. n : all[i] = roll[i]
  <2>1. /\ Append(roll, e) \in Seq(Rolls) /\ Len(Append(roll, e)) = n + 1
        /\ Append(roll, e)[n + 1] = e
        /\ \A i \in 1 .. n : Append(roll, e)[i] = roll[i]
    BY <1>1, <1>8
  <2> QED
    BY <2>1, Zenon
<1>12. PICK k \in Nat, l \in 0 .. p : k = Kept /\ l = LastIn(a)
  BY <1>4, Zenon
<1>13. n = IF k <= p - l THEN k ELSE p - l
  BY <1>9, <1>12, Zenon
<1>14. PICK m \in 0 .. 1 : m = IF n + 1 <= k THEN 0 ELSE 1
  OBVIOUS
<1>15. /\ m \in 0 .. n + 1 /\ n + 1 \in m .. n + 1
       /\ n + 1 - m = IF k <= q - l THEN k ELSE q - l
  BY <1>5, <1>13, <1>14
<1>16. Max({1, Len(all) - Kept + 1}) = m + 1
  <2>1. PICK d \in Int : d = (n + 1) - k + 1
    OBVIOUS
  <2>2. Max({1, d}) = IF 1 >= d THEN 1 ELSE d
    BY MaxOfTwo
  <2>3. (IF 1 >= d THEN 1 ELSE d) = m + 1
    BY <1>13, <1>14, <2>1
  <2> QED
    BY <1>11, <1>12, <2>1, <2>2, <2>3, Zenon
<1>24. v = SubSeq(all, m + 1, n + 1)
  BY <1>5, <1>10, <1>11, <1>16, Zenon DEF Bank
<1>25. /\ v \in Seq(Rolls) /\ Len(v) = n + 1 - m
       /\ \A i \in 1 .. n + 1 - m : v[i] = all[m + i]
  <2>1. m \in 0 .. Len(all) /\ n + 1 \in m .. Len(all)
    BY <1>11, <1>15, Zenon
  <2> QED
    <3>1. /\ SubSeq(all, m + 1, n + 1) \in Seq(Rolls)
          /\ Len(SubSeq(all, m + 1, n + 1)) = n + 1 - m
          /\ \A i \in 1 .. n + 1 - m : SubSeq(all, m + 1, n + 1)[i] = all[m + i]
      BY <2>1, CutType
    <3> QED
      BY <1>24, <3>1, Zenon
<1>26. Len(v) = Min({Kept, q - LastIn(a)})
  BY <1>7, <1>12, <1>15, <1>25, Zenon
<1>17. e.frame = q /\ e.tag = tag
  BY <1>10
<1>18. ASSUME NEW i \in 1 .. Len(v)
       PROVE  \/ v[i] = e /\ i = Len(v)
              \/ m + i \in 1 .. n /\ v[i] = roll[m + i]
  <2>1. i \in 1 .. n + 1 - m
    BY <1>25, Zenon
  <2>2. (m + i = n + 1 /\ i = n + 1 - m) \/ m + i \in 1 .. n
    BY <2>1
  <2>3. v[i] = all[m + i]
    BY <1>25, <2>1, Zenon
  <2> QED
    BY <1>11, <1>25, <2>2, <2>3, Zenon
<1>19. ASSUME NEW i \in 1 .. Len(v)
       PROVE  v[i].frame = q - Len(v) + i /\ v[i].frame \in 1 .. q /\ v[i].tag = t[v[i].frame]
  <2>0. PICK c \in Nat : c = Len(v) /\ c = n + 1 - m /\ i \in 1 .. c
    <3>1. n + 1 - m \in Nat
      BY <1>15
    <3> QED
      BY <1>25, <3>1, Zenon
  <2>1. CASE v[i] = e /\ i = Len(v)
    <3>1. q - c + i = q /\ q \in 1 .. q
      BY <1>5, <2>0, <2>1
    <3> QED
      BY <1>5, <1>17, <2>0, <2>1, <3>1, Zenon
  <2>2. CASE m + i \in 1 .. n /\ v[i] = roll[m + i]
    <3>1. roll[m + i].frame = p - n + (m + i)
      BY <1>1, <1>8, <2>2, Zenon DEF UpTo
    <3>2. roll[m + i].frame \in 1 .. p /\ roll[m + i].tag = t[roll[m + i].frame]
      BY <1>8, <2>2, Zenon DEF Tagged, ExactRoll
    <3>3. p - n + (m + i) = q - c + i
      BY <1>5, <2>0
    <3>4. \A x \in 1 .. p : x \in 1 .. q
      BY <1>5
    <3> QED
      BY <2>0, <2>2, <3>1, <3>2, <3>3, <3>4, Zenon
  <2> QED
    BY <1>18, <2>1, <2>2
<1>20. Banked(out, v, q)
  BY <1>2, <1>6, <1>25, <1>26, <1>19, Zenon DEF Banked, UpTo
<1>21. ASSUME NEW i \in 1 .. Len(out), out[i].kind = "audio"
       PROVE  out[i].frame \in 1 .. q /\ out[i].tag = t[out[i].frame]
  <2>1. out[i].frame \in 1 .. p /\ out[i].tag = t[out[i].frame]
    BY <1>21, Zenon DEF Tagged, Exact
  <2> QED
    BY <1>5, <2>1
<1>22. Tagged(out, v, q, t)
  BY <1>19, <1>21, Zenon DEF Tagged, Exact, ExactRoll
<1> QED
  BY <1>5, <1>20, <1>22, Zenon

-----------------------------------------------------------------------------
(* What the detector announces while it looks at frame p + 1.              *)

States == [speech : BOOLEAN, roll : Seq(Rolls), out : Seq(Events)]

Ready(st, tag, p, t) ==
    /\ st \in States
    /\ Formed(st.out) /\ Banked(st.out, st.roll, p) /\ Tagged(st.out, st.roll, p, t)
    /\ st.speech => st.roll = <<>> /\ st.out # <<>> /\ ReadyFor(st.out[Len(st.out)], tag, p + 1)
    /\ ~st.speech /\ st.out # <<>> => st.out[Len(st.out)].kind = "stop"

LEMMA TransitionReady ==
    ASSUME NEW st, NEW tag \in Nat, NEW p \in Nat, NEW t, Ready(st, tag, p, t), NEW kind
    PROVE  Ready(Transition(st, kind, tag), tag, p, t)
<1>1. st \in States /\ st.speech \in BOOLEAN /\ st.out \in Seq(Events) /\ st.roll \in Seq(Rolls)
  BY DEF Ready, States
<1>2. Formed(st.out) /\ Banked(st.out, st.roll, p) /\ Tagged(st.out, st.roll, p, t)
  BY Zenon DEF Ready
<1>3. CASE kind = "start" /\ ~st.speech
  <2>1. PICK u : u = st.out \o Beginning(st.roll, tag)
    OBVIOUS
  <2>2. st.out # <<>> => st.out[Len(st.out)].kind = "stop"
    BY <1>3, Zenon DEF Ready
  <2>3. /\ Formed(u) /\ Banked(u, <<>>, p) /\ Tagged(u, <<>>, p, t)
        /\ u # <<>> /\ ReadyFor(u[Len(u)], tag, p + 1)
    BY <1>2, <2>1, <2>2, Begun
  <2>4. PICK x : x = [speech |-> TRUE, roll |-> <<>>, out |-> u]
    OBVIOUS
  <2>5. x.speech = TRUE /\ x.roll = <<>> /\ x.out = u
    BY <2>4
  <2>6. x \in States
    <3>1. u \in Seq(Events) /\ <<>> \in Seq(Rolls)
      BY <2>3 DEF Formed
    <3> QED
      BY <2>4, <3>1 DEF States
  <2>7. Transition(st, kind, tag) = x
    BY <1>3, <2>1, <2>4, Zenon DEF Transition, Replayed
  <2> QED
    BY <2>3, <2>5, <2>6, <2>7, Zenon DEF Ready
<1>4. CASE kind = "stop" /\ st.speech
  <2>1. PICK u : u = Append(st.out, Stop(tag))
    OBVIOUS
  <2>2. st.roll = <<>> /\ st.out # <<>> /\ ReadyFor(st.out[Len(st.out)], tag, p + 1)
    BY <1>4, Zenon DEF Ready
  <2>3. /\ Formed(u) /\ Banked(u, st.roll, p) /\ Tagged(u, st.roll, p, t)
        /\ u # <<>> /\ u[Len(u)].kind = "stop"
    <3>1. PICK o, r : o = st.out /\ r = st.roll
      OBVIOUS
    <3>2. Formed(o) /\ Banked(o, r, p) /\ Tagged(o, r, p, t)
      BY <1>2, <3>1, Zenon
    <3>3. o # <<>> /\ ReadyFor(o[Len(o)], tag, p + 1) /\ u = Append(o, Stop(tag))
      BY <2>1, <2>2, <3>1, Zenon
    <3>4. /\ Formed(u) /\ Banked(u, r, p) /\ Tagged(u, r, p, t)
          /\ u # <<>> /\ u[Len(u)].kind = "stop"
      BY <3>2, <3>3, Stopped
    <3> QED
      BY <3>1, <3>4, Zenon
  <2>4. PICK x : x = [st EXCEPT !.speech = FALSE, !.out = u]
    OBVIOUS
  <2>5. x.speech = FALSE /\ x.roll = st.roll /\ x.out = u
    BY <1>1, <2>4 DEF States
  <2>6. x \in States
    <3>1. u \in Seq(Events)
      BY <2>3 DEF Formed
    <3> QED
      BY <1>1, <2>4, <3>1 DEF States
  <2>7. Transition(st, kind, tag) = x
    <3>1. ~ (kind = "start" /\ ~st.speech)
      BY <1>4
    <3>2. Transition(st, kind, tag) = [st EXCEPT !.speech = FALSE, !.out = Append(@, Stop(tag))]
      BY <1>4, <3>1, Zenon DEF Transition
    <3>3. [st EXCEPT !.speech = FALSE, !.out = Append(@, Stop(tag))] = x
      BY <2>1, <2>4, Zenon
    <3> QED
      BY <3>2, <3>3
  <2> QED
    BY <2>3, <2>5, <2>6, <2>7, Zenon DEF Ready
<1>5. CASE ~(kind = "start" /\ ~st.speech) /\ ~(kind = "stop" /\ st.speech)
  BY <1>5, Zenon DEF Transition
<1> QED
  BY <1>3, <1>4, <1>5, Zenon

-----------------------------------------------------------------------------
(* The utterances sent, the pre-roll and the frames processed so far.      *)

\* p frames have been processed, and their tags are those of t.
FramesAre(p, t) ==
    /\ Len(fed) = p * FrameSamples
    /\ \A f \in 1 .. p : t[f] = FirstOf(f).tag

SpeechAt(p, t) ==
    /\ Formed(sent) /\ Banked(sent, preroll, p) /\ Tagged(sent, preroll, p, t)
    /\ inSpeech \in BOOLEAN
    /\ inSpeech => /\ preroll = <<>> /\ sent # <<>>
                   /\ sent[Len(sent)].kind = "audio" /\ sent[Len(sent)].frame = p
    /\ ~inSpeech /\ sent # <<>> => sent[Len(sent)].kind = "stop"

SpeechInv == \E p \in Nat : \E t : FramesAre(p, t) /\ SpeechAt(p, t)

\* Arithmetic of frames.
LEMMA FrameArithmetic ==
    ASSUME NEW n \in Nat \ {0}, NEW p \in Nat
    PROVE  /\ 0 * n = 0 /\ p * n + n = (p + 1) * n
           /\ p * n \in Nat /\ (p * n) \div n = p
           /\ ((p + 1) - 1) * n + 1 = p * n + 1
           /\ \A f \in 1 .. p : (f - 1) * n + 1 \in 1 .. p * n
<1>1. 0 * n = 0 /\ p * n + n = (p + 1) * n
  OBVIOUS
<1>2. p * n \in Nat
  OBVIOUS
<1>3. (p * n) \div n = p
  OBVIOUS
<1>4. ((p + 1) - 1) * n + 1 = p * n + 1
  OBVIOUS
<1>5. ASSUME NEW f \in 1 .. p PROVE (f - 1) * n + 1 \in 1 .. p * n
  OBVIOUS
<1> QED
  BY <1>1, <1>2, <1>3, <1>4, <1>5

LEMMA SpeechInit == Init => SpeechInv
<1> SUFFICES ASSUME Init PROVE SpeechInv
  OBVIOUS
<1>1. sent = <<>> /\ preroll = <<>> /\ fed = <<>> /\ inSpeech = FALSE
  BY DEF Init
<1>2. FramesAre(0, <<>>)
  <2>1. 0 * FrameSamples = 0
    BY FrameArithmetic, CaptureAssumption
  <2> QED
    BY <1>1, <2>1 DEF FramesAre
<1>3. Formed(<<>>)
  BY DEF Formed, Chain, Leads, Begins
<1>4. AudioOf(<<>>) = <<>>
  BY KeepEmpty DEF AudioOf
<1>5. <<>> \in Seq(AudioEvents) /\ Rising(<<>>, 0) /\ LastIn(<<>>) = 0
  BY DEF Rising, LastIn
<1>6. Banked(<<>>, <<>>, 0)
  <2>1. <<>> \in Seq(Rolls) /\ UpTo(<<>>, 0) /\ Len(<<>>) = 0 /\ 0 - 0 = 0
    BY DEF UpTo
  <2>2. Min({Kept, 0}) = 0
    <3>1. Min({Kept, 0}) = IF Kept <= 0 THEN Kept ELSE 0
      BY KeptType, MinOfTwo
    <3> QED
      BY <3>1, KeptType
  <2> QED
    BY <1>4, <1>5, <2>1, <2>2, Zenon DEF Banked
<1>7. Tagged(<<>>, <<>>, 0, <<>>)
  BY DEF Tagged, Exact, ExactRoll
<1>8. SpeechAt(0, <<>>)
  BY <1>1, <1>3, <1>6, <1>7, Zenon DEF SpeechAt
<1> QED
  BY <1>2, <1>8 DEF SpeechInv

\* The tag of the frame processed is that of its first sample.
LEMMA FrameTagged ==
    ASSUME StreamInv, TagInv, ProcessFrame, NEW p \in Nat, NEW t, FramesAre(p, t)
    PROVE  /\ FrameTag \in Nat \ {0}
           /\ Len(fed) \div FrameSamples + 1 = p + 1
           /\ \E x : FramesAre(p + 1, x)' /\ x[p + 1] = FrameTag /\ \A f \in 1 .. p : x[f] = t[f]
<1>1. FrameSamples \in Nat \ {0}
  BY FrameCut
<1>2. PICK f \in Seq(Samples), h \in Seq(Samples) :
         Len(f) = FrameSamples /\ fed' = fed \o f /\ Held' = h /\ Held = f \o h
  BY FrameCut, Zenon
<1>3. fed \in Seq(Samples) /\ Held \in Seq(Samples)
  BY HeldType DEF StreamInv, StreamTypes
<1>4. Joins(fed', fed, f) /\ Joins(Held, f, h)
  BY <1>2, <1>3, ConcatJoins, Zenon
<1>5. 1 \in 1 .. Len(f) /\ Len(f) \in Nat \ {0} /\ Len(h) \in Nat /\ Len(fed) \in Nat
  BY <1>1, <1>2, <1>3
<1>6. Held[1] = f[1] /\ f[1] \in Samples
  BY <1>4, <1>5 DEF Joins
<1>7. Len(Held) # 0
  BY <1>4, <1>5 DEF Joins
<1>8. spans # <<>> /\ spans[1].tag = Held[1].tag
  BY <1>3, <1>7, FirstTag DEF TagInv
<1>9. FrameTag = f[1].tag /\ FrameTag \in Nat \ {0}
  BY <1>6, <1>8 DEF FrameTag, Samples
<1>10. Len(fed) = p * FrameSamples /\ \A g \in 1 .. p : t[g] = FirstOf(g).tag
  BY Zenon DEF FramesAre
<1>11. /\ p * FrameSamples + FrameSamples = (p + 1) * FrameSamples
       /\ (p * FrameSamples) \div FrameSamples = p
       /\ ((p + 1) - 1) * FrameSamples + 1 = p * FrameSamples + 1
       /\ \A g \in 1 .. p : (g - 1) * FrameSamples + 1 \in 1 .. p * FrameSamples
  BY <1>1, FrameArithmetic
<1>12. PICK x : x = [g \in 1 .. p + 1 |-> IF g = p + 1 THEN FrameTag ELSE t[g]]
  OBVIOUS
<1>13. x[p + 1] = FrameTag /\ \A g \in 1 .. p : x[g] = t[g]
  BY <1>12
<1>14. Len(fed') = (p + 1) * FrameSamples
  BY <1>2, <1>4, <1>10, <1>11, Zenon DEF Joins
<1>15. ASSUME NEW g \in 1 .. p + 1
       PROVE  x[g] = (fed'[(g - 1) * FrameSamples + 1]).tag
  <2>1. CASE g = p + 1
    <3>1. fed'[Len(fed) + 1] = f[1]
      BY <1>4, <1>5, Zenon DEF Joins
    <3> QED
      BY <1>9, <1>10, <1>11, <1>13, <2>1, <3>1, Zenon
  <2>2. CASE g # p + 1
    <3>1. g \in 1 .. p
      BY <2>2
    <3>2. (g - 1) * FrameSamples + 1 \in 1 .. Len(fed)
      BY <1>10, <1>11, <3>1, Zenon
    <3>3. fed'[(g - 1) * FrameSamples + 1] = fed[(g - 1) * FrameSamples + 1]
      BY <1>4, <3>2, Zenon DEF Joins
    <3> QED
      BY <1>10, <1>13, <3>1, <3>3, Zenon DEF FirstOf
  <2> QED
    BY <2>1, <2>2
<1>16. FramesAre(p + 1, x)'
  BY <1>14, <1>15, Zenon DEF FramesAre, FirstOf
<1>17. Len(fed) \div FrameSamples + 1 = p + 1
  BY <1>10, <1>11, Zenon
<1> QED
  BY <1>9, <1>13, <1>16, <1>17, Zenon

LEMMA SpeechProcess ==
    ASSUME StreamInv, TagInv, SpeechInv, ProcessFrame
    PROVE  SpeechInv'
<1>p. PICK p \in Nat : \E t : FramesAre(p, t) /\ SpeechAt(p, t)
  BY Zenon DEF SpeechInv
<1>1. PICK t : FramesAre(p, t) /\ SpeechAt(p, t)
  BY <1>p
<1>2. FrameTag \in Nat \ {0} /\ Len(fed) \div FrameSamples + 1 = p + 1
  BY <1>1, FrameTagged
<1>3. PICK x : FramesAre(p + 1, x)' /\ x[p + 1] = FrameTag /\ \A f \in 1 .. p : x[f] = t[f]
  BY <1>1, FrameTagged, Zenon
<1>4. PICK tag \in Nat \ {0} : tag = FrameTag
  BY <1>2, Zenon
<1>5. PICK before : before = [speech |-> inSpeech, roll |-> preroll, out |-> sent]
  OBVIOUS
<1>6. PICK first \in Kinds, second \in Kinds :
        LET st == Transition(Transition(before, first, tag), second, tag)
        IN /\ inSpeech' = st.speech
           /\ preroll' = IF st.speech THEN st.roll ELSE Bank(st.roll, p + 1, tag)
           /\ sent' = IF st.speech THEN Append(st.out, Audio(tag, p + 1)) ELSE st.out
  BY <1>2, <1>4, <1>5, Zenon DEF ProcessFrame
<1>7. PICK st : st = Transition(Transition(before, first, tag), second, tag)
  OBVIOUS
<1>8. /\ inSpeech' = st.speech
      /\ preroll' = IF st.speech THEN st.roll ELSE Bank(st.roll, p + 1, tag)
      /\ sent' = IF st.speech THEN Append(st.out, Audio(tag, p + 1)) ELSE st.out
  BY <1>6, <1>7, Zenon
<1>9. Formed(sent) /\ Banked(sent, preroll, p) /\ Tagged(sent, preroll, p, x)
  <2>1. Formed(sent) /\ Banked(sent, preroll, p) /\ Tagged(sent, preroll, p, t)
    BY <1>1, Zenon DEF SpeechAt
  <2> QED
    BY <1>3, <2>1, Zenon DEF Tagged, Exact, ExactRoll
<1>10. Ready(before, tag, p, x)
  <2>1. before.speech = inSpeech /\ before.roll = preroll /\ before.out = sent
    BY <1>5
  <2>2. sent \in Seq(Events) /\ preroll \in Seq(Rolls) /\ inSpeech \in BOOLEAN
    BY <1>1, <1>9, Zenon DEF Formed, Banked, SpeechAt
  <2>3. before \in States
    BY <1>5, <2>2 DEF States
  <2>4. inSpeech => preroll = <<>> /\ sent # <<>> /\ ReadyFor(sent[Len(sent)], tag, p + 1)
    <3>1. (p + 1) - 1 = p
      OBVIOUS
    <3> QED
      BY <1>1, <3>1 DEF SpeechAt, ReadyFor
  <2>5. ~inSpeech /\ sent # <<>> => sent[Len(sent)].kind = "stop"
    BY <1>1, Zenon DEF SpeechAt
  <2> QED
    BY <1>9, <2>1, <2>3, <2>4, <2>5, Zenon DEF Ready
<1>11. Ready(st, tag, p, x)
  <2>1. Ready(Transition(before, first, tag), tag, p, x)
    BY <1>10, TransitionReady
  <2> QED
    BY <1>7, <2>1, TransitionReady
<1>12. /\ st.speech \in BOOLEAN
       /\ Formed(st.out) /\ Banked(st.out, st.roll, p) /\ Tagged(st.out, st.roll, p, x)
       /\ st.speech => st.roll = <<>> /\ st.out # <<>> /\ ReadyFor(st.out[Len(st.out)], tag, p + 1)
       /\ ~st.speech /\ st.out # <<>> => st.out[Len(st.out)].kind = "stop"
  <2>1. st \in States => st.speech \in BOOLEAN
    BY DEF States
  <2> QED
    BY <1>11, <2>1, Zenon DEF Ready
<1>13. ASSUME st.speech PROVE SpeechAt(p + 1, x)'
  <2>1. PICK o, u : o = st.out /\ u = Append(o, Audio(tag, p + 1))
    OBVIOUS
  <2>2. sent' = u /\ preroll' = <<>> /\ inSpeech' = TRUE
    BY <1>8, <1>12, <1>13, <2>1, Zenon
  <2>3. /\ Formed(o) /\ Banked(o, <<>>, p) /\ Tagged(o, <<>>, p, x)
        /\ o # <<>> /\ ReadyFor(o[Len(o)], tag, p + 1)
    BY <1>12, <1>13, <2>1, Zenon
  <2>4. x[p + 1] = tag
    BY <1>3, <1>4
  <2>5. /\ Formed(u) /\ Banked(u, <<>>, p + 1) /\ Tagged(u, <<>>, p + 1, x)
        /\ u # <<>> /\ u[Len(u)].kind = "audio" /\ u[Len(u)].frame = p + 1
    <3>1. tag \in Nat /\ u = Append(o, Audio(tag, p + 1))
      BY <2>1
    <3>2. Sendable(o, tag, p, x)
      BY <2>3, <2>4, <3>1 DEF Sendable
    <3> QED
      BY <3>1, <3>2, Live, Zenon DEF Extended
  <2> QED
    BY <2>2, <2>5, Zenon DEF SpeechAt
<1>14. ASSUME ~st.speech PROVE SpeechAt(p + 1, x)'
  <2>1. PICK o, r, v : o = st.out /\ r = st.roll /\ v = Bank(r, p + 1, tag)
    OBVIOUS
  <2>2. sent' = o /\ preroll' = v /\ inSpeech' = FALSE
    BY <1>8, <1>12, <1>14, <2>1, Zenon
  <2>3. Formed(o) /\ Banked(o, r, p) /\ Tagged(o, r, p, x) /\ x[p + 1] = tag
    BY <1>3, <1>4, <1>12, <2>1, Zenon
  <2>4. Banked(o, v, p + 1) /\ Tagged(o, v, p + 1, x)
    BY <2>1, <2>3, BankIs
  <2>5. o # <<>> => o[Len(o)].kind = "stop"
    BY <1>12, <1>14, <2>1, Zenon
  <2> QED
    BY <2>2, <2>3, <2>4, <2>5, Zenon DEF SpeechAt
<1>15. SpeechAt(p + 1, x)'
  BY <1>12, <1>13, <1>14
<1>16. p + 1 \in Nat
  OBVIOUS
<1> QED
  BY <1>3, <1>15, <1>16, Zenon DEF SpeechInv

LEMMA SpeechStays ==
    ASSUME SpeechInv, UNCHANGED <<speech, fed>>
    PROVE  SpeechInv'
BY Zenon DEF speech, SpeechInv, FramesAre, SpeechAt, FirstOf

LEMMA SpeechStep == StreamInv /\ TagInv /\ SpeechInv /\ [Next]_vars => SpeechInv'
<1> SUFFICES ASSUME StreamInv, TagInv, SpeechInv, [Next]_vars PROVE SpeechInv'
  OBVIOUS
<1>1. CASE \E n \in PushLengths : Push(n)
  BY <1>1, SpeechStays DEF Push
<1>2. CASE \E n \in PushLengths : PushOverflow(n)
  BY <1>2, SpeechStays DEF PushOverflow, vars
<1>3. CASE DrainInto
  BY <1>3, SpeechStays DEF DrainInto
<1>4. CASE ProcessFrame
  BY <1>4, SpeechProcess
<1>5. CASE TickEnds
  BY <1>5, SpeechStays DEF TickEnds
<1>6. CASE UNCHANGED vars
  BY <1>6, SpeechStays DEF vars
<1> QED
  BY <1>1, <1>2, <1>3, <1>4, <1>5, <1>6 DEF Next

LEMMA SpeechAlways == Spec => []SpeechInv
BY SpeechInit, SpeechStep, StreamAlways, TagAlways, PTL DEF Spec

\* Every frame, in the pre-roll, replayed or live, carries the tag of the push
\* its first sample came from, and the spans say the same of what is held.
THEOREM RightTags == Spec => []TagsExact
<1>1. TagInv /\ SpeechInv => TagsExact
  <2> SUFFICES ASSUME TagInv, SpeechInv PROVE TagsExact
    OBVIOUS
  <2>p. PICK p \in Nat : \E t : FramesAre(p, t) /\ SpeechAt(p, t)
    BY Zenon DEF SpeechInv
  <2>1. PICK t : FramesAre(p, t) /\ SpeechAt(p, t)
    BY <2>p
  <2>2. sent \in Seq(Events) /\ preroll \in Seq(Rolls)
    BY <2>1, Zenon DEF SpeechAt, Formed, Banked
  <2>3. DOMAIN sent = 1 .. Len(sent) /\ DOMAIN preroll = 1 .. Len(preroll)
    BY <2>2
  <2>4. TagsOf(spans) = [k \in DOMAIN Held |-> Held[k].tag]
    BY Zenon DEF TagInv, Tags
  <2>5. \A f \in 1 .. p : t[f] = FirstOf(f).tag
    BY <2>1, Zenon DEF FramesAre
  <2>6. Exact(sent, p, t) /\ ExactRoll(preroll, p, t)
    BY <2>1, Zenon DEF SpeechAt, Tagged
  <2> QED
    BY <2>3, <2>4, <2>5, <2>6, Zenon DEF TagsExact, Exact, ExactRoll
<1> QED
  BY <1>1, TagAlways, SpeechAlways, PTL

\* The events sent are utterances: a start, its lead-in, the frames one after
\* another, a stop, dated as documented.
THEOREM WellFormed == Spec => []Utterances
<1>1. SpeechInv => Utterances
  BY UtterancesHold, Zenon DEF SpeechInv, SpeechAt, Formed
<1> QED
  BY <1>1, SpeechAlways, PTL

\* No frame is sent twice, and the pre-roll holds all the audio it is to keep
\* that was not sent.
THEOREM WholeOnset == Spec => []OnsetIsWhole
<1>1. SpeechInv => OnsetIsWhole
  <2> SUFFICES ASSUME SpeechInv PROVE OnsetIsWhole
    OBVIOUS
  <2>p. PICK p \in Nat : \E t : FramesAre(p, t) /\ SpeechAt(p, t)
    BY Zenon DEF SpeechInv
  <2>1. PICK t : FramesAre(p, t) /\ SpeechAt(p, t)
    BY <2>p
  <2>2. sent \in Seq(Events) /\ Banked(sent, preroll, p)
    BY <2>1, Zenon DEF SpeechAt, Formed
  <2>3. PICK audio \in Seq(AudioEvents) : audio = AudioOf(sent)
    BY <2>2, AudioOfType, Zenon
  <2>4. audio = Keep(sent, [kind : {"audio"}, tag : Nat, frame : Nat])
    BY <2>3, Zenon DEF AudioOf, AudioEvents
  <2>5. Len(fed) \div FrameSamples = p
    <3>1. FrameSamples \in Nat \ {0}
      BY CaptureAssumption
    <3>2. (p * FrameSamples) \div FrameSamples = p
      BY <3>1, FrameArithmetic
    <3> QED
      BY <2>1, <3>2, Zenon DEF FramesAre
  <2>6. /\ Rising(audio, p) /\ preroll \in Seq(Rolls) /\ UpTo(preroll, p)
        /\ Len(preroll) = Min({Kept, p - LastIn(audio)})
    BY <2>2, <2>3, Zenon DEF Banked
  <2>7. DOMAIN audio = 1 .. Len(audio) /\ DOMAIN preroll = 1 .. Len(preroll)
    BY <2>6
  <2>8. \A i, j \in DOMAIN audio : i < j => audio[i].frame < audio[j].frame
    BY <2>6, <2>7, Zenon DEF Rising
  <2>9. [i \in DOMAIN preroll |-> preroll[i].frame]
          = [i \in 1 .. Min({Kept, p - LastIn(audio)}) |-> p - Min({Kept, p - LastIn(audio)}) + i]
    <3>1. PICK n : n = Len(preroll) /\ n = Min({Kept, p - LastIn(audio)})
      BY <2>6, Zenon
    <3>2. \A i \in 1 .. n : preroll[i].frame = p - n + i
      BY <2>6, <3>1, Zenon DEF UpTo
    <3>3. [i \in 1 .. n |-> preroll[i].frame] = [i \in 1 .. n |-> p - n + i]
      BY <3>2, Zenon
    <3> QED
      BY <2>7, <3>1, <3>3, Zenon
  <2> QED
    BY <2>4, <2>5, <2>8, <2>9, Zenon DEF OnsetIsWhole, LastIn
<1> QED
  BY <1>1, SpeechAlways, PTL

\* The types, and the two bounds: the queue counts what it holds and stays
\* within its capacity, and the pre-roll never keeps more than it may.
THEOREM WithinBounds == Spec => []TypeOK
<1>1. StreamInv /\ TagInv /\ SpeechInv => TypeOK
  <2> SUFFICES ASSUME StreamInv, TagInv, SpeechInv PROVE TypeOK
    OBVIOUS
  <2>1. StreamTypes /\ CountsAgree
    BY DEF StreamInv
  <2>2. spans \in Seq([tag : Nat \ {0}, n : Nat \ {0}])
    BY Zenon DEF TagInv, Spans
  <2>p. PICK p \in Nat : \E t : FramesAre(p, t) /\ SpeechAt(p, t)
    BY Zenon DEF SpeechInv
  <2>3. PICK t : FramesAre(p, t) /\ SpeechAt(p, t)
    BY <2>p
  <2>4. /\ sent \in Seq(Events) /\ inSpeech \in BOOLEAN
        /\ preroll \in Seq([tag : Nat \ {0}, frame : Nat \ {0}])
        /\ Banked(sent, preroll, p)
    BY <2>3, Zenon DEF SpeechAt, Formed, Banked, Rolls
  <2>5. PICK a \in Seq(AudioEvents) : a = AudioOf(sent)
    BY <2>4, AudioOfType, Zenon
  <2>6. Rising(a, p) /\ Len(preroll) = Min({Kept, p - LastIn(a)})
    BY <2>4, <2>5, Zenon DEF Banked
  <2>7. /\ Kept \in Nat /\ LastIn(a) \in 0 .. p
        /\ Min({Kept, p - LastIn(a)}) = IF Kept <= p - LastIn(a) THEN Kept ELSE p - LastIn(a)
    BY <2>6, SmallerIs
  <2>r. Len(preroll) \in Nat
    BY <2>4
  <2>8. PICK k \in Nat, l \in 0 .. p, n \in Nat : k = Kept /\ l = LastIn(a) /\ n = Len(preroll)
    BY <2>r, <2>7, Zenon
  <2>9. n = IF k <= p - l THEN k ELSE p - l
    BY <2>6, <2>7, <2>8, Zenon
  <2>10. n <= k
    BY <2>9
  <2> QED
    BY <2>1, <2>2, <2>4, <2>8, <2>10, Zenon DEF TypeOK, StreamTypes, CountsAgree
<1> QED
  BY <1>1, StreamAlways, TagAlways, SpeechAlways, PTL

=============================================================================
