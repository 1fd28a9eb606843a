---------------------------- MODULE DuplexRender ----------------------------
(***************************************************************************)
(* The render half of a duplex.Engine: the jitter buffer (duplex/render.go)*)
(* that any goroutine feeds with chunks of any length, marks boundaries in *)
(* and clears, and that the audio goroutine reads one frame of per tick.   *)
(* Every call of it holds one lock, so each is a step; FeedChunk looks at  *)
(* the halt before it takes the lock, and is two.                          *)
(*                                                                         *)
(* The k-th voice sample fed is the number k.  What is heard at one place  *)
(* of a frame is the set of the samples mixed there: {} is silence, {k} a  *)
(* sample alone, more a crossfade.  Gains, the render chain and the clamp  *)
(* are left out; the looping ambient bed is its position.                  *)
(***************************************************************************)
EXTENDS Integers, Sequences, SequencesExt, FiniteSetsExt, Filters

CONSTANTS
    FrameSamples,   \* samples of one engine frame
    FadeSamples,    \* samples of a crossfade; 0: seams are not faded
    Channels,       \* samples of one instant
    BedSamples,     \* length of the ambient asset; 0: none
    ChunkLengths,   \* the lengths FeedChunk is called with
    MaxFed,         \* bound on the samples fed
    MaxMarks,       \* bound on the boundaries marked
    MaxClears       \* bound on the calls of ClearPending

ASSUME RenderAssumption ==
    /\ FrameSamples \in Nat \ {0} /\ Channels \in Nat \ {0}
    /\ FrameSamples % Channels = 0
    /\ FadeSamples \in 0 .. FrameSamples /\ FadeSamples % Channels = 0
    /\ BedSamples \in Nat
    /\ ChunkLengths \subseteq Nat
    /\ MaxFed \in Nat /\ MaxMarks \in Nat /\ MaxClears \in Nat

VARIABLES
    frames,      \* jitterBuffer.frames: [samples, seam], oldest first
    chunk,       \* StreamChunker.pending, its first pendingLen samples
    pendingSeam, \* jitterBuffer.pendingSeam
    tail,        \* jitterBuffer.tail
    halted,      \* the engine has begun to shut down
    feeding,     \* lengths of the FeedChunk calls past the halted check
    pos,         \* ambientBed.pos
    heard,       \* history: the last voiced frame read since a clear, or <<>>
    fed,         \* history: of each sample fed, the mark or clear before it
    gone,        \* history: samples played or cleared so far
    cuts         \* history: the boundaries and clears, in their order

jitter == <<frames, chunk, pendingSeam, tail>>
history == <<heard, fed, gone, cuts>>
renderVars == <<jitter, halted, feeding, pos, history>>

RenderInit ==
    /\ frames = <<>> /\ chunk = <<>> /\ pendingSeam = FALSE /\ tail = <<>>
    /\ halted = FALSE /\ feeding = {}
    /\ pos = 0
    /\ heard = <<>> /\ fed = <<>> /\ gone = 0 /\ cuts = <<>>

Silence == 0
Count(kind) == Len(SelectSeq(cuts, LAMBDA c : c = kind))

-----------------------------------------------------------------------------
(* The chunker and the queue.                                              *)

\* The mutant gives the seam to every frame of the Write it is armed at.
MutEnqueue(whole, seam) ==
    [i \in 1 .. Len(whole) |-> [samples |-> whole[i], seam |-> seam]]

\* enqueueFrame for each of whole: the armed seam goes with the first.
Enqueue(whole, seam) ==
    [i \in 1 .. Len(whole) |-> [samples |-> whole[i], seam |-> seam /\ i = 1]]

\* The whole frames that pcm completes, and what stays behind them.
Whole(pcm) ==
    [i \in 1 .. Len(pcm) \div FrameSamples |->
        SubSeq(pcm, (i - 1) * FrameSamples + 1, i * FrameSamples)]
Rest(pcm) ==
    SubSeq(pcm, (Len(pcm) \div FrameSamples) * FrameSamples + 1, Len(pcm))

\* StreamChunker.Flush: the partial frame, padded, or nothing.
MutPadded == <<>>
Padded ==
    IF chunk = <<>> THEN <<>>
    ELSE <<[i \in 1 .. FrameSamples |-> IF i <= Len(chunk) THEN chunk[i] ELSE Silence]>>

-----------------------------------------------------------------------------
(* The producers, from any goroutine.                                      *)

\* FeedChunk, as far as its checks.
FeedCheck(n) ==
    /\ n % Channels = 0 /\ n > 0
    /\ ~halted
    /\ n \notin feeding
    /\ Len(fed) + SumSet(feeding) + n <= MaxFed
    /\ feeding' = feeding \cup {n}
    /\ UNCHANGED <<jitter, halted, pos, history>>

\* Its feed, under the lock.
Feed(n) ==
    /\ n \in feeding
    /\ LET pcm == chunk \o [i \in 1 .. n |-> Len(fed) + i]
       IN /\ frames' = frames \o Enqueue(Whole(pcm), pendingSeam)
          /\ chunk' = Rest(pcm)
          /\ pendingSeam' = (pendingSeam /\ Whole(pcm) = <<>>)
    /\ fed' = fed \o [i \in 1 .. n |-> Len(cuts)]
    /\ feeding' = feeding \ {n}
    /\ UNCHANGED <<tail, halted, pos, heard, gone, cuts>>

MarkChunkBoundary ==
    /\ Count("mark") < MaxMarks
    /\ frames' = frames \o Enqueue(Padded, pendingSeam)
    /\ chunk' = <<>>
    /\ pendingSeam' = TRUE
    /\ cuts' = Append(cuts, "mark")
    /\ UNCHANGED <<tail, halted, feeding, pos, heard, fed, gone>>

\* The mutant forgets the tail.
MutClearPending ==
    /\ Count("clear") < MaxClears
    /\ frames' = <<>> /\ chunk' = <<>> /\ pendingSeam' = FALSE
    /\ cuts' = Append(cuts, "clear")
    /\ gone' = Len(fed) /\ heard' = <<>>
    /\ UNCHANGED <<tail, halted, feeding, pos, fed>>
ClearPending ==
    /\ Count("clear") < MaxClears
    /\ frames' = <<>> /\ chunk' = <<>> /\ pendingSeam' = FALSE /\ tail' = <<>>
    /\ cuts' = Append(cuts, "clear")
    /\ gone' = Len(fed) /\ heard' = <<>>
    /\ UNCHANGED <<halted, feeding, pos, fed>>

\* Stop, the context or a stalled consumer (DuplexSession).
Halt ==
    /\ ~halted
    /\ halted' = TRUE
    /\ UNCHANGED <<jitter, feeding, pos, history>>

-----------------------------------------------------------------------------
(* The audio goroutine.  A tick that has begun when the engine is halted   *)
(* still ends.                                                             *)

Voice(samples) == [i \in DOMAIN samples |-> {samples[i]} \ {Silence}]

\* equalPowerBlend: the head of the frame over the tail, over the shorter of both.
Blend(over, dst) ==
    LET n == (Min({Len(over), Len(dst)}) \div Channels) * Channels
    IN [i \in DOMAIN dst |-> IF i <= n THEN over[i] \cup dst[i] ELSE dst[i]]

Kept(dst) == SubSeq(dst, Len(dst) - FadeSamples + 1, Len(dst))

\* ambientBed.mixInto, wherever the voice is.
MixBed == pos' = IF BedSamples = 0 THEN 0 ELSE (pos + FrameSamples) % BedSamples

\* The mutant holds the last frame back, as a buffer with a low-water mark would.
MutReady == Len(frames) > 1
Ready == frames # <<>>

\* renderTick with a frame queued.
RenderVoice ==
    /\ Ready
    /\ LET f == Head(frames)
           dst == IF f.seam /\ tail # <<>> /\ FadeSamples > 0
                  THEN Blend(tail, Voice(f.samples)) ELSE Voice(f.samples)
       IN /\ tail' = Kept(dst)
          /\ heard' = dst
          /\ gone' = gone + Len(Keep(f.samples, Nat \ {Silence}))
    /\ frames' = Tail(frames)
    /\ MixBed
    /\ UNCHANGED <<chunk, pendingSeam, halted, feeding, fed, cuts>>

\* renderTick on an underrun: the tail is what it was.
RenderSilence ==
    /\ ~Ready
    /\ MixBed
    /\ UNCHANGED <<jitter, halted, feeding, history>>

RenderTick == RenderVoice \/ RenderSilence

RenderNext ==
    \/ \E n \in ChunkLengths : FeedCheck(n) \/ Feed(n)
    \/ MarkChunkBoundary
    \/ ClearPending
    \/ Halt
    \/ RenderTick

\* The ticker keeps ticking until the engine halts, and a call that has passed
\* its checks goes on.
RenderFairness ==
    /\ WF_renderVars(~halted /\ RenderVoice)
    /\ \A n \in ChunkLengths : WF_renderVars(Feed(n))

RenderSpec == RenderInit /\ [][RenderNext]_renderVars /\ RenderFairness

-----------------------------------------------------------------------------
(* What the render half promises.                                          *)

Samples == 0 .. Len(fed)

\* The fields have their types; a partial frame is shorter than a frame, and a
\* tail is whole or empty (the invariants of jitterBuffer and StreamChunker).
RenderTypeOK ==
    /\ \A i \in DOMAIN frames :
          /\ frames[i].samples \in [1 .. FrameSamples -> Samples]
          /\ frames[i].seam \in BOOLEAN
    /\ chunk \in UNION {[1 .. n -> Samples \ {Silence}] : n \in 0 .. FrameSamples - 1}
    /\ pendingSeam \in BOOLEAN /\ halted \in BOOLEAN
    /\ tail = <<>> \/ tail \in [1 .. FadeSamples -> SUBSET Samples]
    /\ feeding \subseteq ChunkLengths
    /\ pos \in Nat /\ (BedSamples > 0 => pos < BedSamples)
    /\ gone \in Samples

Waiting == FlattenSeq([i \in DOMAIN frames |-> frames[i].samples]) \o chunk

\* Every sample fed and neither played nor cleared is waiting, once and in the
\* order of the feeds, whatever the lengths of the chunks and wherever the
\* boundaries fall (feed, markBoundary, clear and the paced read).
VoiceIsKept ==
    Keep(Waiting, Nat \ {Silence}) =
        [i \in 1 .. Len(fed) - gone |-> gone + i]

\* The head of a chunk that MarkChunkBoundary, and no clear after it, separates
\* from what was fed before.
IsSeam(k) ==
    /\ k = 1 \/ fed[k - 1] # fed[k]
    /\ fed[k] > 0 /\ cuts[fed[k]] = "mark"

\* No frame holds audio of two chunks, padding ends a chunk, and the seam is on
\* the frame of the head of a marked chunk and on no other, however many frames
\* are queued before it (render.go 39-42, 80-83).
ChunksDoNotMix ==
    \A i \in DOMAIN frames :
        LET s == frames[i].samples
        IN /\ s[1] # Silence
           /\ frames[i].seam <=> IsSeam(s[1])
           /\ \A j \in 2 .. FrameSamples :
                IF s[j] = Silence
                THEN s[j - 1] = Silence \/ fed[s[j - 1]] < Len(cuts)
                ELSE s[j] = s[j - 1] + 1 /\ fed[s[j]] = fed[s[j - 1]]

\* What is heard of a frame is its own samples, and at the head of a marked
\* chunk, and there alone, the end of the last voiced frame heard since the last
\* clear, however long the silence in between (render.go 103-105, 121-125).
FadesAtSeams ==
    [][heard' \notin {heard, <<>>} =>
        LET s == Head(frames).samples
        IN \A i \in 1 .. FrameSamples :
            heard'[i] = Voice(s)[i] \cup
                IF IsSeam(s[1]) /\ heard # <<>> /\ i <= FadeSamples
                THEN heard[FrameSamples - FadeSamples + i] ELSE {}]_renderVars

\* When no partial frame is pending, as after a boundary is marked, everything fed
\* is in the end played or cleared, unless the engine halts: the paced reader
\* catches up with any burst (render.go 11-18, duplex.go 615-622).
WholeIsPlayed ==
    \A k \in 1 .. MaxFed :
        (chunk = <<>> /\ Len(fed) = k) ~> (halted \/ gone >= k)

=============================================================================
