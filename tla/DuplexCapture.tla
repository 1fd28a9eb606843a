---------------------------- MODULE DuplexCapture ---------------------------
(***************************************************************************)
(* The capture half of a duplex.Engine (duplex/capture.go): Push puts      *)
(* frames of any length on a bounded queue; each tick the audio goroutine  *)
(* drains it, cuts what it has into frames of FrameSamples, gives each the *)
(* tag of the push its first sample came from, shows it to the detector    *)
(* and sends the utterances it announces as events, the frames from before *)
(* the announcement out of the pre-roll (vad/preroll.go).                  *)
(*                                                                         *)
(* A sample is its push and its place in it; the tag of the k-th accepted  *)
(* push is k.  A frame is the number of its processing, and what it holds  *)
(* can be read off fed.  The detector is any: it announces what it likes.  *)
(* sent is what send is called for; DuplexSession is about how it arrives. *)
(***************************************************************************)
EXTENDS Integers, Sequences, SequencesExt, FiniteSetsExt, Filters

CONSTANTS
    FrameSamples,   \* samples of one engine frame
    CaptureBuffer,  \* capacity of the queue, in samples
    Batch,          \* captureBatchFrames
    LeadInFrames,   \* silent frames sent before an utterance
    TagsPerFrame,   \* by how much each of them is back-dated
    PreRollSamples, \* how much of the audio before an utterance is kept; 0: none
    PushLengths,    \* the lengths of the frames pushed
    MaxPushed       \* bound on the samples accepted

ASSUME CaptureAssumption ==
    /\ FrameSamples \in Nat \ {0}
    /\ CaptureBuffer \in Nat /\ CaptureBuffer >= FrameSamples
    /\ Batch \in Nat \ {0}
    /\ LeadInFrames \in Nat /\ TagsPerFrame \in Nat
    /\ PreRollSamples \in Nat
    /\ PushLengths \subseteq Nat \ {0}
    /\ MaxPushed \in Nat

VARIABLES
    queue,     \* captureQueue.frames, each a sequence of samples
    total,     \* captureQueue.total
    accum,     \* Engine.captureAccum
    spans,     \* Engine.captureSpans
    off,       \* the cursor of captureTick into accum
    ticking,   \* captureTick is under way
    left,      \* frames it may still process
    inSpeech,  \* Engine.inSpeech
    preroll,   \* PreRoll.frames: numbers of frames and their tags
    sent,      \* history: the events send was called for
    taken,     \* history: the samples Push accepted
    fed        \* history: the samples processed, in frames

producer == <<queue, total, taken>>
cursor == <<off, ticking, left>>
speech == <<inSpeech, preroll, sent>>
vars == <<producer, accum, spans, cursor, speech, fed>>

Init ==
    /\ queue = <<>> /\ total = 0 /\ taken = <<>>
    /\ accum = <<>> /\ spans = <<>> /\ off = 0 /\ ticking = FALSE /\ left = 0
    /\ inSpeech = FALSE
    /\ preroll = <<>>
    /\ sent = <<>>
    /\ fed = <<>>

Count(frames) == Len(FlattenSeq(frames))

-----------------------------------------------------------------------------
(* Push, from any goroutine, under the queue's lock.                       *)

Fits(n) == total + n <= CaptureBuffer

NextTag == IF taken = <<>> THEN 1 ELSE Last(taken).tag + 1

Push(n) ==
    /\ Len(taken) + n <= MaxPushed
    /\ Fits(n)
    /\ LET frame == [k \in 1 .. n |-> [tag |-> NextTag, at |-> k]]
       IN queue' = Append(queue, frame) /\ taken' = taken \o frame
    /\ total' = total + n
    /\ UNCHANGED <<accum, spans, cursor, speech, fed>>

\* A push that does not fit is refused, and leaves everything as it is.
PushOverflow(n) ==
    /\ ~Fits(n)
    /\ UNCHANGED vars

-----------------------------------------------------------------------------
(* drainInto: whole pushed frames, until there are enough samples for the  *)
(* batch or the queue is empty.                                            *)

Enough(k) == Len(accum) + Count(SubSeq(queue, 1, k)) >= Batch * FrameSamples

Drained == Min({k \in 0 .. Len(queue) : k = Len(queue) \/ Enough(k)})

SpanOf(frame) == [tag |-> frame[1].tag, n |-> Len(frame)]

DrainInto ==
    /\ ~ticking
    /\ LET frames == SubSeq(queue, 1, Drained)
       IN /\ accum' = accum \o FlattenSeq(frames)
          /\ spans' = spans \o [k \in DOMAIN frames |-> SpanOf(frames[k])]
          /\ total' = total - Count(frames)
    /\ queue' = SubSeq(queue, Drained + 1, Len(queue))
    /\ ticking' = TRUE
    /\ left' = Batch
    /\ UNCHANGED <<taken, off, speech, fed>>

-----------------------------------------------------------------------------
(* consumeSpanTag.                                                         *)

\* The tag of every sample that the spans of a list stand for.
TagsOf(list) == FlattenSeq([i \in DOMAIN list |-> [k \in 1 .. list[i].n |-> list[i].tag]])

\* How many spans n samples use up.
UsedUp(n) == Max({k \in 0 .. Len(spans) : Len(TagsOf(SubSeq(spans, 1, k))) <= n})

\* The spans without their first n samples.
Consume(n) ==
    LET k == UsedUp(n)
        used == n - Len(TagsOf(SubSeq(spans, 1, k)))
    IN IF k = Len(spans) THEN <<>>
       ELSE <<[spans[k + 1] EXCEPT !.n = @ - used]>> \o SubSeq(spans, k + 2, Len(spans))

\* The mutant takes the tag of the span left at the head when the frame is cut.
MutFrameTag == LET rest == Consume(FrameSamples)
               IN IF rest = <<>> THEN spans[1].tag ELSE rest[1].tag
FrameTag == spans[1].tag

-----------------------------------------------------------------------------
(* processCaptureFrame.                                                    *)

Start(stamp)     == [kind |-> "start", tag |-> stamp, frame |-> 0]
Silence(tag)     == [kind |-> "silence", tag |-> tag, frame |-> 0]
Audio(tag, f)    == [kind |-> "audio", tag |-> tag, frame |-> f]
Stop(tag)        == [kind |-> "stop", tag |-> tag, frame |-> 0]

\* clampTag
Clamp(t) == IF t < 0 THEN 0 ELSE t

\* emitSpeechStart: the events of an utterance's beginning.  The mutant dates
\* it back from the live frame, not from the oldest one replayed.
MutRealStart(roll, tag) == tag
RealStart(roll, tag) == IF roll = <<>> THEN tag ELSE roll[1].tag

Beginning(roll, tag) ==
    LET back(k) == Clamp(RealStart(roll, tag) - k * TagsPerFrame)
    IN <<Start(back(LeadInFrames))>>
         \o [i \in 1 .. LeadInFrames |-> Silence(back(LeadInFrames - (i - 1)))]
         \o [i \in DOMAIN roll |-> Audio(roll[i].tag, roll[i].frame)]

\* Replay leaves the pre-roll empty.  The mutant replays it and keeps it.
MutReplayed(roll) == roll
Replayed(roll) == <<>>

\* PreRoll.Push, with evictOverflow: the newest frames that fit, one at least.
Kept == IF PreRollSamples = 0 THEN 0 ELSE Max({1, PreRollSamples \div FrameSamples})

Bank(roll, f, tag) ==
    LET all == Append(roll, [tag |-> tag, frame |-> f])
    IN SubSeq(all, Max({1, Len(all) - Kept + 1}), Len(all))

\* One transition, if any, that the detector announces while it looks at the
\* frame; a start in speech and a stop out of it are absorbed.
Kinds == {"none", "start", "stop"}
Transition(st, kind, tag) ==
    IF kind = "start" /\ ~st.speech
    THEN [speech |-> TRUE, roll |-> Replayed(st.roll),
          out |-> st.out \o Beginning(st.roll, tag)]
    ELSE IF kind = "stop" /\ st.speech
    THEN [st EXCEPT !.speech = FALSE, !.out = Append(@, Stop(tag))]
    ELSE st

\* The loop of captureTick goes on.
More == left > 0 /\ Len(accum) - off >= FrameSamples

ProcessFrame ==
    /\ ticking
    /\ More
    /\ LET f == Len(fed) \div FrameSamples + 1
           tag == FrameTag
           before == [speech |-> inSpeech, roll |-> preroll, out |-> sent]
       IN \E first, second \in Kinds :
            LET st == Transition(Transition(before, first, tag), second, tag)
            IN /\ inSpeech' = st.speech
               /\ preroll' = IF st.speech THEN st.roll ELSE Bank(st.roll, f, tag)
               /\ sent' = IF st.speech THEN Append(st.out, Audio(tag, f)) ELSE st.out
    /\ fed' = fed \o SubSeq(accum, off + 1, off + FrameSamples)
    /\ spans' = Consume(FrameSamples)
    /\ off' = off + FrameSamples
    /\ left' = left - 1
    /\ UNCHANGED <<producer, accum, ticking>>

\* What the loop has not consumed is kept for the next tick.  The mutant keeps
\* it only when it is less than a frame.
MutRest == IF Len(accum) - off >= FrameSamples THEN <<>> ELSE SubSeq(accum, off + 1, Len(accum))
Rest == SubSeq(accum, off + 1, Len(accum))

TickEnds ==
    /\ ticking
    /\ ~More
    /\ accum' = Rest
    /\ off' = 0
    /\ ticking' = FALSE
    /\ UNCHANGED <<producer, spans, left, speech, fed>>

Next ==
    \/ \E n \in PushLengths : Push(n) \/ PushOverflow(n)
    \/ DrainInto
    \/ ProcessFrame
    \/ TickEnds

Spec == Init /\ [][Next]_vars

-----------------------------------------------------------------------------
Samples == [tag : Nat \ {0}, at : Nat \ {0}]
Events == [kind : {"start", "silence", "audio", "stop"}, tag : Nat, frame : Nat]

\* The type invariant; the queue holds what it counts, and no more than
\* Config.CaptureBuffer allows (capture.go:12-19).
TypeOK ==
    /\ queue \in Seq(Seq(Samples))
    /\ total = Count(queue) /\ total <= CaptureBuffer
    /\ accum \in Seq(Samples) /\ fed \in Seq(Samples) /\ taken \in Seq(Samples)
    /\ spans \in Seq([tag : Nat \ {0}, n : Nat \ {0}])
    /\ off \in 0 .. Len(accum) /\ ticking \in BOOLEAN /\ left \in 0 .. Batch
    /\ inSpeech \in BOOLEAN
    /\ preroll \in Seq([tag : Nat \ {0}, frame : Nat \ {0}]) /\ Len(preroll) <= Kept
    /\ sent \in Seq(Events)

\* The accumulated samples the cursor has not passed.
Held == SubSeq(accum, off + 1, Len(accum))

\* No accepted sample is lost, repeated or reordered between Push and the
\* detector: a dropped one "would tear a hole mid-stream" (capture.go:15-19).
NothingLost == taken = fed \o Held \o FlattenSeq(queue)

\* The first sample of frame f.
FirstOf(f) == fed[(f - 1) * FrameSamples + 1]

\* The engine assigns "each internal frame the tag of the push its first sample
\* came from" (duplex.go:649-651), to a frame replayed as to a live one, and
\* the spans kept for that say where every sample still held came from.
TagsExact ==
    /\ \A i \in DOMAIN sent : sent[i].kind = "audio" => sent[i].tag = FirstOf(sent[i].frame).tag
    /\ \A i \in DOMAIN preroll : preroll[i].tag = FirstOf(preroll[i].frame).tag
    /\ TagsOf(spans) = [k \in DOMAIN Held |-> Held[k].tag]

Is(i, kind) == i \in DOMAIN sent /\ sent[i].kind = kind

\* The utterances follow one another as the events' documentation says
\* (duplex/events.go:44-48, duplex.go:42-52): exactly one start and one stop,
\* the lead-in, dated up to the first frame of the stream, then the frames in
\* their order without a gap; the start's timestamp is the tag of the first
\* event after it.
Utterances ==
    \A i \in DOMAIN sent :
        /\ i = 1 => Is(1, "start")
        /\ Is(i, "start") =>
             /\ i > 1 => Is(i - 1, "stop")
             /\ \A k \in 1 .. LeadInFrames : Is(i + k, "silence")
             /\ ~Is(i + LeadInFrames + 1, "silence")
             /\ i < Len(sent) /\ ~Is(i + 1, "stop") => sent[i + 1].tag = sent[i].tag
        /\ Is(i, "silence") => Is(i - 1, "start") \/ Is(i - 1, "silence")
        /\ Is(i, "audio") => ~Is(i - 1, "stop")
        /\ Is(i, "audio") /\ ~Is(i - 1, "audio") =>
             sent[i - 1].tag = Clamp(sent[i].tag - (IF LeadInFrames = 0 THEN 0 ELSE TagsPerFrame))
        /\ Is(i, "audio") /\ Is(i - 1, "audio") => sent[i].frame = sent[i - 1].frame + 1
        /\ Is(i, "stop") /\ i < Len(sent) => Is(i + 1, "start")

\* No frame is sent twice, and an utterance begins with all of the audio before
\* it that the pre-roll is to keep and no earlier one has taken: "so the
\* utterance arrives whole" (vad/preroll.go:41-49).
OnsetIsWhole ==
    LET audio == Keep(sent, [kind : {"audio"}, tag : Nat, frame : Nat])
        frames == Len(fed) \div FrameSamples
        last == IF audio = <<>> THEN 0 ELSE Last(audio).frame
    IN /\ \A i, j \in DOMAIN audio : i < j => audio[i].frame < audio[j].frame
       /\ ~inSpeech => [i \in DOMAIN preroll |-> preroll[i].frame]
                         = [i \in 1 .. Min({Kept, frames - last})
                              |-> frames - Min({Kept, frames - last}) + i]

=============================================================================
