-------------------------------- MODULE Mixer -------------------------------
(***************************************************************************)
(* mixer.Mixer (mixer/mixer.go, mixer/track.go): one mix goroutine that    *)
(* owns the tracks and runs ahead of the output device, and any number of  *)
(* callers that add sources, set gains, remove tracks and close the mixer  *)
(* by sending it operations over a bounded channel.                        *)
(*                                                                         *)
(* The mix goroutine is the process with program counter pc; its steps are *)
(* those of run, drainOps and finalize.  The output ring is represented by *)
(* its occupancy: Ring is shown to implement a FIFO, and its RoomKept says *)
(* that the occupancy run has read can only have shrunk when it writes.    *)
(* Samples are not represented, gains are: what each track's gain is and   *)
(* what its handle says it is.                                             *)
(***************************************************************************)
EXTENDS Integers, Sequences, FiniteSets

CONSTANTS
    Tracks,      \* the sources callers may add, each once
    LiveTracks,  \* those whose Source is Live()
    Setters,     \* goroutines that call SetGain
    Closers,     \* goroutines that call Close, once each
    Gains,       \* the gains they set
    Unity,       \* the gain a track starts with
    PendingCap,  \* capacity of the pending channel (32)
    RingCap,     \* capacity of the output ring, in samples
    Chunk,       \* samples mixed per iteration
    Channels,    \* output channels
    LiveFloor,   \* Config.LiveRingFrames, in samples
    Fills,       \* lengths of the buffers the device callback passes to Fill
    MaxCalls     \* bound on the calls of SetGain and Remove

ASSUME MixerAssumption ==
    /\ LiveTracks \subseteq Tracks
    /\ IsFiniteSet(Tracks)
    /\ Unity \in Gains
    /\ PendingCap \in Nat \ {0}
    /\ Chunk \in Nat \ {0}
    /\ RingCap \in Nat /\ RingCap >= 2 * Chunk
    /\ Channels \in Nat \ {0}
    /\ LiveFloor \in Nat \ {0}
    /\ Fills \subseteq Nat
    /\ MaxCalls \in Nat

VARIABLES
    pc,          \* the mix goroutine
    installed,   \* Mixer.tracks
    removed,     \* track.removed
    liveCount,   \* Mixer.liveTracks
    left,        \* the tracks a mix pass has still to look at
    finishing,   \* the track whose finish has returned and whose event is to come
    applied,     \* track.gain
    pending,     \* the channel of operations
    stopped,     \* Mixer.stop is closed
    ringLen,     \* samples in the output ring
    seen,        \* run's local copy of it, 0 when it is dead
    filling,     \* the length of the buffer the device callback is filling, or 0
    observed,    \* Mixer.observedCallbackSamples
    closed,      \* Mixer.closed
    closePc,     \* each closer; "locked": it has set closed, "ignored": it found it set
    shown,       \* trackHandle.gain
    done,        \* trackHandle.done is closed
    adding,      \* where each track's AddSource call stands
    setting,     \* the gain each setter has stored and not yet sent
    calls,       \* calls of SetGain and Remove so far
    removes,     \* history: calls of Remove on each handle
    events,      \* history: lifecycle events published for each track
    existing,    \* history: tracks whose handle was out when closed was set
    tangled      \* history: tracks with two gains stored before the first was sent

owned   == <<installed, removed, liveCount, applied, left, finishing>>
outcome == <<done, events>>
ring    == <<ringLen, seen>>
device  == <<observed, filling>>
closing == <<stopped, closed, closePc, existing>>
callers == <<shown, tangled, adding, setting, calls, removes>>
vars == <<pc, owned, outcome, pending, ring, device, closing, callers>>

AddOp(t)     == [kind |-> "add", track |-> t]
GainOp(t, g) == [kind |-> "gain", track |-> t, gain |-> g]
RemoveOp(t)  == [kind |-> "remove", track |-> t]

Ops == {AddOp(t) : t \in Tracks} \cup {RemoveOp(t) : t \in Tracks}
         \cup {GainOp(t, g) : t \in Tracks, g \in Gains}

NoGain == [kind |-> "none"]

Larger(x, y) == IF x >= y THEN x ELSE y

Init ==
    /\ pc = "drain"
    /\ installed = {} /\ removed = {} /\ liveCount = 0
    /\ left = {} /\ finishing = {}
    /\ applied = [t \in Tracks |-> Unity]
    /\ pending = <<>>
    /\ ringLen = 0 /\ seen = 0
    /\ observed = 0 /\ filling = 0
    /\ stopped = FALSE /\ closed = FALSE /\ existing = {}
    /\ closePc = [k \in Closers |-> "idle"]
    /\ shown = [t \in Tracks |-> Unity] /\ tangled = {}
    /\ adding = [t \in Tracks |-> "none"]
    /\ setting = [c \in Setters |-> NoGain]
    /\ calls = 0
    /\ removes = [t \in Tracks |-> 0]
    /\ done = {}
    /\ events = [t \in Tracks |-> <<>>]

-----------------------------------------------------------------------------
(* The operations, applied by the mix goroutine.                           *)

ApplyAdd(t) ==
    /\ installed' = installed \cup {t}
    /\ liveCount' = IF t \in LiveTracks THEN liveCount + 1 ELSE liveCount
    /\ events' = [events EXCEPT ![t] = Append(@, "added")]
    /\ pc' = "drain"
    /\ UNCHANGED <<removed, applied, done, left, finishing>>

ApplyGain(t, g) ==
    /\ applied' = IF t \in installed THEN [applied EXCEPT ![t] = g] ELSE applied
    /\ pc' = "drain"
    /\ UNCHANGED <<installed, removed, liveCount, left, finishing, outcome>>

\* A track stays in the list, flagged, until the next mix pass drops it; one
\* that is not in the list any more is left alone.  The mutant drops the
\* track without closing its Done.
MutRemoveNoDone(t) ==
    /\ removed' = removed \cup ({t} \cap installed)
    /\ finishing' = {t} \cap installed
    /\ pc' = IF t \in installed THEN "removed" ELSE "drain"
    /\ UNCHANGED <<installed, liveCount, applied, left, outcome>>
ApplyRemove(t) ==
    /\ removed' = removed \cup ({t} \cap installed)
    /\ done' = done \cup ({t} \cap installed)
    /\ finishing' = {t} \cap installed
    /\ pc' = IF t \in installed THEN "removed" ELSE "drain"
    /\ UNCHANGED <<installed, liveCount, applied, left, events>>

Apply(op) ==
    \/ op.kind = "add" /\ ApplyAdd(op.track)
    \/ op.kind = "gain" /\ ApplyGain(op.track, op.gain)
    \/ op.kind = "remove" /\ ApplyRemove(op.track)

\* After finish, when a track is removed or has ended: the track is no longer
\* counted, even if it was flagged before, and the event is published.  Nobody
\* but run reads the count.
Uncounted == liveCount - Cardinality(finishing \cap LiveTracks)

PublishFinish ==
    /\ pc \in {"removed", "ended"}
    /\ liveCount' = Uncounted
    /\ events' = [t \in Tracks |-> IF t \in finishing THEN Append(events[t], pc)
                                                      ELSE events[t]]
    /\ finishing' = {}
    /\ pc' = IF pc = "removed" THEN "drain" ELSE "mix"
    /\ UNCHANGED <<installed, removed, applied, left, done, pending, ring, device, closing,
                   callers>>

\* run receives an operation: in drainOps, or while it waits for room.
ReceiveOp ==
    /\ pc \in {"drain", "wait"}
    /\ pending # <<>>
    /\ Apply(Head(pending))
    /\ pending' = Tail(pending)
    /\ UNCHANGED <<ring, device, closing, callers>>

\* The stop channel may be ready as well: select takes either.
ReceiveStop ==
    /\ pc \in {"drain", "wait"}
    /\ stopped
    /\ pc' = "finalize"
    /\ UNCHANGED <<owned, outcome, pending, ring, device, closing, callers>>

\* drainOps finds neither channel ready, and run reads how full the ring is.
Drained ==
    /\ pc = "drain"
    /\ pending = <<>>
    /\ ~stopped
    /\ seen' = ringLen
    /\ pc' = "check"
    /\ UNCHANGED <<owned, outcome, pending, ringLen, device, closing, callers>>

-----------------------------------------------------------------------------
(* How far ahead to mix.                                                   *)

\* How much may be buffered while a live source plays.
LiveCap == IF observed > 0 THEN Larger(LiveFloor, observed + 2 * Chunk) ELSE LiveFloor

\* The mutants: the ring is full only when nothing is free, and one more chunk
\* is mixed when the live cap is just reached.
MutAtCapFull == seen = RingCap \/ (liveCount > 0 /\ seen >= LiveCap)
MutAtCapOver == RingCap - seen < Chunk \/ (liveCount > 0 /\ seen > LiveCap)
AtCap == RingCap - seen < Chunk \/ (liveCount > 0 /\ seen >= LiveCap)

\* The largest callback is read here, after the occupancy, which is not looked
\* at again.
Check ==
    /\ pc = "check"
    /\ pc' = IF AtCap THEN "wait" ELSE "mix"
    /\ left' = IF AtCap THEN {} ELSE installed
    /\ seen' = 0
    /\ UNCHANGED <<installed, removed, liveCount, applied, finishing, outcome, pending,
                   ringLen, device, closing, callers>>

\* hpt.After fires before an operation or the stop arrives.
IdleTick ==
    /\ pc = "wait"
    /\ pc' = "drain"
    /\ UNCHANGED <<owned, outcome, pending, ring, device, closing, callers>>

-----------------------------------------------------------------------------
(* One mix pass, track by track: one that is flagged is dropped; the others *)
(* are pulled, and finished when Pull returns an error.                     *)

Playing == installed \ removed

\* The mutant pulls removed tracks too.
MutPulledAll == left
Pulled == left \ removed

MixTrack(t) ==
    /\ pc = "mix"
    /\ left' = left \ {t}
    /\ \/ /\ t \in left \cap removed
          /\ installed' = installed \ {t}
          /\ UNCHANGED <<pc, done, finishing>>
       \/ /\ t \in Pulled
          /\ UNCHANGED <<pc, installed, done, finishing>>
       \/ /\ t \in Pulled
          /\ installed' = installed \ {t}
          /\ done' = done \cup {t}
          /\ finishing' = {t}
          /\ pc' = "ended"
    /\ UNCHANGED <<removed, liveCount, applied, events, pending, ring, device, closing, callers>>

Mixed ==
    /\ pc = "mix"
    /\ left = {}
    /\ pc' = "write"
    /\ UNCHANGED <<owned, outcome, pending, ring, device, closing, callers>>

\* ring.Write: what does not fit is lost.
WriteChunk ==
    /\ pc = "write"
    /\ ringLen' = IF ringLen + Chunk <= RingCap THEN ringLen + Chunk ELSE RingCap
    /\ pc' = "drain"
    /\ UNCHANGED <<owned, outcome, pending, seen, device, closing, callers>>

-----------------------------------------------------------------------------
(* finalize: finish every installed track, then every track still in the   *)
(* channel, until the channel is found empty.                              *)

FinishTrack(t) ==
    /\ pc = "finalize"
    /\ t \in installed
    /\ done' = done \cup {t}
    /\ installed' = installed \ {t}
    /\ UNCHANGED <<pc, removed, liveCount, applied, left, finishing, events, pending, ring,
                   device, closing, callers>>

FinishedAll ==
    /\ pc = "finalize"
    /\ installed = {}
    /\ pc' = "flush"
    /\ UNCHANGED <<owned, outcome, pending, ring, device, closing, callers>>

Flushed(op) == IF op.kind = "add" THEN {op.track} ELSE {}

FlushOp ==
    /\ pc = "flush"
    /\ pending # <<>>
    /\ done' = done \cup Flushed(Head(pending))
    /\ pending' = Tail(pending)
    /\ UNCHANGED <<pc, owned, events, ring, device, closing, callers>>

RunReturns ==
    /\ pc = "flush"
    /\ pending = <<>>
    /\ pc' = "done"
    /\ UNCHANGED <<owned, outcome, pending, ring, device, closing, callers>>

Run == ReceiveOp \/ PublishFinish \/ ReceiveStop \/ Drained \/ Check \/ IdleTick
         \/ (\E t \in Tracks : MixTrack(t) \/ FinishTrack(t)) \/ Mixed
         \/ WriteChunk \/ FinishedAll \/ FlushOp \/ RunReturns

-----------------------------------------------------------------------------
(* The callers.                                                            *)

\* Room in pending: a send completes.  The send is one case of a select whose
\* other case is the closed stop channel; when both are ready either is taken.
Room == Len(pending) < PendingCap

\* What is left alone by everything a caller does.
mixing == <<pc, owned, outcome, ring, device>>

\* AddSource looks at closed under the mutex ...
AddCheck(t) ==
    /\ adding[t] = "none"
    /\ adding' = [adding EXCEPT ![t] = IF closed THEN "refused" ELSE "sending"]
    /\ UNCHANGED <<mixing, pending, closing, shown, tangled, setting, calls, removes>>

\* ... releases it, and then sends the operation, or sees stop closed.
AddSend(t) ==
    /\ adding[t] = "sending"
    /\ Room
    /\ pending' = Append(pending, AddOp(t))
    /\ adding' = [adding EXCEPT ![t] = "added"]
    /\ UNCHANGED <<mixing, closing, shown, tangled, setting, calls, removes>>

\* The mutant of stop's case misses a stop that has been acted on.
MutGiveUp == stopped /\ pc # "done"
GiveUp == stopped

AddStopped(t) ==
    /\ adding[t] = "sending"
    /\ GiveUp
    /\ adding' = [adding EXCEPT ![t] = "refused"]
    /\ UNCHANGED <<mixing, pending, closing, shown, tangled, setting, calls, removes>>

\* Another setter has stored a gain for the track and not sent it yet.
Unsent(t) == \E c \in Setters : setting[c] # NoGain /\ setting[c].track = t

\* SetGain stores the gain in the handle, and then sends it.
SetGainStore(c, t, g) ==
    /\ setting[c] = NoGain
    /\ adding[t] = "added"
    /\ calls < MaxCalls
    /\ calls' = calls + 1
    /\ shown' = [shown EXCEPT ![t] = g]
    /\ tangled' = IF Unsent(t) THEN tangled \cup {t} ELSE tangled \ {t}
    /\ setting' = [setting EXCEPT ![c] = GainOp(t, g)]
    /\ UNCHANGED <<mixing, pending, closing, adding, removes>>

\* The mutant does not wait for room: it loses the operation.
MutSetGainSend(c) ==
    /\ setting[c] # NoGain
    /\ pending' = IF Room THEN Append(pending, setting[c]) ELSE pending
    /\ setting' = [setting EXCEPT ![c] = NoGain]
    /\ UNCHANGED <<mixing, closing, shown, tangled, adding, calls, removes>>
SetGainSend(c) ==
    /\ setting[c] # NoGain
    /\ Room
    /\ pending' = Append(pending, setting[c])
    /\ setting' = [setting EXCEPT ![c] = NoGain]
    /\ UNCHANGED <<mixing, closing, shown, tangled, adding, calls, removes>>

SetGainStopped(c) ==
    /\ setting[c] # NoGain
    /\ GiveUp
    /\ setting' = [setting EXCEPT ![c] = NoGain]
    /\ UNCHANGED <<mixing, pending, closing, shown, tangled, adding, calls, removes>>

\* Remove sends, or sees stop closed.
Remove(t) ==
    /\ adding[t] = "added"
    /\ calls < MaxCalls
    /\ calls' = calls + 1
    /\ removes' = [removes EXCEPT ![t] = @ + 1]
    /\ \/ Room /\ pending' = Append(pending, RemoveOp(t))
       \/ GiveUp /\ UNCHANGED pending
    /\ UNCHANGED <<mixing, closing, shown, tangled, adding, setting>>

\* Close sets closed under the mutex, unless it is set already ...
CloseCall(k) ==
    /\ closePc[k] = "idle"
    /\ closed' = TRUE
    /\ closePc' = [closePc EXCEPT ![k] = IF closed THEN "ignored" ELSE "locked"]
    /\ existing' = IF closed THEN existing ELSE {t \in Tracks : adding[t] = "added"}
    /\ UNCHANGED <<mixing, pending, stopped, callers>>

\* ... closes stop without it, and waits for run.
CloseStop(k) ==
    /\ closePc[k] = "locked"
    /\ closePc' = [closePc EXCEPT ![k] = "waiting"]
    /\ stopped' = TRUE
    /\ UNCHANGED <<mixing, pending, closed, existing, callers>>

\* The mutant returns as soon as stop is closed.
MutCloseReady == stopped
CloseReady == pc = "done"

CloseReturn(k) ==
    /\ closePc[k] = "waiting"
    /\ CloseReady
    /\ closePc' = [closePc EXCEPT ![k] = "returned"]
    /\ UNCHANGED <<mixing, pending, stopped, closed, existing, callers>>

-----------------------------------------------------------------------------
(* The device callback.                                                    *)

\* A buffer that is not a whole number of frames is zeroed and leaves no
\* trace; the others raise the high-water mark first ...
FillObserve(n) ==
    /\ filling = 0
    /\ n % Channels = 0
    /\ observed' = Larger(observed, n)
    /\ filling' = n
    /\ UNCHANGED <<pc, owned, outcome, pending, ring, closing, callers>>

\* ... and then take what the ring has.
FillRead ==
    /\ filling > 0
    /\ ringLen' = Larger(ringLen - filling, 0)
    /\ filling' = 0
    /\ UNCHANGED <<pc, owned, outcome, pending, seen, observed, closing, callers>>

Next ==
    \/ Run
    \/ \E t \in Tracks : AddCheck(t) \/ AddSend(t) \/ AddStopped(t) \/ Remove(t)
    \/ \E c \in Setters, t \in Tracks, g \in Gains : SetGainStore(c, t, g)
    \/ \E c \in Setters : SetGainSend(c) \/ SetGainStopped(c)
    \/ \E k \in Closers : CloseCall(k) \/ CloseStop(k) \/ CloseReturn(k)
    \/ \E n \in Fills : FillObserve(n)
    \/ FillRead

\* The Go scheduler runs every goroutine that can run: the mix goroutine, and
\* the callers in the middle of a call.  A channel serves the goroutines that
\* wait to send on it in the order they came, so a sender that finds room over
\* and over does get it: strong fairness.
Fairness ==
    /\ WF_vars(Run)
    /\ \A t \in Tracks : SF_vars(AddSend(t) \/ AddStopped(t))
    /\ \A c \in Setters : SF_vars(SetGainSend(c) \/ SetGainStopped(c))
    /\ \A k \in Closers : WF_vars(CloseStop(k)) /\ WF_vars(CloseReturn(k))

Spec == Init /\ [][Next]_vars

FairSpec == Spec /\ Fairness

-----------------------------------------------------------------------------
(* The type invariant: the values the fields of mixer.go and track.go take.  *)
(* The count of live tracks is no more than an integer: a handle removed     *)
(* twice before the track is dropped is uncounted twice (track.go:119-131).  *)
TypeOK ==
    /\ pc \in {"drain", "removed", "check", "wait", "mix", "ended", "write", "finalize",
               "flush", "done"}
    /\ installed \subseteq Tracks /\ removed \subseteq Tracks
    /\ liveCount \in Int
    /\ left \subseteq installed /\ (left # {} => pc \in {"mix", "ended"})
    /\ finishing \subseteq Tracks
    /\ applied \in [Tracks -> Gains]
    /\ pending \in Seq(Ops) /\ Len(pending) <= PendingCap
    /\ ringLen \in 0 .. RingCap /\ seen \in 0 .. RingCap
    /\ observed \in Nat /\ filling \in Nat
    /\ stopped \in BOOLEAN /\ closed \in BOOLEAN
    /\ closePc \in [Closers -> {"idle", "locked", "waiting", "returned", "ignored"}]
    /\ existing \subseteq Tracks
    /\ shown \in [Tracks -> Gains] /\ tangled \subseteq Tracks
    /\ adding \in [Tracks -> {"none", "sending", "added", "refused"}]
    /\ setting \in [Setters -> Ops \cup {NoGain}]
    /\ calls \in 0 .. MaxCalls /\ removes \in [Tracks -> Nat]
    /\ done \subseteq Tracks
    /\ events \in [Tracks -> Seq({"added", "removed", "ended"})]

\* What has been published for a track that is removed, n times.
RemovedTimes(n) == <<"added">> \o [i \in 1 .. n |-> "removed"]

\* The live tracks that have been uncounted more than once.
Miscounted == {t \in LiveTracks : \E n \in 2 .. removes[t] : events[t] = RemovedTimes(n)}

\* "The runtime cap is max(LiveRingFrames, observedCallbackFrames +
\* ChunkFrames*2)" (mixer.go:95-96): no chunk is mixed further ahead than that
\* while a live source plays - as long as no live track has been removed twice
\* before a mix pass dropped it, which takes another one out of the count.
LiveAheadBounded ==
    (pc \in {"mix", "ended", "write"} /\ Playing \cap LiveTracks # {} /\ Miscounted = {})
        => ringLen < LiveCap

\* The ring always has room for the chunk that is about to be written: run
\* ignores the count its Write returns (mixer.go:442).
NoChunkLost == pc = "write" => ringLen + Chunk <= RingCap

\* A track whose Done is closed is never pulled again.  Until the mixer is
\* closing, Done is closed exactly for the tracks that ended or were removed; it
\* is closed before the event is published, and once it is published there is
\* that one event, or one for each of several Removes that were applied before
\* a mix pass dropped the track (track.go:25-32, 119-131, events.go).
DoneMatchesEvents ==
    /\ done \cap Playing = {}
    /\ pc \notin {"finalize", "flush", "done"} =>
         \A t \in Tracks :
            \/ /\ t \notin done
               /\ events[t] \in {<<>>, <<"added">>}
            \/ /\ t \in finishing
               /\ \E n \in 0 .. removes[t] : events[t] = RemovedTimes(n)
            \/ /\ t \in done \ finishing
               /\ \/ events[t] = <<"added", "ended">>
                  \/ \E n \in 1 .. removes[t] : events[t] = RemovedTimes(n)

\* Gain(), "the currently-applied linear gain" (track.go:22), agrees with the
\* gain the mixer applies once no SetGain is under way and the channel is empty,
\* unless two goroutines that set the gain of one track at a time stored and
\* sent their gains in different orders; the next SetGain that is alone puts
\* that right (track.go:65-71).
GainsAgree ==
    (~stopped /\ pending = <<>> /\ \A c \in Setters : setting[c] = NoGain)
        => \A t \in installed \ tangled : applied[t] = shown[t]

\* When the Close that closes the mixer returns, the Done of every handle that
\* was out when it was called is closed (mixer.go:343-344).  A Close that finds
\* the mixer closed returns at once, and may do so before that.
CloseFinishesExisting ==
    (\E k \in Closers : closePc[k] = "returned") => existing \subseteq done

\* A removal that has been sent closes Done, even if the source never ends and
\* the ring stays full ("after the mixer processes the removal, Done is
\* closed", track.go:26-27).
RemovalCloses ==
    \A t \in Tracks :
        (t \in installed /\ \E i \in DOMAIN pending : pending[i] = RemoveOp(t))
            ~> t \in done

\* Close returns, and so do an AddSource and a SetGain that wait for room in the
\* channel, whichever of them comes first (mixer.go:306-310, 353-354,
\* track.go:67-70).
CallsReturn ==
    /\ \A k \in Closers : closePc[k] = "locked" ~> closePc[k] = "returned"
    /\ \A t \in Tracks : adding[t] = "sending" ~> adding[t] \in {"added", "refused"}
    /\ \A c \in Setters : setting[c] # NoGain ~> setting[c] = NoGain

=============================================================================
