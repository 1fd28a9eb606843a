# A verification of go-mediatoolkit

TLA+ models, TLC model checking and TLAPS proofs of the concurrent core of
go-mediatoolkit: the ring buffer under its real-time audio, the mixer, the
timeline, the event bus, the full-duplex voice engine, the cache of audio
devices and the framing of Ogg files. Paths are relative to
`src/`. `PROJECT.json` lists every run, mutant, finding, hazard and theorem, and
maps every definition to the lines it models.

To check: `tlc -workers 2 -config Mixer.cfg MCMixer` (any `.cfg` with its `MC`
module), `tlapm MixerProofs.tla` (any `...Proofs` module, and `SequenceLemmas`).

## 1. Inventory

The toolkit moves audio between device callbacks, which must never block, and
goroutines that mix, schedule, detect and deliver. The parts that hold state
shared between goroutines are few and small; most of the repository is
single-goroutine signal processing and bit-exact ports of C codecs.

| Component | State | Operations | Hard behaviour |
|---|---|---|---|
| `buffers.Ring` | `buf`, atomic `head` and `tail` | Write, Read, Len, Reset | lock-free, plain access to `buf`, counters that wrap |
| `events.Bus` | list of subscriptions under a lock, a flag each outside it | Subscribe, Publish, Cancel | callbacks without the lock, cancels during a publish, panics |
| `timeline.InputSource` | a Ring, `closed`, `dropped` | the device callback, Pull, Close | three goroutines, a flag outside the ring |
| `mixer.Mixer` | tracks and `liveTracks` owned by the mix goroutine, the channel `pending`, the output Ring, `stop`/`done`, a handle per track | AddSource, SetGain, Remove, Fill, Close | bounded channel, running ahead of the device, stopping with calls in flight |
| `timeline.Timeline` | `cursor`, `end`, the sorted list of active cues | Schedule, Append, Seek, Pull, Cancel, Close | Append in two critical sections, a Seek that fails half way, replays |
| `duplex.Engine` | flags, `stop`, `done` and `Events` channels, capture queue, speech state, jitter buffer | Start, Stop, Push, FeedChunk, MarkChunkBoundary, ClearPending, the tick | three ways to stop, a consumer that stalls, re-framing and tagging |
| `vad.PreRoll` | queue of recent frames | Push, Replay, OldestTag, Clear, SetDuration | eviction, replay into events |
| `devices.System` | cache of devices by id, a Bus, a watch goroutine, the native watcher's pulse and its own snapshot, by id and direction | Snapshot, Subscribe, Close, watch and poll loops | events against snapshots, two listings that may differ, ids of two devices, calls of the back end that fail |
| `containers/ogg` | an encoder and a held packet per stream; the reader's pump and its queues | WritePacket, ForceFlush, SetEOS, Close; NewReader, ReadPacket | packets that span pages, pages lost or cut off, one packet held back |
| `containers/ogg` FLACWriter | the bytes not yet split | Encode, Close | frame boundaries are searched for in the bytes |
| `codec/hwaccel` policy | registry of back ends | open | fall-back when some steps fail |
| `vad` detectors, gate, ducker | smoothing and hysteresis | Process, setters | setters while processing |
| `aec`, `loudness`, `denoise`, `resample`, `mutations` | filter state | Process | numerical |
| `codec`, `containers`, `libraries`, `video` | decoder state | Decode, Encode | bit-exactness |

How they meet: a device callback fills an `InputSource`'s ring; the mix goroutine
pulls it (and `Timeline`s and clips) and writes the output ring, which another
device callback drains in `Fill`. The mixer and the devices publish on a `Bus`,
synchronously. In a duplex session one goroutine ticks every 10 ms: it renders a
frame from the jitter buffer, then drains the capture queue, runs the detector,
whose `Bus` hands the transitions back within the call, and sends events over a
bounded channel.

What makes each correct:

- Ring: a bounded FIFO, no data race, room once seen does not vanish.
- Bus: registration order, nobody missed, at most one late call after a cancel.
- InputSource: no sample disappears uncounted, a closed source ends, drained.
- Mixer: never overruns its ring, stays close to real time while a live source
  plays, `Done`, the events and what is mixed agree, calls do not hang.
- Timeline: each frame of a cue at its own place on the axis, appended cues
  back to back, every handle resolved.
- Engine: nothing sent on a closed channel, Stop waits, events in order and
  without a hole, exact tags, whole utterances; the voice it plays is the voice
  fed, each seam faded and no other.
- devices.System: the cache comes to agree with the operating system, a
  subscriber that starts from a snapshot follows the cache, Close is final.
- Ogg: what is read is whole packets in order, a lost page costs the packets it
  has a part of and no others, Close leaves nothing behind.

## 2. Modules

| Module | Models | Relation to the code |
|---|---|---|
| `SampleFifo` | what a Ring promises | abstract: Write and Read in one step each, samples at positions of the stream |
| `Ring` | `buffers/buffers.go` | one action per atomic load, slot access and atomic store; `wHead`, `wN`, `rTail`... are the calls' locals; INSTANCEs SampleFifo |
| `InputSource` | `timeline/input.go` | EXTENDS Ring: its callback takes Ring's producer steps, its Pull the consumer steps; adds `closed`, `dropped` |
| `Mixer` | `mixer/mixer.go`, `mixer/track.go` | the mix goroutine by its program counter `pc`, each channel operation of a caller a step |
| `MixerProofs` | | the theorems about Mixer: the ring and Close; the tracks and the live cap; the gains |
| `EventBus` | `events/events.go` | each critical section a step, the flag's reads and swaps steps of their own |
| `RingAndBusProofs` | | the theorems about Ring, on top of them those about InputSource, and those about EventBus, whose names are told apart from Ring's by a `Bus` (`BusSpec`, `BusTypeOK`) |
| `DuplexSession` | life cycle and `send` of `duplex` | each section under `Engine.mu`, each close and each case of a select a step |
| `DuplexCapture` | `duplex/capture.go`, `vad/preroll.go` | Push, drainInto, one frame, end of tick |
| `DuplexCaptureProofs` | | the theorems about the capture half |
| `DuplexRender` | `duplex/render.go`, `mutations/stream_chunker.go` | each critical section of the jitter buffer a step, the halt check of FeedChunk a step of its own |
| `DuplexEngineProofs` | | the theorems about the life cycle and the order of events, and about the render half |
| `Timing` | `mutations/timing.go` | the two conversions, with Go's division and int64 overflow |
| `Timeline` | `timeline/impl.go`, `timeline/handle.go` | EXTENDS Timing and Filters; each critical section a step |
| `TimelineProofs` | | frames to a duration and back; playback, appends, forgotten cues |
| `DeviceSystem` | `devices/system.go`, `devices/platform_darwin_cgo.go` | each section under `System.mu`, each listing, each send and receive of the watcher's channel a step; the operating system changes its table at any point |
| `DeviceProofs` | | the theorems about Close, about subscribers and about what is on its way to the cache |
| `Filters` | | what a loop keeps of a list (`Keep`), for Timeline and DuplexRender |
| `SequenceLemmas` | | what the library's operators on sequences and sets return and preserve: induction over sequences, `FlattenSeq`, `Keep`, `RemoveFirst`, `InsertAt`, `SubSeq`, `Min`, `Max` |
| `OggFraming` | `libraries/ogg/libogg/src/framing.c` | pure operators: segments, pages, packets, on both sides |
| `OggFile` | `containers/ogg/writer.go`, `reader.go` | EXTENDS OggFraming; a call of the Writer a step, a call of the Reader one step per read of the file; the file between them may be cut short and damaged |
| `OggProofs` | | the theorems about OggFile, on top of lemmas about what the encoder and the decoder make of one stream |
| `FlacWriter` | FLACWriter of `containers/ogg/flac.go` | Encode and Close, as far as the splitting of the encoder's bytes |

Each `MC...` module names the model values and small sets of its component's
runs. History variables record what the properties speak of (what was sent,
taken, fed); no guard reads them except the bounds named in the CONSTANTS.

### Choices in the models

- **Ring.** `Size` is any positive number in the proofs; the code's power of two is the
  special case where the mask is the remainder. `Word` is 2^64 in the code, a multiple of
  `Size`. A value is a member of `Sample`, so a stale or overwritten slot shows.
- **Mixer.** The output ring is its occupancy. That is what the Ring module justifies:
  reads and writes are atomic at their stores, and the room seen by the producer can
  only grow (`RoomKept`). `pc = "check"` keeps the occupancy read (`mixer.go:379`)
  apart from the read of the largest callback (`:384`), because `Fill` may run in
  between; likewise Fill's two steps. A mix pass looks at one track in a step (`MixTrack`),
  so that calls come in between, and any of them may end. When a track ends or is removed,
  closing its Done is one step, and taking it out of the count and publishing the event
  another (`PublishFinish`): whoever waits for Done may act before the event. The order of
  the list is left out. A select with several ready cases takes any of them.
  AddSource, SetGain, Remove and Close are steps of other goroutines at any point:
  any number of setters, each handle removed any number of times (up to `MaxCalls`
  calls in all) and any number of closers, of which all but the first are `ignored`.
- **InputSource.** The closed check and the ring's first load are one step: only the
  callback itself moves `head`. Pull's look at `closed` is a step after the ring's.
- **EventBus.** A callback that subscribes, cancels or publishes is covered by those
  actions happening while a publisher is in the callback; a panic ends a callback like a return.
- **DuplexSession.** A tick sends any number of events up to `Burst`. The stall timer
  may fire whenever send is blocked. Starts and Stops overlap
  in any way. A panic ends the process; the deferred calls of run, which come first, are steps still.
- **DuplexCapture.** A sample is its push and its index in it, the tag of a push its
  number, so lost, repeated and mistagged samples are all visible. The detector may
  announce nothing, one transition or two in each frame, in speech or out of it. A frame is
  the number of its processing. The engine is running: Push after the shutdown, which is
  refused, is not an action.
- **Timeline.** A source is its length and its read position, and gives what it is asked
  for until the end; it may report io.EOF with its last frames or with the next Pull, as
  different sources do. Positions go through `ThroughDuration` wherever the code converts
  to a `time.Duration` and back. Any goroutine may append,
  seek and schedule at any point. `astray` remembers the cues that a Seek has left out of step with the cursor.
- **DuplexRender.** A voice sample is its number, so that a sample lost, repeated, out of
  order or heard in the wrong place shows; what is heard at a place is the set of samples
  mixed there. The ambient bed is its position.
- **DeviceSystem.** The operating system and the watcher have an entry for each endpoint, an id and a
  direction; System and its subscribers have one for each id, so that an aggregate device's second direction overwrites the first
  (`ById`, and `With` and `Without` in `Applied`). `Plain` are the ids that are one endpoint only. Snapshot copies the cache and
  subscribes in two steps, under the read lock, which `Unread` asks for before a change is applied.
  A listing is one step and returns the table as it is. Two defaults never
  stand in the system's table at once (one per direction). `missed` records what changed between the
  listing of newSystem and that of Watch, `deaf` a change that no listener was installed for: what
  the code cannot know, the properties do not ask of it. The order in which a Go map is
  ranged over is any.
- **OggFile.** A page damaged or cut off is one the reader never sees: that is what a failing checksum
  comes to, once the sync layer has found the next page. Serials are distinct, no write fails.
  The loops of the code (pages until there are none, packets until there are none, the pages of one read) are functions of
  the number of rounds gone: a page takes a segment at least, so `Drained` needs no more rounds than there are segments.
  The proofs assume that a first packet fits on a page (`FirstSize`), as those of the codecs do.
- **FlacWriter.** The bytes are cut at every sync code, true or false; a false one inside a frame makes
  pieces that do not pass the checksum on their own.

## 3. Runs

Bounds are constants of the modules, named there. Every passing run explores the
whole state space of its instance. Deadlock is checked for `ring`, `input_source` and
`devices`, which never stop; the others may end (closed mixer, finished session, events, cues
or packets used up). Most modules state a type invariant; all of
them are proved (section 4), and no run repeats them.

| Run | Instance (distinct states) | Shows |
|---|---|---|
| `ring` | capacity 4, word 8, slices of 0, 1, 3 and 5 samples, reads of 1, 2 and 5, 9 samples (1.6 M) | every producer and consumer interleaving over a counter that wraps and slots that wrap twice: FIFO, no race, no short call, room kept |
| `input_source` | capacity 2, word 4, callbacks of 1 and 3 samples, 6 offered (34 k) | a quiet Close ends drained; a closed source ends |
| `mixer` | two live tracks, two goroutines that set gains and two that close, channel of 2, ring of 4 chunks, callbacks of half a chunk, live cap of 4 or 5 samples, 2 calls of SetGain or Remove (5.0 M up to symmetry) | no chunk overruns the ring, the live cap is kept, Done, events and mixing agree, gains agree, Close finishes what existed |
| `mixer_live` | a file track and a live one, channel of 1, ring of 2 chunks, 2 calls of SetGain or Remove, fair scheduling (191 k) | removals take effect and no call hangs, with nobody reading the ring |
| `event_bus` | 2 publishers of 2 events, 2 subscriptions (146 k) | order, nobody missed, at most one late call |
| `duplex_session` | 2 Starts, 2 Stops, channel of 1, ticks of up to 2 events, 4 events (283 k) | no channel closed twice, no send on a closed one and no Stop that does not wait but by a Stop that a Start overtook, order without holes until halted, the session ends |
| `duplex_capture` | frames of 2 samples, pushes of 1 to 3, queue of 5, batch of 2, lead-in of 1, pre-roll of 2 frames (383 k) | nothing lost, exact tags, well-formed utterances, whole onsets |
| `duplex_render` | frames of 3 samples, fades of 2, chunks of 1, 2 and 4, 8 samples, 2 boundaries, 1 clear (45 k) | no sample lost or repeated, no frame of two chunks, every seam faded and no other, everything whole is played |
| `timeline` | 2 cues of 2, 3 or endless frames, pulls of 1 and 2, seeks by -2, 1 and 2, a cursor up to 5, 3 frames to 10 units of time (1.3 M up to symmetry) | cues in step with the axis but for those a Seek leaves astray, appends back to back, no handle forgotten |
| `devices` | an output, an id that is an output and an input, 2 sets of properties, native watcher or polling, channel of 1, 2 changes, 1 failing call (824 k) | subscribers and cache follow, no event lost or overtaken, the cache converges, Close is final |
| `ogg_file` | 2 streams, pages of 3 segments of 2 bytes, packets of 1 and 12 bytes, 5 packets, 1 damaged page and any end of the file, reads of up to 2 pages (781 k up to symmetry) | whole packets in order, losses contained, streams found, Close complete |
| `flac_split` | 4 frames, a false sync code in each or not, 1 or 2 per call | **finding** 1 |

Why the bounds are enough to be interesting: each wraps, fills and empties its
resource. The ring's counters pass `Word`; the mixer's channel fills, its ring
comes to have less than a chunk free, and the live cap is below the ring's; a publish overlaps two cancels and another
publish; the Events channel blocks in the middle of a tick; a frame spans
two pushes, a push two frames, and a tick leaves frames over; a boundary finds a partial frame,
and a clear an armed seam and a tail; a cue starts before, at
and after the cursor; the watcher's channel of one fills while further changes come in; a packet of
12 bytes has seven segments and so spans three pages, any of which may be the lost one, with another packet's end or
beginning on the same page. Each property has a mutant of the code (`Mut...`, next to the
definition it changes) that violates it within these bounds.

One property has a precondition: `input_source`'s `QuietEndIsDrained` says nothing of a Close that a callback or a Pull
overlaps. The others are checked of callers that do whatever the code lets them. Where the code then breaks what it
promises, the property names the very case it excepts, tracked by the model, and is about all others: live tracks uncounted
more than once (`Miscounted` in `LiveAheadBounded`), tracks whose gain two goroutines set at a time (`tangled` in `GainsAgree`), a
Close that finds the mixer closed (`ignored`), a Stop that a Start overtook (`Overtaken` in `NoPanic` and `StopWaits`), cues that a Seek
left behind (`astray` in `InStep`), ids of two devices (`Plain` in `OnTheWay` and `CacheConverges`). Each is
under Findings, with the change that shows it.

### Fairness

- `InputSource`: whoever pulls the source (mixer or player) keeps pulling until the end and
  its calls proceed. Nothing is assumed of the device callback or of Close.
- `Mixer`: the mix goroutine runs when it can (it has a timer in every wait); a sender
  on the channel is served in the order it came (Go's channels queue their waiters), hence
  strong fairness for sends; closing proceeds. Nothing is assumed of `Fill`.
- `DuplexSession`: the audio goroutine and Stop proceed, the stall timer fires, and a
  select with a ready stop does not take the ticker for ever (Go picks ready cases at random):
  strong fairness of Leave. Nothing is assumed of the consumer or of the context.
- `DuplexRender`: the ticker keeps ticking until the engine is halted, and a FeedChunk past its
  check goes on. Nothing is assumed of the callers.
- `DeviceSystem`: watchLoop and the watcher's goroutine run when they can, and the poll ticker keeps firing. A Snapshot that has copied
  goes on to subscribe, and a writer that waits for the lock keeps later readers out (`sync.RWMutex`): strong fairness for
  applying an event or a listing, which one Snapshot after another cannot hold up for ever.
  Nothing is assumed of the operating system, which may change or not, or of failing calls, which are bounded.

`EventBus`, `DuplexCapture`, `Timeline` and `OggFile` have safety properties only: their calls end by themselves.

### Findings

1. `containers/ogg/flac.go:734` (run `flac_split`): splitFLACFrames moves the start of the frame to every sync code it
   meets, also to one whose checksum says that no frame ends there. What is in front of a sync code inside a frame is
   dropped, and with it the frame, where the comment promises that such codes are rejected (`flac.go:353-364`).

Met while modelling, and reproduced by one change of a configuration or a property:

| Where | What happens | To see it |
|---|---|---|
| `timeline/input.go:77-83` | Pull reads the ring, then `closed`; a callback that completes and a Close in between give io.EOF with samples buffered, against "once ... the ring has been drained" | property `EndIsDrained` in `InputSource.cfg` |
| `mixer/track.go:120-132` | two Removes before the next mix pass take a live track out of the count twice ("Remove is idempotent", `track.go:25-27`): it is announced as removed twice, and with another live track the cap on running ahead is off | `LiveAheadBounded` without `Miscounted = {}`; `DoneMatchesEvents` with one `"removed"` only |
| `mixer/track.go:65-71` | SetGain stores the gain and sends it in two steps: of two goroutines the one that stores last may send first, and `Gain()`, "the currently-applied linear gain", stays at the one gain and the mixer at the other | `GainsAgree` without `\ tangled` |
| `mixer/mixer.go:347-350` | a Close that finds the mixer closed returns at once, while the Dones that the first Close is to close are still open, against "Existing TrackHandles have their Done channels closed" (`mixer.go:343-344`) | `CloseFinishesExisting` with `{"returned", "ignored"}` |
| `duplex/duplex.go:475-486` | a Start between Stop's two critical sections is not waited for, against "returns after the audio goroutine has exited" (`duplex.go:473-474`); Stop also closes `Events` under the goroutine it did not see, which then sends on a closed channel | `StopWaits` and `NoPanic` without `Overtaken` |
| `timeline/impl.go:235` | the test for "not yet started" compares with the target only: a playing cue rewound to before its start goes on from the middle. And a Seek that fails leaves the cues before the failing one at the new position and the cursor at the old | `InStep` without `\cup astray` |
| `timeline/impl.go:165-174` | two Appends that overlap read the same end and place their cues on top of each other | invariant `\A c, d \in appended \cap placed : c = d \/ start[c] # start[d]` |
| `devices/system.go:171-185` | an id that is an output and an input ("Device.ID alone is not sufficient", `platform_darwin_cgo.go:107-109`) is two devices of the watcher and one of the cache: when one of them goes, its `Removed` deletes the other too, which List ("the current device set", `system.go:117`) does not show again. While polling, only the direction listed last is seen (`system.go:198-201`) | property `ListIsCurrent` in `DeviceSystem.cfg` |
| `devices/system.go:174` | a device added as the default, or re-announced as it, does not clear the flag of the one before, so that the cache holds two | invariant `OneDefault` in `DeviceSystem.cfg` |

And without a run: `mixer.AddSource` against Close can leave a track's
Done open for ever (the send into the buffered channel wins after finalize has emptied it,
`mixer.go:305-310`); `Cancel`'s "no further events" (`events/events.go:64-65`) holds but for one
call already past the flag (`AtMostOneLate` bounds it); the Ogg Writer lets a second page of one stream come before the first page of
another, which NewReader then does not list; `devices.System.Close` leaves the cache as it is.

## 4. Proofs

Every safety property that a passing run checks is proved, 33 in all, for every value of the constants, under the assumptions
stated in the modules (`RingAssumption`, `MixerAssumption`...) and the hypotheses named below. What each theorem needs
beyond the code itself:

| Hypothesis | Theorems | Why |
|---|---|---|
| `LengthsFit`, `[]AxisFits` | `KeepsInStep`, `ForgetsNothing`, `AppendsFollow`, `StaysInOrder` | a rate is at most half of a second's units, and positions, which the code turns into a `time.Duration` and back, stay within int64: the axis is shorter than 292 years |

Nothing is assumed of the callers: no theorem restricts which calls overlap or how often they are made. The exceptions are in
the properties (section 3).

### Ring and InputSource (`RingAndBusProofs`)

| Theorem | Statement |
|---|---|
| `TypeCorrect` | `Spec => []TypeOK` |
| `NoRace` | `Spec => []SlotsDisjoint` |
| `NoShortCall` | `Spec => []TakesWhatFits` |
| `RoomKept` | `Spec => []RoomIsKept` |
| `Implementation` | `Spec => ImplementsFifo`, the refinement of SampleFifo |
| `SourceTypes`, `Accounted`, `QuietEnd` | InputSource: types; every sample offered is queued, delivered, in hand or counted as dropped; a quiet end is drained |

None of them is inductive. The strengthening of Ring is `IndInv`:

- `Positions`: the counters are the history's positions modulo `Word`, and between 0 and
  `Size` samples are queued. Without the unbounded positions nothing ties the wrapped counters to
  an occupancy.
- `ProducerView`: the producer's copy of `head` is current, what it will write fits in what is
  free *now* (the consumer can only have made more), and what it has copied stands at its slots.
- `ConsumerView`: what the consumer will read is queued *now* (the producer can only have added),
  and what it has copied is the front of the queue.

One lemma per action shows that it preserves `IndInv` (`WriteCopyInv`, `ReadCopyInv`...).
They rest on arithmetic lemmas proved from division with remainder: masking a wrapped counter gives the slot
of its position (`WrapKeepsSlot`), positions less than a lap apart have different slots
(`SlotsDiffer`), the difference of wrapped counters is the difference of positions (`DistOfWrapped`).
`NoRace` follows from the two views: the slot being written lies at a position of the free part, the one being read at a queued one.
The refinement maps the queued position p to `buf[p % Size]`: `WriteCopy` changes only free slots, so
it is a stutter; `WritePublish` and `ReadPublish` are the abstract Write and Read.

Every step of InputSource is a step of its ring or leaves it alone, so the ring's lemmas apply as they are. `SourceInd` adds
the order of the flags (`Phases`) and what a Pull that began on a quietly closed source knows (`LastPull`: nobody adds any
more, so what it has seen queued is what is queued).

### Mixer (`MixerProofs`)

- `WritesFit` (`NoChunkLost`), from `RoomKept`: from the reading of the occupancy to the write of the chunk, the ring
  only gets emptier, so that the test run made on what it had read still holds.
- `ClosesAll` (`CloseFinishesExisting`), from `CloseInd`: a handle that is out has its track in the channel, in the list, or
  done (`Known`); a track is flagged as removed only with its Done closed; one closer at most has closed the mixer, the others
  are ignored; when run returns, list and channel are empty.
- `DoneOnce` (`DoneMatchesEvents`), from `TrackInd`: the addition of a track is in the channel only as long as nothing has happened
  to it; and while run is not closing each track is `Fresh`, `Played`, `Flagged` by as many removals as were published or
  `Ended`, with at most one whose Done is closed and whose event is still to come. `Counted`: `liveCount` is the number of live
  tracks that play, and of one that is about to be uncounted, as long as none has been uncounted twice (`Twice`).
- `NeverTooFarAhead` (`LiveAheadBounded`), from `AheadInd`: besides, the live cap never falls, and only an operation, which
  brings run back to its start, can bring a live track.
- `GainIsApplied` (`GainsAgree`), from `GainInd`: until AddSource has returned nobody knows the track (`Untouched`); a gain
  never overtakes the addition of its track in the channel (`GainsBehind`); and for a track that is not tangled, one call at most has stored
  a gain and not sent it, which is the one shown; else the last gain in the channel is the one shown or, where there is none, the one
  applied is (`GainFollows`). A gain stored while another waits to be sent tangles the track; one stored alone comes last in the channel.
- `MixerFields` (`TypeOK`): the types; the channel keeps its capacity because a send takes room it has just found
  (`ChannelHolds`). Of `liveCount` it says only that it is an integer: after a second Remove it may fall below zero.

### EventBus (`RingAndBusProofs`)

`LateOnce` (`AtMostOneLate`): a publisher can be past the flag of one subscription at most, so it makes at most one call after a
cancel. `InRegistrationOrder` (`CalledInOrder`) and `EveryoneCalled` (`NobodyMissed`) follow from `BusInv`: the list holds the
subscriptions in the order they were made, and all that no Cancel has flagged (`Listed`); the copy a publisher goes
through is in that order too, has everyone who was active when it was taken and else only subscriptions cancelled by
then; whoever stands before its index has been called or is cancelled, and whoever has been called stands before it (`Delivering`).
`HoldsEachOnce` is the type invariant: taking a subscription off keeps the rest distinct (`RemoveKeepsDistinct`), and only those whose
Cancel has begun are flagged.

### Timeline and Timing (`TimelineProofs`)

`RoundTrip`: `DurationToFrames(FramesToDuration(n)) = n` for every n whose product with a second stays within int64, at
every rate up to half of a second's units. It is why `Timeline` may append at the frame where the schedule ends, and
every step that converts a position cites it.

`KeepsInStep` (`InStep`) and `ForgetsNothing` (`NothingForgotten`) rest on `PlayInv`: both at once, since a cue is finished only by having
been read to its end; only scheduled cues are active or done (`OnlyScheduled`); and without history a cue that has ended
stays behind the cursor until Pull drops it (`EndedForGood`). A Seek that fails or passes over a cue puts it into `astray` in the
same step, so that nothing has to be known of when Seeks are made. `AppendsFollow` (`AppendsBackToBack`) adds `AppendInv`: `end` is where the last of the cues placed
so far is over (`EndIsFurthest`), so that what an Append reads is that of the cues placed by then, and the conversion of it to a duration and
back does not move it (`RoundTrip`).

`StaysInOrder` is the type invariant with the order of the list: scheduling puts a cue after those that start no later
(`InsertedRanked`), and dropping and cancelling keep the order of the others (`RankedStays`); a Seek changes no start.

### Duplex engine: capture half (`DuplexCaptureProofs`)

- `Lossless` (`NothingLost`), from `StreamInv`: what was processed, the partial frame and the queue, one after another, are what Push
  accepted; the queue's counter is the sum of its lengths.
- `RightTags` (`TagsExact`), from `TagInv`, the spans spelled out are the tags of the samples held, and from `SpeechInv`.
- `WellFormed` (`Utterances`) and `WholeOnset` (`OnsetIsWhole`), from `SpeechInv`: what has been sent is a sequence of whole utterances, the last perhaps open
  (`Formed`); each frame sent or in the pre-roll stands there once, in its order, and the pre-roll is the last of the frames that
  no utterance has taken (`Banked`); all have the tags of their first samples (`Tagged`). The number of frames processed, which the
  code does not keep, is existentially quantified.
- `WithinBounds`: the type invariant, with the bounds of queue, partial frame and pre-roll.

### Duplex engine: life cycle and render half (`DuplexEngineProofs`)

`LifeInd` says who may close what: whoever set `stopped`, and nobody else, is to close `stop` (`OneCloser`); Events is closed by the
goroutine when it has sent its last event or by a Stop that knows of none, and there is one then only if that Stop was overtaken
(`Unaware` in `ChannelClosed`). It gives `NeverPanics` and
`StopsWait`; with `OrderInd`, which numbers the events on their way, `StrictlyFifo`; and with `BurstInv` (a tick under way has
events left to send) the types, `SessionTypes`.

The render half is proved for every length of frames, fades and chunks, from three invariants:

- `KeepsTheVoice` (`VoiceIsKept`), from `VoiceInv`. Cutting into whole frames and a rest loses nothing (`NothingCutOff`, by induction on
  the number of frames), padding does not sound (`PaddedIs`), and what is put at the end is heard last (`HeardMore`): so a
  feed appends the numbers of its samples, a boundary appends nothing, and playing takes the first of them away (`HeardFirst`, `NumbersCut`).
- `ChunksStayApart` (`ChunksDoNotMix`), from `ChunkInv`. What the property says of a queued frame stays true whatever is fed and marked later
  (`ChunkStays`), because samples and boundaries are only ever added (`Extends`). New frames need to know what the
  partial frame is, the last samples fed, all since the last boundary (`Partial`), and when the seam waits: exactly while the
  last boundary is a mark and no frame has been completed since (`Armed`).
- `FadesOnlyAtSeams` (`FadesAtSeams`), an action property, from `ChunkInv` and `TailIs`: the tail is the end of the last frame heard since the
  last clear, or both are empty. The flag on the frame and the test of the tail in the code then come to the property's own condition.
- `RenderTypes` (`RenderTypeOK`): the fields of the jitter buffer and the chunker keep their types; nothing is heard that was not fed.

### devices.System (`DeviceProofs`)

- `QuietOnceClosed` (`ClosedIsQuiet`): Close returns only when watchLoop has ended, and nothing else touches the
  cache or calls a subscriber; the watcher's goroutine, which Close does not wait for, only reaches its own channel.
- `Follows` (`SubscribersFollow`), from `Following`: a copy not subscribed yet is the cache as it is, since Snapshot keeps writers out;
  from then on the subscriber applies the events that the cache applies, so that with a watcher it has the same table. Where the cache is
  replaced instead (the polling loop), the events of the difference, in any order, lead to its ids, and for the ids of one endpoint to its
  devices (`PollTold`, from `Told`, `ToldOnce` and `ListedOnce`: a device is what the events say that are about it, if there is one, and else as it was).
- `DifferenceOnTheWay` (`OnTheWay`), from `Way`: the cache, once told what is in the channel and what is being sent (`Underway`), agrees
  with the watcher's snapshot on the ids of one endpoint but for those that changed before Watch's listing and that nothing on its way mentions;
  and before the watcher runs, the same of the two listings. The watcher's tables go by endpoint: that what they say of such an
  id is what the cache is told is `DiffTold`, from the lemmas about `ById`.
- `WithinBounds`: the type invariant: tables by endpoint on the one side, by id on the other, each entry under its own key.

### Ogg (`OggProofs`)

All five theorems follow from one invariant, `Inv` (`FileInvariant`), for any number of streams and packets, packets and pages of any
size, any damage and any place at which the file ends. None of the properties is inductive: what a reader may get from the next page
depends on what an encoder, long gone, cut where. `Inv` therefore says, of every stream s, that there are offsets `off`, the places
of s's segments at which its pages begin and end, such that

- the writer's side is at the last of them: the encoder holds the segments after it, and the pages of s in the file are those
  between the offsets, numbered from 0, marked as continued where an offset is inside a packet (`FileAt`, `EncoderAt`);
- the reader's side is at one of them: the decoder, due page m, holds the segments in front of offset m of a packet that goes on, or
  nothing; what it has given away are whole packets up to there, each but those that a missing page has a part of (`DecoderAt`:
  `WholePackets`, `Covered`);
- every page of s from m on is still to come or lost (`ReadTo`).

The rest of `Inv` is the types and what each call of the reader knows (`ReaderAt`). The offsets are existentially quantified: neither side
keeps them, and the reader and the writer never meet but in the file. The argument goes from one stream to the file:

- the encoder: cutting segments at the length `PageLength` gives adds an offset (`NextPageIs`), and draining it goes on until nothing is held or has to be
  written (`DrainedTo`, by induction on the rounds, of which there are at most as many as segments);
- the decoder: what continues a packet that is gone is skipped (`ContinuationIs`); gathering from the beginning of a packet gives the whole packets up to the last end
  and leaves the rest (`PacketsOutIs`); so a page in its turn or after a gap keeps `DecoderAt` (`PageInIs`, `PageFed`);
- one lemma per call of Writer and Reader (`WritePacketKeeps`, `CloseKeeps`, `OpenFileKeeps`, `FeedKeeps`...).

`ReadersGetWholePackets` (`PacketsWhole`) is then `WholePackets`. `LostPagesCostTheirPackets` (`LossIsContained`): if as many segments of a packet arrived as it has,
each of them did (`AllArrived`, by counting), so that no page with a part of it is missing (`SegmentSeen`), and `Covered` says it was given. `CloseLeavesNothing`
(`CloseFinishes`), an action property: after the flush the last offset is the end of the stream, and the pages' segments joined are the stream (`CutJoin`,
`SegmentsOf`). `ReaderFindsStreams` (`StreamsFound`): a stream whose first page was in front is in the order that NewReader lists from (`FrontIn`).

### How the proofs are built

Each invariant was model-checked on its run before it was proved, but `Inv` of OggFile, whose offsets range over all sequences. `SequenceLemmas` has what several modules need. Induction is
stated over sets (`Induction`, `SeqInduction`: a set of numbers or sequences that contains the first and with each the next
contains all), since the library's theorems with an operator as a parameter are out of the provers' reach; a recursive function is
unfolded by a lemma that says which functions satisfy its equation and that they agree (`FlatExists`, `FlatAgrees`, `FoldExists`, `FoldsAgree`). This
is also why `Keep` is a flattened function and not `SelectSeq` in Timeline and DuplexRender.

Model-checked only: the liveness properties (`ClosedSourceEnds`, `RemovalCloses`, `CallsReturn`, `EndsOnceHalted`, `WholeIsPlayed`, `CacheConverges`; `CallsReturn` is about Close, AddSource and SetGain, the send of Remove being one step), fairness and
ENABLED being beyond this proof system, and the violation of `flac_split`.

## 5. Not modelled, and why

Sample values, gain ramps, saturation, echo cancellation, detection, loudness,
resampling and FFTs are numerical; codecs, the other containers and `libraries/` are ports
whose reference is C code that the repository's own parity tests compare with; platform back ends are foreign
functions. `buffers.Queue` and `Slab` are containers behind their users' locks. The hardware policy, the
detectors' hysteresis, gate and ducker are small sequential code and planned below. Of Ogg, granule positions, checksums
and the byte search of the sync layer are left out, and writes that fail.

Measured in lines, little of the repository is modelled, and little can be: of its 748,015 lines of implementation
some 296,000 are one table of filter coefficients, most of the rest are the vendored C codecs
and their line-by-line Go and assembly counterparts. What shares state between goroutines, and what
frames and takes apart streams of Ogg, is a few thousand lines, and those are the modules' subject.

## 6. Plan

In the order of weight; each step brings its MC module, run, mutants and map.

1. `HwPolicy` (`codec/hwaccel/policy.go`): the walk over back ends against a reference definition.
2. `Hysteresis` (`vad/hysteresis.go`), composed with DuplexCapture in place of the free detector; `Gate`.
3. The limiter's sliding maximum (`loudness/limiter.go`) against the definition of a maximum.
4. A composition of Mixer with callbacks that call back in (EventBus on the mix goroutine).
5. Failing writes of `containers/ogg`: what a second call does with the packet still pending.

Abstract specifications worth stating: an Events queue that DuplexSession implements (prefix of the sends,
complete until halted), a schedule that maps each frame of the axis to the frames heard, which Timeline implements.

Theorems next: that FlacWriter loses a frame only where its bytes hold a false sync code.
