----------------------------- MODULE MixerProofs -----------------------------
(***************************************************************************)
(* Proofs about Mixer for any sets of tracks and callers, any capacities   *)
(* and any number of calls: that the ring has room for each chunk, that    *)
(* Close leaves no handle open, what each track has been through, how far  *)
(* ahead of the device the mix goroutine gets, and which gain is applied.  *)
(***************************************************************************)
EXTENDS Mixer, FiniteSetTheorems, FunctionTheorems, SequenceTheorems, TLAPS

\* The steps of run that apply, finish and publish nothing.
Quiet ==
    \/ ReceiveStop \/ Drained \/ Check \/ IdleTick
    \/ Mixed \/ WriteChunk \/ FinishedAll \/ RunReturns

LEMMA QuietLeaves ==
    ASSUME Quiet
    PROVE  UNCHANGED <<installed, removed, liveCount, applied, finishing, done, events,
                       pending, closing, callers, device>>
<1>1. CASE ReceiveStop \/ IdleTick \/ Mixed
  BY <1>1 DEF ReceiveStop, IdleTick, Mixed, owned, outcome
<1>2. CASE FinishedAll \/ RunReturns
  BY <1>2 DEF FinishedAll, RunReturns, owned, outcome
<1>3. CASE Drained \/ WriteChunk
  BY <1>3 DEF Drained, WriteChunk, owned, outcome
<1>4. CASE Check
  BY <1>4 DEF Check, outcome
<1> QED
  BY <1>1, <1>2, <1>3, <1>4 DEF Quiet

LEMMA QuietMoves ==
    ASSUME Quiet
    PROVE  \/ pc \in {"drain", "wait"} /\ stopped /\ pc' = "finalize"
           \/ pc = "drain" /\ pc' = "check"
           \/ pc = "check" /\ pc' \in {"wait", "mix"}
           \/ pc = "wait" /\ pc' = "drain"
           \/ pc = "mix" /\ pc' = "write"
           \/ pc = "write" /\ pc' = "drain"
           \/ pc = "finalize" /\ pc' = "flush" /\ installed = {}
           \/ pc = "flush" /\ pc' = "done" /\ pending = <<>>
  BY DEF Quiet, ReceiveStop, Drained, Check, IdleTick, Mixed, WriteChunk, FinishedAll,
         RunReturns

LEMMA RunSplit ==
    ASSUME Run
    PROVE  \/ ReceiveOp \/ PublishFinish \/ FlushOp \/ Quiet
           \/ \E t \in Tracks : MixTrack(t)
           \/ \E t \in Tracks : FinishTrack(t)
  BY DEF Run, Quiet

-----------------------------------------------------------------------------
(* The output ring.                                                        *)

\* From the reading of the occupancy to the write of the chunk the ring only
\* gets emptier: what run has decided on stays right.
RoomKept ==
    /\ ringLen \in Nat /\ seen \in Nat /\ filling \in Nat
    /\ pc = "check" => ringLen <= seen
    /\ pc \in {"mix", "ended", "write"} => ringLen + Chunk <= RingCap

LEMMA RoomInitial == Init => RoomKept
  BY DEF Init, RoomKept

\* run's own steps.
LEMMA RoomRun ==
    ASSUME RoomKept, Run
    PROVE  RoomKept'
<1> USE MixerAssumption DEF RoomKept
<1>1. CASE ReceiveOp
  <2>1. pc' \in {"drain", "removed"} /\ UNCHANGED <<ringLen, seen, filling>>
    BY <1>1 DEF ReceiveOp, Apply, ApplyAdd, ApplyGain, ApplyRemove, ring, device
  <2> QED
    BY <2>1
<1>2. CASE PublishFinish
  BY <1>2 DEF PublishFinish, ring, device
<1>3. ASSUME NEW t \in Tracks, MixTrack(t)
      PROVE  RoomKept'
  BY <1>3 DEF MixTrack, ring, device
<1>4. CASE ReceiveStop \/ IdleTick \/ Mixed
  BY <1>4 DEF ReceiveStop, IdleTick, Mixed, ring, device
<1>5. CASE Drained
  BY <1>5 DEF Drained, device
<1>6. CASE Check
  BY <1>6 DEF Check, AtCap, device
<1>7. CASE WriteChunk
  BY <1>7 DEF WriteChunk, device
<1>8. CASE FinishedAll \/ FlushOp \/ RunReturns
  BY <1>8 DEF FinishedAll, FlushOp, RunReturns, ring, device
<1>9. ASSUME NEW t \in Tracks, FinishTrack(t)
      PROVE  RoomKept'
  BY <1>9 DEF FinishTrack, ring, device
<1> QED
  BY <1>1, <1>2, <1>3, <1>4, <1>5, <1>6, <1>7, <1>8, <1>9 DEF Run

\* The callers leave the ring alone, and so does Close.
Callers ==
    \/ \E t \in Tracks : AddCheck(t) \/ AddSend(t) \/ AddStopped(t) \/ Remove(t)
    \/ \E c \in Setters, t \in Tracks, g \in Gains : SetGainStore(c, t, g)
    \/ \E c \in Setters : SetGainSend(c) \/ SetGainStopped(c)
    \/ \E k \in Closers : CloseCall(k) \/ CloseStop(k) \/ CloseReturn(k)

LEMMA CallersLeaveMixing == Callers => UNCHANGED mixing
  BY DEF Callers, AddCheck, AddSend, AddStopped, Remove, SetGainStore, SetGainSend,
         SetGainStopped, CloseCall, CloseStop, CloseReturn

LEMMA NextSplit ==
    ASSUME [Next]_vars
    PROVE  \/ Run \/ Callers
           \/ \E n \in Fills : FillObserve(n)
           \/ FillRead
           \/ UNCHANGED vars
  BY DEF Next, Callers

LEMMA LessFits ==
    ASSUME NEW less \in Nat, NEW len \in Nat, less <= len, len + Chunk <= RingCap
    PROVE  less + Chunk <= RingCap
  BY MixerAssumption

LEMMA RoomStep ==
    ASSUME RoomKept, [Next]_vars
    PROVE  RoomKept'
<1> USE MixerAssumption DEF RoomKept
<1>1. CASE Callers
  BY <1>1, CallersLeaveMixing DEF mixing, ring, device
<1>2. ASSUME NEW n \in Fills, FillObserve(n)
      PROVE  RoomKept'
  BY <1>2 DEF FillObserve, ring
<1>3. CASE FillRead
  <2>1. ringLen' \in Nat /\ ringLen' <= ringLen
    BY <1>3 DEF FillRead, Larger
  <2>2. filling' = 0 /\ UNCHANGED <<pc, seen>>
    BY <1>3 DEF FillRead
  <2>3. ASSUME pc \in {"mix", "ended", "write"}
        PROVE  ringLen' + Chunk <= RingCap
    BY <2>1, <2>3, LessFits
  <2>4. pc = "check" => ringLen' <= seen'
    BY <2>1, <2>2
  <2> QED
    BY <2>1, <2>2, <2>3, <2>4
<1>4. CASE UNCHANGED vars
  BY <1>4 DEF vars, ring, device
<1> QED
  BY <1>1, <1>2, <1>3, <1>4, RoomRun, NextSplit

\* run ignores how much its Write to the ring took; it takes the whole chunk.
THEOREM WritesFit == Spec => []NoChunkLost
<1>1. RoomKept => NoChunkLost
  BY DEF RoomKept, NoChunkLost
<1> QED
  BY RoomInitial, RoomStep, <1>1, PTL DEF Spec

-----------------------------------------------------------------------------
(* Close.                                                                  *)

\* Where the track of a handle is, once AddSource has returned it.
Known(t) ==
    \/ t \in done
    \/ t \in installed
    \/ \E i \in DOMAIN pending : pending[i] = AddOp(t)

Types ==
    /\ pending \in Seq(Ops)
    /\ setting \in [Setters -> Ops \cup {NoGain}]
    /\ adding \in [Tracks -> {"none", "sending", "added", "refused"}]
    /\ closePc \in [Closers -> {"idle", "locked", "waiting", "returned", "ignored"}]
    /\ existing \subseteq Tracks

\* A track leaves the list without its Done being closed only when it was
\* flagged, and its Done closed, before; run returns when nothing is left.
Phases ==
    /\ removed \subseteq done
    /\ pc \in {"finalize", "flush", "done"} => stopped
    /\ pc = "flush" => installed = {}
    /\ \A k \in Closers : closePc[k] = "locked" => closed
    /\ stopped => closed
    /\ ~closed => existing = {}
    /\ \A k \in Closers : closePc[k] = "returned" => pc = "done"

HandlesKnown ==
    /\ ~closed => \A t \in Tracks : adding[t] = "added" => Known(t)
    /\ \A t \in existing : Known(t)
    /\ pc = "done" => existing \subseteq done

CloseInd == Types /\ Phases /\ HandlesKnown

LEMMA CloseInitial == Init => CloseInd
<1> SUFFICES ASSUME Init PROVE CloseInd
  OBVIOUS
<1>1. Types
  BY DEF Init, Types
<1>2. Phases /\ HandlesKnown
  BY DEF Init, Phases, HandlesKnown
<1> QED
  BY <1>1, <1>2 DEF CloseInd

\* What remains of the channel once its head is taken.
LEMMA TakenOrStill ==
    ASSUME pending \in Seq(Ops), pending # <<>>, NEW op,
           NEW i \in DOMAIN pending, pending[i] = op
    PROVE  \/ Head(pending) = op
           \/ \E j \in DOMAIN Tail(pending) : Tail(pending)[j] = op
<1>1. i \in 1 .. Len(pending)
  OBVIOUS
<1>2. CASE i = 1
  BY <1>2
<1>3. CASE i # 1
  <2>1. i - 1 \in DOMAIN Tail(pending) /\ Tail(pending)[i - 1] = pending[i]
    BY <1>1, <1>3
  <2> QED
    BY <2>1
<1> QED
  BY <1>2, <1>3

LEMMA TailTyped ==
    ASSUME pending \in Seq(Ops), pending # <<>>
    PROVE  Head(pending) \in Ops /\ Tail(pending) \in Seq(Ops)
  OBVIOUS

LEMMA AppendKnown ==
    ASSUME pending \in Seq(Ops), NEW op \in Ops, pending' = Append(pending, op),
           UNCHANGED <<done, installed>>, NEW t \in Tracks
    PROVE  /\ pending' \in Seq(Ops)
           /\ Known(t) => Known(t)'
           /\ op = AddOp(t) => Known(t)'
<1>1. /\ Len(pending') = Len(pending) + 1 /\ pending'[Len(pending) + 1] = op
      /\ \A i \in DOMAIN pending : i \in DOMAIN pending' /\ pending'[i] = pending[i]
      /\ pending' \in Seq(Ops) /\ Len(pending) + 1 \in DOMAIN pending'
  OBVIOUS
<1>2. ASSUME Known(t)
      PROVE  Known(t)'
  <2>1. CASE t \in done \/ t \in installed
    BY <2>1 DEF Known
  <2>2. CASE \E i \in DOMAIN pending : pending[i] = AddOp(t)
    BY <2>2, <1>1 DEF Known, AddOp
  <2> QED
    BY <1>2, <2>1, <2>2 DEF Known
<1>3. ASSUME op = AddOp(t)
      PROVE  Known(t)'
  BY <1>1, <1>3 DEF Known, AddOp
<1> QED
  BY <1>1, <1>2, <1>3

\* What an operation does to the tracks.
LEMMA ApplyKnown ==
    ASSUME NEW op \in Ops, Apply(op), removed \subseteq done
    PROVE  /\ installed \subseteq installed' /\ done \subseteq done'
           /\ removed' \subseteq done'
           /\ \A t \in Tracks : op = AddOp(t) => t \in installed'
<1>1. CASE op.kind = "add" /\ ApplyAdd(op.track)
  BY <1>1 DEF ApplyAdd, AddOp
<1>2. CASE op.kind = "gain" /\ ApplyGain(op.track, op.gain)
  BY <1>2 DEF ApplyGain, AddOp, outcome
<1>3. CASE op.kind = "remove" /\ ApplyRemove(op.track)
  BY <1>3 DEF ApplyRemove, AddOp
<1> QED
  BY <1>1, <1>2, <1>3 DEF Apply

\* run loses sight of no track: it is received, played, or done.
LEMMA RunKnown ==
    ASSUME CloseInd, Run, NEW t \in Tracks, Known(t)
    PROVE  Known(t)'
<1> USE DEF CloseInd, Types, Phases
<1>1. CASE ReceiveOp
  <2>1. /\ pending # <<>> /\ Apply(Head(pending)) /\ pending' = Tail(pending)
    BY <1>1 DEF ReceiveOp
  <2>2. Head(pending) \in Ops
    BY <2>1, TailTyped
  <2>3. /\ installed \subseteq installed' /\ done \subseteq done'
        /\ Head(pending) = AddOp(t) => t \in installed'
    BY <2>1, <2>2, ApplyKnown
  <2>4. CASE t \in done \/ t \in installed
    BY <2>3, <2>4 DEF Known
  <2>5. ASSUME NEW i \in DOMAIN pending, pending[i] = AddOp(t)
        PROVE  Known(t)'
    <3>1. \/ Head(pending) = AddOp(t)
          \/ \E j \in DOMAIN Tail(pending) : Tail(pending)[j] = AddOp(t)
      BY <2>1, <2>5, TakenOrStill
    <3> QED
      BY <3>1, <2>1, <2>3 DEF Known, AddOp
  <2> QED
    BY <2>4, <2>5 DEF Known
<1>2. ASSUME NEW u \in Tracks, MixTrack(u) \/ FinishTrack(u)
      PROVE  Known(t)'
  <2>1. /\ pending' = pending /\ done \subseteq done'
        /\ installed \subseteq installed' \cup done'
    BY <1>2 DEF MixTrack, FinishTrack, Pulled
  <2> QED
    BY <2>1 DEF Known, AddOp
<1>3. CASE PublishFinish \/ Quiet
  <2>1. UNCHANGED <<installed, done, pending>>
    BY <1>3, QuietLeaves DEF PublishFinish
  <2> QED
    BY <2>1 DEF Known, AddOp
<1>4. CASE FlushOp
  <2>1. /\ pending # <<>> /\ pending' = Tail(pending) /\ installed' = installed
        /\ done' = done \cup Flushed(Head(pending))
    BY <1>4 DEF FlushOp, owned
  <2>2. CASE t \in done \/ t \in installed
    BY <2>1, <2>2 DEF Known
  <2>3. ASSUME NEW i \in DOMAIN pending, pending[i] = AddOp(t)
        PROVE  Known(t)'
    <3>1. \/ Head(pending) = AddOp(t)
          \/ \E j \in DOMAIN Tail(pending) : Tail(pending)[j] = AddOp(t)
      BY <2>1, <2>3, TakenOrStill
    <3>2. Flushed(AddOp(t)) = {t}
      BY DEF Flushed, AddOp
    <3> QED
      BY <3>1, <3>2, <2>1 DEF Known, AddOp
  <2> QED
    BY <2>2, <2>3 DEF Known
<1> QED
  BY <1>1, <1>2, <1>3, <1>4, RunSplit

\* What run does to its own progress.
LEMMA RunPhases ==
    ASSUME CloseInd, Run
    PROVE  Types' /\ Phases'
<1> USE DEF CloseInd, Types, Phases
<1>1. CASE ReceiveOp
  <2>1. /\ pending # <<>> /\ Apply(Head(pending)) /\ pending' = Tail(pending)
        /\ UNCHANGED <<stopped, closed, closePc, existing, setting, adding>>
        /\ pc \in {"drain", "wait"}
    BY <1>1 DEF ReceiveOp, closing, callers
  <2>2. Head(pending) \in Ops /\ Tail(pending) \in Seq(Ops)
    BY <2>1, TailTyped
  <2>3. removed' \subseteq done' /\ pc' \in {"drain", "removed"}
    BY <2>1, <2>2, ApplyKnown DEF Apply, ApplyAdd, ApplyGain, ApplyRemove
  <2> QED
    BY <2>1, <2>2, <2>3
<1>2. CASE PublishFinish
  BY <1>2 DEF PublishFinish, closing, callers
<1>3. ASSUME NEW t \in Tracks, MixTrack(t) \/ FinishTrack(t)
      PROVE  Types' /\ Phases'
  <2>1. /\ UNCHANGED <<pending, removed, stopped, closed, closePc, existing, setting, adding>>
        /\ done \subseteq done' /\ pc \in {"mix", "finalize"}
        /\ pc' \in {pc, "ended"}
    BY <1>3 DEF MixTrack, FinishTrack, closing, callers
  <2> QED
    BY <2>1
<1>4. CASE FlushOp
  <2>1. /\ pending # <<>> /\ pending' = Tail(pending) /\ done \subseteq done'
        /\ UNCHANGED <<pc, installed, removed, stopped, closed, closePc, existing, setting,
                       adding>>
    BY <1>4 DEF FlushOp, owned, closing, callers
  <2>2. Tail(pending) \in Seq(Ops)
    BY <2>1, TailTyped
  <2> QED
    BY <2>1, <2>2
<1>5. CASE Quiet
  <2>1. UNCHANGED <<installed, removed, done, pending, stopped, closed, closePc, existing,
                    setting, adding>>
    BY <1>5, QuietLeaves DEF closing, callers
  <2> QED
    BY <1>5, <2>1, QuietMoves
<1> QED
  BY <1>1, <1>2, <1>3, <1>4, <1>5, RunSplit

\* run returns when it finds the channel empty.
LEMMA RunEnds ==
    ASSUME Run, pc' = "done"
    PROVE  pc = "flush" /\ pending = <<>> /\ UNCHANGED <<installed, done, pending>>
<1>1. RunReturns
  BY DEF Run, ReceiveOp, Apply, ApplyAdd, ApplyGain, ApplyRemove, PublishFinish, ReceiveStop,
         Drained, Check, IdleTick, MixTrack, Mixed, WriteChunk, FinishTrack, FinishedAll,
         FlushOp
<1> QED
  BY <1>1 DEF RunReturns, owned, outcome

LEMMA RunLeavesCallers == Run => UNCHANGED <<closing, callers>>
  BY DEF Run, ReceiveOp, PublishFinish, ReceiveStop, Drained, Check, IdleTick, MixTrack, Mixed,
         WriteChunk, FinishTrack, FinishedAll, FlushOp, RunReturns

\* When run returns, what is known is done: nothing is installed or waiting.
LEMMA RunHandles ==
    ASSUME CloseInd, Run
    PROVE  HandlesKnown'
<1> USE DEF CloseInd, HandlesKnown
<1>1. UNCHANGED <<closed, existing, adding>>
  BY RunLeavesCallers DEF closing, callers
<1>2. existing \subseteq Tracks
  BY DEF Types
<1>3. (~closed => \A t \in Tracks : adding[t] = "added" => Known(t))'
  BY <1>1, RunKnown
<1>4. (\A t \in existing : Known(t))'
  BY <1>1, <1>2, RunKnown
<1>5. (pc = "done" => existing \subseteq done)'
  <2> SUFFICES ASSUME pc' = "done" PROVE existing \subseteq done'
    BY <1>1
  <2>1. pc = "flush" /\ pending = <<>> /\ done' = done
    BY RunEnds
  <2>2. installed = {}
    BY <2>1 DEF Phases
  <2> QED
    BY <2>1, <2>2 DEF Known
<1> QED
  BY <1>3, <1>4, <1>5

\* A caller only ever adds to the channel.
LEMMA CallersHold ==
    ASSUME CloseInd, Callers
    PROVE  CloseInd'
<1> USE DEF CloseInd, Types, Phases, HandlesKnown
<1>0. UNCHANGED <<pc, installed, removed, done>>
  BY CallersLeaveMixing DEF mixing, owned, outcome
<1>1. ASSUME NEW t \in Tracks, AddCheck(t) \/ AddStopped(t)
      PROVE  CloseInd'
  <2>1. /\ UNCHANGED <<pending, stopped, closed, closePc, existing, setting>>
        /\ adding' = [adding EXCEPT ![t] = "sending"] \/ adding' = [adding EXCEPT ![t] = "refused"]
    BY <1>1 DEF AddCheck, AddStopped, closing
  <2> QED
    BY <1>0, <2>1 DEF Known, AddOp
<1>2. ASSUME NEW t \in Tracks, AddSend(t)
      PROVE  CloseInd'
  <2>1. /\ UNCHANGED <<stopped, closed, closePc, existing, setting>>
        /\ adding' = [adding EXCEPT ![t] = "added"]
        /\ pending' = Append(pending, AddOp(t))
    BY <1>2 DEF AddSend, closing
  <2>2. AddOp(t) \in Ops
    BY DEF Ops
  <2>3. /\ pending' \in Seq(Ops) /\ Known(t)'
        /\ \A u \in Tracks : Known(u) => Known(u)'
    BY <1>0, <2>1, <2>2, AppendKnown
  <2> QED
    BY <1>0, <2>1, <2>3
<1>3. ASSUME NEW c \in Setters, NEW t \in Tracks, NEW g \in Gains, SetGainStore(c, t, g)
      PROVE  CloseInd'
  <2>1. /\ UNCHANGED <<pending, stopped, closed, closePc, existing, adding>>
        /\ setting' = [setting EXCEPT ![c] = GainOp(t, g)]
    BY <1>3 DEF SetGainStore, closing
  <2>2. GainOp(t, g) \in Ops
    BY DEF Ops
  <2>3. setting' \in [Setters -> Ops \cup {NoGain}]
    BY <2>1, <2>2
  <2> QED
    BY <1>0, <2>1, <2>3 DEF Known, AddOp
<1>4. ASSUME NEW c \in Setters, SetGainSend(c)
      PROVE  CloseInd'
  <2>1. /\ UNCHANGED <<stopped, closed, closePc, existing, adding>>
        /\ setting' = [setting EXCEPT ![c] = NoGain]
        /\ setting[c] # NoGain /\ pending' = Append(pending, setting[c])
    BY <1>4 DEF SetGainSend, closing
  <2>2. setting[c] \in Ops /\ setting' \in [Setters -> Ops \cup {NoGain}]
    BY <2>1
  <2>3. pending' \in Seq(Ops) /\ \A u \in Tracks : Known(u) => Known(u)'
    BY <1>0, <2>1, <2>2, AppendKnown
  <2> QED
    BY <1>0, <2>1, <2>2, <2>3
<1>5. ASSUME NEW c \in Setters, SetGainStopped(c)
      PROVE  CloseInd'
  <2>1. /\ UNCHANGED <<pending, stopped, closed, closePc, existing, adding>>
        /\ setting' = [setting EXCEPT ![c] = NoGain]
    BY <1>5 DEF SetGainStopped, closing
  <2>2. setting' \in [Setters -> Ops \cup {NoGain}]
    BY <2>1
  <2> QED
    BY <1>0, <2>1, <2>2 DEF Known, AddOp
<1>6. ASSUME NEW t \in Tracks, Remove(t)
      PROVE  CloseInd'
  <2>1. /\ UNCHANGED <<stopped, closed, closePc, existing, adding, setting>>
        /\ pending' = Append(pending, RemoveOp(t)) \/ pending' = pending
    BY <1>6 DEF Remove, closing
  <2>2. RemoveOp(t) \in Ops
    BY DEF Ops
  <2>3. CASE pending' = Append(pending, RemoveOp(t))
    <3>1. pending' \in Seq(Ops) /\ \A u \in Tracks : Known(u) => Known(u)'
      BY <1>0, <2>2, <2>3, AppendKnown
    <3> QED
      BY <1>0, <2>1, <3>1
  <2>4. CASE pending' = pending
    BY <1>0, <2>1, <2>4 DEF Known, AddOp
  <2> QED
    BY <2>1, <2>3, <2>4
<1>7. ASSUME NEW k \in Closers, CloseCall(k)
      PROVE  CloseInd'
  <2>1. /\ UNCHANGED <<pending, stopped, setting, adding>>
        /\ closed' = TRUE /\ closePc[k] = "idle"
        /\ closePc' = [closePc EXCEPT ![k] = IF closed THEN "ignored" ELSE "locked"]
        /\ existing' = IF closed THEN existing ELSE {t \in Tracks : adding[t] = "added"}
    BY <1>7 DEF CloseCall, callers
  <2>2. Types' /\ Phases'
    BY <1>0, <2>1
  <2>3. \A t \in Tracks : Known(t)' = Known(t)
    BY <1>0, <2>1 DEF Known, AddOp
  <2>4. ~closed => pc # "done"
    OBVIOUS
  <2>5. HandlesKnown'
    BY <1>0, <2>1, <2>3, <2>4
  <2> QED
    BY <2>2, <2>5
<1>8. ASSUME NEW k \in Closers, CloseStop(k)
      PROVE  CloseInd'
  BY <1>0, <1>8 DEF CloseStop, callers, Known, AddOp
<1>9. ASSUME NEW k \in Closers, CloseReturn(k)
      PROVE  CloseInd'
  BY <1>0, <1>9 DEF CloseReturn, CloseReady, callers, Known, AddOp
<1> QED
  BY <1>1, <1>2, <1>3, <1>4, <1>5, <1>6, <1>7, <1>8, <1>9 DEF Callers

LEMMA CloseStep ==
    ASSUME CloseInd, [Next]_vars
    PROVE  CloseInd'
<1>1. CASE Run
  BY <1>1, RunPhases, RunHandles DEF CloseInd
<1>2. CASE Callers
  BY <1>2, CallersHold
<1>3. CASE (\E n \in Fills : FillObserve(n)) \/ FillRead \/ UNCHANGED vars
  <2>1. UNCHANGED <<pc, installed, removed, done, pending, stopped, closed, closePc,
                    existing, setting, adding>>
    BY <1>3 DEF FillObserve, FillRead, vars, owned, outcome, closing, callers
  <2> QED
    BY <2>1 DEF CloseInd, Types, Phases, HandlesKnown, Known, AddOp
<1> QED
  BY <1>1, <1>2, <1>3, NextSplit

\* The Close that closes the mixer does not return before the Done of every
\* handle that was out when it was called is closed, whatever the callers and
\* the mix goroutine were at; one that finds it closed makes no promise.
THEOREM ClosesAll == Spec => []CloseFinishesExisting
<1>1. CloseInd => CloseFinishesExisting
  BY DEF CloseInd, Phases, HandlesKnown, CloseFinishesExisting
<1> QED
  BY CloseInitial, CloseStep, <1>1, PTL DEF Spec

-----------------------------------------------------------------------------
(* Operations in the channel.                                              *)

InChannel(op) == \E i \in DOMAIN pending : pending[i] = op
AtMostOnce(op) == \A i, j \in DOMAIN pending : pending[i] = op /\ pending[j] = op => i = j

\* Where the removals of a track are in the channel.
Removals(t) == {i \in DOMAIN pending : pending[i] = RemoveOp(t)}

LEMMA TailChannel ==
    ASSUME pending \in Seq(Ops), pending # <<>>, pending' = Tail(pending), NEW op
    PROVE  /\ InChannel(Head(pending))
           /\ InChannel(op)' => InChannel(op)
           /\ AtMostOnce(op) => AtMostOnce(op)'
           /\ AtMostOnce(op) /\ Head(pending) = op => ~InChannel(op)'
<1>1. /\ 1 \in DOMAIN pending /\ pending[1] = Head(pending)
      /\ \A i \in DOMAIN pending' :
            i + 1 \in DOMAIN pending /\ pending'[i] = pending[i + 1] /\ i \in Nat \ {0}
  OBVIOUS
<1> QED
  BY <1>1 DEF InChannel, AtMostOnce

LEMMA AppendChannel ==
    ASSUME pending \in Seq(Ops), NEW x \in Ops, pending' = Append(pending, x), NEW op
    PROVE  /\ InChannel(op)' => InChannel(op) \/ op = x
           /\ AtMostOnce(op) /\ (op # x \/ ~InChannel(op)) => AtMostOnce(op)'
<1>1. \A i \in DOMAIN pending' :
          \/ i \in DOMAIN pending /\ pending'[i] = pending[i]
          \/ i = Len(pending) + 1 /\ pending'[i] = x
  OBVIOUS
<1> QED
  BY <1>1 DEF InChannel, AtMostOnce

LEMMA PlacesFinite ==
    ASSUME NEW seq \in Seq(Ops), NEW op
    PROVE  LET places == {i \in DOMAIN seq : seq[i] = op}
           IN  IsFiniteSet(places) /\ Cardinality(places) \in Nat
<1> DEFINE places == {i \in DOMAIN seq : seq[i] = op}
<1>1. IsFiniteSet(1 .. Len(seq)) /\ places \in SUBSET (1 .. Len(seq))
  BY FS_Interval
<1> QED
  BY <1>1, FS_Subset, FS_CardinalityType

LEMMA RemovalsFinite ==
    ASSUME NEW t
    PROVE  /\ pending \in Seq(Ops)
                => IsFiniteSet(Removals(t)) /\ Cardinality(Removals(t)) \in Nat
           /\ pending' \in Seq(Ops)
                => IsFiniteSet(Removals(t)') /\ Cardinality(Removals(t)') \in Nat
<1>1. ASSUME pending \in Seq(Ops)
      PROVE  IsFiniteSet(Removals(t)) /\ Cardinality(Removals(t)) \in Nat
  BY <1>1, PlacesFinite DEF Removals
<1>2. ASSUME pending' \in Seq(Ops)
      PROVE  IsFiniteSet(Removals(t)') /\ Cardinality(Removals(t)') \in Nat
  <2>1. Removals(t)' = {i \in DOMAIN pending' : pending'[i] = RemoveOp(t)}
    BY DEF Removals, RemoveOp
  <2> QED
    BY <1>2, <2>1, PlacesFinite
<1> QED
  BY <1>1, <1>2

LEMMA TailRemovals ==
    ASSUME pending \in Seq(Ops), pending # <<>>, pending' = Tail(pending), NEW t
    PROVE  /\ Cardinality(Removals(t)') <= Cardinality(Removals(t))
           /\ Head(pending) = RemoveOp(t)
                => Cardinality(Removals(t)') + 1 <= Cardinality(Removals(t))
<1> DEFINE R == Removals(t)
           S == Removals(t)'
           f == [i \in S |-> i + 1]
<1>1. /\ 1 \in DOMAIN pending /\ pending[1] = Head(pending)
      /\ \A i \in DOMAIN pending' :
            i + 1 \in DOMAIN pending /\ pending'[i] = pending[i + 1] /\ i \in Nat \ {0}
      /\ pending' \in Seq(Ops)
  OBVIOUS
<1>2. /\ \A i \in S : i \in Nat \ {0} /\ i + 1 \in R \ {1}
      /\ Head(pending) = RemoveOp(t) => 1 \in R
  BY <1>1 DEF Removals, RemoveOp
<1>3. IsFiniteSet(R) /\ Cardinality(R) \in Nat
  BY RemovalsFinite
<1>4. IsFiniteSet(S) /\ Cardinality(S) \in Nat
  BY <1>1, RemovalsFinite
<1> HIDE DEF R, S
<1>5. f \in Injection(S, R \ {1})
  <2>1. f \in [S -> R \ {1}] /\ \A a, b \in S : f[a] = f[b] => a = b
    BY <1>2
  <2> QED
    BY <2>1, Fun_IsInj
<1>6. /\ IsFiniteSet(R \ {1})
      /\ Cardinality(R \ {1}) = IF 1 \in R THEN Cardinality(R) - 1 ELSE Cardinality(R)
  BY <1>3, FS_RemoveElement
<1>7. Cardinality(S) <= Cardinality(R \ {1})
  BY <1>5, <1>6, FS_Injection
<1>8. /\ Cardinality(S) <= Cardinality(R)
      /\ Head(pending) = RemoveOp(t) => Cardinality(S) + 1 <= Cardinality(R)
  BY <1>2, <1>3, <1>4, <1>6, <1>7
<1> QED
  BY <1>8 DEF R, S

LEMMA AtMostOneMore ==
    ASSUME NEW S, NEW y, IsFiniteSet(S)
    PROVE  Cardinality(S \cup {y}) <= Cardinality(S) + 1
<1>1. Cardinality(S) \in Nat
  BY FS_CardinalityType
<1>2. Cardinality(S \cup {y}) = IF y \in S THEN Cardinality(S) ELSE Cardinality(S) + 1
  BY FS_AddElement
<1> QED
  BY <1>1, <1>2

LEMMA AppendRemovals ==
    ASSUME pending \in Seq(Ops), NEW x \in Ops, pending' = Append(pending, x), NEW t
    PROVE  /\ x # RemoveOp(t) => Removals(t)' = Removals(t)
           /\ Cardinality(Removals(t)') <= Cardinality(Removals(t)) + 1
<1>1. /\ \A i \in DOMAIN pending' :
             \/ i \in DOMAIN pending /\ pending'[i] = pending[i]
             \/ i = Len(pending) + 1 /\ pending'[i] = x
      /\ \A i \in DOMAIN pending : i \in DOMAIN pending' /\ pending'[i] = pending[i]
      /\ Len(pending) + 1 \in DOMAIN pending' /\ pending'[Len(pending) + 1] = x
      /\ Len(pending) + 1 \notin DOMAIN pending
  OBVIOUS
<1>2. x # RemoveOp(t) => Removals(t)' = Removals(t)
  BY <1>1 DEF Removals, RemoveOp
<1>3. x = RemoveOp(t) => Removals(t)' = Removals(t) \cup {Len(pending) + 1}
  BY <1>1 DEF Removals, RemoveOp
<1>4. IsFiniteSet(Removals(t)) /\ Cardinality(Removals(t)) \in Nat
  BY RemovalsFinite
<1>5. Cardinality(Removals(t)) <= Cardinality(Removals(t)) + 1
  BY <1>4
<1>6. Cardinality(Removals(t) \cup {Len(pending) + 1}) <= Cardinality(Removals(t)) + 1
  BY <1>4, AtMostOneMore
<1>7. CASE x = RemoveOp(t)
  BY <1>3, <1>6, <1>7
<1>8. CASE x # RemoveOp(t)
  BY <1>2, <1>5, <1>8
<1> QED
  BY <1>2, <1>7, <1>8

-----------------------------------------------------------------------------
(* What is published for a track that is removed.                          *)

Kinds == {"added", "removed", "ended"}

LEMMA RemovedShape ==
    ASSUME NEW n \in Nat
    PROVE  /\ RemovedTimes(n) \in Seq(Kinds)
           /\ Len(RemovedTimes(n)) = n + 1
           /\ RemovedTimes(n)[1] = "added"
           /\ \A i \in 2 .. n + 1 : RemovedTimes(n)[i] = "removed"
<1> DEFINE rest == [i \in 1 .. n |-> "removed"]
<1>1. rest \in Seq(Kinds) /\ Len(rest) = n /\ \A i \in 1 .. n : rest[i] = "removed"
  BY DEF Kinds
<1>2. <<"added">> \in Seq(Kinds) /\ Len(<<"added">>) = 1 /\ <<"added">>[1] = "added"
  BY DEF Kinds
<1>3. RemovedTimes(n) = <<"added">> \o rest
  BY DEF RemovedTimes
<1> HIDE DEF rest
<1> QED
  BY <1>1, <1>2, <1>3

LEMMA RemovedNever == RemovedTimes(0) = <<"added">>
<1>1. /\ RemovedTimes(0) \in Seq(Kinds) /\ Len(RemovedTimes(0)) = 1
      /\ RemovedTimes(0)[1] = "added"
  <2>1. 0 \in Nat /\ 0 + 1 = 1
    OBVIOUS
  <2> QED
    BY <2>1, RemovedShape
<1>2. <<"added">> \in Seq(Kinds) /\ Len(<<"added">>) = 1 /\ <<"added">>[1] = "added"
  BY DEF Kinds
<1>3. \A i \in 1 .. Len(RemovedTimes(0)) : RemovedTimes(0)[i] = <<"added">>[i]
  BY <1>1, <1>2
<1> QED
  BY <1>1, <1>2, <1>3, SeqEqual

LEMMA RemovedOnceMore ==
    ASSUME NEW n \in Nat
    PROVE  Append(RemovedTimes(n), "removed") = RemovedTimes(n + 1)
<1>1. /\ RemovedTimes(n) \in Seq(Kinds) /\ Len(RemovedTimes(n)) = n + 1
      /\ RemovedTimes(n)[1] = "added" /\ n + 1 \in Nat
      /\ \A i \in 2 .. n + 1 : RemovedTimes(n)[i] = "removed"
  BY RemovedShape
<1>2. /\ RemovedTimes(n + 1) \in Seq(Kinds) /\ Len(RemovedTimes(n + 1)) = (n + 1) + 1
      /\ RemovedTimes(n + 1)[1] = "added"
      /\ \A i \in 2 .. (n + 1) + 1 : RemovedTimes(n + 1)[i] = "removed"
  BY <1>1, RemovedShape
<1> DEFINE old == RemovedTimes(n)
           new == RemovedTimes(n + 1)
           longer == Append(old, "removed")
<1>3. /\ longer \in Seq(Kinds) /\ Len(longer) = (n + 1) + 1
      /\ \A i \in 1 .. n + 1 : longer[i] = old[i]
      /\ longer[(n + 1) + 1] = "removed"
  BY <1>1 DEF Kinds
<1> HIDE DEF old, new, longer
<1>4. \A i \in 1 .. Len(longer) : longer[i] = new[i]
  <2> TAKE i \in 1 .. Len(longer)
  <2>1. i \in 1 .. (n + 1) + 1
    BY <1>3
  <2>2. CASE i = 1
    BY <1>1, <1>2, <1>3, <2>1, <2>2 DEF old, new
  <2>3. CASE i \in 2 .. n + 1
    BY <1>1, <1>2, <1>3, <2>1, <2>3 DEF old, new
  <2>4. CASE i = (n + 1) + 1
    BY <1>2, <1>3, <2>4 DEF new
  <2> QED
    BY <2>1, <2>2, <2>3, <2>4
<1>5. new \in Seq(Kinds) /\ Len(new) = Len(longer)
  BY <1>2, <1>3 DEF new
<1>6. longer = new
  BY <1>3, <1>4, <1>5, SeqEqual
<1> QED
  BY <1>6 DEF longer, old, new

LEMMA AppendSecond ==
    ASSUME NEW x, NEW y
    PROVE  Append(<<x>>, y) = <<x, y>>
<1> DEFINE S == {x, y}
           one == <<x>>
           two == <<x, y>>
           appended == Append(one, y)
<1>1. one \in Seq(S) /\ Len(one) = 1 /\ one[1] = x
  OBVIOUS
<1>2. two \in Seq(S) /\ Len(two) = 2 /\ two[1] = x /\ two[2] = y
  OBVIOUS
<1>3. /\ appended \in Seq(S) /\ Len(appended) = 2
      /\ appended[1] = x /\ appended[2] = y
  BY <1>1
<1> HIDE DEF S, one, two, appended
<1>4. \A i \in 1 .. 2 : appended[i] = two[i]
  BY <1>2, <1>3
<1>5. appended = two
  BY <1>2, <1>3, <1>4, SeqEqual
<1> QED
  BY <1>5 DEF one, two, appended

-----------------------------------------------------------------------------
(* The invariant.                                                          *)

Running == pc \notin {"finalize", "flush", "done"}

\* What a track may have been through: nothing yet; played; flagged by one
\* removal or more, each of which is published or about to be; or ended.
Fresh(t) ==
    /\ events[t] = <<>>
    /\ t \notin installed /\ t \notin removed /\ t \notin done /\ t \notin finishing
Played(t) ==
    /\ events[t] = <<"added">>
    /\ t \in installed /\ t \notin removed /\ t \notin done /\ t \notin finishing
Flagged(t) ==
    /\ t \in removed /\ t \in done
    /\ t \in finishing => pc = "removed"
    /\ \E n \in Nat :
          /\ events[t] = RemovedTimes(n)
          /\ t \notin finishing => n >= 1
          /\ n + Cardinality(Removals(t)) + (IF t \in finishing THEN 1 ELSE 0) <= removes[t]
Ended(t) ==
    /\ t \in done /\ t \notin installed /\ t \notin removed
    /\ t \in finishing => pc = "ended"
    /\ events[t] = IF t \in finishing THEN <<"added">> ELSE <<"added", "ended">>

TrackTypes ==
    /\ pending \in Seq(Ops)
    /\ installed \subseteq Tracks
    /\ liveCount \in Int
    /\ setting \in [Setters -> {GainOp(t, g) : t \in Tracks, g \in Gains} \cup {NoGain}]
    /\ adding \in [Tracks -> {"none", "sending", "added", "refused"}]
    /\ removes \in [Tracks -> Nat]
    /\ events \in [Tracks -> Seq(Kinds)]

\* What is still to come for a track: it is added once, and the channel holds
\* no more removals than were called.
Ahead(t) ==
    /\ AtMostOnce(AddOp(t))
    /\ adding[t] # "added" => ~InChannel(AddOp(t)) /\ Fresh(t)
    /\ InChannel(AddOp(t)) => Fresh(t)
    /\ Cardinality(Removals(t)) <= removes[t]

LivePlaying == Playing \cap LiveTracks

\* Tracks that do not play any more and are still counted.
Owed == {t \in finishing \cap LiveTracks : events[t] = <<"added">>}

\* Tracks that have been uncounted twice.
Twice == {t \in LiveTracks : Len(events[t]) >= 3}

Counted == Twice = {} => liveCount = Cardinality(LivePlaying) + Cardinality(Owed)

Kind(t) == Fresh(t) \/ Played(t) \/ Flagged(t) \/ Ended(t)

Tracked ==
    /\ TrackTypes
    /\ \A t \in Tracks : Ahead(t) /\ Kind(t)
    /\ Counted

TrackInd ==
    /\ pc \in {"flush", "done"} => installed = {}
    /\ done \cap Playing = {}
    /\ pc \in {"removed", "ended"} => \E t \in Tracks : finishing = {t}
    /\ pc \notin {"removed", "ended"} => finishing = {}
    /\ left \subseteq installed /\ (left # {} => pc \in {"mix", "ended"})
    /\ Running => Tracked

LEMMA TrackInitial == Init => TrackInd
<1> SUFFICES ASSUME Init PROVE TrackInd
  OBVIOUS
<1>1. TrackTypes
  BY DEF Init, TrackTypes, Kinds
<1>2. ASSUME NEW t \in Tracks
      PROVE  Ahead(t) /\ Kind(t)
  <2>1. Removals(t) = {} /\ Cardinality({}) = 0 /\ removes[t] = 0
    BY FS_EmptySet DEF Init, Removals
  <2>2. AtMostOnce(AddOp(t)) /\ ~InChannel(AddOp(t)) /\ Fresh(t)
    BY DEF Init, Fresh, InChannel, AtMostOnce
  <2> QED
    BY <2>1, <2>2 DEF Ahead, Kind
<1>3. Counted
  <2>1. LivePlaying = {} /\ Owed = {} /\ liveCount = 0 /\ Cardinality({}) = 0
    BY FS_EmptySet DEF Init, LivePlaying, Playing, Owed
  <2> QED
    BY <2>1 DEF Counted
<1> QED
  BY <1>1, <1>2, <1>3 DEF Init, TrackInd, Tracked, Playing

-----------------------------------------------------------------------------
(* What a step leaves of the invariant.                                    *)

\* A step leaves a track where it is, and may take its removals from the
\* channel, or put one there for each that is called.
SameTrack(t) ==
    /\ t \in installed' => t \in installed
    /\ t \in installed /\ t \notin removed => t \in installed'
    /\ t \in removed' <=> t \in removed
    /\ t \in done' <=> t \in done
    /\ t \in finishing' <=> t \in finishing
    /\ t \in finishing => pc' = pc
    /\ events'[t] = events[t]

Slack(t) ==
    /\ removes[t] <= removes'[t]
    /\ Cardinality(Removals(t)') + removes[t] <= Cardinality(Removals(t)) + removes'[t]

LEMMA KindKept ==
    ASSUME NEW t \in Tracks, SameTrack(t), Slack(t), pending \in Seq(Ops), pending' \in Seq(Ops),
           removes[t] \in Nat, removes'[t] \in Nat
    PROVE  /\ Fresh(t) => Fresh(t)'
           /\ Kind(t) => Kind(t)'
<1>1. Fresh(t) => Fresh(t)'
  BY DEF SameTrack, Fresh
<1>2. Played(t) => Played(t)'
  BY DEF SameTrack, Played
<1>3. Ended(t) => Ended(t)'
  BY DEF SameTrack, Ended
<1>4. ASSUME Flagged(t) PROVE Flagged(t)'
  <2>1. PICK n \in Nat :
          /\ events[t] = RemovedTimes(n)
          /\ t \notin finishing => n >= 1
          /\ n + Cardinality(Removals(t)) + (IF t \in finishing THEN 1 ELSE 0) <= removes[t]
    BY <1>4 DEF Flagged
  <2>2. Cardinality(Removals(t)) \in Nat
    BY RemovalsFinite
  <2>3. Cardinality(Removals(t)') \in Nat
    BY RemovalsFinite
  <2>4. n + Cardinality(Removals(t)') + (IF t \in finishing' THEN 1 ELSE 0) <= removes'[t]
    <3> DEFINE old == Cardinality(Removals(t))
               new == Cardinality(Removals(t)')
    <3>1. /\ n + old + (IF t \in finishing THEN 1 ELSE 0) <= removes[t]
          /\ new + removes[t] <= old + removes'[t]
          /\ old \in Nat /\ new \in Nat /\ (t \in finishing' <=> t \in finishing)
      BY <2>1, <2>2, <2>3 DEF Slack, SameTrack
    <3> HIDE DEF old, new
    <3>2. n + new + (IF t \in finishing' THEN 1 ELSE 0) <= removes'[t]
      BY <3>1
    <3> QED
      BY <3>2 DEF new
  <2> QED
    BY <1>4, <2>1, <2>4, RemovedShape DEF Flagged, SameTrack, RemovedTimes
<1> QED
  BY <1>1, <1>2, <1>3, <1>4 DEF Kind

\* Events are only ever added, so what was published twice stays that.
LEMMA SameCount ==
    ASSUME Counted, UNCHANGED <<liveCount, events, finishing>>, Playing' = Playing
    PROVE  Counted'
BY DEF Counted, Twice, LivePlaying, Owed

\* A step that changes nothing about any track, but may send an operation or
\* receive one.
LEMMA Stays ==
    ASSUME Tracked, UNCHANGED <<installed, removed, liveCount, done, finishing, events>>,
           finishing = {} \/ pc' = pc,
           TrackTypes',
           \A t \in Tracks : adding'[t] # "added" => adding[t] # "added",
           \A t \in Tracks : AtMostOnce(AddOp(t))',
           \A t \in Tracks : InChannel(AddOp(t))' => Fresh(t) /\ adding'[t] = "added",
           \A t \in Tracks : Slack(t)
    PROVE  Tracked'
<1>1. Counted'
  BY SameCount DEF Tracked, Playing
<1>2. ASSUME NEW t \in Tracks PROVE Ahead(t)' /\ Kind(t)'
  <2>1. SameTrack(t) /\ Slack(t) /\ Ahead(t) /\ Kind(t)
    BY DEF SameTrack, Tracked
  <2>2. pending \in Seq(Ops) /\ pending' \in Seq(Ops) /\ removes[t] \in Nat /\ removes'[t] \in Nat
    BY DEF Tracked, TrackTypes
  <2>3. (Fresh(t) => Fresh(t)') /\ Kind(t)'
    BY <2>1, <2>2, KindKept
  <2>4. Cardinality(Removals(t)') <= removes'[t]
    <3>1. Cardinality(Removals(t)) \in Nat
      BY <2>2, RemovalsFinite
    <3>2. Cardinality(Removals(t)') \in Nat
      BY <2>2, RemovalsFinite
    <3>3. Cardinality(Removals(t)) <= removes[t]
      BY <2>1 DEF Ahead
    <3> QED
      BY <2>1, <2>2, <3>1, <3>2, <3>3 DEF Slack
  <2> QED
    BY <2>1, <2>3, <2>4 DEF Ahead
<1> QED
  BY <1>1, <1>2 DEF Tracked

LEMMA SendsNothing ==
    ASSUME Tracked, UNCHANGED <<installed, removed, liveCount, done, finishing, events, pending>>,
           finishing = {} \/ pc' = pc,
           TrackTypes',
           \A t \in Tracks : adding'[t] # "added" => adding[t] # "added",
           \A t \in Tracks : removes[t] <= removes'[t]
    PROVE  Tracked'
<1>1. ASSUME NEW t \in Tracks
      PROVE  /\ Slack(t) /\ AtMostOnce(AddOp(t))'
             /\ InChannel(AddOp(t))' => Fresh(t) /\ adding'[t] = "added"
  <2>1. Removals(t)' = Removals(t) /\ Cardinality(Removals(t)) \in Nat
    BY RemovalsFinite DEF Tracked, TrackTypes, Removals, RemoveOp
  <2>2. Slack(t)
    BY <2>1 DEF Slack, Tracked, TrackTypes
  <2>3. AtMostOnce(AddOp(t))' /\ (InChannel(AddOp(t))' => InChannel(AddOp(t)))
    BY DEF Tracked, Ahead, AtMostOnce, InChannel, AddOp
  <2>4. InChannel(AddOp(t)) => Fresh(t) /\ adding[t] = "added"
    BY DEF Tracked, Ahead
  <2>5. adding[t] = "added" => adding'[t] = "added"
    OBVIOUS
  <2> QED
    BY <2>2, <2>3, <2>4, <2>5
<1> QED
  BY <1>1, Stays

LEMMA Sends ==
    ASSUME Tracked, UNCHANGED <<installed, removed, liveCount, done, finishing, events, pc>>,
           TrackTypes',
           NEW op \in Ops, pending' = Append(pending, op),
           \A t \in Tracks : adding'[t] # "added" => adding[t] # "added",
           \A t \in Tracks : op = AddOp(t) => ~InChannel(op) /\ Fresh(t) /\ adding'[t] = "added",
           \A t \in Tracks : removes[t] <= removes'[t],
           \A t \in Tracks : op = RemoveOp(t) => removes[t] + 1 <= removes'[t]
    PROVE  Tracked'
<1>1. ASSUME NEW t \in Tracks
      PROVE  /\ Slack(t) /\ AtMostOnce(AddOp(t))'
             /\ InChannel(AddOp(t))' => Fresh(t) /\ adding'[t] = "added"
  <2>1. pending \in Seq(Ops) /\ Ahead(t)
    BY DEF Tracked, TrackTypes
  <2>2. InChannel(AddOp(t))' => InChannel(AddOp(t)) \/ op = AddOp(t)
    BY <2>1, AppendChannel DEF AddOp
  <2>3. AtMostOnce(AddOp(t))'
    <3>1. AtMostOnce(AddOp(t)) /\ (op # AddOp(t) \/ ~InChannel(AddOp(t)))
      BY <2>1 DEF Ahead
    <3> QED
      BY <2>1, <3>1, AppendChannel DEF AddOp
  <2>4. InChannel(AddOp(t)) => Fresh(t) /\ adding'[t] = "added"
    BY <2>1 DEF Ahead
  <2>5. Slack(t)
    <3>1. Cardinality(Removals(t)) \in Nat
      BY <2>1, RemovalsFinite
    <3>2. /\ op # RemoveOp(t) => Removals(t)' = Removals(t)
          /\ Cardinality(Removals(t)') <= Cardinality(Removals(t)) + 1
      BY <2>1, AppendRemovals
    <3>3. Cardinality(Removals(t)') \in Nat
      <4>1. pending' \in Seq(Ops)
        BY <2>1
      <4> QED
        BY <4>1, RemovalsFinite
    <3>4. removes[t] \in Nat /\ removes'[t] \in Nat
      BY DEF Tracked, TrackTypes
    <3> QED
      BY <3>1, <3>2, <3>3, <3>4 DEF Slack
  <2> QED
    BY <2>2, <2>3, <2>4, <2>5
<1> QED
  BY <1>1, Stays

-----------------------------------------------------------------------------
(* The mix goroutine.                                                      *)

LEMMA LiveFinite ==
    ASSUME Tracked
    PROVE  IsFiniteSet(LivePlaying) /\ Cardinality(LivePlaying) \in Nat
  BY MixerAssumption, FS_Subset, FS_CardinalityType
     DEF Tracked, TrackTypes, LivePlaying, Playing

LEMMA OneMore ==
    ASSUME NEW S, NEW x, IsFiniteSet(S), x \notin S
    PROVE  Cardinality(S \cup {x}) = Cardinality(S) + 1
  BY FS_AddElement

LEMMA OneLess ==
    ASSUME NEW S, NEW x, IsFiniteSet(S), x \in S
    PROVE  Cardinality(S \ {x}) = Cardinality(S) - 1
  BY FS_RemoveElement

\* What happens to a track only ever adds to its events.
LEMMA TwiceStays ==
    ASSUME events \in [Tracks -> Seq(Kinds)], NEW t \in Tracks, NEW k \in Kinds,
           events'[t] = Append(events[t], k),
           \A u \in Tracks : u # t => events'[u] = events[u], Twice' = {}
    PROVE  Twice = {}
<1>1. ASSUME NEW u \in LiveTracks, Len(events[u]) >= 3
      PROVE  Len(events'[u]) >= 3
  <2>1. u \in Tracks
    BY MixerAssumption
  <2>2. CASE u = t
    <3>1. events[t] \in Seq(Kinds)
      OBVIOUS
    <3>2. Len(events'[t]) = Len(events[t]) + 1 /\ Len(events[t]) \in Nat
      BY <3>1
    <3> QED
      BY <1>1, <2>2, <3>2
  <2>3. CASE u # t
    BY <1>1, <2>1, <2>3
  <2> QED
    BY <2>2, <2>3
<1> QED
  BY <1>1 DEF Twice

LEMMA OpKinds ==
    ASSUME NEW op \in Ops
    PROVE  /\ op.kind = "add" => op.track \in Tracks /\ op = AddOp(op.track)
           /\ op.kind = "remove" => op.track \in Tracks /\ op = RemoveOp(op.track)
  BY DEF Ops, AddOp, RemoveOp, GainOp

\* What taking the head of the channel leaves ahead of a track.
LEMMA TakenAhead ==
    ASSUME Tracked, pending # <<>>, pending' = Tail(pending), UNCHANGED callers,
           NEW u \in Tracks
    PROVE  /\ pending \in Seq(Ops) /\ pending' \in Seq(Ops) /\ Slack(u)
           /\ AtMostOnce(AddOp(u))'
           /\ InChannel(AddOp(u))' => InChannel(AddOp(u))
           /\ Cardinality(Removals(u)') <= removes'[u]
           /\ Head(pending) = RemoveOp(u) => Cardinality(Removals(u)') + 1 <= removes'[u]
           /\ removes'[u] = removes[u] /\ removes[u] \in Nat /\ adding'[u] = adding[u]
<1>1. pending \in Seq(Ops) /\ Ahead(u) /\ removes[u] \in Nat
  BY DEF Tracked, TrackTypes
<1>2. pending' \in Seq(Ops)
  BY <1>1
<1>3. UNCHANGED <<removes, adding>>
  BY DEF callers
<1>4. AtMostOnce(AddOp(u))' /\ (InChannel(AddOp(u))' => InChannel(AddOp(u)))
  BY <1>1, TailChannel DEF Ahead, AddOp
<1>5. /\ Cardinality(Removals(u)') <= Cardinality(Removals(u))
      /\ Head(pending) = RemoveOp(u)
            => Cardinality(Removals(u)') + 1 <= Cardinality(Removals(u))
      /\ Cardinality(Removals(u)') \in Nat /\ Cardinality(Removals(u)) \in Nat
  BY <1>1, <1>2, TailRemovals, RemovalsFinite
<1>6. Cardinality(Removals(u)) <= removes[u]
  BY <1>1 DEF Ahead
<1> QED
  BY <1>1, <1>2, <1>3, <1>4, <1>5, <1>6 DEF Slack

LEMMA ReceiveAdd ==
    ASSUME Tracked, finishing = {}, NEW t \in Tracks, pending # <<>>,
           Head(pending) = AddOp(t), ApplyAdd(t), pending' = Tail(pending), UNCHANGED callers
    PROVE  Tracked'
<1>1. InChannel(AddOp(t)) /\ Fresh(t) /\ adding[t] = "added" /\ ~InChannel(AddOp(t))'
  BY TailChannel DEF Ahead, Tracked, TrackTypes, AddOp
<1>2. /\ installed' = installed \cup {t} /\ removed' = removed /\ done' = done
      /\ events' = [events EXCEPT ![t] = Append(@, "added")]
      /\ liveCount' = IF t \in LiveTracks THEN liveCount + 1 ELSE liveCount
      /\ UNCHANGED <<setting, adding, removes, finishing>>
  BY DEF ApplyAdd, callers
<1>3. TrackTypes'
  BY <1>2, TailTyped DEF Tracked, TrackTypes, Kinds
<1>4. events'[t] = <<"added">> /\ Played(t)'
  BY <1>1, <1>2 DEF Fresh, Played, Tracked, TrackTypes
<1>5. ASSUME NEW u \in Tracks
      PROVE  Ahead(u)' /\ Kind(u)'
  <2>1. /\ pending \in Seq(Ops) /\ pending' \in Seq(Ops) /\ Slack(u)
        /\ AtMostOnce(AddOp(u))'
        /\ InChannel(AddOp(u))' => InChannel(AddOp(u))
        /\ Cardinality(Removals(u)') <= removes'[u]
        /\ removes'[u] = removes[u] /\ removes[u] \in Nat /\ adding'[u] = adding[u]
    BY TakenAhead
  <2>2. CASE u = t
    BY <2>1, <2>2, <1>1, <1>4 DEF Ahead, Kind
  <2>3. CASE u # t
    <3>1. SameTrack(u)
      BY <1>2, <2>3 DEF SameTrack
    <3>2. (Fresh(u) => Fresh(u)') /\ (Kind(u) => Kind(u)')
      BY <2>1, <3>1, KindKept
    <3>3. Ahead(u) /\ Kind(u)
      BY DEF Tracked
    <3> QED
      BY <2>1, <3>2, <3>3 DEF Ahead
  <2> QED
    BY <2>2, <2>3
<1>6. Counted'
  <2> SUFFICES ASSUME Twice' = {}
               PROVE  liveCount' = Cardinality(LivePlaying') + Cardinality(Owed')
    BY DEF Counted
  <2>1. liveCount = Cardinality(LivePlaying) + Cardinality(Owed)
    <3>1. Twice = {}
      <4>1. events \in [Tracks -> Seq(Kinds)] /\ "added" \in Kinds
        BY DEF Tracked, TrackTypes, Kinds
      <4>2. events'[t] = Append(events[t], "added") /\ \A u \in Tracks : u # t => events'[u] = events[u]
        BY <1>2, <4>1
      <4> QED
        BY <4>1, <4>2, TwiceStays
    <3> QED
      BY <3>1 DEF Tracked, Counted
  <2>2. Owed = {} /\ Owed' = {} /\ Cardinality({}) = 0
    BY <1>2, FS_EmptySet DEF Owed
  <2>3. LivePlaying' = IF t \in LiveTracks THEN LivePlaying \cup {t} ELSE LivePlaying
    BY <1>1, <1>2 DEF LivePlaying, Playing, Fresh
  <2>4. t \notin LivePlaying
    BY <1>1 DEF LivePlaying, Playing, Fresh
  <2>5. Cardinality(LivePlaying \cup {t}) = Cardinality(LivePlaying) + 1
    BY <2>4, LiveFinite, OneMore
  <2>6. Cardinality(LivePlaying) \in Nat
    BY LiveFinite
  <2>7. CASE t \in LiveTracks
    BY <1>2, <2>1, <2>2, <2>3, <2>5, <2>6, <2>7
  <2>8. CASE t \notin LiveTracks
    BY <1>2, <2>1, <2>2, <2>3, <2>6, <2>8
  <2> QED
    BY <2>7, <2>8
<1> QED
  BY <1>3, <1>5, <1>6 DEF Tracked

\* A track that plays is flagged; one that is flagged already is once more.
LEMMA ReceiveRemove ==
    ASSUME Tracked, finishing = {}, NEW t \in Tracks, pending # <<>>,
           Head(pending) = RemoveOp(t), ApplyRemove(t), pending' = Tail(pending),
           UNCHANGED callers
    PROVE  Tracked'
<1>1. /\ installed' = installed /\ events' = events /\ liveCount' = liveCount
      /\ removed' = removed \cup ({t} \cap installed)
      /\ done' = done \cup ({t} \cap installed)
      /\ finishing' = {t} \cap installed
      /\ t \in installed => pc' = "removed"
      /\ UNCHANGED <<setting, adding, removes>>
  BY DEF ApplyRemove, callers
<1>2. TrackTypes'
  BY <1>1, TailTyped DEF Tracked, TrackTypes
<1>3. ASSUME NEW u \in Tracks
      PROVE  Ahead(u)' /\ Kind(u)'
  <2>1. /\ pending \in Seq(Ops) /\ pending' \in Seq(Ops) /\ Slack(u)
        /\ AtMostOnce(AddOp(u))'
        /\ InChannel(AddOp(u))' => InChannel(AddOp(u))
        /\ Cardinality(Removals(u)') <= removes'[u]
        /\ removes'[u] = removes[u] /\ removes[u] \in Nat /\ adding'[u] = adding[u]
    BY TakenAhead
  <2>2. Ahead(u) /\ Kind(u)
    BY DEF Tracked
  <2>3. CASE ~(u = t /\ t \in installed)
    <3>1. SameTrack(u)
      BY <1>1, <2>3 DEF SameTrack
    <3>2. (Fresh(u) => Fresh(u)') /\ Kind(u)'
      BY <2>1, <2>2, <3>1, KindKept
    <3> QED
      BY <2>1, <2>2, <3>2 DEF Ahead
  <2>4. CASE u = t /\ t \in installed
    <3>1. /\ Cardinality(Removals(t)') + 1 <= Cardinality(Removals(t))
          /\ Cardinality(Removals(t)') \in Nat /\ Cardinality(Removals(t)) \in Nat
      BY <2>1, TailRemovals, RemovalsFinite
    <3>2. ~Fresh(t) /\ ~Ended(t) /\ t \notin finishing
      BY <2>4 DEF Fresh, Ended
    <3>3. \E n \in Nat : /\ events[t] = RemovedTimes(n)
                         /\ n + Cardinality(Removals(t)) <= removes[t]
      <4>1. CASE Played(t)
        <5>1. 0 + Cardinality(Removals(t)) <= removes[t]
          BY <2>2, <2>4, <3>1 DEF Ahead
        <5>2. events[t] = RemovedTimes(0)
          BY <4>1, RemovedNever DEF Played
        <5> QED
          BY <5>1, <5>2
      <4>2. CASE Flagged(t)
        <5>1. PICK n \in Nat :
                /\ events[t] = RemovedTimes(n)
                /\ n + Cardinality(Removals(t)) + (IF t \in finishing THEN 1 ELSE 0) <= removes[t]
          BY <4>2 DEF Flagged
        <5>2. n + Cardinality(Removals(t)) <= removes[t]
          BY <5>1, <3>1, <3>2
        <5> QED
          BY <5>1, <5>2
      <4> QED
        BY <2>2, <2>4, <3>2, <4>1, <4>2 DEF Kind
    <3>4. PICK n \in Nat : /\ events[t] = RemovedTimes(n)
                           /\ n + Cardinality(Removals(t)) <= removes[t]
      BY <3>3
    <3>5. n + Cardinality(Removals(t)') + 1 <= removes'[t]
      BY <2>1, <2>4, <3>1, <3>4
    <3>6. events'[t] = RemovedTimes(n) /\ t \in removed' /\ t \in done' /\ t \in finishing'
          /\ pc' = "removed"
      BY <1>1, <2>4, <3>4
    <3>7. Flagged(t)'
      BY <3>5, <3>6 DEF Flagged, RemovedTimes
    <3>8. ~InChannel(AddOp(t)) /\ adding[t] = "added"
      BY <2>2, <2>4, <3>2 DEF Ahead
    <3> QED
      BY <2>1, <2>4, <3>7, <3>8 DEF Ahead, Kind
  <2> QED
    BY <2>3, <2>4
<1>4. Counted'
  <2> SUFFICES ASSUME Twice = {}
               PROVE  liveCount' = Cardinality(LivePlaying') + Cardinality(Owed')
    BY <1>1 DEF Counted, Twice
  <2>1. liveCount = Cardinality(LivePlaying) + Cardinality(Owed)
    BY DEF Tracked, Counted
  <2>2. Owed = {} /\ Cardinality({}) = 0
    BY FS_EmptySet DEF Owed
  <2>3. IsFiniteSet(LivePlaying) /\ Cardinality(LivePlaying) \in Nat
    BY LiveFinite
  <2>4. CASE t \in LivePlaying
    <3>1. LivePlaying' = LivePlaying \ {t} /\ t \in installed /\ t \in LiveTracks
      BY <1>1, <2>4 DEF LivePlaying, Playing
    <3>2. Played(t)
      BY <2>4 DEF Tracked, Kind, Fresh, Flagged, Ended, LivePlaying, Playing
    <3>3. Owed' = {t}
      BY <1>1, <3>1, <3>2 DEF Owed, Played
    <3>4. Cardinality(LivePlaying \ {t}) = Cardinality(LivePlaying) - 1 /\ Cardinality({t}) = 1
      BY <2>3, <2>4, OneLess, FS_Singleton
    <3> QED
      BY <1>1, <2>1, <2>2, <2>3, <3>1, <3>3, <3>4
  <2>5. CASE t \notin LivePlaying
    <3>1. LivePlaying' = LivePlaying
      BY <1>1, <2>5 DEF LivePlaying, Playing
    <3>2. Owed' = {}
      <4> SUFFICES ASSUME t \in installed, t \in LiveTracks, events[t] = <<"added">> PROVE FALSE
        BY <1>1 DEF Owed
      <4>1. t \in removed
        BY <2>5 DEF LivePlaying, Playing
      <4>2. Flagged(t)
        BY <4>1 DEF Tracked, Kind, Fresh, Played, Ended
      <4>3. PICK n \in Nat : events[t] = RemovedTimes(n) /\ n >= 1
        BY <4>2 DEF Flagged
      <4>4. Len(RemovedTimes(n)) = n + 1
        BY RemovedShape
      <4>5. Len(events[t]) = n + 1
        BY <4>3, <4>4
      <4>6. Len(events[t]) = 1
        OBVIOUS
      <4> QED
        BY <4>3, <4>5, <4>6
    <3> QED
      BY <1>1, <2>1, <2>2, <3>1, <3>2
  <2> QED
    BY <2>4, <2>5
<1> QED
  BY <1>2, <1>3, <1>4 DEF Tracked

LEMMA ReceiveGain ==
    ASSUME Tracked, finishing = {}, pending # <<>>, Head(pending).kind = "gain",
           UNCHANGED <<installed, removed, liveCount, done, finishing, events>>,
           pending' = Tail(pending), UNCHANGED callers
    PROVE  Tracked'
<1>1. TrackTypes'
  BY TailTyped DEF callers, Tracked, TrackTypes
<1>2. ASSUME NEW u \in Tracks
      PROVE  /\ Slack(u) /\ AtMostOnce(AddOp(u))' /\ adding'[u] = adding[u]
             /\ InChannel(AddOp(u))' => Fresh(u) /\ adding'[u] = "added"
  <2>1. /\ Slack(u) /\ AtMostOnce(AddOp(u))' /\ adding'[u] = adding[u]
        /\ InChannel(AddOp(u))' => InChannel(AddOp(u))
    BY TakenAhead
  <2>2. InChannel(AddOp(u)) => Fresh(u) /\ adding[u] = "added"
    BY DEF Tracked, Ahead
  <2> QED
    BY <2>1, <2>2
<1> QED
  BY <1>1, <1>2, Stays

LEMMA TrackedReceive ==
    ASSUME Tracked, finishing = {}, ReceiveOp
    PROVE  Tracked'
<1>1. /\ pending # <<>> /\ Apply(Head(pending)) /\ pending' = Tail(pending)
      /\ UNCHANGED callers
  BY DEF ReceiveOp
<1>2. Head(pending) \in Ops
  BY <1>1, TailTyped DEF Tracked, TrackTypes
<1>3. CASE Head(pending).kind = "add" /\ ApplyAdd(Head(pending).track)
  BY <1>1, <1>2, <1>3, OpKinds, ReceiveAdd
<1>4. CASE Head(pending).kind = "remove" /\ ApplyRemove(Head(pending).track)
  BY <1>1, <1>2, <1>4, OpKinds, ReceiveRemove
<1>5. CASE Head(pending).kind = "gain" /\ ApplyGain(Head(pending).track, Head(pending).gain)
  BY <1>1, <1>5, ReceiveGain DEF ApplyGain, outcome
<1> QED
  BY <1>1, <1>3, <1>4, <1>5 DEF Apply

\* The event follows: of a removal, one more; of an end, the last.
LEMMA TrackedPublish ==
    ASSUME Tracked, PublishFinish, NEW t \in Tracks, finishing = {t}
    PROVE  Tracked'
<1>1. /\ pc \in {"removed", "ended"} /\ finishing' = {}
      /\ liveCount' = liveCount - Cardinality({t} \cap LiveTracks)
      /\ events' = [u \in Tracks |-> IF u \in {t} THEN Append(events[u], pc) ELSE events[u]]
      /\ UNCHANGED <<installed, removed, done, pending, setting, adding, removes>>
  BY DEF PublishFinish, Uncounted, callers
<1>01. events'[t] = Append(events[t], pc) /\ \A u \in Tracks : u # t => events'[u] = events[u]
  BY <1>1
<1>2. Cardinality({t} \cap LiveTracks) = IF t \in LiveTracks THEN 1 ELSE 0
  <2>1. CASE t \in LiveTracks
    <3>1. {t} \cap LiveTracks = {t}
      BY <2>1
    <3> QED
      BY <2>1, <3>1, FS_Singleton
  <2>2. CASE t \notin LiveTracks
    <3>1. {t} \cap LiveTracks = {}
      BY <2>2
    <3> QED
      BY <2>2, <3>1, FS_EmptySet
  <2> QED
    BY <2>1, <2>2
<1>3. pc \in Kinds
  BY <1>1 DEF Kinds
<1>4. TrackTypes'
  <2>1. Append(events[t], pc) \in Seq(Kinds)
    BY <1>3 DEF Tracked, TrackTypes
  <2> QED
    BY <1>1, <1>2, <2>1 DEF Tracked, TrackTypes
<1>0. /\ finishing' = {} /\ liveCount' = liveCount - Cardinality({t} \cap LiveTracks)
      /\ UNCHANGED <<installed, removed, done, pending, setting, adding, removes>>
  BY <1>1
<1>5. ASSUME NEW u \in Tracks
      PROVE  /\ pending \in Seq(Ops) /\ pending' \in Seq(Ops) /\ Slack(u)
             /\ removes'[u] = removes[u] /\ removes[u] \in Nat
             /\ Removals(u)' = Removals(u) /\ Cardinality(Removals(u)) \in Nat
             /\ (InChannel(AddOp(u))' <=> InChannel(AddOp(u)))
             /\ AtMostOnce(AddOp(u))'
  <2>1. Removals(u)' = Removals(u)
    BY <1>0, <1>01 DEF Removals, RemoveOp
  <2>2. pending \in Seq(Ops) /\ removes[u] \in Nat
    BY DEF Tracked, TrackTypes
  <2>3. Cardinality(Removals(u)) \in Nat
    BY <2>2, RemovalsFinite
  <2>4. (InChannel(AddOp(u))' <=> InChannel(AddOp(u))) /\ AtMostOnce(AddOp(u))'
    BY <1>0, <1>01 DEF InChannel, AtMostOnce, AddOp, Tracked, Ahead
  <2> QED
    BY <1>0, <1>01, <2>1, <2>2, <2>3, <2>4 DEF Slack
<1>6. (Flagged(t) /\ pc = "removed") \/ (Ended(t) /\ pc = "ended")
  <2>1. Kind(t)
    BY DEF Tracked
  <2>2. t \in finishing
    OBVIOUS
  <2>3. ~Fresh(t) /\ ~Played(t)
    BY <2>2 DEF Fresh, Played
  <2>4. (Flagged(t) => pc = "removed") /\ (Ended(t) => pc = "ended")
    BY <2>2 DEF Flagged, Ended
  <2> QED
    BY <2>1, <2>3, <2>4 DEF Kind
<1>7. ASSUME Flagged(t), pc = "removed"
      PROVE  /\ Flagged(t)'
             /\ t \in LiveTracks /\ events[t] # <<"added">> => Twice' # {}
  <2>0. PICK n \in Nat :
          /\ events[t] = RemovedTimes(n)
          /\ n + Cardinality(Removals(t)) + (IF t \in finishing THEN 1 ELSE 0) <= removes[t]
    BY <1>7 DEF Flagged
  <2>1. /\ events[t] = RemovedTimes(n)
        /\ n + Cardinality(Removals(t)) + 1 <= removes[t]
    BY <2>0
  <2>2. events'[t] = RemovedTimes(n + 1) /\ n + 1 \in Nat
    BY <1>01, <1>7, <2>1, RemovedOnceMore
  <2>3. t \in removed' /\ t \in done' /\ t \notin finishing'
    BY <1>0, <1>01, <1>7 DEF Flagged
  <2>4. (n + 1) + Cardinality(Removals(t)') + 0 <= removes'[t] /\ n + 1 >= 1
    BY <1>5, <2>1
  <2>5. Flagged(t)'
    BY <2>2, <2>3, <2>4 DEF Flagged, RemovedTimes
  <2>6. ASSUME t \in LiveTracks, events[t] # <<"added">>
        PROVE  Twice' # {}
    <3>1. n # 0
      BY <2>1, <2>6, RemovedNever
    <3>2. Len(events'[t]) = (n + 1) + 1
      BY <2>2, RemovedShape
    <3>3. Len(events'[t]) >= 3
      BY <3>1, <3>2
    <3> QED
      BY <2>6, <3>3 DEF Twice
  <2> QED
    BY <2>5, <2>6
<1>8. ASSUME Ended(t), pc = "ended"
      PROVE  Ended(t)' /\ events[t] = <<"added">>
  <2>1. events'[t] = Append(events[t], pc) /\ events[t] = <<"added">>
    BY <1>0, <1>01, <1>8 DEF Ended, Tracked, TrackTypes
  <2>2. events'[t] = <<"added", "ended">>
    BY <1>8, <2>1, AppendSecond
  <2> QED
    BY <1>0, <1>01, <1>8, <2>1, <2>2 DEF Ended
<1>9. ASSUME NEW u \in Tracks PROVE Ahead(u)' /\ Kind(u)'
  <2>1. Ahead(u) /\ Kind(u)
    BY DEF Tracked
  <2>2. CASE u = t
    <3>1. Kind(t)'
      BY <1>6, <1>7, <1>8 DEF Kind
    <3>2. ~Fresh(t)
      BY DEF Fresh
    <3> QED
      BY <1>0, <1>01, <1>5, <2>1, <2>2, <3>1, <3>2 DEF Ahead
  <2>3. CASE u # t
    <3>1. SameTrack(u)
      BY <1>0, <1>01, <2>3 DEF SameTrack
    <3>2. (Fresh(u) => Fresh(u)') /\ Kind(u)'
      BY <1>5, <2>1, <3>1, KindKept
    <3> QED
      BY <1>0, <1>01, <1>5, <2>1, <3>2 DEF Ahead
  <2> QED
    BY <2>2, <2>3
<1>10. Counted'
  <2> SUFFICES ASSUME Twice' = {}
               PROVE  liveCount' = Cardinality(LivePlaying') + Cardinality(Owed')
    BY DEF Counted
  <2>1. Twice = {}
    <3>1. events \in [Tracks -> Seq(Kinds)]
      BY DEF Tracked, TrackTypes
    <3> QED
      BY <1>01, <1>3, <3>1, TwiceStays
  <2>2. liveCount = Cardinality(LivePlaying) + Cardinality(Owed)
    BY <2>1 DEF Tracked, Counted
  <2>3. LivePlaying' = LivePlaying /\ Owed' = {} /\ Cardinality({}) = 0
    BY <1>0, <1>01, FS_EmptySet DEF LivePlaying, Playing, Owed
  <2>4. Cardinality(LivePlaying) \in Nat
    BY LiveFinite
  <2>5. Cardinality(Owed) = IF t \in LiveTracks THEN 1 ELSE 0
    <3>1. t \in LiveTracks => events[t] = <<"added">>
      BY <1>6, <1>7, <1>8
    <3>2. CASE t \in LiveTracks
      <4>1. Owed = {t}
        BY <3>1, <3>2 DEF Owed
      <4> QED
        BY <3>2, <4>1, FS_Singleton
    <3>3. CASE t \notin LiveTracks
      <4>1. Owed = {}
        BY <3>3 DEF Owed
      <4> QED
        BY <3>3, <4>1, FS_EmptySet
    <3> QED
      BY <3>2, <3>3
  <2> QED
    BY <1>0, <1>01, <1>2, <2>2, <2>3, <2>4, <2>5
<1> QED
  BY <1>4, <1>9, <1>10 DEF Tracked

\* A mix pass drops a flagged track, or finishes one that has ended.
LEMMA TrackedMix ==
    ASSUME Tracked, finishing = {}, left \subseteq installed, NEW t \in Tracks, MixTrack(t)
    PROVE  Tracked' /\ LivePlaying' \subseteq LivePlaying
<1>1. /\ t \in left /\ t \in installed
      /\ UNCHANGED <<removed, liveCount, events, pending, setting, adding, removes>>
      /\ \/ /\ t \in removed /\ installed' = installed \ {t} /\ UNCHANGED <<pc, done, finishing>>
         \/ UNCHANGED <<pc, installed, done, finishing>>
         \/ /\ t \notin removed /\ installed' = installed \ {t}
            /\ done' = done \cup {t} /\ finishing' = {t} /\ pc' = "ended"
  BY DEF MixTrack, Pulled, callers
<1>2. TrackTypes'
  BY <1>1 DEF Tracked, TrackTypes
<1>3. LivePlaying' \subseteq LivePlaying
  BY <1>1 DEF LivePlaying, Playing
<1>4. ASSUME NEW u \in Tracks
      PROVE  /\ pending \in Seq(Ops) /\ pending' \in Seq(Ops) /\ Slack(u)
             /\ removes'[u] = removes[u] /\ removes[u] \in Nat
             /\ Removals(u)' = Removals(u)
             /\ (InChannel(AddOp(u))' <=> InChannel(AddOp(u)))
             /\ AtMostOnce(AddOp(u))'
  <2>1. Removals(u)' = Removals(u)
    BY <1>1 DEF Removals, RemoveOp
  <2>2. pending \in Seq(Ops) /\ removes[u] \in Nat
    BY DEF Tracked, TrackTypes
  <2>3. Cardinality(Removals(u)) \in Nat
    BY <2>2, RemovalsFinite
  <2>4. (InChannel(AddOp(u))' <=> InChannel(AddOp(u))) /\ AtMostOnce(AddOp(u))'
    BY <1>1 DEF InChannel, AtMostOnce, AddOp, Tracked, Ahead
  <2> QED
    BY <1>1, <2>1, <2>2, <2>3, <2>4 DEF Slack
<1>5. ASSUME NEW u \in Tracks, SameTrack(u)
      PROVE  Ahead(u)' /\ Kind(u)'
  <2>1. Ahead(u) /\ Kind(u)
    BY DEF Tracked
  <2>2. (Fresh(u) => Fresh(u)') /\ Kind(u)'
    BY <1>4, <1>5, <2>1, KindKept
  <2> QED
    BY <1>1, <1>4, <2>1, <2>2 DEF Ahead
<1>6. CASE t \in removed /\ installed' = installed \ {t} /\ UNCHANGED <<pc, done, finishing>>
  <2>1. \A u \in Tracks : SameTrack(u)
    BY <1>1, <1>6 DEF SameTrack
  <2>2. Playing' = Playing
    BY <1>1, <1>6 DEF Playing
  <2>3. Counted'
    BY <1>1, <1>6, <2>2, SameCount DEF Tracked
  <2> QED
    BY <1>2, <1>3, <1>5, <2>1, <2>3 DEF Tracked
<1>7. CASE UNCHANGED <<pc, installed, done, finishing>>
  <2>1. \A u \in Tracks : SameTrack(u)
    BY <1>1, <1>7 DEF SameTrack
  <2>2. Counted'
    BY <1>1, <1>7, SameCount DEF Tracked, Playing
  <2> QED
    BY <1>2, <1>3, <1>5, <2>1, <2>2 DEF Tracked
<1>8. CASE /\ t \notin removed /\ installed' = installed \ {t}
           /\ done' = done \cup {t} /\ finishing' = {t} /\ pc' = "ended"
  <2>1. \A u \in Tracks : u # t => SameTrack(u)
    BY <1>1, <1>8 DEF SameTrack
  <2>2. Played(t)
    BY <1>1, <1>8 DEF Tracked, Kind, Fresh, Flagged, Ended
  <2>3. Ended(t)'
    BY <1>1, <1>8, <2>2 DEF Ended, Played
  <2>4. Ahead(t)'
    BY <1>1, <1>4, <2>2 DEF Tracked, Ahead, Fresh, Played
  <2>5. Counted'
    <3> SUFFICES ASSUME Twice = {}
                 PROVE  liveCount' = Cardinality(LivePlaying') + Cardinality(Owed')
      BY <1>1 DEF Counted, Twice
    <3>1. liveCount = Cardinality(LivePlaying) + Cardinality(Owed)
      BY DEF Tracked, Counted
    <3>2. Owed = {} /\ Cardinality({}) = 0
      BY FS_EmptySet DEF Owed
    <3>3. IsFiniteSet(LivePlaying) /\ Cardinality(LivePlaying) \in Nat
      BY LiveFinite
    <3>4. CASE t \in LiveTracks
      <4>1. LivePlaying' = LivePlaying \ {t} /\ t \in LivePlaying
        BY <1>1, <1>8, <3>4 DEF LivePlaying, Playing
      <4>2. Owed' = {t}
        BY <1>1, <1>8, <2>2, <3>4 DEF Owed, Played
      <4>3. Cardinality(LivePlaying \ {t}) = Cardinality(LivePlaying) - 1 /\ Cardinality({t}) = 1
        BY <3>3, <4>1, OneLess, FS_Singleton
      <4> QED
        BY <1>1, <3>1, <3>2, <3>3, <4>1, <4>2, <4>3
    <3>5. CASE t \notin LiveTracks
      <4>1. LivePlaying' = LivePlaying /\ Owed' = {}
        BY <1>1, <1>8, <3>5 DEF LivePlaying, Playing, Owed
      <4> QED
        BY <1>1, <3>1, <3>2, <3>3, <4>1
    <3> QED
      BY <3>4, <3>5
  <2> QED
    BY <1>2, <1>3, <1>5, <2>1, <2>3, <2>4, <2>5 DEF Tracked, Kind
<1> QED
  BY <1>1, <1>6, <1>7, <1>8

-----------------------------------------------------------------------------
(* The callers.                                                            *)

LEMMA AppendTyped ==
    ASSUME NEW seq \in Seq(Ops), NEW op \in Ops
    PROVE  Append(seq, op) \in Seq(Ops)
  OBVIOUS

LEMMA TrackedCallers ==
    ASSUME Tracked, Callers
    PROVE  Tracked'
<1>0. UNCHANGED <<installed, removed, liveCount, done, finishing, events, pc>>
  BY CallersLeaveMixing DEF mixing, owned, outcome
<1>00. /\ removes \in [Tracks -> Nat]
       /\ \A u \in Tracks : removes[u] <= removes[u] /\ removes[u] <= removes[u] + 1
  BY DEF Tracked, TrackTypes
<1>1. ASSUME NEW t \in Tracks, AddCheck(t) \/ AddStopped(t)
      PROVE  Tracked'
  <2>1. /\ UNCHANGED <<pending, setting, removes>>
        /\ adding' = [adding EXCEPT ![t] = "sending"] \/ adding' = [adding EXCEPT ![t] = "refused"]
        /\ adding[t] # "added"
    BY <1>1 DEF AddCheck, AddStopped
  <2>2. TrackTypes' /\ \A u \in Tracks : adding'[u] # "added" => adding[u] # "added"
    <3>1. CASE adding' = [adding EXCEPT ![t] = "sending"]
      BY <1>0, <2>1, <3>1 DEF Tracked, TrackTypes
    <3>2. CASE adding' = [adding EXCEPT ![t] = "refused"]
      BY <1>0, <2>1, <3>2 DEF Tracked, TrackTypes
    <3> QED
      BY <2>1, <3>1, <3>2
  <2> QED
    BY <1>0, <1>00, <2>1, <2>2, SendsNothing
<1>2. ASSUME NEW t \in Tracks, AddSend(t)
      PROVE  Tracked'
  <2>1. /\ UNCHANGED <<setting, removes>>
        /\ adding[t] = "sending" /\ adding' = [adding EXCEPT ![t] = "added"]
        /\ pending' = Append(pending, AddOp(t))
    BY <1>2 DEF AddSend
  <2>2. AddOp(t) \in Ops
    BY DEF Ops
  <2>3. pending' \in Seq(Ops)
    BY <2>1, <2>2 DEF Tracked, TrackTypes
  <2>4. /\ TrackTypes' /\ adding'[t] = "added"
        /\ \A u \in Tracks : adding'[u] # "added" => adding[u] # "added"
    BY <1>0, <2>1, <2>3 DEF Tracked, TrackTypes
  <2>5. ~InChannel(AddOp(t)) /\ Fresh(t)
    BY <2>1 DEF Tracked, Ahead
  <2>6. /\ \A u \in Tracks : AddOp(t) = AddOp(u) => u = t
        /\ \A u \in Tracks : AddOp(t) # RemoveOp(u)
    BY DEF AddOp, RemoveOp
  <2> QED
    BY <1>0, <1>00, <2>1, <2>2, <2>4, <2>5, <2>6, Sends
<1>3. ASSUME NEW c \in Setters, NEW t \in Tracks, NEW g \in Gains, SetGainStore(c, t, g)
      PROVE  Tracked'
  <2>1. /\ UNCHANGED <<pending, adding, removes>>
        /\ setting' = [setting EXCEPT ![c] = GainOp(t, g)]
    BY <1>3 DEF SetGainStore
  <2>2. TrackTypes'
    BY <1>0, <2>1 DEF Tracked, TrackTypes
  <2> QED
    BY <1>0, <1>00, <2>1, <2>2, SendsNothing
<1>4. ASSUME NEW c \in Setters, SetGainSend(c)
      PROVE  Tracked'
  <2>1. /\ UNCHANGED <<adding, removes>>
        /\ setting' = [setting EXCEPT ![c] = NoGain]
        /\ setting[c] # NoGain /\ pending' = Append(pending, setting[c])
    BY <1>4 DEF SetGainSend
  <2>2. PICK t \in Tracks, g \in Gains : setting[c] = GainOp(t, g)
    BY <2>1 DEF Tracked, TrackTypes
  <2>3. GainOp(t, g) \in Ops
    BY DEF Ops
  <2>4. pending' \in Seq(Ops)
    BY <2>1, <2>2, <2>3 DEF Tracked, TrackTypes
  <2>5. TrackTypes'
    BY <1>0, <2>1, <2>4 DEF Tracked, TrackTypes
  <2>6. \A u \in Tracks : GainOp(t, g) # AddOp(u) /\ GainOp(t, g) # RemoveOp(u)
    BY DEF GainOp, AddOp, RemoveOp
  <2> QED
    BY <1>0, <1>00, <2>1, <2>2, <2>3, <2>5, <2>6, Sends
<1>5. ASSUME NEW c \in Setters, SetGainStopped(c)
      PROVE  Tracked'
  <2>1. /\ UNCHANGED <<pending, adding, removes>>
        /\ setting' = [setting EXCEPT ![c] = NoGain]
    BY <1>5 DEF SetGainStopped
  <2>2. TrackTypes'
    BY <1>0, <2>1 DEF Tracked, TrackTypes
  <2> QED
    BY <1>0, <1>00, <2>1, <2>2, SendsNothing
<1>6. ASSUME NEW t \in Tracks, Remove(t)
      PROVE  Tracked'
  <2>1. /\ UNCHANGED <<adding, setting>>
        /\ removes' = [removes EXCEPT ![t] = @ + 1]
        /\ pending' = Append(pending, RemoveOp(t)) \/ pending' = pending
    BY <1>6 DEF Remove
  <2>2. RemoveOp(t) \in Ops
    BY DEF Ops
  <2>3. pending' \in Seq(Ops)
    <3>1. pending \in Seq(Ops)
      BY DEF Tracked, TrackTypes
    <3> QED
      BY <3>1, <2>1, <2>2, AppendTyped
  <2>4. /\ removes' \in [Tracks -> Nat] /\ removes'[t] = removes[t] + 1
        /\ \A u \in Tracks : removes[u] <= removes'[u]
    BY <1>00, <2>1
  <2>5. TrackTypes'
    BY <1>0, <2>1, <2>3, <2>4 DEF Tracked, TrackTypes
  <2>6. /\ \A u \in Tracks : RemoveOp(t) = RemoveOp(u) => removes[u] + 1 <= removes'[u]
        /\ \A u \in Tracks : RemoveOp(t) # AddOp(u)
    <3>1. /\ \A u \in Tracks : RemoveOp(t) = RemoveOp(u) => u = t
          /\ \A u \in Tracks : RemoveOp(t) # AddOp(u)
      BY DEF AddOp, RemoveOp
    <3>2. removes[t] + 1 <= removes'[t]
      BY <1>00, <2>4
    <3> QED
      BY <3>1, <3>2
  <2>7. CASE pending' = Append(pending, RemoveOp(t))
    BY <1>0, <2>1, <2>2, <2>4, <2>5, <2>6, <2>7, Sends
  <2>8. CASE pending' = pending
    BY <1>0, <2>1, <2>4, <2>5, <2>8, SendsNothing
  <2> QED
    BY <2>1, <2>7, <2>8
<1>7. ASSUME NEW k \in Closers, CloseCall(k) \/ CloseStop(k) \/ CloseReturn(k)
      PROVE  Tracked'
  <2>1. UNCHANGED <<pending, adding, setting, removes>>
    BY <1>7 DEF CloseCall, CloseStop, CloseReturn, callers
  <2>2. TrackTypes'
    BY <1>0, <2>1 DEF Tracked, TrackTypes
  <2> QED
    BY <1>0, <1>00, <2>1, <2>2, SendsNothing
<1> QED
  BY <1>1, <1>2, <1>3, <1>4, <1>5, <1>6, <1>7 DEF Callers

-----------------------------------------------------------------------------
(* The properties of the tracks.                                           *)

LEMMA TrackStep ==
    ASSUME TrackInd, [Next]_vars
    PROVE  TrackInd'
<1>1. CASE ReceiveOp
  <2>1. pc \in {"drain", "wait"} /\ left = {} /\ finishing = {} /\ Tracked
    BY <1>1 DEF ReceiveOp, TrackInd, Running
  <2>2. Tracked'
    BY <1>1, <2>1, TrackedReceive
  <2>3. /\ left' = {} /\ pc' \in {"drain", "removed"}
        /\ pc' = "removed" => \E t \in Tracks : finishing' = {t}
        /\ pc' # "removed" => finishing' = {}
    <3>1. PICK op \in Ops : op = Head(pending)
      BY <1>1, <2>1, TailTyped DEF ReceiveOp, Tracked, TrackTypes
    <3>2. CASE \/ op.kind = "add" /\ ApplyAdd(op.track)
               \/ op.kind = "gain" /\ ApplyGain(op.track, op.gain)
      BY <2>1, <3>2 DEF ApplyAdd, ApplyGain
    <3>3. CASE op.kind = "remove" /\ ApplyRemove(op.track)
      <4>1. op.track \in Tracks
        BY <3>3, OpKinds
      <4> QED
        BY <2>1, <3>3, <4>1 DEF ApplyRemove
    <3> QED
      BY <1>1, <3>1, <3>2, <3>3 DEF ReceiveOp, Apply
  <2>4. done' \cap Playing' = {}
    BY <2>2 DEF Tracked, TrackTypes, Kind, Fresh, Played, Flagged, Ended, Playing
  <2> QED
    BY <2>2, <2>3, <2>4 DEF TrackInd
<1>2. CASE PublishFinish
  <2>1. pc \in {"removed", "ended"} /\ Tracked
    BY <1>2 DEF PublishFinish, TrackInd, Running
  <2>2. PICK t \in Tracks : finishing = {t}
    BY <2>1 DEF TrackInd
  <2>3. Tracked'
    BY <1>2, <2>1, <2>2, TrackedPublish
  <2>4. /\ finishing' = {} /\ pc' = (IF pc = "removed" THEN "drain" ELSE "mix")
        /\ UNCHANGED <<left, installed, removed, done>>
    BY <1>2 DEF PublishFinish
  <2> QED
    BY <2>1, <2>3, <2>4 DEF TrackInd, Playing
<1>3. ASSUME NEW t \in Tracks, MixTrack(t)
      PROVE  TrackInd'
  <2>1. pc = "mix" /\ finishing = {} /\ left \subseteq installed /\ Tracked
    BY <1>3 DEF MixTrack, TrackInd, Running
  <2>2. Tracked'
    BY <1>3, <2>1, TrackedMix
  <2>3. /\ left' = left \ {t} /\ installed \ {t} \subseteq installed' /\ pc' \in {"mix", "ended"}
        /\ pc' = "ended" => \E u \in Tracks : finishing' = {u}
        /\ pc' # "ended" => finishing' = {}
    BY <1>3, <2>1 DEF MixTrack
  <2>4. done' \cap Playing' = {}
    BY <2>2 DEF Tracked, TrackTypes, Kind, Fresh, Played, Flagged, Ended, Playing
  <2> QED
    BY <2>1, <2>2, <2>3, <2>4 DEF TrackInd
<1>4. ASSUME NEW t \in Tracks, FinishTrack(t)
      PROVE  TrackInd'
  <2>1. /\ pc = "finalize" /\ pc' = pc /\ done' = done \cup {t} /\ installed' = installed \ {t}
        /\ UNCHANGED <<removed, finishing, left>>
    BY <1>4 DEF FinishTrack
  <2> QED
    BY <2>1 DEF TrackInd, Running, Playing
<1>5. CASE FlushOp
  <2>1. pc = "flush" /\ pc' = pc /\ UNCHANGED <<installed, removed, finishing, left>>
    BY <1>5 DEF FlushOp, owned
  <2> QED
    BY <2>1 DEF TrackInd, Running, Playing
<1>6. CASE Quiet
  <2>1. UNCHANGED <<installed, removed, liveCount, finishing, done, events, pending, setting,
                    adding, removes>>
    BY <1>6, QuietLeaves DEF callers
  <2>2. /\ Running' => Running
        /\ pc' \in {"flush", "done"} => installed = {}
        /\ pc \notin {"removed", "ended"} /\ pc' \notin {"removed", "ended"}
    BY <1>6, QuietMoves DEF Running, TrackInd
  <2>3. finishing = {}
    BY <2>2 DEF TrackInd
  <2>4. left' \subseteq installed /\ (left' # {} => pc' \in {"mix", "ended"})
    <3>1. CASE Check
      BY <3>1 DEF Check
    <3>2. CASE ~Check
      <4>1. left' = left /\ (left # {} => pc' # "drain")
        BY <1>6, <3>2
           DEF Quiet, ReceiveStop, Drained, IdleTick, Mixed, WriteChunk, FinishedAll,
               RunReturns, owned, TrackInd
      <4>2. pc = "mix" => left = {}
        BY <1>6, <2>2, <3>2
           DEF Quiet, ReceiveStop, Drained, IdleTick, Mixed, WriteChunk, FinishedAll,
               RunReturns
      <4> QED
        BY <2>2, <4>1, <4>2 DEF TrackInd
    <3> QED
      BY <3>1, <3>2
  <2>5. ASSUME Running PROVE Tracked'
    <3>1. Tracked
      BY <2>5 DEF TrackInd
    <3>2. TrackTypes' /\ \A t \in Tracks : removes[t] <= removes'[t]
      BY <2>1, <3>1 DEF Tracked, TrackTypes
    <3> QED
      BY <2>1, <2>3, <3>1, <3>2, SendsNothing
  <2> QED
    BY <2>1, <2>2, <2>3, <2>4, <2>5 DEF TrackInd, Playing
<1>7. CASE Callers
  <2>1. UNCHANGED <<pc, installed, removed, done, finishing, left>>
    BY <1>7, CallersLeaveMixing DEF mixing, owned, outcome
  <2>2. Tracked => Tracked'
    BY <1>7, TrackedCallers
  <2> QED
    BY <2>1, <2>2 DEF TrackInd, Playing, Running
<1>8. CASE (\E n \in Fills : FillObserve(n)) \/ FillRead \/ UNCHANGED vars
  <2>1. UNCHANGED <<pc, installed, removed, liveCount, finishing, left, done, events, pending,
                    setting, adding, removes>>
    BY <1>8 DEF FillObserve, FillRead, vars, owned, outcome, callers
  <2>2. Tracked => Tracked'
    <3> SUFFICES ASSUME Tracked PROVE Tracked'
      OBVIOUS
    <3>1. TrackTypes' /\ \A t \in Tracks : removes[t] <= removes'[t]
      BY <2>1 DEF Tracked, TrackTypes
    <3> QED
      BY <2>1, <3>1, SendsNothing
  <2> QED
    BY <2>1, <2>2 DEF TrackInd, Playing, Running
<1> QED
  BY <1>1, <1>2, <1>3, <1>4, <1>5, <1>6, <1>7, <1>8, NextSplit, RunSplit

\* Until the mixer is closing Done is closed exactly for the tracks that ended
\* or were removed, before the event is published, and there is that one event,
\* or one for each of several Removes; no track whose Done is closed is pulled.
THEOREM DoneOnce == Spec => []DoneMatchesEvents
<1>1. TrackInd /\ [Next]_vars => TrackInd'
  BY TrackStep
<1>2. TrackInd => DoneMatchesEvents
  <2> SUFFICES ASSUME TrackInd PROVE DoneMatchesEvents
    OBVIOUS
  <2>1. done \cap Playing = {}
    BY DEF TrackInd
  <2>2. ASSUME Running, NEW t \in Tracks
        PROVE  \/ /\ t \notin done
                  /\ events[t] \in {<<>>, <<"added">>}
               \/ /\ t \in finishing
                  /\ \E n \in 0 .. removes[t] : events[t] = RemovedTimes(n)
               \/ /\ t \in done \ finishing
                  /\ \/ events[t] = <<"added", "ended">>
                     \/ \E n \in 1 .. removes[t] : events[t] = RemovedTimes(n)
    <3>1. Kind(t) /\ pending \in Seq(Ops) /\ removes[t] \in Nat
      BY <2>2 DEF TrackInd, Tracked, TrackTypes
    <3>2. CASE Fresh(t) \/ Played(t)
      BY <3>2 DEF Fresh, Played
    <3>3. CASE Flagged(t)
      <4>1. PICK n \in Nat :
              /\ events[t] = RemovedTimes(n)
              /\ t \notin finishing => n >= 1
              /\ n + Cardinality(Removals(t)) + (IF t \in finishing THEN 1 ELSE 0) <= removes[t]
        BY <3>3 DEF Flagged
      <4>2. Cardinality(Removals(t)) \in Nat
        BY <3>1, RemovalsFinite
      <4>3. n \in 0 .. removes[t] /\ (t \notin finishing => n \in 1 .. removes[t])
        BY <3>1, <4>1, <4>2
      <4> QED
        BY <3>3, <4>1, <4>3 DEF Flagged
    <3>4. CASE Ended(t)
      <4>1. CASE t \in finishing
        <5>1. events[t] = RemovedTimes(0) /\ 0 \in 0 .. removes[t]
          BY <3>1, <3>4, <4>1, RemovedNever DEF Ended
        <5> QED
          BY <4>1, <5>1
      <4>2. CASE t \notin finishing
        BY <3>4, <4>2 DEF Ended
      <4> QED
        BY <4>1, <4>2
    <3> QED
      BY <3>1, <3>2, <3>3, <3>4 DEF Kind
  <2> QED
    BY <2>1, <2>2 DEF DoneMatchesEvents, Running
<1> QED
  BY TrackInitial, <1>1, <1>2, PTL DEF Spec

\* What run decides on before it mixes holds until it has written.
Mixing == pc \in {"mix", "ended", "write"}

AheadBound == Mixing /\ LivePlaying # {} /\ Twice = {} => ringLen < LiveCap

AheadInd ==
    /\ TrackInd /\ RoomKept
    /\ observed \in Nat
    /\ AheadBound

\* The cap never falls: the largest callback seen only grows.
LEMMA CapGrows ==
    ASSUME observed \in Nat, observed' \in Nat, observed <= observed'
    PROVE  LiveCap \in Nat /\ LiveCap' \in Nat /\ LiveCap <= LiveCap'
<1> DEFINE Cap(n) == IF n > 0 THEN Larger(LiveFloor, n + 2 * Chunk) ELSE LiveFloor
<1>1. LiveFloor \in Nat /\ 2 * Chunk \in Nat
  BY MixerAssumption
<1>2. ASSUME NEW m \in Nat, NEW n \in Nat, m <= n
      PROVE  Cap(m) \in Nat /\ Cap(m) <= Cap(n)
  <2> DEFINE two == 2 * Chunk
  <2>1. two \in Nat
    BY <1>1
  <2> HIDE DEF two
  <2>2. \A k \in Nat : Larger(LiveFloor, k + two) = IF LiveFloor >= k + two THEN LiveFloor ELSE k + two
    BY DEF Larger
  <2>3. /\ Cap(m) = IF m > 0 THEN Larger(LiveFloor, m + two) ELSE LiveFloor
        /\ Cap(n) = IF n > 0 THEN Larger(LiveFloor, n + two) ELSE LiveFloor
    BY DEF two
  <2> QED
    BY <1>1, <1>2, <2>1, <2>2, <2>3
<1>3. LiveCap = Cap(observed) /\ LiveCap' = Cap(observed')
  BY DEF LiveCap
<1> HIDE DEF Cap
<1> QED
  BY <1>2, <1>3

\* Where the ring does not fill up, and no live track comes.
LEMMA BoundKept ==
    ASSUME AheadBound, RoomKept, observed \in Nat,
           observed' \in Nat, observed <= observed',
           Mixing' => Mixing, Twice' = {} => Twice = {},
           LivePlaying' \subseteq LivePlaying,
           ringLen' \in Nat, ringLen' <= ringLen
    PROVE  AheadBound'
<1> SUFFICES ASSUME Mixing', LivePlaying' # {}, Twice' = {}
             PROVE  ringLen' < LiveCap'
  BY DEF AheadBound
<1>1. ringLen < LiveCap
  BY DEF AheadBound
<1>2. LiveCap \in Nat /\ LiveCap' \in Nat /\ LiveCap <= LiveCap'
  BY CapGrows
<1>3. ringLen \in Nat
  BY DEF RoomKept
<1> QED
  BY <1>1, <1>2, <1>3

\* What run does while it mixes: pull a track, publish an end, go on.
LEMMA MixingRun ==
    ASSUME TrackInd, Run, ~Check, Mixing'
    PROVE  /\ Mixing /\ ringLen' = ringLen
           /\ LivePlaying' \subseteq LivePlaying
           /\ Twice' = {} => Twice = {}
<1>0. (events \in [Tracks -> Seq(Kinds)] /\ Tracked) \/ ~Running
  BY DEF TrackInd, Tracked, TrackTypes
<1>1. CASE ReceiveOp \/ FlushOp
  BY <1>1 DEF ReceiveOp, Apply, ApplyAdd, ApplyGain, ApplyRemove, FlushOp, Mixing
<1>2. CASE PublishFinish
  <2>1. pc = "ended" /\ Tracked /\ UNCHANGED <<ringLen, installed, removed>>
    BY <1>2 DEF PublishFinish, Mixing, TrackInd, Running, ring
  <2>2. PICK t \in Tracks : finishing = {t}
    BY <2>1 DEF TrackInd
  <2>3. /\ events \in [Tracks -> Seq(Kinds)] /\ pc \in Kinds
        /\ events' = [u \in Tracks |-> IF u \in {t} THEN Append(events[u], pc) ELSE events[u]]
    BY <1>2, <2>1, <2>2 DEF PublishFinish, Tracked, TrackTypes, Kinds
  <2>4. events'[t] = Append(events[t], pc) /\ \A u \in Tracks : u # t => events'[u] = events[u]
    BY <2>3
  <2>5. Twice' = {} => Twice = {}
    BY <2>3, <2>4, TwiceStays
  <2> QED
    BY <2>1, <2>5 DEF Mixing, LivePlaying, Playing
<1>3. ASSUME NEW t \in Tracks, MixTrack(t)
      PROVE  /\ Mixing /\ ringLen' = ringLen
             /\ LivePlaying' \subseteq LivePlaying
             /\ Twice' = {} => Twice = {}
  <2>1. pc = "mix" /\ ringLen' = ringLen /\ events' = events
    BY <1>3 DEF MixTrack, ring
  <2>2. Tracked /\ finishing = {} /\ left \subseteq installed
    BY <2>1 DEF TrackInd, Running
  <2>3. LivePlaying' \subseteq LivePlaying
    BY <1>3, <2>2, TrackedMix
  <2> QED
    BY <2>1, <2>3 DEF Mixing, Twice
<1>4. ASSUME NEW t \in Tracks, FinishTrack(t)
      PROVE  FALSE
  BY <1>4 DEF FinishTrack, Mixing
<1>5. CASE Quiet
  <2>1. Mixed
    BY <1>5 DEF Quiet, ReceiveStop, Drained, IdleTick, WriteChunk, FinishedAll, RunReturns,
                Mixing
  <2>2. pc = "mix" /\ UNCHANGED <<ringLen, installed, removed, events>>
    BY <2>1 DEF Mixed, owned, outcome, ring
  <2> QED
    BY <2>2 DEF Mixing, LivePlaying, Playing, Twice
<1> QED
  BY <1>1, <1>2, <1>3, <1>4, <1>5, RunSplit

LEMMA AheadStep ==
    ASSUME AheadInd, [Next]_vars
    PROVE  AheadInd'
<1>1. TrackInd' /\ RoomKept'
  BY TrackStep, RoomStep DEF AheadInd
<1>2. observed \in Nat /\ AheadBound /\ TrackInd /\ RoomKept
  BY DEF AheadInd
<1>3. CASE Run
  <2>1. observed' = observed
    BY <1>3 DEF Run, ReceiveOp, PublishFinish, ReceiveStop, Drained, Check, IdleTick, MixTrack,
               Mixed, WriteChunk, FinishTrack, FinishedAll, FlushOp, RunReturns, device
  <2>2. CASE Check
    <3>1. /\ ringLen <= seen /\ ringLen' = ringLen
          /\ UNCHANGED <<installed, removed, finishing, events, liveCount>>
      BY <1>2, <2>2 DEF Check, RoomKept, outcome
    <3>2. SUFFICES ASSUME Mixing', LivePlaying # {}, Twice = {}
                   PROVE  ringLen < LiveCap
      BY <1>1, <1>2, <2>1, <3>1
         DEF AheadInd, AheadBound, LivePlaying, Playing, Twice, LiveCap
    <3>3. Tracked /\ finishing = {}
      BY <1>2, <2>2 DEF TrackInd, Running, Check
    <3>4. liveCount > 0
      <4>1. liveCount = Cardinality(LivePlaying) + Cardinality(Owed)
        BY <3>2, <3>3 DEF Tracked, Counted
      <4>2. Owed = {} /\ Cardinality({}) = 0
        BY <3>3, FS_EmptySet DEF Owed
      <4>3. Cardinality(LivePlaying) \in Nat /\ Cardinality(LivePlaying) # 0
        BY <3>2, <3>3, LiveFinite, FS_EmptySet
      <4> QED
        BY <4>1, <4>2, <4>3
    <3>5. ~(seen >= LiveCap)
      BY <2>2, <3>2, <3>4 DEF Check, AtCap, Mixing
    <3>6. LiveCap \in Nat /\ seen \in Nat /\ ringLen \in Nat
      BY <1>2, <2>1, CapGrows DEF RoomKept
    <3> QED
      BY <3>1, <3>5, <3>6
  <2>3. CASE ~Check /\ Mixing'
    <3>1. /\ Mixing /\ ringLen' = ringLen
          /\ LivePlaying' \subseteq LivePlaying
          /\ Twice' = {} => Twice = {}
      BY <1>2, <1>3, <2>3, MixingRun
    <3>2. ringLen' \in Nat /\ ringLen' <= ringLen /\ observed' \in Nat /\ observed <= observed'
      BY <1>2, <2>1, <3>1 DEF RoomKept
    <3>3. AheadBound'
      BY <1>2, <3>1, <3>2, BoundKept
    <3> QED
      BY <1>1, <3>2, <3>3 DEF AheadInd
  <2>4. CASE ~Mixing'
    BY <1>1, <1>2, <2>1, <2>4 DEF AheadInd, AheadBound
  <2> QED
    BY <2>2, <2>3, <2>4
<1>4. CASE ~Run
  <2>1. UNCHANGED <<pc, installed, removed, events>>
    BY <1>4, NextSplit, CallersLeaveMixing
       DEF FillObserve, FillRead, vars, owned, outcome, mixing
  <2>2. observed' \in Nat /\ observed <= observed'
    <3>1. CASE UNCHANGED observed
      BY <1>2, <3>1
    <3>2. ASSUME NEW n \in Fills, FillObserve(n)
          PROVE  observed' \in Nat /\ observed <= observed'
      BY <1>2, <3>2, MixerAssumption DEF FillObserve, Larger
    <3> QED
      BY <1>4, <3>1, <3>2, NextSplit, CallersLeaveMixing DEF FillRead, vars, mixing, device
  <2>3. ringLen' \in Nat /\ ringLen' <= ringLen
    <3>1. CASE UNCHANGED ringLen
      BY <1>2, <3>1 DEF RoomKept
    <3>2. CASE FillRead
      BY <1>2, <3>2 DEF FillRead, Larger, RoomKept
    <3> QED
      BY <1>4, <3>1, <3>2, NextSplit, CallersLeaveMixing DEF FillObserve, vars, mixing, ring
  <2>4. LivePlaying' = LivePlaying /\ Twice' = Twice /\ Mixing' = Mixing
    BY <2>1 DEF LivePlaying, Playing, Twice, Mixing
  <2>5. AheadBound'
    BY <1>2, <2>2, <2>3, <2>4, BoundKept
  <2> QED
    BY <1>1, <2>2, <2>5 DEF AheadInd
<1> QED
  BY <1>3, <1>4

\* What is published twice is published for a removal.
LEMMA TwiceMiscounted ==
    ASSUME Tracked, Miscounted = {}
    PROVE  Twice = {}
<1> SUFFICES ASSUME NEW t \in LiveTracks, Len(events[t]) >= 3
             PROVE  t \in Miscounted
  BY DEF Twice
<1>1. t \in Tracks /\ Kind(t) /\ pending \in Seq(Ops) /\ removes[t] \in Nat
  BY MixerAssumption DEF Tracked, TrackTypes
<1>2. ~Fresh(t) /\ ~Played(t)
  <2>1. events[t] = <<>> => Len(events[t]) = 0
    OBVIOUS
  <2>2. events[t] = <<"added">> => Len(events[t]) = 1
    OBVIOUS
  <2>3. ~(0 >= 3) /\ ~(1 >= 3)
    OBVIOUS
  <2> QED
    BY <2>1, <2>2, <2>3, Zenon DEF Fresh, Played
<1>3. ~Ended(t)
  <2>1. events[t] = <<"added">> => Len(events[t]) = 1
    OBVIOUS
  <2>2. events[t] = <<"added", "ended">> => Len(events[t]) = 2
    OBVIOUS
  <2>3. ~(1 >= 3) /\ ~(2 >= 3)
    OBVIOUS
  <2> QED
    BY <2>1, <2>2, <2>3, Zenon DEF Ended
<1>4. PICK n \in Nat :
        /\ events[t] = RemovedTimes(n)
        /\ n + Cardinality(Removals(t)) + (IF t \in finishing THEN 1 ELSE 0) <= removes[t]
  BY <1>1, <1>2, <1>3 DEF Kind, Flagged
<1>5. Len(events[t]) = n + 1
  BY <1>4, RemovedShape
<1>6. Cardinality(Removals(t)) \in Nat
  BY <1>1, RemovalsFinite
<1>7. n \in 2 .. removes[t]
  BY <1>1, <1>4, <1>5, <1>6
<1> QED
  BY <1>4, <1>7 DEF Miscounted

\* While a live source plays, run is never further ahead of the device than
\* the cap when it mixes, as long as no live track has been uncounted twice.
THEOREM NeverTooFarAhead == Spec => []LiveAheadBounded
<1>1. Init => AheadInd
  <2>1. Init => observed \in Nat /\ AheadBound
    BY DEF Init, AheadBound, Mixing
  <2> QED
    BY <2>1, TrackInitial, RoomInitial DEF AheadInd
<1>2. AheadInd /\ [Next]_vars => AheadInd'
  BY AheadStep
<1>3. AheadInd => LiveAheadBounded
  <2> SUFFICES ASSUME AheadInd, Mixing, LivePlaying # {}, Miscounted = {}
               PROVE  ringLen < LiveCap
    BY DEF LiveAheadBounded, Mixing, LivePlaying
  <2>1. Tracked
    BY DEF AheadInd, TrackInd, Running, Mixing
  <2>2. Twice = {}
    BY <2>1, TwiceMiscounted
  <2> QED
    BY <2>2 DEF AheadInd, AheadBound
<1> QED
  BY <1>1, <1>2, <1>3, PTL DEF Spec

-----------------------------------------------------------------------------
(* Gains.                                                                  *)

GainAt(i, t) == pending[i].kind = "gain" /\ pending[i].track = t
SettingOf(c, t) == setting[c] # NoGain /\ setting[c].track = t

\* The mixer plays the track, or is yet to.
Alive(t) == t \in installed \/ InChannel(AddOp(t))

\* Nothing has been sent for a track that AddSource has not returned.
Untouched(t) ==
    /\ t \notin installed /\ applied[t] = shown[t]
    /\ \A i \in DOMAIN pending : pending[i].track # t
    /\ \A c \in Setters : ~SettingOf(c, t)

\* A gain never overtakes the operation that adds its track.
GainsBehind(t) ==
    \A i, j \in DOMAIN pending : GainAt(i, t) /\ pending[j] = AddOp(t) => j < i

\* A call under way, and there is one at most, has stored what it is going to
\* send; else the last gain in the channel is the one shown, or, where there is
\* none, the one applied is.
GainFollows(t) ==
    /\ \A c, d \in Setters : SettingOf(c, t) /\ SettingOf(d, t) => c = d
    /\ \A c \in Setters : SettingOf(c, t) => setting[c].gain = shown[t]
    /\ (\A c \in Setters : ~SettingOf(c, t)) =>
          /\ \A i \in DOMAIN pending :
                GainAt(i, t) /\ (\A j \in DOMAIN pending : GainAt(j, t) => j <= i)
                    => pending[i].gain = shown[t]
          /\ (\A i \in DOMAIN pending : ~GainAt(i, t)) => applied[t] = shown[t]

GainTypes ==
    /\ pending \in Seq(Ops)
    /\ installed \subseteq Tracks
    /\ setting \in [Setters -> {GainOp(t, g) : t \in Tracks, g \in Gains} \cup {NoGain}]
    /\ adding \in [Tracks -> {"none", "sending", "added", "refused"}]
    /\ applied \in [Tracks -> Gains] /\ shown \in [Tracks -> Gains]
    /\ ~Running => stopped

GainFlow(t) ==
    /\ adding[t] # "added" => Untouched(t)
    /\ GainsBehind(t)
    /\ Alive(t) /\ t \notin tangled => GainFollows(t)

GainInd == GainTypes /\ (~stopped => \A t \in Tracks : GainFlow(t))

LEMMA GainInitial == Init => GainInd
<1> SUFFICES ASSUME Init PROVE GainInd
  OBVIOUS
<1>1. GainTypes
  BY MixerAssumption DEF Init, GainTypes, Running
<1>2. ASSUME NEW t \in Tracks PROVE GainFlow(t)
  BY DEF Init, GainFlow, Untouched, GainsBehind, Alive, InChannel, SettingOf
<1> QED
  BY <1>1, <1>2 DEF GainInd

LEMMA OpsAre ==
    ASSUME NEW op \in Ops
    PROVE  /\ op.track \in Tracks /\ op.kind \in {"add", "gain", "remove"}
           /\ op.kind = "gain" => op.gain \in Gains
           /\ op.kind = "add" <=> op = AddOp(op.track)
           /\ \A t : op = AddOp(t) => op.kind = "add" /\ op.track = t
  BY DEF Ops, AddOp, RemoveOp, GainOp

\* A step that leaves the channel, the handles and the gains alone, and at
\* most drops tracks.
LEMMA GainSteady ==
    ASSUME NEW t \in Tracks, GainFlow(t), installed' \subseteq installed,
           UNCHANGED <<pending, setting, adding, applied, shown, tangled>>
    PROVE  GainFlow(t)'
<1>1. Alive(t)' => Alive(t)
  BY DEF Alive, InChannel
<1> QED
  BY <1>1 DEF GainFlow, Untouched, GainsBehind, GainFollows, GainAt, SettingOf

\* run takes an operation.
LEMMA GainReceived ==
    ASSUME GainTypes, NEW t \in Tracks, GainFlow(t), ReceiveOp
    PROVE  GainFlow(t)'
<1>1. /\ pending # <<>> /\ Apply(Head(pending)) /\ pending' = Tail(pending)
      /\ UNCHANGED <<setting, adding, shown, tangled>>
  BY DEF ReceiveOp, callers
<1>2. PICK op \in Ops : op = Head(pending)
  BY <1>1, TailTyped DEF GainTypes
<1>3. /\ 1 \in DOMAIN pending /\ pending[1] = op
      /\ \A i \in DOMAIN pending' :
            i \in Nat \ {0} /\ i + 1 \in DOMAIN pending /\ pending'[i] = pending[i + 1]
      /\ \A i \in DOMAIN pending : i = 1 \/ i - 1 \in DOMAIN pending'
      /\ \A i \in DOMAIN pending : i \in Nat \ {0} /\ (i - 1) + 1 = i
  BY <1>1, <1>2 DEF GainTypes
<1>4. \A i \in DOMAIN pending' : GainAt(i, t)' <=> GainAt(i + 1, t)
  BY <1>3 DEF GainAt
<1>5. op.track \in Tracks /\ (op = AddOp(t) <=> op.kind = "add" /\ op.track = t)
  BY OpsAre
<1>6. /\ Apply(op)
      /\ applied' = IF op.kind = "gain" /\ op.track \in installed
                    THEN [applied EXCEPT ![op.track] = op.gain] ELSE applied
      /\ installed' = IF op.kind = "add" THEN installed \cup {op.track} ELSE installed
  BY <1>1, <1>2 DEF Apply, ApplyAdd, ApplyGain, ApplyRemove
<1>7. (\A c \in Setters : SettingOf(c, t)' <=> SettingOf(c, t))
  BY <1>1 DEF SettingOf
<1>8. (adding[t] # "added" => Untouched(t))'
  <2> SUFFICES ASSUME adding[t] # "added" PROVE Untouched(t)'
    BY <1>1
  <2>1. Untouched(t)
    BY DEF GainFlow
  <2>2. op.track # t
    BY <1>3, <2>1 DEF Untouched
  <2>3. t \notin installed' /\ applied'[t] = shown'[t]
    BY <1>1, <1>6, <2>1, <2>2 DEF Untouched, GainTypes
  <2>4. \A i \in DOMAIN pending' : pending'[i].track # t
    BY <1>3, <2>1 DEF Untouched
  <2> QED
    BY <1>7, <2>1, <2>3, <2>4 DEF Untouched
<1>9. GainsBehind(t)'
  <2> SUFFICES ASSUME NEW i \in DOMAIN pending', NEW j \in DOMAIN pending',
                      GainAt(i, t)', pending'[j] = AddOp(t)
               PROVE  j < i
    BY DEF GainsBehind, AddOp
  <2>1. i + 1 \in DOMAIN pending /\ j + 1 \in DOMAIN pending /\ pending[j + 1] = AddOp(t)
        /\ i \in Nat /\ j \in Nat
    BY <1>3
  <2>2. j + 1 < i + 1
    BY <1>4, <2>1 DEF GainFlow, GainsBehind
  <2> QED
    BY <2>1, <2>2
<1>10. ASSUME Alive(t)', t \notin tangled' PROVE GainFollows(t)'
  <2>1. Alive(t)
    <3>1. CASE t \in installed'
      BY <1>3, <1>5, <1>6, <3>1 DEF Alive, InChannel
    <3>2. ASSUME NEW i \in DOMAIN pending', pending'[i] = AddOp(t) PROVE Alive(t)
      BY <1>3, <3>2 DEF Alive, InChannel
    <3> QED
      BY <1>10, <3>1, <3>2 DEF Alive, InChannel, AddOp
  <2>2. GainFollows(t)
    BY <1>1, <1>10, <2>1 DEF GainFlow
  <2>3. /\ \A c, d \in Setters : SettingOf(c, t)' /\ SettingOf(d, t)' => c = d
        /\ \A c \in Setters : SettingOf(c, t)' => setting'[c].gain = shown'[t]
    BY <1>1, <1>7, <2>2 DEF GainFollows
  <2> SUFFICES ASSUME \A c \in Setters : ~SettingOf(c, t)
               PROVE  /\ \A i \in DOMAIN pending' :
                            GainAt(i, t)' /\ (\A j \in DOMAIN pending' : GainAt(j, t)' => j <= i)
                                => pending'[i].gain = shown'[t]
                      /\ (\A i \in DOMAIN pending' : ~GainAt(i, t)') => applied'[t] = shown'[t]
    BY <1>7, <2>3 DEF GainFollows
  <2>4. /\ \A i \in DOMAIN pending :
                GainAt(i, t) /\ (\A j \in DOMAIN pending : GainAt(j, t) => j <= i)
                    => pending[i].gain = shown[t]
        /\ (\A i \in DOMAIN pending : ~GainAt(i, t)) => applied[t] = shown[t]
    BY <2>2 DEF GainFollows
  <2>5. ASSUME NEW i \in DOMAIN pending', GainAt(i, t)',
               \A j \in DOMAIN pending' : GainAt(j, t)' => j <= i
        PROVE  pending'[i].gain = shown'[t]
    <3>1. i + 1 \in DOMAIN pending /\ GainAt(i + 1, t) /\ pending'[i] = pending[i + 1] /\ i \in Nat \ {0}
      BY <1>3, <1>4, <2>5
    <3>2. ASSUME NEW j \in DOMAIN pending, GainAt(j, t) PROVE j <= i + 1
      <4>1. CASE j = 1
        BY <3>1, <4>1
      <4>2. CASE j # 1
        <5>1. j - 1 \in DOMAIN pending' /\ (j - 1) + 1 = j /\ j \in Nat
          BY <1>3, <4>2
        <5>2. GainAt(j - 1, t)'
          BY <1>4, <3>2, <5>1
        <5>3. j - 1 <= i
          BY <2>5, <5>1, <5>2
        <5> QED
          BY <3>1, <5>1, <5>3
      <4> QED
        BY <4>1, <4>2
    <3> QED
      BY <1>1, <2>4, <3>1, <3>2
  <2>6. ASSUME \A i \in DOMAIN pending' : ~GainAt(i, t)'
        PROVE  applied'[t] = shown'[t]
    <3>1. \A j \in DOMAIN pending : GainAt(j, t) => j = 1
      BY <1>3, <1>4, <2>6
    <3>2. CASE GainAt(1, t)
      <4>1. op.kind = "gain" /\ op.track = t
        BY <1>3, <3>2 DEF GainAt
      <4>2. op.gain = shown[t]
        BY <1>3, <2>4, <3>1, <3>2
      <4>3. t \in installed
        <5> SUFFICES ASSUME NEW j \in DOMAIN pending', pending'[j] = AddOp(t) PROVE FALSE
          BY <1>6, <1>10, <4>1 DEF Alive, InChannel, AddOp
        <5>1. j + 1 \in DOMAIN pending /\ pending[j + 1] = AddOp(t) /\ j \in Nat \ {0}
          BY <1>3
        <5>2. j + 1 < 1
          BY <1>3, <3>2, <5>1 DEF GainFlow, GainsBehind
        <5> QED
          BY <5>1, <5>2
      <4> QED
        BY <1>1, <1>6, <4>1, <4>2, <4>3 DEF GainTypes
    <3>3. CASE ~GainAt(1, t)
      <4>1. applied[t] = shown[t]
        BY <2>4, <3>1, <3>3
      <4>2. ~(op.kind = "gain" /\ op.track = t)
        BY <1>3, <3>3 DEF GainAt
      <4> QED
        BY <1>1, <1>6, <4>1, <4>2 DEF GainTypes
    <3> QED
      BY <3>2, <3>3
  <2> QED
    BY <2>5, <2>6
<1> QED
  BY <1>8, <1>9, <1>10 DEF GainFlow

\* A caller sends an operation that is no gain of the track, and, where it
\* adds the track, the first of it.
LEMMA GainSent ==
    ASSUME GainTypes, NEW t \in Tracks, GainFlow(t), NEW op \in Ops,
           pending' = Append(pending, op), UNCHANGED <<installed, applied, shown, tangled>>,
           ~(op.kind = "gain" /\ op.track = t),
           \A c \in Setters : /\ SettingOf(c, t)' <=> SettingOf(c, t)
                              /\ SettingOf(c, t) => setting'[c] = setting[c],
           adding'[t] # "added" => adding[t] # "added" /\ op.track # t,
           op = AddOp(t) => adding[t] # "added"
    PROVE  GainFlow(t)'
<1>1. /\ \A i \in DOMAIN pending : i \in DOMAIN pending' /\ pending'[i] = pending[i] /\ i \in Nat
      /\ \A i \in DOMAIN pending' : \/ i \in DOMAIN pending /\ pending'[i] = pending[i]
                                    \/ i \notin DOMAIN pending /\ pending'[i] = op
  BY DEF GainTypes
<1>2. /\ \A i \in DOMAIN pending' : GainAt(i, t)' => i \in DOMAIN pending /\ GainAt(i, t)
      /\ \A i \in DOMAIN pending : GainAt(i, t) => GainAt(i, t)'
  BY <1>1 DEF GainAt
<1>3. (adding[t] # "added" => Untouched(t))'
  BY <1>1 DEF GainFlow, Untouched
<1>4. CASE op = AddOp(t)
  <2>1. Untouched(t)
    BY <1>4 DEF GainFlow
  <2>2. \A i \in DOMAIN pending' : ~GainAt(i, t)'
    BY <1>2, <2>1 DEF Untouched, GainAt
  <2>3. \A c \in Setters : ~SettingOf(c, t)'
    BY <2>1 DEF Untouched
  <2>4. applied'[t] = shown'[t]
    BY <2>1 DEF Untouched
  <2>5. GainsBehind(t)'
    BY <2>2 DEF GainsBehind
  <2>6. GainFollows(t)'
    BY <2>2, <2>3, <2>4 DEF GainFollows
  <2> QED
    BY <1>3, <2>5, <2>6 DEF GainFlow
<1>5. CASE op # AddOp(t)
  <2>1. \A j \in DOMAIN pending' : pending'[j] = AddOp(t)
                                     => j \in DOMAIN pending /\ pending[j] = AddOp(t)
    BY <1>1, <1>5
  <2>2. GainsBehind(t)'
    <3> SUFFICES ASSUME NEW i \in DOMAIN pending', NEW j \in DOMAIN pending',
                        GainAt(i, t)', pending'[j] = AddOp(t)
                 PROVE  j < i
      BY DEF GainsBehind, AddOp
    <3> QED
      BY <1>2, <2>1 DEF GainFlow, GainsBehind
  <2>3. Alive(t)' => Alive(t)
    BY <2>1 DEF Alive, InChannel, AddOp
  <2>4. ASSUME GainFollows(t) PROVE GainFollows(t)'
    <3>1. /\ \A c, d \in Setters : SettingOf(c, t)' /\ SettingOf(d, t)' => c = d
          /\ \A c \in Setters : SettingOf(c, t)' => setting'[c].gain = shown'[t]
      BY <2>4 DEF GainFollows
    <3> SUFFICES ASSUME \A c \in Setters : ~SettingOf(c, t)
                 PROVE  /\ \A i \in DOMAIN pending' :
                              GainAt(i, t)' /\ (\A j \in DOMAIN pending' : GainAt(j, t)' => j <= i)
                                  => pending'[i].gain = shown'[t]
                        /\ (\A i \in DOMAIN pending' : ~GainAt(i, t)') => applied'[t] = shown'[t]
      BY <3>1 DEF GainFollows
    <3>2. /\ \A i \in DOMAIN pending :
                GainAt(i, t) /\ (\A j \in DOMAIN pending : GainAt(j, t) => j <= i)
                    => pending[i].gain = shown[t]
          /\ (\A i \in DOMAIN pending : ~GainAt(i, t)) => applied[t] = shown[t]
      BY <2>4 DEF GainFollows
    <3>3. ASSUME NEW i \in DOMAIN pending', GainAt(i, t)',
                 \A j \in DOMAIN pending' : GainAt(j, t)' => j <= i
          PROVE  pending'[i].gain = shown'[t]
      <4>1. i \in DOMAIN pending /\ GainAt(i, t) /\ pending'[i] = pending[i]
        BY <1>1, <1>2, <3>3
      <4>2. \A j \in DOMAIN pending : GainAt(j, t) => j <= i
        BY <1>1, <1>2, <3>3
      <4> QED
        BY <3>2, <4>1, <4>2
    <3>4. (\A i \in DOMAIN pending' : ~GainAt(i, t)') => applied'[t] = shown'[t]
      BY <1>1, <1>2, <3>2
    <3> QED
      BY <3>3, <3>4
  <2> QED
    BY <1>3, <2>2, <2>3, <2>4 DEF GainFlow
<1> QED
  BY <1>4, <1>5

\* The setter sends the gain it has stored: it is the last one in the channel.
LEMMA OwnGainSent ==
    ASSUME GainTypes, NEW t \in Tracks, GainFlow(t), NEW c \in Setters,
           SetGainSend(c), SettingOf(c, t)
    PROVE  GainFlow(t)'
<1>1. /\ pending' = Append(pending, setting[c]) /\ setting' = [setting EXCEPT ![c] = NoGain]
      /\ UNCHANGED <<installed, applied, shown, adding, tangled>>
  BY DEF SetGainSend, mixing, owned
<1>2. PICK g \in Gains : setting[c] = GainOp(t, g)
  BY DEF GainTypes, SettingOf, GainOp, NoGain
<1>3. GainOp(t, g) \in Ops /\ GainOp(t, g).kind = "gain" /\ GainOp(t, g).track = t
      /\ GainOp(t, g).gain = g /\ GainOp(t, g) # AddOp(t)
  BY DEF Ops, GainOp, AddOp
<1>4. PICK last \in Nat : last = Len(pending) + 1
  BY DEF GainTypes
<1>5. /\ last \in DOMAIN pending' /\ pending'[last] = GainOp(t, g)
      /\ \A i \in DOMAIN pending' : i \in Nat /\ i <= last
      /\ \A i \in DOMAIN pending' : i # last => i \in DOMAIN pending /\ pending'[i] = pending[i]
      /\ \A i \in DOMAIN pending : i < last
  BY <1>1, <1>2, <1>3, <1>4 DEF GainTypes
<1>6. GainAt(last, t)'
  BY <1>3, <1>5 DEF GainAt
<1>7. adding'[t] = "added"
  BY <1>1 DEF GainFlow, Untouched
<1>8. \A j \in DOMAIN pending' : pending'[j] = AddOp(t)
                                   => j \in DOMAIN pending /\ pending[j] = AddOp(t)
  BY <1>3, <1>5
<1>9. GainsBehind(t)'
  <2> SUFFICES ASSUME NEW i \in DOMAIN pending', NEW j \in DOMAIN pending',
                      GainAt(i, t)', pending'[j] = AddOp(t)
               PROVE  j < i
    BY DEF GainsBehind, AddOp
  <2>1. j \in DOMAIN pending /\ pending[j] = AddOp(t)
    BY <1>8
  <2>2. CASE i = last
    BY <1>5, <2>1, <2>2
  <2>3. CASE i # last
    <3>1. i \in DOMAIN pending /\ GainAt(i, t)
      BY <1>5, <2>3 DEF GainAt
    <3> QED
      BY <2>1, <3>1 DEF GainFlow, GainsBehind
  <2> QED
    BY <2>2, <2>3
<1>10. ASSUME Alive(t)', t \notin tangled' PROVE GainFollows(t)'
  <2>1. Alive(t)
    BY <1>1, <1>8, <1>10 DEF Alive, InChannel, AddOp
  <2>0. GainFollows(t)
    BY <1>1, <1>10, <2>1 DEF GainFlow
  <2>2. g = shown[t]
    BY <1>2, <1>3, <2>0 DEF GainFollows
  <2>3. \A d \in Setters : ~SettingOf(d, t)'
    <3>1. setting'[c] = NoGain /\ \A d \in Setters : d # c => setting'[d] = setting[d]
      BY <1>1 DEF GainTypes
    <3>2. \A d \in Setters : SettingOf(d, t) => d = c
      BY <2>0 DEF GainFollows
    <3> QED
      BY <3>1, <3>2 DEF SettingOf
  <2>4. ASSUME NEW i \in DOMAIN pending', \A j \in DOMAIN pending' : GainAt(j, t)' => j <= i
        PROVE  pending'[i].gain = shown'[t]
    <3>1. i = last
      BY <1>5, <1>6, <2>4
    <3> QED
      BY <1>1, <1>3, <1>5, <2>2, <3>1
  <2>5. ~(\A i \in DOMAIN pending' : ~GainAt(i, t)')
    BY <1>5, <1>6
  <2> QED
    BY <2>3, <2>4, <2>5 DEF GainFollows
<1> QED
  BY <1>7, <1>9, <1>10 DEF GainFlow

LEMMA GainStored ==
    ASSUME GainTypes, NEW t \in Tracks, GainFlow(t),
           NEW c \in Setters, NEW u \in Tracks, NEW g \in Gains, SetGainStore(c, u, g)
    PROVE  GainFlow(t)'
<1>1. /\ setting[c] = NoGain /\ adding[u] = "added"
      /\ shown' = [shown EXCEPT ![u] = g] /\ setting' = [setting EXCEPT ![c] = GainOp(u, g)]
      /\ tangled' = IF Unsent(u) THEN tangled \cup {u} ELSE tangled \ {u}
      /\ UNCHANGED <<installed, applied, pending, adding>>
  BY DEF SetGainStore, mixing, owned
<1>2. setting'[c] = GainOp(u, g) /\ GainOp(u, g) # NoGain
      /\ GainOp(u, g).track = u /\ GainOp(u, g).gain = g
      /\ \A d \in Setters : d # c => setting'[d] = setting[d]
  BY <1>1 DEF GainTypes, GainOp, NoGain
<1>3. GainsBehind(t)'
  BY <1>1 DEF GainFlow, GainsBehind, GainAt
<1>4. Alive(t)' => Alive(t)
  BY <1>1 DEF Alive, InChannel
<1>5. CASE t = u
  <2>1. ASSUME t \notin tangled' PROVE GainFollows(t)'
    <3>1. \A d \in Setters : ~SettingOf(d, t)
      BY <1>1, <1>5, <2>1 DEF Unsent, SettingOf
    <3>2. \A d \in Setters : SettingOf(d, t)' => d = c
      BY <1>2, <3>1 DEF SettingOf
    <3>3. SettingOf(c, t)' /\ setting'[c].gain = shown'[t]
      BY <1>1, <1>2, <1>5 DEF SettingOf, GainTypes
    <3> QED
      BY <3>2, <3>3 DEF GainFollows
  <2> QED
    BY <1>1, <1>3, <1>5, <2>1 DEF GainFlow
<1>6. CASE t # u
  <2>1. shown'[t] = shown[t] /\ (t \in tangled' <=> t \in tangled)
    BY <1>1, <1>6 DEF GainTypes
  <2>2. /\ \A d \in Setters : SettingOf(d, t)' <=> SettingOf(d, t)
        /\ \A d \in Setters : SettingOf(d, t) => setting'[d] = setting[d]
    BY <1>1, <1>2, <1>6 DEF SettingOf
  <2>3. (adding[t] # "added" => Untouched(t))'
    BY <1>1, <2>1, <2>2 DEF GainFlow, Untouched
  <2>4. GainFollows(t) => GainFollows(t)'
    BY <1>1, <2>1, <2>2 DEF GainFollows, GainAt
  <2> QED
    BY <1>3, <1>4, <2>1, <2>3, <2>4 DEF GainFlow
<1> QED
  BY <1>5, <1>6

LEMMA GainCallers ==
    ASSUME GainInd, Callers, NEW t \in Tracks, ~stopped, ~stopped'
    PROVE  GainFlow(t)'
<1>0. GainTypes /\ GainFlow(t)
  BY DEF GainInd
<1>1. UNCHANGED <<installed, applied>>
  BY CallersLeaveMixing DEF mixing, owned
<1>2. ASSUME NEW u \in Tracks, AddCheck(u)
      PROVE  GainFlow(t)'
  <2>1. adding'[t] # "added" <=> adding[t] # "added"
    BY <1>0, <1>2 DEF AddCheck, GainTypes
  <2>2. UNCHANGED <<pending, setting, shown, tangled>>
    BY <1>2 DEF AddCheck
  <2> QED
    BY <1>0, <1>1, <2>1, <2>2
       DEF GainFlow, Untouched, GainsBehind, GainFollows, GainAt, SettingOf, Alive, InChannel
<1>3. ASSUME NEW u \in Tracks, AddSend(u)
      PROVE  GainFlow(t)'
  <2>1. /\ pending' = Append(pending, AddOp(u)) /\ UNCHANGED <<setting, shown, tangled>>
        /\ adding' = [adding EXCEPT ![u] = "added"] /\ adding[u] = "sending"
    BY <1>3 DEF AddSend
  <2>2. AddOp(u) \in Ops /\ AddOp(u).kind = "add" /\ AddOp(u).track = u
        /\ (AddOp(u) = AddOp(t) => t = u)
    BY DEF Ops, AddOp
  <2>3. adding'[t] # "added" => adding[t] # "added" /\ t # u
    BY <1>0, <2>1 DEF GainTypes
  <2> QED
    BY <1>0, <1>1, <2>1, <2>2, <2>3, GainSent DEF SettingOf
<1>4. ASSUME NEW u \in Tracks, Remove(u)
      PROVE  GainFlow(t)'
  <2>1. /\ pending' = Append(pending, RemoveOp(u)) /\ UNCHANGED <<setting, shown, adding, tangled>>
        /\ adding[u] = "added"
    BY <1>4 DEF Remove, GiveUp
  <2>2. RemoveOp(u) \in Ops /\ RemoveOp(u).kind = "remove" /\ RemoveOp(u).track = u
        /\ RemoveOp(u) # AddOp(t)
    BY DEF Ops, RemoveOp, AddOp
  <2> QED
    BY <1>0, <1>1, <2>1, <2>2, GainSent DEF SettingOf
<1>5. ASSUME NEW c \in Setters, NEW u \in Tracks, NEW g \in Gains, SetGainStore(c, u, g)
      PROVE  GainFlow(t)'
  BY <1>0, <1>5, GainStored
<1>6. ASSUME NEW c \in Setters, SetGainSend(c)
      PROVE  GainFlow(t)'
  <2>1. CASE SettingOf(c, t)
    BY <1>0, <1>6, <2>1, OwnGainSent
  <2>2. CASE ~SettingOf(c, t)
    <3>1. /\ pending' = Append(pending, setting[c]) /\ setting' = [setting EXCEPT ![c] = NoGain]
          /\ UNCHANGED <<shown, adding, tangled>> /\ setting[c] # NoGain
      BY <1>6 DEF SetGainSend
    <3>2. PICK u \in Tracks, g \in Gains : setting[c] = GainOp(u, g)
      BY <1>0, <3>1 DEF GainTypes
    <3>3. GainOp(u, g) \in Ops /\ GainOp(u, g).track = u /\ GainOp(u, g) # AddOp(t)
      BY DEF Ops, GainOp, AddOp
    <3>4. u # t
      BY <2>2, <3>1, <3>2, <3>3 DEF SettingOf
    <3>5. \A d \in Setters : /\ SettingOf(d, t)' <=> SettingOf(d, t)
                             /\ SettingOf(d, t) => setting'[d] = setting[d]
      BY <1>0, <2>2, <3>1 DEF SettingOf, GainTypes
    <3> QED
      BY <1>0, <1>1, <3>1, <3>2, <3>3, <3>4, <3>5, GainSent
  <2> QED
    BY <2>1, <2>2
<1>7. ASSUME NEW k \in Closers, CloseCall(k) \/ CloseStop(k) \/ CloseReturn(k)
      PROVE  GainFlow(t)'
  <2>1. UNCHANGED <<pending, setting, shown, adding, tangled>>
    BY <1>7 DEF CloseCall, CloseStop, CloseReturn, callers
  <2> QED
    BY <1>0, <1>1, <2>1, GainSteady
<1> QED
  BY <1>2, <1>3, <1>4, <1>5, <1>6, <1>7 DEF Callers, AddStopped, SetGainStopped, GiveUp

\* Whatever run does but receive, it drops tracks and changes no gain.
LEMMA RunDrops ==
    ASSUME Run, ~ReceiveOp
    PROVE  /\ installed' \subseteq installed /\ applied' = applied
           /\ pending' = pending \/ (pending # <<>> /\ pending' = Tail(pending) /\ FlushOp)
<1>1. CASE PublishFinish \/ FlushOp
  BY <1>1 DEF PublishFinish, FlushOp, owned
<1>2. ASSUME NEW t \in Tracks, MixTrack(t) \/ FinishTrack(t)
      PROVE  installed' \subseteq installed /\ UNCHANGED <<applied, pending>>
  BY <1>2 DEF MixTrack, FinishTrack
<1>3. CASE Quiet
  BY <1>3, QuietLeaves
<1> QED
  BY <1>1, <1>2, <1>3, RunSplit

LEMMA GainTypesStep ==
    ASSUME GainTypes, [Next]_vars
    PROVE  GainTypes'
<1> USE DEF GainTypes, Running
<1>1. CASE ReceiveOp
  <2>1. /\ pending # <<>> /\ pending' = Tail(pending) /\ UNCHANGED <<setting, adding, shown, stopped>>
        /\ Apply(Head(pending))
    BY <1>1 DEF ReceiveOp, callers, closing
  <2>2. PICK op \in Ops : op = Head(pending)
    BY <2>1, TailTyped
  <2>3. op.track \in Tracks /\ (op.kind = "gain" => op.gain \in Gains)
    BY OpsAre
  <2>4. /\ installed' \subseteq Tracks /\ applied' \in [Tracks -> Gains]
        /\ pc' \in {"drain", "removed"}
    BY <2>1, <2>2, <2>3 DEF Apply, ApplyAdd, ApplyGain, ApplyRemove
  <2>5. pending' \in Seq(Ops)
    BY <2>1, TailTyped
  <2> QED
    BY <2>1, <2>4, <2>5
<1>2. CASE Run /\ ~ReceiveOp
  <2>1. UNCHANGED <<setting, adding, shown, stopped>>
    BY <1>2, RunLeavesCallers DEF callers, closing
  <2>2. installed' \subseteq installed /\ applied' = applied
    BY <1>2, RunDrops
  <2>3. pending' \in Seq(Ops)
    <3>1. pending # <<>> => Tail(pending) \in Seq(Ops)
      BY TailTyped
    <3> QED
      BY <1>2, <3>1, RunDrops
  <2>4. pc' \in {"finalize", "flush", "done"} => stopped
    <3>1. CASE PublishFinish \/ FlushOp \/ \E t \in Tracks : MixTrack(t) \/ FinishTrack(t)
      BY <3>1 DEF PublishFinish, FlushOp, MixTrack, FinishTrack
    <3>2. CASE Quiet
      BY <3>2, QuietMoves
    <3> QED
      BY <1>2, <3>1, <3>2, RunSplit
  <2> QED
    BY <2>1, <2>2, <2>3, <2>4
<1>3. CASE Callers
  <2>0. UNCHANGED <<pc, installed, applied>>
    BY <1>3, CallersLeaveMixing DEF mixing, owned
  <2>1. stopped => stopped'
    BY <1>3 DEF Callers, AddCheck, AddSend, AddStopped, Remove, SetGainStore, SetGainSend,
                SetGainStopped, CloseCall, CloseStop, CloseReturn, closing
  <2>2. pending' \in Seq(Ops)
    <3>1. \A op \in Ops : Append(pending, op) \in Seq(Ops)
      OBVIOUS
    <3>2. /\ \A t \in Tracks : AddOp(t) \in Ops /\ RemoveOp(t) \in Ops
          /\ \A c \in Setters : setting[c] # NoGain => setting[c] \in Ops
      BY DEF Ops
    <3>3. pending' = pending \/ \E op \in Ops : pending' = Append(pending, op)
      <4>1. ASSUME NEW t \in Tracks, AddCheck(t) \/ AddSend(t) \/ AddStopped(t) \/ Remove(t)
            PROVE  \/ pending' = pending \/ pending' = Append(pending, AddOp(t))
                   \/ pending' = Append(pending, RemoveOp(t))
        BY <4>1, Zenon DEF AddCheck, AddSend, AddStopped, Remove
      <4>2. ASSUME NEW c \in Setters, NEW t \in Tracks, NEW g \in Gains, SetGainStore(c, t, g)
            PROVE  pending' = pending
        BY <4>2 DEF SetGainStore
      <4>3. ASSUME NEW c \in Setters, SetGainSend(c) \/ SetGainStopped(c)
            PROVE  \/ pending' = pending
                   \/ setting[c] # NoGain /\ pending' = Append(pending, setting[c])
        BY <4>3, Zenon DEF SetGainSend, SetGainStopped
      <4>4. ASSUME NEW k \in Closers, CloseCall(k) \/ CloseStop(k) \/ CloseReturn(k)
            PROVE  pending' = pending
        BY <4>4 DEF CloseCall, CloseStop, CloseReturn
      <4> QED
        BY <1>3, <3>2, <4>1, <4>2, <4>3, <4>4, Zenon DEF Callers
    <3> QED
      BY <3>1, <3>3
  <2>3. setting' \in [Setters -> {GainOp(t, g) : t \in Tracks, g \in Gains} \cup {NoGain}]
    BY <1>3 DEF Callers, AddCheck, AddSend, AddStopped, Remove, SetGainStore, SetGainSend,
                SetGainStopped, CloseCall, CloseStop, CloseReturn, callers
  <2>4. adding' \in [Tracks -> {"none", "sending", "added", "refused"}]
    BY <1>3 DEF Callers, AddCheck, AddSend, AddStopped, Remove, SetGainStore, SetGainSend,
                SetGainStopped, CloseCall, CloseStop, CloseReturn, callers
  <2>5. shown' \in [Tracks -> Gains]
    BY <1>3 DEF Callers, AddCheck, AddSend, AddStopped, Remove, SetGainStore, SetGainSend,
                SetGainStopped, CloseCall, CloseStop, CloseReturn, callers
  <2> QED
    BY <2>0, <2>1, <2>2, <2>3, <2>4, <2>5
<1>4. CASE (\E n \in Fills : FillObserve(n)) \/ FillRead \/ UNCHANGED vars
  BY <1>4 DEF FillObserve, FillRead, vars, owned, closing, callers
<1> QED
  BY <1>1, <1>2, <1>3, <1>4, NextSplit

LEMMA GainStep ==
    ASSUME GainInd, [Next]_vars
    PROVE  GainInd'
<1>1. GainTypes'
  BY GainTypesStep DEF GainInd
<1>2. ASSUME ~stopped', NEW t \in Tracks PROVE GainFlow(t)'
  <2>0. ~stopped
    <3>1. CASE Run
      BY <1>2, <3>1, RunLeavesCallers DEF closing
    <3>2. CASE Callers
      BY <1>2, <3>2 DEF Callers, AddCheck, AddSend, AddStopped, Remove, SetGainStore,
                        SetGainSend, SetGainStopped, CloseCall, CloseStop, CloseReturn, closing
    <3>3. CASE (\E n \in Fills : FillObserve(n)) \/ FillRead \/ UNCHANGED vars
      BY <1>2, <3>3 DEF FillObserve, FillRead, vars, closing
    <3> QED
      BY <3>1, <3>2, <3>3, NextSplit
  <2>1. GainTypes /\ GainFlow(t)
    BY <2>0 DEF GainInd
  <2>2. CASE ReceiveOp
    BY <2>1, <2>2, GainReceived
  <2>3. CASE Run /\ ~ReceiveOp
    <3>1. UNCHANGED <<setting, adding, shown, tangled>>
      BY <2>3, RunLeavesCallers DEF callers
    <3>2. ~FlushOp
      BY <2>0, <2>1 DEF FlushOp, GainTypes, Running
    <3>3. UNCHANGED <<pending, applied>> /\ installed' \subseteq installed
      BY <2>3, <3>2, RunDrops
    <3> QED
      BY <2>1, <3>1, <3>3, GainSteady
  <2>4. CASE Callers
    BY <1>2, <2>0, <2>4, GainCallers
  <2>5. CASE (\E n \in Fills : FillObserve(n)) \/ FillRead \/ UNCHANGED vars
    <3>1. UNCHANGED <<pending, setting, adding, applied, shown, installed, tangled>>
      BY <2>5 DEF FillObserve, FillRead, vars, owned, callers
    <3> QED
      BY <2>1, <3>1, GainSteady
  <2> QED
    BY <2>2, <2>3, <2>4, <2>5, NextSplit
<1> QED
  BY <1>1, <1>2 DEF GainInd

\* What Gain() says is what the mixer applies as soon as nothing is under way,
\* however the operations interleave, unless the last SetGain of the track
\* was made while another one had stored its gain and not sent it yet.
THEOREM GainIsApplied == Spec => []GainsAgree
<1>1. GainInd /\ [Next]_vars => GainInd'
  BY GainStep
<1>2. GainInd => GainsAgree
  BY DEF GainInd, GainTypes, GainFlow, GainFollows, GainsAgree, Alive, SettingOf
<1> QED
  BY GainInitial, <1>1, <1>2, PTL DEF Spec

-----------------------------------------------------------------------------
(* The types.                                                              *)

\* What the mix goroutine and the device callback keep ...
MixTypes ==
    /\ pc \in {"drain", "removed", "check", "wait", "mix", "ended", "write", "finalize",
               "flush", "done"}
    /\ removed \subseteq Tracks /\ done \subseteq Tracks
    /\ liveCount \in Int
    /\ finishing \subseteq Tracks
    /\ events \in [Tracks -> Seq(Kinds)]
    /\ ringLen \in 0 .. RingCap /\ seen \in 0 .. RingCap
    /\ observed \in Nat /\ filling \in Nat

\* ... and the callers.
CallTypes ==
    /\ Len(pending) <= PendingCap
    /\ stopped \in BOOLEAN /\ closed \in BOOLEAN
    /\ closePc \in [Closers -> {"idle", "locked", "waiting", "returned", "ignored"}]
    /\ existing \subseteq Tracks
    /\ tangled \subseteq Tracks
    /\ calls \in 0 .. MaxCalls
    /\ removes \in [Tracks -> Nat]

LEMMA MixTypesStep ==
    ASSUME GainTypes, MixTypes, [Next]_vars
    PROVE  MixTypes'
<1> USE MixerAssumption DEF MixTypes
<1>1. CASE ReceiveOp
  <2>1. /\ pending # <<>> /\ Apply(Head(pending))
        /\ UNCHANGED <<ringLen, seen, observed, filling>>
    BY <1>1 DEF ReceiveOp, ring, device
  <2>2. PICK op \in Ops : op = Head(pending)
    BY <2>1, TailTyped DEF GainTypes
  <2>3. op.track \in Tracks
    BY OpsAre
  <2>4. /\ removed' \subseteq Tracks /\ done' \subseteq Tracks /\ finishing' \subseteq Tracks
        /\ liveCount' \in Int /\ pc' \in {"drain", "removed"}
    BY <2>1, <2>2, <2>3 DEF Apply, ApplyAdd, ApplyGain, ApplyRemove, outcome
  <2>5. events' \in [Tracks -> Seq(Kinds)]
    <3>1. events' = events \/ events' = [events EXCEPT ![op.track] = Append(@, "added")]
      BY <2>1, <2>2, Zenon DEF Apply, ApplyAdd, ApplyGain, ApplyRemove, outcome
    <3>2. Append(events[op.track], "added") \in Seq(Kinds)
      BY <2>3 DEF Kinds
    <3> QED
      BY <2>3, <3>1, <3>2
  <2> QED
    BY <2>1, <2>4, <2>5
<1>2. CASE PublishFinish
  <2>1. /\ pc \in {"removed", "ended"} /\ pc' \in {"drain", "mix"} /\ finishing' = {}
        /\ liveCount' = liveCount - Cardinality(finishing \cap LiveTracks)
        /\ events' = [t \in Tracks |-> IF t \in finishing THEN Append(events[t], pc)
                                                          ELSE events[t]]
        /\ UNCHANGED <<removed, done, ringLen, seen, observed, filling>>
    BY <1>2 DEF PublishFinish, Uncounted, ring, device
  <2>2. pc \in Kinds
    BY <2>1 DEF Kinds
  <2>3. \A t \in Tracks : Append(events[t], pc) \in Seq(Kinds) /\ events[t] \in Seq(Kinds)
    BY <2>2
  <2>4. events' \in [Tracks -> Seq(Kinds)]
    BY <2>1, <2>3
  <2>5. Cardinality(finishing \cap LiveTracks) \in Nat
    <3>1. IsFiniteSet(finishing \cap LiveTracks)
      BY FS_Subset
    <3> QED
      BY <3>1, FS_CardinalityType
  <2> QED
    BY <2>1, <2>4, <2>5
<1>3. ASSUME NEW t \in Tracks, MixTrack(t) \/ FinishTrack(t)
      PROVE  MixTypes'
  <2>1. /\ pc' \in {pc, "ended"} /\ done' \subseteq done \cup {t}
        /\ finishing' \subseteq finishing \cup {t}
        /\ UNCHANGED <<removed, liveCount, events, ringLen, seen, observed, filling>>
    BY <1>3 DEF MixTrack, FinishTrack, ring, device
  <2> QED
    BY <2>1
<1>4. CASE FlushOp
  <2>1. /\ pending # <<>> /\ done' = done \cup Flushed(Head(pending))
        /\ UNCHANGED <<pc, removed, liveCount, finishing, events, ringLen, seen, observed, filling>>
    BY <1>4 DEF FlushOp, owned, ring, device
  <2>2. done' \subseteq Tracks
    BY <2>1, TailTyped, OpsAre DEF Flushed, GainTypes
  <2> QED
    BY <2>1, <2>2
<1>5. CASE Quiet
  <2>1. UNCHANGED <<removed, liveCount, finishing, done, events, observed, filling>>
    BY <1>5, QuietLeaves DEF device
  <2>2. pc' \in {"drain", "check", "wait", "mix", "write", "finalize", "flush", "done"}
    BY <1>5, QuietMoves
  <2>3. ringLen' \in 0 .. RingCap /\ seen' \in 0 .. RingCap
    <3>1. CASE Drained \/ Check \/ WriteChunk
      BY <3>1 DEF Drained, Check, WriteChunk
    <3>2. CASE ReceiveStop \/ IdleTick \/ Mixed \/ FinishedAll \/ RunReturns
      BY <3>2 DEF ReceiveStop, IdleTick, Mixed, FinishedAll, RunReturns, ring
    <3> QED
      BY <1>5, <3>1, <3>2 DEF Quiet
  <2> QED
    BY <2>1, <2>2, <2>3
<1>6. CASE Callers
  BY <1>6, CallersLeaveMixing DEF mixing, owned, outcome, ring, device
<1>7. ASSUME NEW n \in Fills, FillObserve(n)
      PROVE  MixTypes'
  BY <1>7 DEF FillObserve, Larger, owned, outcome, ring
<1>8. CASE FillRead
  <2>1. ringLen' \in 0 .. RingCap
    BY <1>8 DEF FillRead, Larger
  <2> QED
    BY <1>8, <2>1 DEF FillRead, owned, outcome
<1>9. CASE UNCHANGED vars
  BY <1>9 DEF vars, owned, outcome, ring, device
<1> QED
  BY <1>1, <1>2, <1>3, <1>4, <1>5, <1>6, <1>7, <1>8, <1>9, NextSplit, RunSplit

\* A send takes the room it has found, and a receive makes room.
LEMMA ChannelHolds ==
    ASSUME GainTypes, Len(pending) <= PendingCap, [Next]_vars
    PROVE  Len(pending') <= PendingCap
<1> USE MixerAssumption
<1>1. ASSUME NEW op, Room, pending' = Append(pending, op)
      PROVE  Len(pending') <= PendingCap
  BY <1>1 DEF Room, GainTypes
<1>2. ASSUME pending # <<>>, pending' = Tail(pending)
      PROVE  Len(pending') <= PendingCap
  BY <1>2 DEF GainTypes
<1>3. CASE Run
  BY <1>2, <1>3, RunDrops DEF ReceiveOp
<1>4. CASE Callers
  <2>1. ASSUME NEW t \in Tracks, AddCheck(t) \/ AddSend(t) \/ AddStopped(t) \/ Remove(t)
        PROVE  Len(pending') <= PendingCap
    BY <1>1, <2>1 DEF AddCheck, AddSend, AddStopped, Remove
  <2>2. ASSUME NEW c \in Setters, NEW t \in Tracks, NEW g \in Gains, SetGainStore(c, t, g)
        PROVE  Len(pending') <= PendingCap
    BY <2>2 DEF SetGainStore
  <2>3. ASSUME NEW c \in Setters, SetGainSend(c) \/ SetGainStopped(c)
        PROVE  Len(pending') <= PendingCap
    BY <1>1, <2>3 DEF SetGainSend, SetGainStopped
  <2>4. ASSUME NEW k \in Closers, CloseCall(k) \/ CloseStop(k) \/ CloseReturn(k)
        PROVE  Len(pending') <= PendingCap
    BY <2>4 DEF CloseCall, CloseStop, CloseReturn
  <2> QED
    BY <1>4, <2>1, <2>2, <2>3, <2>4 DEF Callers
<1>5. CASE (\E n \in Fills : FillObserve(n)) \/ FillRead \/ UNCHANGED vars
  BY <1>5 DEF FillObserve, FillRead, vars
<1> QED
  BY <1>3, <1>4, <1>5, NextSplit

LEMMA CallTypesStep ==
    ASSUME GainTypes, CallTypes, [Next]_vars
    PROVE  CallTypes'
<1> USE MixerAssumption DEF CallTypes
<1>1. Len(pending') <= PendingCap
  BY ChannelHolds
<1>2. CASE Callers
  <2>1. ASSUME NEW t \in Tracks, AddCheck(t) \/ AddSend(t) \/ AddStopped(t)
        PROVE  CallTypes'
    BY <1>1, <2>1 DEF AddCheck, AddSend, AddStopped, closing
  <2>2. ASSUME NEW t \in Tracks, Remove(t)
        PROVE  CallTypes'
    <3>1. /\ calls' \in 0 .. MaxCalls /\ removes' \in [Tracks -> Nat]
          /\ UNCHANGED <<closing, tangled>>
      BY <2>2 DEF Remove
    <3> QED
      BY <1>1, <3>1 DEF closing
  <2>3. ASSUME NEW c \in Setters, NEW t \in Tracks, NEW g \in Gains, SetGainStore(c, t, g)
        PROVE  CallTypes'
    BY <1>1, <2>3 DEF SetGainStore, closing
  <2>4. ASSUME NEW c \in Setters, SetGainSend(c) \/ SetGainStopped(c)
        PROVE  CallTypes'
    BY <1>1, <2>4 DEF SetGainSend, SetGainStopped, closing
  <2>5. ASSUME NEW k \in Closers, CloseCall(k) \/ CloseStop(k) \/ CloseReturn(k)
        PROVE  CallTypes'
    <3>1. UNCHANGED <<tangled, calls, removes>>
      BY <2>5 DEF CloseCall, CloseStop, CloseReturn, callers
    <3>2. /\ stopped' \in BOOLEAN /\ closed' \in BOOLEAN /\ existing' \subseteq Tracks
          /\ closePc' \in [Closers -> {"idle", "locked", "waiting", "returned", "ignored"}]
      <4>1. CASE CloseCall(k)
        BY <4>1 DEF CloseCall
      <4>2. CASE CloseStop(k) \/ CloseReturn(k)
        BY <4>2 DEF CloseStop, CloseReturn
      <4> QED
        BY <2>5, <4>1, <4>2
    <3> QED
      BY <1>1, <3>1, <3>2
  <2> QED
    BY <1>2, <2>1, <2>2, <2>3, <2>4, <2>5 DEF Callers
<1>3. CASE Run
  BY <1>1, <1>3, RunLeavesCallers DEF closing, callers
<1>4. CASE (\E n \in Fills : FillObserve(n)) \/ FillRead \/ UNCHANGED vars
  BY <1>1, <1>4 DEF FillObserve, FillRead, vars, closing, callers
<1> QED
  BY <1>2, <1>3, <1>4, NextSplit

MixerTypes == TrackInd /\ GainTypes /\ MixTypes /\ CallTypes

\* The fields of the mixer and of its tracks keep their types: the channel never
\* holds more than its capacity, the ring no more than fits, and a mix pass has
\* only installed tracks to look at (mixer.go:381-411, 463-498).
THEOREM MixerFields == Spec => []TypeOK
<1>1. Init => MixerTypes
  <2> SUFFICES ASSUME Init PROVE MixerTypes
    OBVIOUS
  <2>1. MixTypes
    <3>1. events \in [Tracks -> Seq(Kinds)]
      BY DEF Init, Kinds
    <3> QED
      BY <3>1, MixerAssumption DEF Init, MixTypes
  <2>2. CallTypes
    <3>1. /\ removes \in [Tracks -> Nat] /\ Len(pending) = 0
          /\ stopped = FALSE /\ closed = FALSE /\ existing = {} /\ calls = 0 /\ tangled = {}
          /\ closePc \in [Closers -> {"idle", "locked", "waiting", "returned", "ignored"}]
      BY DEF Init
    <3>2. Len(pending) <= PendingCap /\ calls \in 0 .. MaxCalls
      BY <3>1, MixerAssumption
    <3> QED
      BY <3>1, <3>2 DEF CallTypes
  <2>3. TrackInd /\ GainTypes
    BY TrackInitial, GainInitial DEF GainInd
  <2> QED
    BY <2>1, <2>2, <2>3 DEF MixerTypes
<1>2. MixerTypes /\ [Next]_vars => MixerTypes'
  BY TrackStep, GainTypesStep, MixTypesStep, CallTypesStep DEF MixerTypes
<1>3. MixerTypes => TypeOK
  <2> SUFFICES ASSUME MixerTypes PROVE TypeOK
    OBVIOUS
  <2>1. setting \in [Setters -> Ops \cup {NoGain}]
    BY DEF MixerTypes, GainTypes, Ops
  <2>2. left \subseteq installed /\ (left # {} => pc \in {"mix", "ended"})
    BY DEF MixerTypes, TrackInd
  <2> QED
    BY <2>1, <2>2 DEF MixerTypes, GainTypes, MixTypes, CallTypes, TypeOK, Kinds
<1> QED
  BY <1>1, <1>2, <1>3, PTL DEF Spec

=============================================================================
