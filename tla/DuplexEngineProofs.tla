------------------------- MODULE DuplexEngineProofs --------------------------
(***************************************************************************)
(* Proofs about the two halves of a duplex.Engine that share no variable.  *)
(*                                                                         *)
(* Its life cycle (DuplexSession), for any number of callers of Start and  *)
(* Stop, any capacity of the Events channel and any number of events: what *)
(* a Stop that a Start overtakes leaves of the promises is part of the     *)
(* properties proved.                                                      *)
(*                                                                         *)
(* Its render half (DuplexRender), for any lengths of frames, fades and    *)
(* chunks and any number of feeds, boundaries and clears.                  *)
(***************************************************************************)
EXTENDS DuplexSession, DuplexRender, SequenceLemmas

-----------------------------------------------------------------------------
(* The life cycle: its inductive invariant.                                *)

Flags ==
    /\ eventsDone \in BOOLEAN /\ stop \in BOOLEAN /\ done \in BOOLEAN
    /\ stalled \in BOOLEAN /\ started \in BOOLEAN /\ stopped \in BOOLEAN
    /\ cancelled \in BOOLEAN /\ panic \in {"none", "send", "close"}

Places ==
    /\ at \in {"absent", "select", "send", "blocked", "stalling", "stallclose", "stalled",
               "leaving", "closing", "finalizing", "ending", "gone"}
    /\ starting \in [Starters -> {"out", "checked", "launched", "refused"}]
    /\ stopping \in [Stoppers -> {"out", "read", "close", "wait", "returned"}]
    /\ sawStarted \in [Stoppers -> BOOLEAN]

\* Whoever set stopped, and nobody else, is to close stop, once.
OneCloser ==
    /\ stop => /\ stopped
               /\ at \notin {"stallclose", "closing"}
               /\ \A c \in Stoppers : stopping[c] # "close"
    /\ \A c \in Stoppers : stopping[c] = "close" =>
           /\ at \notin {"stallclose", "closing"}
           /\ \A d \in Stoppers : stopping[d] = "close" => d = c
    /\ at \in {"stallclose", "stalled", "closing", "finalizing", "ending", "gone"} => stopped
    /\ \A c \in Stoppers : stopping[c] \in {"close", "wait", "returned"} => stopped

\* A Stop that returned without knowing of the audio goroutine.
Unaware == \E c \in Stoppers : Overtaken(c) /\ stopping[c] = "returned"

\* The Events channel is closed once the goroutine has sent its last event, or
\* by a Stop that knows of no goroutine; there may be one then, but only if the
\* Stop was overtaken.
ChannelClosed ==
    /\ eventsDone => stopped /\ (at \in {"absent", "ending", "gone"} \/ Unaware)
    /\ at \in {"ending", "gone"} => eventsDone
    /\ done <=> at = "gone"
    /\ started <=> at # "absent"
    /\ panic # "close" /\ (panic = "send" => Unaware)

LifeInd == Flags /\ Places /\ OneCloser /\ ChannelClosed /\ StopWaits

-----------------------------------------------------------------------------
LEMMA LifeInit == Init => LifeInd
BY DEF Init, LifeInd, Flags, Places, OneCloser, ChannelClosed, StopWaits

\* A Stop that was overtaken and has returned stays so.
LEMMA StaysUnaware ==
    ASSUME Unaware, started => started',
           \A c \in Stoppers : stopping[c] = "returned" =>
                                  stopping'[c] = "returned" /\ sawStarted'[c] = sawStarted[c]
    PROVE  Unaware'
BY Zenon DEF Unaware, Overtaken

LEMMA StartInd ==
    ASSUME LifeInd, NEW u \in Starters, StartCall(u) \/ StartLock(u)
    PROVE  LifeInd'
<1>0. Unaware => Unaware'
  BY StaysUnaware DEF StartCall, StartLock, flags
<1>1. CASE StartCall(u)
  BY <1>0, <1>1 DEF StartCall, LifeInd, Flags, Places, OneCloser, ChannelClosed, Overtaken,
     StopWaits, audio, pipe, flags
<1>2. CASE StartLock(u)
  BY <1>0, <1>2 DEF StartLock, MayStart, LifeInd, Flags, Places, OneCloser, ChannelClosed,
     Overtaken, StopWaits, pipe
<1> QED
  BY <1>1, <1>2

LEMMA StopReadInd ==
    ASSUME LifeInd, NEW c \in Stoppers, StopRead(c)
    PROVE  LifeInd'
<1>0. Unaware => Unaware'
  BY StaysUnaware DEF StopRead, flags, LifeInd, Places
<1> QED
  BY <1>0 DEF StopRead, LifeInd, Flags, Places, OneCloser, ChannelClosed, Overtaken,
     StopWaits, audio, pipe, flags

LEMMA StopStepInd ==
    ASSUME LifeInd, NEW c \in Stoppers, StopStep(c)
    PROVE  LifeInd'
<1>0. Unaware => Unaware'
  BY StaysUnaware DEF StopStep, StopLock, StopClose, StopReturn, flags, LifeInd, Places
<1>1. CASE StopLock(c)
  BY <1>0, <1>1 DEF StopLock, Shutdown, LifeInd, Flags, Places, OneCloser, ChannelClosed,
     Overtaken, StopWaits, audio, pipe
<1>2. CASE StopClose(c)
  BY <1>0, <1>2 DEF StopClose, CloseStop, LifeInd, Flags, Places, OneCloser, ChannelClosed,
     Overtaken, StopWaits, audio, pipe, flags
<1>3. CASE StopReturn(c)
  <2>1. sawStarted[c] => eventsDone /\ at = "gone"
    BY <1>3 DEF StopReturn, MayReturn, LifeInd, ChannelClosed
  <2>2. ~sawStarted[c] /\ started => Unaware'
    BY <1>3, Zenon DEF StopReturn, flags, LifeInd, Places, Unaware, Overtaken
  <2> QED
    BY <1>0, <1>3, <2>1, <2>2 DEF StopReturn, Finalize, LifeInd, Flags, Places, OneCloser,
       ChannelClosed, Overtaken, StopWaits, audio, pipe, flags
<1> QED
  BY <1>1, <1>2, <1>3 DEF StopStep

LEMMA TickInd ==
    ASSUME LifeInd, Cancel \/ Tick \/ Receive \/ Leave
    PROVE  LifeInd'
<1>0. Unaware => Unaware'
  BY StaysUnaware DEF Cancel, Tick, Receive, Leave, flags, calls
<1>1. CASE Cancel
  BY <1>0, <1>1 DEF Cancel, LifeInd, Flags, Places, OneCloser,
     ChannelClosed, Overtaken, StopWaits, audio, pipe, flags, calls
<1>2. CASE Tick
  BY <1>0, <1>2 DEF Tick, LifeInd, Flags, Places, OneCloser,
     ChannelClosed, Overtaken, StopWaits, pipe, flags, calls
<1>3. CASE Receive
  BY <1>0, <1>3 DEF Receive, LifeInd, Flags, Places, OneCloser,
     ChannelClosed, Overtaken, StopWaits, audio, flags, calls
<1>4. CASE Leave
  BY <1>0, <1>4 DEF Leave, LifeInd, Flags, Places, OneCloser,
     ChannelClosed, Overtaken, StopWaits, pipe, flags, calls
<1> QED
  BY <1>1, <1>2, <1>3, <1>4

LEMMA SendInd ==
    ASSUME LifeInd, Send
    PROVE  LifeInd'
<1>0. Unaware => Unaware'
  BY StaysUnaware DEF Send, Deliver, Discard, Block, Stall, StallLock, StallClose,
     StallReturns, flags, calls
<1>1. CASE Deliver \/ Discard \/ Block
  BY <1>0, <1>1 DEF Deliver, Discard, Block, SendReturns, LifeInd, Flags, Places, OneCloser,
     ChannelClosed, Overtaken, StopWaits, pipe, flags, calls
<1>2. CASE Stall
  BY <1>0, <1>2 DEF Stall, TimerSet, LifeInd, Flags, Places, OneCloser,
     ChannelClosed, Overtaken, StopWaits, pipe, flags, calls
<1>5. CASE StallReturns
  BY <1>0, <1>5 DEF StallReturns, SendReturns, LifeInd, Flags, Places, OneCloser,
     ChannelClosed, Overtaken, StopWaits, flags, calls
<1>3. CASE StallLock
  BY <1>0, <1>3 DEF StallLock, Shutdown, LifeInd, Flags, Places, OneCloser, ChannelClosed,
     Overtaken, StopWaits, pipe, calls
<1>4. CASE StallClose
  BY <1>0, <1>4 DEF StallClose, CloseStop, LifeInd, Flags, Places, OneCloser, ChannelClosed,
     Overtaken, StopWaits, pipe, flags, calls
<1> QED
  BY <1>1, <1>2, <1>3, <1>4, <1>5 DEF Send

LEMMA ExitInd ==
    ASSUME LifeInd, Exit
    PROVE  LifeInd'
<1>0. Unaware => Unaware'
  BY StaysUnaware DEF Exit, LeaveLock, LeaveClose, LeaveFinalize, LeaveDone, flags, calls
<1>1. CASE LeaveLock
  BY <1>0, <1>1 DEF LeaveLock, Shutdown, LifeInd, Flags, Places, OneCloser, ChannelClosed,
     Overtaken, StopWaits, pipe, calls
<1>2. CASE LeaveClose
  BY <1>0, <1>2 DEF LeaveClose, CloseStop, LifeInd, Flags, Places, OneCloser, ChannelClosed,
     Overtaken, StopWaits, pipe, flags, calls
<1>3. CASE LeaveFinalize
  BY <1>0, <1>3 DEF LeaveFinalize, Finalize, LifeInd, Flags, Places, OneCloser,
     ChannelClosed, Overtaken, StopWaits, pipe, flags, calls
<1>4. CASE LeaveDone
  BY <1>0, <1>4 DEF LeaveDone, LifeInd, Flags, Places, OneCloser,
     ChannelClosed, Overtaken, StopWaits, pipe, flags, calls
<1> QED
  BY <1>1, <1>2, <1>3, <1>4 DEF Exit

LEMMA LifeStutter ==
    ASSUME LifeInd, UNCHANGED vars
    PROVE  LifeInd'
BY DEF LifeInd, Flags, Places, OneCloser, ChannelClosed, Unaware, Overtaken, StopWaits, vars,
   audio, pipe, flags, calls

LEMMA LifeStep ==
    ASSUME LifeInd, [Next]_vars
    PROVE  LifeInd'
BY StartInd, StopReadInd, StopStepInd, TickInd, SendInd, ExitInd, LifeStutter DEF Next

LEMMA LifeInductive == Spec => []LifeInd
BY LifeInit, LifeStep, PTL DEF Spec

-----------------------------------------------------------------------------
\* However Starts, Stops, the context and a stalled consumer race, stop, done and
\* Events are each closed once; and an event is sent on the closed Events channel
\* only if a Start came between the critical sections of a Stop that has
\* returned (duplex.go:475-485).
THEOREM NeverPanics == Spec => []NoPanic
<1>1. LifeInd => NoPanic
  BY Zenon DEF LifeInd, ChannelClosed, Unaware, NoPanic
<1> QED
  BY <1>1, LifeInductive, PTL

\* When Stop has returned the Events channel is closed; and the audio goroutine
\* has exited, or never ran (duplex.go:473-474), unless a Start came between the
\* critical sections of that Stop.
THEOREM StopsWait == Spec => []StopWaits
<1>1. LifeInd => StopWaits
  BY DEF LifeInd
<1> QED
  BY <1>1, LifeInductive, PTL

-----------------------------------------------------------------------------
(* What the consumer gets.                                                 *)

\* The events the consumer has or will get.
Events == received \o channel

Numbered ==
    /\ sent \in Nat
    /\ received \in Seq(Nat) /\ channel \in Seq(Nat)
    /\ \A i \in DOMAIN Events : Events[i] \in 1 .. sent

OrderInd == LifeInd /\ Numbered /\ FifoUntilHalt

\* Receiving moves an event from the channel to the consumer, and nothing else.
LEMMA ReceiveMoves ==
    ASSUME NEW s \in Seq(Nat), NEW t \in Seq(Nat), t # <<>>
    PROVE  /\ Append(s, Head(t)) \in Seq(Nat) /\ Tail(t) \in Seq(Nat)
           /\ Append(s, Head(t)) \o Tail(t) = s \o t
<1>1. Len(t) >= 1 /\ Head(t) = t[1] /\ Tail(t) \in Seq(Nat) /\ Len(Tail(t)) = Len(t) - 1
  OBVIOUS
<1>2. \A i \in 1 .. Len(t) - 1 : Tail(t)[i] = t[i + 1]
  OBVIOUS
<1> DEFINE u == Append(s, Head(t)) \o Tail(t)
           v == s \o t
<1>3. u \in Seq(Nat) /\ v \in Seq(Nat) /\ Len(u) = Len(v)
  BY <1>1
<1>4. \A i \in 1 .. Len(v) : u[i] = v[i]
  BY <1>1, <1>2
<1>5. u = v
  BY <1>3, <1>4
<1> QED
  BY <1>1, <1>5

\* Sending puts the next number behind all others.
LEMMA SendAppends ==
    ASSUME NEW s \in Seq(Nat), NEW t \in Seq(Nat), NEW n \in Nat
    PROVE  /\ Append(t, n) \in Seq(Nat)
           /\ s \o Append(t, n) = Append(s \o t, n)
OBVIOUS

LEMMA OrderInit == Init => OrderInd
BY LifeInit DEF Init, OrderInd, Numbered, Events, FifoUntilHalt

\* Steps that neither send nor receive.
LEMMA OrderSame ==
    ASSUME OrderInd, LifeInd', UNCHANGED <<received, channel>>,
           sent' = sent \/ (sent' = sent + 1 /\ stopped), stopped => stopped'
    PROVE  OrderInd'
BY DEF OrderInd, Numbered, Events, FifoUntilHalt, LifeInd, Flags

LEMMA OrderReceive ==
    ASSUME OrderInd, LifeInd', Receive
    PROVE  OrderInd'
<1>1. channel # <<>> /\ received' = Append(received, Head(channel))
      /\ channel' = Tail(channel) /\ UNCHANGED <<sent, stopped>>
  BY DEF Receive, flags
<1>2. Events' = Events /\ received' \in Seq(Nat) /\ channel' \in Seq(Nat)
  BY <1>1, ReceiveMoves DEF OrderInd, Numbered, Events
<1> QED
  BY <1>1, <1>2 DEF OrderInd, Numbered, Events, FifoUntilHalt

LEMMA OrderDeliver ==
    ASSUME OrderInd, LifeInd', Deliver
    PROVE  OrderInd'
<1>1. CASE eventsDone
  <2>1. UNCHANGED <<received, channel, sent, stopped>>
    BY <1>1 DEF Deliver, flags
  <2> QED
    BY <2>1, OrderSame
<1> SUFFICES ASSUME ~eventsDone PROVE OrderInd'
  BY <1>1
<1>2. /\ channel' = Append(channel, sent + 1) /\ sent' = sent + 1
      /\ UNCHANGED <<received, stopped>>
  BY DEF Deliver, SendReturns, flags
<1>3. /\ sent \in Nat /\ Events \in Seq(Nat) /\ received \in Seq(Nat)
      /\ channel' \in Seq(Nat) /\ Events' = Append(Events, sent + 1)
  BY <1>2, SendAppends DEF OrderInd, Numbered, Events
<1>4. /\ \A i \in DOMAIN Events : Events[i] \in 1 .. sent
      /\ \A i, j \in DOMAIN Events : i < j => Events[i] < Events[j]
      /\ ~stopped => Events = [i \in 1 .. sent |-> i]
  BY DEF OrderInd, Numbered, Events, FifoUntilHalt
<1> HIDE DEF Events
<1>5. \A i \in DOMAIN Events' : Events'[i] \in 1 .. sent'
  BY <1>2, <1>3, <1>4
<1>6. \A i, j \in DOMAIN Events' : i < j => Events'[i] < Events'[j]
  BY <1>3, <1>4
<1>7. ~stopped' => Events' = [i \in 1 .. sent' |-> i]
  BY <1>2, <1>3, <1>4
<1>8. Numbered'
  BY <1>2, <1>3, <1>5 DEF Numbered
<1>9. FifoUntilHalt'
  <2>1. FifoUntilHalt' <=>
          /\ \A i, j \in DOMAIN Events' : i < j => Events'[i] < Events'[j]
          /\ ~stopped' => Events' = [i \in 1 .. sent' |-> i]
    BY ZenonT(30) DEF FifoUntilHalt, Events
  <2> QED
    BY <2>1, <1>6, <1>7
<1> QED
  BY <1>8, <1>9 DEF OrderInd

\* The goroutine gives an event up only when stop is closed, or by stalling,
\* which has set stopped.
LEMMA OrderGiveUp ==
    ASSUME OrderInd, LifeInd', Discard \/ StallReturns
    PROVE  OrderInd'
<1>1. /\ UNCHANGED <<received, channel, stopped>> /\ sent' = sent + 1 /\ stopped
  BY DEF Discard, StallReturns, SendReturns, MayDiscard, flags, OrderInd, LifeInd, OneCloser
<1> QED
  BY <1>1, OrderSame

LEMMA OrderStep ==
    ASSUME OrderInd, [Next]_vars
    PROVE  OrderInd'
<1>1. LifeInd'
  BY LifeStep DEF OrderInd
<1>2. CASE Receive
  BY <1>1, <1>2, OrderReceive
<1>3. CASE Deliver
  BY <1>1, <1>3, OrderDeliver
<1>4. CASE Discard \/ StallReturns
  BY <1>1, <1>4, OrderGiveUp
<1>5. CASE \/ \E u \in Starters : StartCall(u) \/ StartLock(u)
           \/ \E c \in Stoppers : StopRead(c) \/ StopStep(c)
           \/ Cancel \/ Tick \/ Leave \/ Exit \/ UNCHANGED vars
           \/ Block \/ Stall \/ StallLock \/ StallClose
  <2>1. UNCHANGED <<received, channel, sent>> /\ (stopped => stopped')
    BY <1>5 DEF StartCall, StartLock, StopRead, StopStep, StopLock, StopClose, StopReturn,
       Cancel, Tick, Leave, Exit, LeaveLock, LeaveClose, LeaveFinalize, LeaveDone, Block,
       Stall, StallLock, StallClose, vars, pipe, flags
  <2> QED
    BY <1>1, <2>1, OrderSame
<1> QED
  BY <1>2, <1>3, <1>4, <1>5 DEF Next, Send

\* What the consumer has and will get is in the order of the sends, and nothing
\* is missing until the engine is stopped (duplex/events.go:44-45).
THEOREM StrictlyFifo == Spec => []FifoUntilHalt
<1>1. OrderInd => FifoUntilHalt
  BY DEF OrderInd
<1> QED
  BY <1>1, OrderInit, OrderStep, PTL DEF Spec

-----------------------------------------------------------------------------
(* The types of the life cycle.                                            *)

Sending == {"send", "blocked", "stalling", "stallclose", "stalled"}

\* A tick sends no more than it has, and the channel holds no more than fits.
BurstInv ==
    /\ burst \in 0 .. Burst /\ sent \in Nat /\ sent + burst <= MaxEvents
    /\ at \in Sending => burst > 0
    /\ channel \in Seq(Nat) /\ Len(channel) <= EventBuffer

LEMMA BurstInit == Init => BurstInv
BY SessionAssumption DEF Init, BurstInv, Sending

\* Steps that send nothing.
LEMMA BurstSame ==
    ASSUME BurstInv, UNCHANGED <<burst, sent, channel>>, at' \in Sending => at \in Sending
    PROVE  BurstInv'
BY DEF BurstInv

\* A send that returns is one event of the tick.
LEMMA BurstSent ==
    ASSUME BurstInv, at \in Sending, SendReturns,
           channel' \in Seq(Nat), Len(channel') <= EventBuffer
    PROVE  BurstInv'
<1>1. /\ burst' = burst - 1 /\ sent' = sent + 1 /\ at' = IF burst = 1 THEN "select" ELSE "send"
      /\ burst \in 1 .. Burst /\ sent \in Nat /\ sent + burst <= MaxEvents
  BY SessionAssumption DEF SendReturns, BurstInv
<1>2. burst' \in 0 .. Burst /\ sent' \in Nat /\ sent' + burst' <= MaxEvents
  BY <1>1, SessionAssumption
<1>3. at' \in Sending => burst' > 0
  BY <1>1 DEF Sending
<1> QED
  BY <1>2, <1>3 DEF BurstInv

LEMMA BurstStep ==
    ASSUME OrderInd, BurstInv, [Next]_vars
    PROVE  BurstInv'
<1>1. CASE Tick
  <2>1. PICK n \in 0 .. Burst : /\ sent + n <= MaxEvents /\ burst' = n
                                /\ at' = IF n = 0 THEN "select" ELSE "send"
    BY <1>1 DEF Tick
  <2>2. UNCHANGED <<sent, channel>>
    BY <1>1 DEF Tick, pipe
  <2> QED
    BY <2>1, <2>2 DEF BurstInv, Sending
<1>2. CASE Deliver
  <2>1. CASE eventsDone
    <3>1. UNCHANGED <<burst, sent, channel>> /\ at' = "leaving"
      BY <1>2, <2>1 DEF Deliver
    <3> QED
      BY <3>1, BurstSame DEF Sending
  <2> SUFFICES ASSUME ~eventsDone PROVE BurstInv'
    BY <2>1
  <2>4. at \in Sending
    BY <1>2 DEF Deliver, Sending
  <2>2. SendReturns /\ Room /\ channel' = Append(channel, sent + 1)
    BY <1>2 DEF Deliver
  <2>3. channel' \in Seq(Nat) /\ Len(channel') <= EventBuffer
    BY <2>2, SessionAssumption DEF Room, BurstInv
  <2> QED
    BY <2>2, <2>3, <2>4, BurstSent
<1>3. CASE Discard \/ StallReturns
  <2>1. SendReturns /\ at \in Sending /\ channel' = channel
    BY <1>3 DEF Discard, StallReturns, Sending
  <2> QED
    BY <2>1, BurstSent DEF BurstInv
<1>4. CASE Receive
  <2>1. /\ channel # <<>> /\ channel' = Tail(channel) /\ UNCHANGED <<burst, sent, at>>
    BY <1>4 DEF Receive, audio
  <2>2. channel' \in Seq(Nat) /\ Len(channel') <= EventBuffer
    BY <2>1, SessionAssumption DEF BurstInv
  <2> QED
    BY <2>1, <2>2 DEF BurstInv
<1>5. CASE Block \/ Stall \/ StallLock \/ StallClose
  <2>1. UNCHANGED <<burst, sent, channel>> /\ at \in Sending
    BY <1>5 DEF Block, Stall, StallLock, StallClose, TimerSet, pipe, Sending
  <2> QED
    BY <2>1, BurstSame
<1>6. CASE \/ \E u \in Starters : StartCall(u) \/ StartLock(u)
           \/ \E c \in Stoppers : StopRead(c) \/ StopStep(c)
           \/ Cancel \/ Leave \/ UNCHANGED vars
  <2>1. UNCHANGED <<burst, sent, channel>> /\ (at' = at \/ at' \in {"select", "leaving"})
    BY <1>6 DEF StartCall, StartLock, StopRead, StopStep, StopLock, StopClose, StopReturn,
       Cancel, Leave, vars, pipe, audio
  <2> QED
    BY <2>1, BurstSame DEF Sending
<1>7. CASE Exit
  <2>1. /\ UNCHANGED <<burst, sent, channel>>
        /\ at' \in {"closing", "finalizing", "ending", "gone"}
    BY <1>7 DEF Exit, LeaveLock, LeaveClose, LeaveFinalize, LeaveDone, Shutdown, pipe
  <2> QED
    BY <2>1, BurstSame DEF Sending
<1> QED
  BY <1>1, <1>2, <1>3, <1>4, <1>5, <1>6, <1>7 DEF Next, Send

LEMMA SeqWithin ==
    ASSUME NEW s \in Seq(Nat), NEW T, \A i \in 1 .. Len(s) : s[i] \in T
    PROVE  s \in Seq(T)
OBVIOUS

\* What two sequences are within when their concatenation is.
LEMMA WithinBoth ==
    ASSUME NEW r \in Seq(Nat), NEW c \in Seq(Nat), NEW m \in Nat, NEW n \in 0 .. m,
           \A i \in DOMAIN (r \o c) : (r \o c)[i] \in 1 .. n
    PROVE  r \in Seq(1 .. m) /\ c \in Seq(1 .. m)
<1>1. /\ Len(r) \in Nat /\ Len(c) \in Nat /\ DOMAIN (r \o c) = 1 .. Len(r) + Len(c)
      /\ \A i \in 1 .. Len(r) : (r \o c)[i] = r[i]
      /\ \A i \in 1 .. Len(c) : (r \o c)[Len(r) + i] = c[i]
  OBVIOUS
<1>2. ASSUME NEW i \in 1 .. Len(r) PROVE r[i] \in 1 .. m
  <2>1. i \in DOMAIN (r \o c) /\ (r \o c)[i] = r[i]
    BY <1>1
  <2>2. r[i] \in 1 .. n
    BY <2>1, Zenon
  <2> QED
    BY <2>2
<1>3. ASSUME NEW i \in 1 .. Len(c) PROVE c[i] \in 1 .. m
  <2>1. Len(r) + i \in DOMAIN (r \o c) /\ (r \o c)[Len(r) + i] = c[i]
    BY <1>1
  <2>2. c[i] \in 1 .. n
    BY <2>1, Zenon
  <2> QED
    BY <2>2
<1>4. r \in Seq(1 .. m)
  BY <1>2, SeqWithin, Zenon
<1>5. c \in Seq(1 .. m)
  BY <1>3, SeqWithin, Zenon
<1> QED
  BY <1>4, <1>5

\* The goroutine and the callers are at their places, a tick sends no more than
\* its events, and the Events channel never holds more than its capacity.
THEOREM SessionTypes == Spec => []TypeOK
<1>1. ASSUME OrderInd, BurstInv PROVE TypeOK
  <2>1. sent \in 0 .. MaxEvents /\ sent <= MaxEvents
    BY <1>1, SessionAssumption DEF BurstInv
  <2>2. /\ received \in Seq(Nat) /\ channel \in Seq(Nat) /\ Len(channel) <= EventBuffer
        /\ \A i \in DOMAIN (received \o channel) : (received \o channel)[i] \in 1 .. sent
    BY <1>1, Zenon DEF OrderInd, Numbered, BurstInv, Events
  <2>3. MaxEvents \in Nat
    BY SessionAssumption
  <2>5. received \in Seq(1 .. MaxEvents) /\ channel \in Seq(1 .. MaxEvents)
    BY <2>1, <2>2, <2>3, WithinBoth, Zenon
  <2>6. Flags /\ Places
    BY <1>1 DEF OrderInd, LifeInd
  <2> QED
    BY <1>1, <2>1, <2>2, <2>5, <2>6 DEF Flags, Places, BurstInv, Sending, TypeOK
<1> QED
  BY <1>1, OrderInit, OrderStep, BurstInit, BurstStep, PTL DEF Spec

-----------------------------------------------------------------------------
(* The render half: re-framing.                                            *)

LEMMA FrameLength == FrameSamples \in Nat \ {0}
BY RenderAssumption

\* The i-th frame's worth of samples begins after i - 1 others.
LEMMA Cutting ==
    ASSUME NEW n \in Nat
    PROVE  /\ n \div FrameSamples \in Nat
           /\ (n \div FrameSamples) * FrameSamples \in 0 .. n
           /\ n - (n \div FrameSamples) * FrameSamples < FrameSamples
           /\ \A i \in 1 .. n \div FrameSamples :
                /\ (i - 1) * FrameSamples \in Nat
                /\ i * FrameSamples = (i - 1) * FrameSamples + FrameSamples
                /\ i * FrameSamples <= n
                /\ i > 1 => (i - 1) * FrameSamples >= FrameSamples
<1>1. PICK k : k = FrameSamples
  OBVIOUS
<1>2. k \in Nat \ {0}
  BY <1>1, FrameLength
<1>3. PICK q : q = n \div k
  OBVIOUS
<1>4. q \in Nat /\ q * k \in 0 .. n /\ n - q * k < k
  BY <1>2, <1>3, Z3
<1>5. ASSUME NEW i \in 1 .. q
      PROVE  /\ (i - 1) * k \in Nat /\ i * k = (i - 1) * k + k /\ i * k <= n
             /\ i > 1 => (i - 1) * k >= k
  <2>1. PICK j \in Nat : j = i - 1
    BY <1>4
  <2>2. j * k \in Nat /\ (j + 1) * k = j * k + k
    BY <1>2, Z3
  <2>3. j >= 1 => j * k >= k
    BY <1>2, Z3
  <2>4. PICK d \in Nat : q = (j + 1) + d
    <3>1. q - (j + 1) \in Nat /\ q = (j + 1) + (q - (j + 1))
      BY <1>4, <2>1
    <3> QED
      BY <3>1
  <2>5. q * k = (j + 1) * k + d * k /\ d * k \in Nat
    BY <1>2, <2>4, Z3
  <2> QED
    BY <1>2, <1>4, <2>1, <2>2, <2>3, <2>5
<1> QED
  BY <1>1, <1>3, <1>4, <1>5, Zenon

LEMMA WholeIs ==
    ASSUME NEW S, NEW pcm \in Seq(S)
    PROVE  /\ Whole(pcm) \in Seq(Seq(S))
           /\ Len(Whole(pcm)) = Len(pcm) \div FrameSamples
           /\ \A i \in 1 .. Len(Whole(pcm)) :
                /\ Len(Whole(pcm)[i]) = FrameSamples
                /\ \A j \in 1 .. FrameSamples : Whole(pcm)[i][j] = pcm[(i - 1) * FrameSamples + j]
<1>1. PICK n \in Nat : n = Len(pcm)
  OBVIOUS
<1>2. PICK q \in Nat : q = n \div FrameSamples
  BY Cutting
<1>3. ASSUME NEW i \in 1 .. q
      PROVE  LET x == SubSeq(pcm, (i - 1) * FrameSamples + 1, i * FrameSamples)
             IN x \in Seq(S) /\ Len(x) = FrameSamples
                /\ \A j \in 1 .. FrameSamples : x[j] = pcm[(i - 1) * FrameSamples + j]
  <2>1. /\ (i - 1) * FrameSamples \in Nat
        /\ i * FrameSamples = (i - 1) * FrameSamples + FrameSamples
        /\ i * FrameSamples <= n
    BY <1>2, Cutting
  <2>2. PICK m, l : m = (i - 1) * FrameSamples /\ l = i * FrameSamples
    OBVIOUS
  <2>3. m \in 0 .. Len(pcm) /\ l \in m .. Len(pcm) /\ l - m = FrameSamples
    BY <1>1, <2>1, <2>2, FrameLength
  <2>4. SubSeq(pcm, m + 1, l) \in Seq(S) /\ Len(SubSeq(pcm, m + 1, l)) = l - m
        /\ \A j \in 1 .. l - m : SubSeq(pcm, m + 1, l)[j] = pcm[m + j]
    BY <2>3, CutType
  <2> QED
    BY <2>2, <2>3, <2>4, Zenon
<1>4. Whole(pcm) = [i \in 1 .. q |-> SubSeq(pcm, (i - 1) * FrameSamples + 1, i * FrameSamples)]
  BY <1>1, <1>2, Zenon DEF Whole
<1>5. /\ DOMAIN Whole(pcm) = 1 .. q
      /\ \A i \in 1 .. q : Whole(pcm)[i] = SubSeq(pcm, (i - 1) * FrameSamples + 1, i * FrameSamples)
  BY <1>4, Zenon
<1>6. Whole(pcm) \in [1 .. q -> Seq(S)]
  BY <1>3, <1>4, Zenon
<1>7. Whole(pcm) \in Seq(Seq(S)) /\ Len(Whole(pcm)) = q
  BY <1>6
<1> QED
  BY <1>1, <1>2, <1>3, <1>5, <1>7, Zenon

LEMMA RestIs ==
    ASSUME NEW S, NEW pcm \in Seq(S)
    PROVE  LET q == Len(pcm) \div FrameSamples
           IN /\ Rest(pcm) \in Seq(S)
              /\ Len(Rest(pcm)) = Len(pcm) - q * FrameSamples
              /\ Len(Rest(pcm)) < FrameSamples
              /\ \A j \in 1 .. Len(Rest(pcm)) : Rest(pcm)[j] = pcm[q * FrameSamples + j]
<1>1. PICK n \in Nat : n = Len(pcm)
  OBVIOUS
<1>2. PICK m : m = (n \div FrameSamples) * FrameSamples
  OBVIOUS
<1>3. m \in 0 .. n /\ n - m < FrameSamples
  BY <1>2, Cutting
<1>4. Rest(pcm) = SubSeq(pcm, m + 1, n)
  BY <1>1, <1>2, Zenon DEF Rest
<1>5. Rest(pcm) \in Seq(S) /\ Len(Rest(pcm)) = n - m
      /\ \A j \in 1 .. n - m : Rest(pcm)[j] = pcm[m + j]
  BY <1>1, <1>3, <1>4, CutType
<1> QED
  BY <1>1, <1>2, <1>3, <1>5

LEMMA CutAppend ==
    ASSUME NEW S, NEW s \in Seq(S), NEW k \in Nat, k + 1 <= Len(s)
    PROVE  /\ SubSeq(s, 1, k) \in Seq(S) /\ s[k + 1] \in S
           /\ SubSeq(s, 1, k + 1) = Append(SubSeq(s, 1, k), s[k + 1])
OBVIOUS

\* The whole frames and the rest, one after another, are what was cut up.
LEMMA NothingCutOff ==
    ASSUME NEW S, NEW pcm \in Seq(S)
    PROVE  FlattenSeq(Whole(pcm)) \o Rest(pcm) = pcm
<1>1. PICK n \in Nat : n = Len(pcm)
  OBVIOUS
<1>2. PICK q \in Nat : q = n \div FrameSamples
  BY Cutting
<1>3. PICK w \in Seq(Seq(S)) : w = Whole(pcm) /\ Len(w) = q
  BY <1>1, <1>2, WholeIs, Zenon
<1>4. \A k \in 1 .. q : w[k] = SubSeq(pcm, (k - 1) * FrameSamples + 1, k * FrameSamples)
  BY <1>1, <1>2, <1>3, Zenon DEF Whole
<1> DEFINE Good == {k \in Nat : k <= q =>
                       FlattenSeq(SubSeq(w, 1, k)) = SubSeq(pcm, 1, k * FrameSamples)}
<1>5. 0 \in Good
  <2>1. SubSeq(w, 1, 0) = <<>> /\ SubSeq(pcm, 1, 0) = <<>>
    BY <1>3
  <2>2. 0 * FrameSamples = 0
    BY FrameLength, Z3
  <2> QED
    BY <2>1, <2>2, FlattenEmpty
<1>6. ASSUME NEW k \in Nat, k \in Good PROVE k + 1 \in Good
  <2> SUFFICES ASSUME k + 1 <= q
               PROVE  FlattenSeq(SubSeq(w, 1, k + 1)) = SubSeq(pcm, 1, (k + 1) * FrameSamples)
    OBVIOUS
  <2>1. FlattenSeq(SubSeq(w, 1, k)) = SubSeq(pcm, 1, k * FrameSamples)
    BY <1>2, <1>6
  <2>2. k + 1 \in 1 .. q /\ (k + 1) - 1 = k
    BY <1>2
  <2>3. k * FrameSamples \in Nat /\ (k + 1) * FrameSamples = k * FrameSamples + FrameSamples
        /\ (k + 1) * FrameSamples <= n
    BY <1>2, <2>2, Cutting, Zenon
  <2>4. PICK m, l : m = k * FrameSamples /\ l = (k + 1) * FrameSamples
    OBVIOUS
  <2>5. m \in 0 .. Len(pcm) /\ l \in m .. Len(pcm)
    BY <1>1, <2>3, <2>4, FrameLength
  <2>6. w[k + 1] = SubSeq(pcm, m + 1, l)
    BY <1>4, <2>2, <2>4, Zenon
  <2>7. SubSeq(w, 1, k) \in Seq(Seq(S)) /\ w[k + 1] \in Seq(S)
        /\ SubSeq(w, 1, k + 1) = Append(SubSeq(w, 1, k), w[k + 1])
    BY <1>3, CutAppend
  <2>8. FlattenSeq(SubSeq(w, 1, k + 1)) = SubSeq(pcm, 1, m) \o SubSeq(pcm, m + 1, l)
    <3>1. FlattenSeq(Append(SubSeq(w, 1, k), w[k + 1])) = FlattenSeq(SubSeq(w, 1, k)) \o w[k + 1]
      BY <2>7, FlattenAppend
    <3> QED
      BY <2>1, <2>4, <2>6, <2>7, <3>1, Zenon
  <2>9. SubSeq(pcm, 1, m) \o SubSeq(pcm, m + 1, l) = SubSeq(pcm, 1, l)
    <3>1. 0 \in 0 .. Len(pcm) /\ m \in 0 .. Len(pcm) /\ l \in m .. Len(pcm)
      BY <2>5
    <3>2. SubSeq(pcm, 0 + 1, m) \o SubSeq(pcm, m + 1, l) = SubSeq(pcm, 0 + 1, l)
      BY <3>1, CutTwice
    <3>3. 0 + 1 = 1
      OBVIOUS
    <3> QED
      BY <3>2, <3>3, Zenon
  <2> QED
    BY <2>4, <2>8, <2>9, Zenon
<1>7. q \in Good
  <2> HIDE DEF Good
  <2> QED
    BY <1>2, <1>5, <1>6, Induction, Zenon
<1>8. FlattenSeq(w) = SubSeq(pcm, 1, q * FrameSamples)
  <2>1. SubSeq(w, 1, q) = w
    BY <1>3
  <2>2. FlattenSeq(SubSeq(w, 1, q)) = SubSeq(pcm, 1, q * FrameSamples)
    BY <1>2, <1>7
  <2> QED
    BY <2>1, <2>2, Zenon
<1>9. PICK m : m = q * FrameSamples
  OBVIOUS
<1>10. m \in 0 .. Len(pcm)
  BY <1>1, <1>2, <1>9, Cutting
<1>11. Rest(pcm) = SubSeq(pcm, m + 1, n)
  BY <1>1, <1>2, <1>9, Zenon DEF Rest
<1>12. SubSeq(pcm, 1, m) \o SubSeq(pcm, m + 1, n) = pcm
  <2>1. 0 \in 0 .. Len(pcm) /\ m \in 0 .. Len(pcm) /\ n \in m .. Len(pcm)
    BY <1>1, <1>10
  <2>2. SubSeq(pcm, 0 + 1, m) \o SubSeq(pcm, m + 1, n) = SubSeq(pcm, 0 + 1, n)
    BY <2>1, CutTwice
  <2>3. SubSeq(pcm, 1, n) = pcm
    BY <1>1
  <2>4. 0 + 1 = 1
    OBVIOUS
  <2> QED
    BY <2>2, <2>3, <2>4, Zenon
<1> QED
  BY <1>3, <1>8, <1>9, <1>11, <1>12, Zenon

-----------------------------------------------------------------------------
(* The queue.                                                              *)

FrameSet == [samples : Seq(Nat), seam : BOOLEAN]
VoiceOf(fs) == [i \in DOMAIN fs |-> fs[i].samples]

LEMMA EnqueueIs ==
    ASSUME NEW w \in Seq(Seq(Nat)), NEW seam \in BOOLEAN
    PROVE  /\ Enqueue(w, seam) \in Seq(FrameSet)
           /\ Len(Enqueue(w, seam)) = Len(w)
           /\ \A i \in 1 .. Len(w) :
                Enqueue(w, seam)[i] = [samples |-> w[i], seam |-> seam /\ i = 1]
<1>1. \A i \in 1 .. Len(w) : [samples |-> w[i], seam |-> seam /\ i = 1] \in FrameSet
  <2>1. \A i \in 1 .. Len(w) : w[i] \in Seq(Nat) /\ (seam /\ i = 1) \in BOOLEAN
    OBVIOUS
  <2> QED
    BY <2>1, Zenon DEF FrameSet
<1>2. Enqueue(w, seam) = [i \in 1 .. Len(w) |-> [samples |-> w[i], seam |-> seam /\ i = 1]]
  BY Zenon DEF Enqueue
<1>3. Enqueue(w, seam) \in [1 .. Len(w) -> FrameSet]
      /\ \A i \in 1 .. Len(w) : Enqueue(w, seam)[i] = [samples |-> w[i], seam |-> seam /\ i = 1]
  BY <1>1, <1>2, Zenon
<1>4. PICK e : e = Enqueue(w, seam)
  OBVIOUS
<1>5. e \in [1 .. Len(w) -> FrameSet]
  BY <1>3, <1>4, Zenon
<1>6. e \in Seq(FrameSet) /\ Len(e) = Len(w)
  <2>1. PICK n \in Nat : n = Len(w)
    OBVIOUS
  <2>2. e \in [1 .. n -> FrameSet]
    BY <1>5, <2>1, Zenon
  <2>3. e \in Seq(FrameSet) /\ Len(e) = n
    BY <2>2
  <2> QED
    BY <2>1, <2>3
<1> QED
  BY <1>3, <1>4, <1>6, Zenon

LEMMA FrameFields ==
    ASSUME NEW x \in FrameSet
    PROVE  x.samples \in Seq(Nat) /\ x.seam \in BOOLEAN
BY DEF FrameSet

LEMMA VoiceType ==
    ASSUME NEW fs \in Seq(FrameSet)
    PROVE  /\ VoiceOf(fs) \in Seq(Seq(Nat)) /\ Len(VoiceOf(fs)) = Len(fs)
           /\ \A i \in 1 .. Len(fs) : VoiceOf(fs)[i] = fs[i].samples
<1>1. \A i \in 1 .. Len(fs) : fs[i].samples \in Seq(Nat)
  <2>1. \A i \in 1 .. Len(fs) : fs[i] \in FrameSet
    OBVIOUS
  <2> QED
    BY <2>1, FrameFields, Zenon
<1>2. DOMAIN fs = 1 .. Len(fs)
  OBVIOUS
<1>3. VoiceOf(fs) \in [1 .. Len(fs) -> Seq(Nat)]
      /\ \A i \in 1 .. Len(fs) : VoiceOf(fs)[i] = fs[i].samples
  BY <1>1, <1>2, Zenon DEF VoiceOf
<1> QED
  BY <1>3

LEMMA VoiceConcat ==
    ASSUME NEW fs \in Seq(FrameSet), NEW gs \in Seq(FrameSet)
    PROVE  VoiceOf(fs \o gs) = VoiceOf(fs) \o VoiceOf(gs)
<1>1. PICK hs \in Seq(FrameSet) : hs = fs \o gs
  BY ConcatIs
<1>2. /\ Len(hs) = Len(fs) + Len(gs)
      /\ \A i \in 1 .. Len(fs) : hs[i] = fs[i]
      /\ \A i \in 1 .. Len(gs) : hs[Len(fs) + i] = gs[i]
  BY <1>1, ConcatIs
<1>3. /\ VoiceOf(fs) \in Seq(Seq(Nat)) /\ VoiceOf(gs) \in Seq(Seq(Nat))
      /\ VoiceOf(hs) \in Seq(Seq(Nat))
      /\ Len(VoiceOf(fs)) = Len(fs) /\ Len(VoiceOf(gs)) = Len(gs) /\ Len(VoiceOf(hs)) = Len(hs)
  BY VoiceType, Zenon
<1>4. \A i \in 1 .. Len(fs) : VoiceOf(hs)[i] = VoiceOf(fs)[i]
  <2> SUFFICES ASSUME NEW i \in 1 .. Len(fs) PROVE VoiceOf(hs)[i] = VoiceOf(fs)[i]
    OBVIOUS
  <2>1. i \in 1 .. Len(hs)
    BY <1>2
  <2> QED
    BY <1>2, <2>1, VoiceType, Zenon
<1>5. \A i \in 1 .. Len(gs) : VoiceOf(hs)[Len(fs) + i] = VoiceOf(gs)[i]
  <2> SUFFICES ASSUME NEW i \in 1 .. Len(gs) PROVE VoiceOf(hs)[Len(fs) + i] = VoiceOf(gs)[i]
    OBVIOUS
  <2>1. Len(fs) + i \in 1 .. Len(hs)
    BY <1>2
  <2> QED
    BY <1>2, <2>1, VoiceType, Zenon
<1>6. VoiceOf(hs) = VoiceOf(fs) \o VoiceOf(gs)
  <2>1. PICK a, b, c : a = VoiceOf(fs) /\ b = VoiceOf(gs) /\ c = VoiceOf(hs)
    OBVIOUS
  <2>2. /\ a \in Seq(Seq(Nat)) /\ b \in Seq(Seq(Nat)) /\ c \in Seq(Seq(Nat))
        /\ Len(c) = Len(a) + Len(b)
        /\ \A i \in 1 .. Len(a) : c[i] = a[i]
        /\ \A i \in 1 .. Len(b) : c[Len(a) + i] = b[i]
    BY <1>2, <1>3, <1>4, <1>5, <2>1, Zenon
  <2>3. c = a \o b
    BY <2>2, ConcatOnly, Zenon
  <2> QED
    BY <2>1, <2>3, Zenon
<1> QED
  BY <1>1, <1>6, Zenon

\* What is queued becomes audio in the order of the queue.
LEMMA FlatVoice ==
    ASSUME NEW fs \in Seq(FrameSet), NEW gs \in Seq(FrameSet)
    PROVE  /\ FlattenSeq(VoiceOf(fs)) \in Seq(Nat)
           /\ FlattenSeq(VoiceOf(fs \o gs)) = FlattenSeq(VoiceOf(fs)) \o FlattenSeq(VoiceOf(gs))
<1>1. VoiceOf(fs) \in Seq(Seq(Nat)) /\ VoiceOf(gs) \in Seq(Seq(Nat))
  BY VoiceType
<1>2. FlattenSeq(VoiceOf(fs) \o VoiceOf(gs)) = FlattenSeq(VoiceOf(fs)) \o FlattenSeq(VoiceOf(gs))
  BY <1>1, FlattenConcat
<1> QED
  BY <1>1, <1>2, VoiceConcat, FlattenType, Zenon

LEMMA EnqueuedVoice ==
    ASSUME NEW w \in Seq(Seq(Nat)), NEW seam \in BOOLEAN
    PROVE  VoiceOf(Enqueue(w, seam)) = w
<1>1. PICK fs \in Seq(FrameSet) : fs = Enqueue(w, seam) /\ Len(fs) = Len(w)
  BY EnqueueIs, Zenon
<1>2. \A i \in 1 .. Len(w) : fs[i].samples = w[i]
  <2> SUFFICES ASSUME NEW i \in 1 .. Len(w) PROVE fs[i].samples = w[i]
    OBVIOUS
  <2>1. fs[i] = [samples |-> w[i], seam |-> seam /\ i = 1]
    BY <1>1, EnqueueIs, Zenon
  <2> QED
    BY <2>1
<1>3. PICK v \in Seq(Seq(Nat)) : v = VoiceOf(fs) /\ Len(v) = Len(fs)
                                 /\ \A i \in 1 .. Len(fs) : v[i] = fs[i].samples
  BY VoiceType, Zenon
<1>4. Len(v) = Len(w) /\ \A i \in 1 .. Len(v) : v[i] = w[i]
  BY <1>1, <1>2, <1>3
<1>5. v = w
  BY <1>4, SeqEqual, Zenon
<1> QED
  BY <1>1, <1>3, <1>5, Zenon

LEMMA HeadOf ==
    ASSUME NEW S, NEW s \in Seq(S), s # <<>>
    PROVE  /\ Head(s) \in S /\ Head(s) = s[1] /\ Tail(s) \in Seq(S) /\ s = <<Head(s)>> \o Tail(s)
           /\ Len(Tail(s)) = Len(s) - 1 /\ \A i \in 1 .. Len(s) - 1 : Tail(s)[i] = s[i + 1]
OBVIOUS

-----------------------------------------------------------------------------
(* The partial frame.                                                      *)

Sounds == Nat \ {Silence}

\* Padding does not sound.
LEMMA PaddedIs ==
    ASSUME chunk \in Seq(Nat), Len(chunk) < FrameSamples
    PROVE  /\ Padded \in Seq(Seq(Nat))
           /\ chunk = <<>> => Padded = <<>>
           /\ chunk # <<>> => Len(Padded) = 1
           /\ \A i \in 1 .. Len(Padded) :
                /\ Len(Padded[i]) = FrameSamples
                /\ \A j \in 1 .. FrameSamples :
                     Padded[i][j] = IF j <= Len(chunk) THEN chunk[j] ELSE Silence
           /\ (\A i \in 1 .. Len(chunk) : chunk[i] # Silence) => Keep(FlattenSeq(Padded), Sounds) = chunk
<1>1. CASE chunk = <<>>
  <2>1. Padded = <<>> /\ <<>> \in Seq(Seq(Nat)) /\ Len(<<>>) = 0
    BY <1>1 DEF Padded
  <2>2. Keep(FlattenSeq(Padded), Sounds) = <<>>
    BY <2>1, FlattenEmpty, KeepEmpty, Zenon
  <2>3. 1 .. 0 = {}
    OBVIOUS
  <2> QED
    BY <1>1, <2>1, <2>2, <2>3, Zenon
<1>2. CASE chunk # <<>>
  <2>1. PICK n \in Nat : n = FrameSamples
    BY FrameLength
  <2>2. PICK x : x = [j \in 1 .. n |-> IF j <= Len(chunk) THEN chunk[j] ELSE Silence]
    OBVIOUS
  <2>3. \A j \in 1 .. n : (IF j <= Len(chunk) THEN chunk[j] ELSE Silence) \in Nat
    BY DEF Silence
  <2>4. x \in [1 .. n -> Nat]
    BY <2>2, <2>3, Zenon
  <2>5. x \in Seq(Nat) /\ Len(x) = n
    BY <2>4
  <2>6. \A j \in 1 .. n : x[j] = IF j <= Len(chunk) THEN chunk[j] ELSE Silence
    BY <2>2, Zenon
  <2>7. Padded = <<x>>
    BY <1>2, <2>1, <2>2, Zenon DEF Padded
  <2>8. <<x>> \in Seq(Seq(Nat)) /\ Len(<<x>>) = 1 /\ \A i \in 1 .. Len(<<x>>) : <<x>>[i] = x
    BY <2>5
  <2>9. FlattenSeq(Padded) = x
    BY <2>5, <2>7, FlattenOne, Zenon
  <2>10. ASSUME \A i \in 1 .. Len(chunk) : chunk[i] # Silence
         PROVE  Keep(x, Sounds) = chunk
    <3>1. PICK z : z = [j \in 1 .. n - Len(chunk) |-> Silence]
      OBVIOUS
    <3>2. z \in Seq(Nat) /\ Len(z) = n - Len(chunk) /\ \A j \in 1 .. Len(z) : z[j] = Silence
      <4>1. n - Len(chunk) \in Nat /\ Silence \in Nat
        BY <2>1 DEF Silence
      <4> QED
        BY <3>1, <4>1
    <3>3. x = chunk \o z
      <4>1. Len(x) = Len(chunk) + Len(z)
        BY <2>5, <3>2
      <4>2. \A i \in 1 .. Len(chunk) : x[i] = chunk[i]
        BY <2>1, <2>6
      <4>3. \A i \in 1 .. Len(z) : x[Len(chunk) + i] = z[i]
        BY <2>6, <3>2
      <4> QED
        BY <2>5, <3>2, <4>1, <4>2, <4>3, ConcatOnly, Zenon
    <3>4. Keep(chunk, Sounds) = chunk
      <4>1. \A i \in DOMAIN chunk : chunk[i] \in Sounds
        BY <2>10 DEF Sounds
      <4> QED
        BY <4>1, KeepAll, Zenon
    <3>5. Keep(z, Sounds) = <<>>
      <4>1. \A i \in DOMAIN z : z[i] \notin Sounds
        BY <3>2 DEF Sounds
      <4> QED
        BY <3>2, <4>1, KeepNone, Zenon
    <3>6. Keep(chunk \o z, Sounds) = Keep(chunk, Sounds) \o Keep(z, Sounds)
      BY <3>2, KeepConcat
    <3>7. chunk \o <<>> = chunk
      OBVIOUS
    <3> QED
      BY <3>3, <3>4, <3>5, <3>6, <3>7, Zenon
  <2> QED
    BY <1>2, <2>1, <2>5, <2>6, <2>7, <2>8, <2>9, <2>10, Zenon
<1> QED
  BY <1>1, <1>2

-----------------------------------------------------------------------------
(* The fields and the voice.                                               *)

Framed == {f \in FrameSet : Len(f.samples) = FrameSamples}

LEMMA FramedIs == ASSUME NEW fs \in Seq(Framed) PROVE fs \in Seq(FrameSet)
BY DEF Framed

LEMMA SeqOfSub == ASSUME NEW S, NEW T, S \subseteq T, NEW s \in Seq(S) PROVE s \in Seq(T)
OBVIOUS

LEMMA SoundsSeq == ASSUME NEW s \in Seq(Sounds) PROVE s \in Seq(Nat)
BY SeqOfSub DEF Sounds

Fields ==
    /\ frames \in Seq(Framed)
    /\ chunk \in Seq(Sounds) /\ Len(chunk) < FrameSamples
    /\ pendingSeam \in BOOLEAN /\ halted \in BOOLEAN
    /\ feeding \subseteq ChunkLengths
    /\ fed \in Seq(Nat) /\ cuts \in Seq({"mark", "clear"})
    /\ gone \in Nat /\ gone <= Len(fed)

VoiceInv == Fields /\ VoiceIsKept

\* The numbers above a, up to b.
Numbers(a, b) == [i \in 1 .. b - a |-> a + i]

LEMMA NumbersAre ==
    ASSUME NEW a \in Nat, NEW b \in Nat, a <= b
    PROVE  /\ Numbers(a, b) \in Seq(Sounds) /\ Numbers(a, b) \in Seq(Nat)
           /\ Len(Numbers(a, b)) = b - a
           /\ \A i \in 1 .. b - a : Numbers(a, b)[i] = a + i
<1>1. b - a \in Nat
  OBVIOUS
<1>2. \A i \in 1 .. b - a : a + i \in Sounds
  BY DEF Sounds, Silence
<1>3. Numbers(a, b) \in [1 .. b - a -> Sounds]
  BY <1>2 DEF Numbers
<1>4. Numbers(a, b) \in Seq(Sounds) /\ Len(Numbers(a, b)) = b - a
  BY <1>1, <1>3
<1> QED
  BY <1>4, SoundsSeq DEF Numbers

LEMMA NumbersJoin ==
    ASSUME NEW a \in Nat, NEW b \in Nat, NEW c \in Nat, a <= b, b <= c
    PROVE  Numbers(a, c) = Numbers(a, b) \o Numbers(b, c)
<1>1. PICK s \in Seq(Nat) : s = Numbers(a, b) /\ Len(s) = b - a /\ \A i \in 1 .. b - a : s[i] = a + i
  BY NumbersAre, Zenon
<1>2. PICK t \in Seq(Nat) : t = Numbers(b, c) /\ Len(t) = c - b /\ \A i \in 1 .. c - b : t[i] = b + i
  BY NumbersAre, Zenon
<1>3. a <= c
  OBVIOUS
<1>4. PICK u \in Seq(Nat) : u = Numbers(a, c) /\ Len(u) = c - a /\ \A i \in 1 .. c - a : u[i] = a + i
  BY <1>3, NumbersAre, Zenon
<1>5. Len(u) = Len(s) + Len(t)
  BY <1>1, <1>2, <1>4
<1>6. \A i \in 1 .. Len(s) : u[i] = s[i]
  BY <1>1, <1>4
<1>7. \A i \in 1 .. Len(t) : u[Len(s) + i] = t[i]
  BY <1>1, <1>2, <1>4
<1>8. u = s \o t
  BY <1>5, <1>6, <1>7, ConcatOnly, Zenon
<1> QED
  BY <1>1, <1>2, <1>4, <1>8, Zenon

\* What is queued and the partial frame, as far as they sound.
Heard(fs, c) == Keep(FlattenSeq(VoiceOf(fs)) \o c, Sounds)

LEMMA VoiceIs == VoiceIsKept <=> Heard(frames, chunk) = Numbers(gone, Len(fed))
BY Zenon DEF VoiceIsKept, Heard, Waiting, VoiceOf, Numbers, Sounds

LEMMA SoundsKept == ASSUME NEW s \in Seq(Sounds) PROVE Keep(s, Sounds) = s
<1>1. \A i \in DOMAIN s : s[i] \in Sounds
  OBVIOUS
<1> QED
  BY <1>1, KeepAll, Zenon

Associates(s, t, u) == (s \o t) \o u = s \o (t \o u)

LEMMA Association ==
    ASSUME NEW S, NEW s \in Seq(S), NEW t \in Seq(S), NEW u \in Seq(S)
    PROVE  Associates(s, t, u)
BY ConcatAssociative DEF Associates

KeepSplits(s, t, T) == Keep(s \o t, T) = Keep(s, T) \o Keep(t, T)

LEMMA KeepSplit ==
    ASSUME NEW S, NEW s \in Seq(S), NEW t \in Seq(S), NEW T
    PROVE  KeepSplits(s, t, T)
BY KeepConcat DEF KeepSplits

SoundsAfter(A, B, c, d, e, T) == Keep((A \o B) \o d, T) = Keep(A \o c, T) \o Keep(e, T)

LEMMA KeepMore ==
    ASSUME NEW S, NEW T, NEW A \in Seq(S), NEW B \in Seq(S), NEW c \in Seq(S),
           NEW d \in Seq(S), NEW e \in Seq(S), Keep(B \o d, T) = Keep(c \o e, T)
    PROVE  SoundsAfter(A, B, c, d, e, T)
<1>1. PICK ac \in Seq(S) : ac = A \o c
  BY ConcatIs
<1>2. PICK bd \in Seq(S) : bd = B \o d
  BY ConcatIs
<1>3. PICK ce \in Seq(S) : ce = c \o e
  BY ConcatIs
<1>4. Associates(A, B, d)
  BY Association, Zenon
<1>5. Associates(A, c, e)
  BY Association, Zenon
<1>6. KeepSplits(A, bd, T)
  BY KeepSplit, Zenon
<1>7. KeepSplits(A, ce, T)
  BY KeepSplit, Zenon
<1>8. KeepSplits(ac, e, T)
  BY KeepSplit, Zenon
<1> QED
  BY <1>1, <1>2, <1>3, <1>4, <1>5, <1>6, <1>7, <1>8, Zenon DEF Associates, KeepSplits, SoundsAfter

HeardAfter(fs, gs, c, d, e) == Heard(fs \o gs, d) = Heard(fs, c) \o e

\* Whatever is put at the end sounds last.
LEMMA HeardMore ==
    ASSUME NEW fs \in Seq(FrameSet), NEW gs \in Seq(FrameSet), NEW c \in Seq(Nat),
           NEW d \in Seq(Nat), NEW e \in Seq(Sounds),
           Keep(FlattenSeq(VoiceOf(gs)) \o d, Sounds) = Keep(c \o e, Sounds)
    PROVE  HeardAfter(fs, gs, c, d, e)
<1>1. PICK A \in Seq(Nat) : A = FlattenSeq(VoiceOf(fs))
  BY FlatVoice
<1>2. PICK B \in Seq(Nat) : B = FlattenSeq(VoiceOf(gs))
  BY FlatVoice
<1>3. FlattenSeq(VoiceOf(fs \o gs)) = A \o B
  BY <1>1, <1>2, FlatVoice, Zenon
<1>4. e \in Seq(Nat)
  BY SoundsSeq
<1>5. Keep((A \o B) \o d, Sounds) = Keep(A \o c, Sounds) \o Keep(e, Sounds)
  <2>1. Keep(B \o d, Sounds) = Keep(c \o e, Sounds)
    BY <1>2, Zenon
  <2>2. SoundsAfter(A, B, c, d, e, Sounds)
    BY <1>4, <2>1, KeepMore, Zenon
  <2> QED
    BY <2>2, Zenon DEF SoundsAfter
<1>6. Keep(e, Sounds) = e
  BY SoundsKept
<1> QED
  BY <1>1, <1>2, <1>3, <1>5, <1>6, Zenon DEF Heard, HeardAfter

LEMMA EnqueueFramed ==
    ASSUME NEW w \in Seq(Seq(Nat)), NEW seam \in BOOLEAN,
           \A i \in 1 .. Len(w) : Len(w[i]) = FrameSamples
    PROVE  Enqueue(w, seam) \in Seq(Framed)
<1>1. PICK e \in Seq(FrameSet) : e = Enqueue(w, seam) /\ Len(e) = Len(w)
  BY EnqueueIs, Zenon
<1>2. \A i \in 1 .. Len(e) : e[i] \in Framed
  <2> SUFFICES ASSUME NEW i \in 1 .. Len(e) PROVE e[i] \in Framed
    OBVIOUS
  <2>1. e[i] = [samples |-> w[i], seam |-> seam /\ i = 1]
    BY <1>1, EnqueueIs, Zenon
  <2>2. e[i].samples = w[i]
    BY <2>1
  <2>3. e[i] \in FrameSet /\ Len(e[i].samples) = FrameSamples
    BY <1>1, <2>2
  <2> QED
    BY <2>3, Zenon DEF Framed
<1>3. e \in Seq(Framed)
  BY <1>2
<1> QED
  BY <1>1, <1>3, Zenon

LEMMA FieldsInitial == RenderInit => VoiceInv
<1> SUFFICES ASSUME RenderInit PROVE VoiceInv
  OBVIOUS
<1>1. Fields
  <2>1. /\ <<>> \in Seq(Framed) /\ <<>> \in Seq(Sounds) /\ <<>> \in Seq(Nat)
        /\ <<>> \in Seq({"mark", "clear"}) /\ Len(<<>>) < FrameSamples
        /\ 0 \in Nat /\ 0 <= Len(<<>>) /\ FALSE \in BOOLEAN
    BY FrameLength
  <2> QED
    BY <2>1, Zenon DEF RenderInit, Fields
<1>2. FlattenSeq(VoiceOf(<<>>)) = <<>>
  <2>1. VoiceOf(<<>>) = <<>>
    BY DEF VoiceOf
  <2> QED
    BY <2>1, FlattenEmpty
<1>3. Heard(<<>>, <<>>) = <<>>
  <2>1. <<>> \o <<>> = <<>>
    OBVIOUS
  <2> QED
    BY <1>2, <2>1, KeepEmpty, Zenon DEF Heard
<1>4. Numbers(0, 0) = <<>> /\ Len(<<>>) = 0
  BY DEF Numbers
<1> QED
  BY <1>1, <1>3, <1>4, VoiceIs, Zenon DEF VoiceInv, RenderInit

LEMMA FeedIs ==
    ASSUME Fields, NEW n \in ChunkLengths, Feed(n)
    PROVE  \E pcm \in Seq(Sounds) :
             /\ pcm = chunk \o Numbers(Len(fed), Len(fed) + n)
             /\ Len(pcm) = Len(chunk) + n
             /\ frames' = frames \o Enqueue(Whole(pcm), pendingSeam)
             /\ chunk' = Rest(pcm)
             /\ pendingSeam' = (pendingSeam /\ Whole(pcm) = <<>>)
<1>1. n \in Nat /\ Len(fed) \in Nat /\ chunk \in Seq(Sounds)
  BY RenderAssumption DEF Fields
<1>2. (Len(fed) + n) - Len(fed) = n /\ Len(fed) + n \in Nat /\ Len(fed) <= Len(fed) + n
  BY <1>1
<1>3. Numbers(Len(fed), Len(fed) + n) = [i \in 1 .. n |-> Len(fed) + i]
  BY <1>2, Zenon DEF Numbers
<1>4. PICK new \in Seq(Sounds) : new = Numbers(Len(fed), Len(fed) + n) /\ Len(new) = n
  BY <1>1, <1>2, NumbersAre
<1>5. PICK pcm : pcm = chunk \o new
  OBVIOUS
<1>6. pcm \in Seq(Sounds) /\ Len(pcm) = Len(chunk) + n
  <2>1. PICK c \in Seq(Sounds) : c = chunk
    BY <1>1
  <2>2. c \o new \in Seq(Sounds) /\ Len(c \o new) = Len(c) + Len(new)
    BY ConcatIs
  <2> QED
    BY <1>4, <1>5, <2>1, <2>2
<1>7. /\ frames' = frames \o Enqueue(Whole(pcm), pendingSeam)
      /\ chunk' = Rest(pcm)
      /\ pendingSeam' = (pendingSeam /\ Whole(pcm) = <<>>)
  BY <1>3, <1>4, <1>5, Zenon DEF Feed
<1> QED
  BY <1>4, <1>5, <1>6, <1>7, Zenon

\* What a call feeds comes after the mark or clear that was the last one then.
LEMMA FedIs ==
    ASSUME Fields, NEW n \in ChunkLengths, Feed(n)
    PROVE  /\ fed' \in Seq(Nat) /\ Len(fed') = Len(fed) + n
           /\ \A k \in 1 .. Len(fed) : fed'[k] = fed[k]
           /\ \A k \in 1 .. n : fed'[Len(fed) + k] = Len(cuts)
<1>1. n \in Nat /\ fed \in Seq(Nat) /\ Len(cuts) \in Nat
  BY RenderAssumption DEF Fields
<1>2. PICK t \in Seq(Nat) : t = [i \in 1 .. n |-> Len(cuts)]
  <2>1. PICK m \in Nat : m = Len(cuts)
    BY <1>1
  <2>2. [i \in 1 .. n |-> m] \in Seq(Nat)
    BY <1>1
  <2> QED
    BY <2>1, <2>2, Zenon
<1>3. Len(t) = n /\ \A i \in 1 .. n : t[i] = Len(cuts)
  BY <1>1, <1>2
<1>4. fed' = fed \o t
  BY <1>2, Zenon DEF Feed
<1>5. PICK f \in Seq(Nat) : f = fed
  BY <1>1
<1>6. /\ f \o t \in Seq(Nat)
      /\ Len(f \o t) = Len(f) + Len(t)
      /\ \A k \in 1 .. Len(f) : (f \o t)[k] = f[k]
      /\ \A k \in 1 .. Len(t) : (f \o t)[Len(f) + k] = t[k]
  BY ConcatIs
<1>7. fed' = f \o t
  BY <1>4, <1>5, Zenon
<1> QED
  BY <1>3, <1>5, <1>6, <1>7, Zenon

LEMMA FeedVoice ==
    ASSUME VoiceInv, NEW n \in ChunkLengths, Feed(n)
    PROVE  VoiceInv'
<1>0. Fields /\ VoiceIsKept
  BY DEF VoiceInv
<1>1. PICK pcm \in Seq(Sounds) :
         /\ pcm = chunk \o Numbers(Len(fed), Len(fed) + n)
         /\ Len(pcm) = Len(chunk) + n
         /\ frames' = frames \o Enqueue(Whole(pcm), pendingSeam)
         /\ chunk' = Rest(pcm)
         /\ pendingSeam' = (pendingSeam /\ Whole(pcm) = <<>>)
  BY <1>0, FeedIs
<1>2. UNCHANGED <<halted, gone, cuts>> /\ feeding' = feeding \ {n}
  BY DEF Feed
<1>3. fed' \in Seq(Nat) /\ Len(fed') = Len(fed) + n
  BY <1>0, FedIs
<1>4. n \in Nat /\ Len(fed) \in Nat /\ gone \in Nat /\ gone <= Len(fed)
  BY <1>0, RenderAssumption DEF Fields
<1>5. pcm \in Seq(Nat) /\ frames \in Seq(Framed) /\ frames \in Seq(FrameSet)
      /\ chunk \in Seq(Nat) /\ pendingSeam \in BOOLEAN
  BY <1>0, SoundsSeq, FramedIs, Zenon DEF Fields
<1>6. PICK w \in Seq(Seq(Nat)) : w = Whole(pcm) /\ \A i \in 1 .. Len(w) : Len(w[i]) = FrameSamples
  BY <1>5, WholeIs, Zenon
<1>7. PICK e \in Seq(Framed) : e = Enqueue(w, pendingSeam) /\ e \in Seq(FrameSet) /\ VoiceOf(e) = w
  BY <1>5, <1>6, EnqueueFramed, FramedIs, EnqueuedVoice, Zenon
<1>8. frames' = frames \o e
  BY <1>1, <1>6, <1>7, Zenon
<1>9. chunk' \in Seq(Sounds) /\ Len(chunk') < FrameSamples
  BY <1>1, RestIs, Zenon
<1>10. FlattenSeq(VoiceOf(e)) \o chunk' = pcm
  BY <1>1, <1>5, <1>6, <1>7, NothingCutOff, Zenon
<1>11. PICK new \in Seq(Sounds) : new = Numbers(Len(fed), Len(fed) + n)
  <2>1. Len(fed) + n \in Nat /\ Len(fed) <= Len(fed) + n
    BY <1>4
  <2> QED
    BY <1>4, <2>1, NumbersAre
<1>12. Heard(frames \o e, chunk') = Heard(frames, chunk) \o new
  <2>1. chunk' \in Seq(Nat)
    BY <1>9, SoundsSeq, Zenon
  <2>2. Keep(FlattenSeq(VoiceOf(e)) \o chunk', Sounds) = Keep(chunk \o new, Sounds)
    BY <1>1, <1>10, <1>11, Zenon
  <2>3. HeardAfter(frames, e, chunk, chunk', new)
    BY <1>5, <1>7, <2>1, <2>2, HeardMore, Zenon
  <2> QED
    BY <2>3, Zenon DEF HeardAfter
<1>13. Heard(frames', chunk') = Numbers(gone', Len(fed'))
  <2>1. Heard(frames, chunk) = Numbers(gone, Len(fed))
    BY <1>0, VoiceIs, Zenon
  <2>2. Len(fed) + n \in Nat /\ Len(fed) <= Len(fed) + n
    BY <1>4
  <2>3. Numbers(gone, Len(fed) + n) = Numbers(gone, Len(fed)) \o Numbers(Len(fed), Len(fed) + n)
    BY <1>4, <2>2, NumbersJoin, Zenon
  <2> QED
    BY <1>2, <1>3, <1>8, <1>11, <1>12, <2>1, <2>3, Zenon
<1>14. Fields'
  <2>1. frames' \in Seq(Framed)
    BY <1>5, <1>7, <1>8
  <2>2. pendingSeam' \in BOOLEAN
    BY <1>1, <1>5, Zenon
  <2>3. gone' \in Nat /\ gone' <= Len(fed')
    BY <1>2, <1>3, <1>4
  <2>4. feeding' \subseteq ChunkLengths
    BY <1>0, <1>2 DEF Fields
  <2>5. halted' \in BOOLEAN /\ cuts' \in Seq({"mark", "clear"})
    BY <1>0, <1>2, Zenon DEF Fields
  <2> QED
    BY <1>3, <1>9, <2>1, <2>2, <2>3, <2>4, <2>5, Zenon DEF Fields
<1>15. VoiceIsKept'
  <2>1. VoiceIsKept' <=> (Heard(frames, chunk) = Numbers(gone, Len(fed)))'
    BY Zenon DEF VoiceIsKept, Heard, Waiting, VoiceOf, Numbers, Sounds
  <2> QED
    BY <1>13, <2>1, Zenon
<1> QED
  BY <1>14, <1>15 DEF VoiceInv

LEMMA MarkVoice ==
    ASSUME VoiceInv, MarkChunkBoundary
    PROVE  VoiceInv'
<1>0. Fields /\ VoiceIsKept
  BY DEF VoiceInv
<1>1. /\ frames' = frames \o Enqueue(Padded, pendingSeam)
      /\ chunk' = <<>> /\ pendingSeam' = TRUE /\ cuts' = Append(cuts, "mark")
      /\ UNCHANGED <<halted, feeding, fed, gone>>
  BY DEF MarkChunkBoundary
<1>2. chunk \in Seq(Nat) /\ frames \in Seq(Framed) /\ frames \in Seq(FrameSet)
      /\ chunk \in Seq(Sounds) /\ Len(chunk) < FrameSamples /\ pendingSeam \in BOOLEAN
  BY <1>0, SoundsSeq, FramedIs, Zenon DEF Fields
<1>3. PICK w \in Seq(Seq(Nat)) :
        /\ w = Padded /\ \A i \in 1 .. Len(w) : Len(w[i]) = FrameSamples
        /\ Keep(FlattenSeq(w), Sounds) = chunk
  <2>1. \A i \in 1 .. Len(chunk) : chunk[i] # Silence
    BY <1>2 DEF Sounds
  <2> QED
    BY <1>2, <2>1, PaddedIs, Zenon
<1>4. PICK e \in Seq(Framed) : e = Enqueue(w, pendingSeam) /\ e \in Seq(FrameSet) /\ VoiceOf(e) = w
  BY <1>2, <1>3, EnqueueFramed, FramedIs, EnqueuedVoice, Zenon
<1>5. frames' = frames \o e
  BY <1>1, <1>3, <1>4, Zenon
<1>6. <<>> \in Seq(Nat) /\ <<>> \in Seq(Sounds) /\ Len(<<>>) < FrameSamples
  BY FrameLength
<1>7. HeardAfter(frames, e, chunk, <<>>, <<>>)
  <2>1. FlattenSeq(w) \in Seq(Nat)
    BY FlattenType, Zenon
  <2>2. FlattenSeq(w) \o <<>> = FlattenSeq(w)
    BY <2>1, ConcatEmpty, Zenon
  <2>3. chunk \o <<>> = chunk
    BY <1>2, ConcatEmpty, Zenon
  <2>4. Keep(chunk, Sounds) = chunk
    BY <1>2, SoundsKept, Zenon
  <2>5. Keep(FlattenSeq(VoiceOf(e)) \o <<>>, Sounds) = Keep(chunk \o <<>>, Sounds)
    BY <1>3, <1>4, <2>2, <2>3, <2>4, Zenon
  <2> QED
    BY <1>2, <1>4, <1>6, <2>5, HeardMore, Zenon
<1>8. Heard(frames', chunk') = Numbers(gone', Len(fed'))
  <2>1. Heard(frames, chunk) = Numbers(gone, Len(fed))
    BY <1>0, VoiceIs, Zenon
  <2>2. Numbers(gone, Len(fed)) \in Seq(Nat)
    BY <1>0, NumbersAre DEF Fields
  <2>3. Numbers(gone, Len(fed)) \o <<>> = Numbers(gone, Len(fed))
    BY <2>2, ConcatEmpty, Zenon
  <2> QED
    BY <1>1, <1>5, <1>7, <2>1, <2>3, Zenon DEF HeardAfter
<1>9. Fields'
  <2>1. frames' \in Seq(Framed)
    BY <1>2, <1>4, <1>5
  <2>2. cuts' \in Seq({"mark", "clear"})
    BY <1>0, <1>1 DEF Fields
  <2> QED
    BY <1>0, <1>1, <1>6, <2>1, <2>2, Zenon DEF Fields
<1>10. VoiceIsKept'
  <2>1. VoiceIsKept' <=> (Heard(frames, chunk) = Numbers(gone, Len(fed)))'
    BY Zenon DEF VoiceIsKept, Heard, Waiting, VoiceOf, Numbers, Sounds
  <2> QED
    BY <1>8, <2>1, Zenon
<1> QED
  BY <1>9, <1>10 DEF VoiceInv

LEMMA HeardNothing == Heard(<<>>, <<>>) = <<>>
<1>1. VoiceOf(<<>>) = <<>>
  BY DEF VoiceOf
<1>2. <<>> \o <<>> = <<>>
  OBVIOUS
<1> QED
  BY <1>1, <1>2, FlattenEmpty, KeepEmpty, Zenon DEF Heard

LEMMA ClearVoice ==
    ASSUME VoiceInv, ClearPending
    PROVE  VoiceInv'
<1>0. Fields
  BY DEF VoiceInv
<1>1. /\ frames' = <<>> /\ chunk' = <<>> /\ pendingSeam' = FALSE
      /\ cuts' = Append(cuts, "clear") /\ gone' = Len(fed)
      /\ UNCHANGED <<halted, feeding, fed>>
  BY DEF ClearPending
<1>2. Len(fed) \in Nat /\ Len(fed) <= Len(fed) /\ cuts' \in Seq({"mark", "clear"})
  BY <1>0, <1>1 DEF Fields
<1>3. <<>> \in Seq(Framed) /\ <<>> \in Seq(Sounds) /\ Len(<<>>) < FrameSamples /\ FALSE \in BOOLEAN
  BY FrameLength
<1>4. Fields'
  BY <1>0, <1>1, <1>2, <1>3, Zenon DEF Fields
<1>5. PICK f \in Nat : f = Len(fed)
  BY <1>2
<1>6. Numbers(f, f) = <<>>
  BY DEF Numbers
<1>7. VoiceIsKept'
  <2>1. VoiceIsKept' <=> (Heard(frames, chunk) = Numbers(gone, Len(fed)))'
    BY Zenon DEF VoiceIsKept, Heard, Waiting, VoiceOf, Numbers, Sounds
  <2> QED
    BY <1>1, <1>5, <1>6, <2>1, HeardNothing, Zenon
<1> QED
  BY <1>4, <1>7 DEF VoiceInv

\* The head of the queue sounds first.
LEMMA HeardFirst ==
    ASSUME NEW f \in FrameSet, NEW fs \in Seq(FrameSet), NEW c \in Seq(Nat)
    PROVE  Heard(<<f>> \o fs, c) = Keep(f.samples, Sounds) \o Heard(fs, c)
<1>1. PICK x \in Seq(Nat) : x = f.samples
  BY FrameFields
<1>2. <<f>> \in Seq(FrameSet) /\ VoiceOf(<<f>>) = <<x>>
  <2>1. VoiceOf(<<f>>) = <<f.samples>>
    BY DEF VoiceOf
  <2> QED
    BY <1>1, <2>1
<1>3. FlattenSeq(VoiceOf(<<f>>)) = x
  BY <1>2, FlattenOne, Zenon
<1>4. PICK B \in Seq(Nat) : B = FlattenSeq(VoiceOf(fs))
  BY FlatVoice
<1>5. FlattenSeq(VoiceOf(<<f>> \o fs)) = x \o B
  BY <1>2, <1>3, <1>4, FlatVoice, Zenon
<1>6. Associates(x, B, c)
  BY Association, Zenon
<1>7. PICK d \in Seq(Nat) : d = B \o c
  BY ConcatIs
<1>8. KeepSplits(x, d, Sounds)
  BY KeepSplit, Zenon
<1> QED
  BY <1>1, <1>4, <1>5, <1>6, <1>7, <1>8, Zenon DEF Heard, Associates, KeepSplits

LEMMA NumbersCut ==
    ASSUME NEW a \in Nat, NEW b \in Nat, a <= b, NEW s \in Seq(Nat), NEW t \in Seq(Nat),
           s \o t = Numbers(a, b)
    PROVE  a + Len(s) <= b /\ t = Numbers(a + Len(s), b)
<1>1. PICK u \in Seq(Nat) : u = Numbers(a, b) /\ Len(u) = b - a /\ \A i \in 1 .. b - a : u[i] = a + i
  BY NumbersAre, Zenon
<1>2. /\ Len(u) = Len(s) + Len(t)
      /\ \A i \in 1 .. Len(t) : u[Len(s) + i] = t[i]
  BY <1>1, ConcatIs
<1>3. PICK m \in Nat : m = a + Len(s)
  OBVIOUS
<1>4. m <= b /\ Len(t) = b - m
  BY <1>1, <1>2, <1>3
<1>5. \A i \in 1 .. Len(t) : t[i] = m + i
  BY <1>1, <1>2, <1>3
<1>6. PICK v \in Seq(Nat) : v = Numbers(m, b) /\ Len(v) = b - m /\ \A i \in 1 .. b - m : v[i] = m + i
  BY <1>4, NumbersAre, Zenon
<1>7. Len(t) = Len(v) /\ \A i \in 1 .. Len(t) : t[i] = v[i]
  BY <1>4, <1>5, <1>6
<1>8. t = v
  BY <1>7, SeqEqual, Zenon
<1> QED
  BY <1>3, <1>4, <1>6, <1>8, Zenon

LEMMA RenderIs ==
    ASSUME Fields, RenderVoice
    PROVE  \E f \in Framed :
             /\ frames # <<>> /\ f = Head(frames) /\ frames = <<f>> \o Tail(frames)
             /\ frames' = Tail(frames) /\ Tail(frames) \in Seq(Framed)
             /\ gone' = gone + Len(Keep(f.samples, Sounds))
<1>1. frames \in Seq(Framed) /\ frames # <<>>
  BY DEF Fields, RenderVoice, Ready
<1>2. PICK f : f = Head(frames)
  OBVIOUS
<1>3. f \in Framed /\ frames = <<f>> \o Tail(frames) /\ Tail(frames) \in Seq(Framed)
  BY <1>1, <1>2, HeadOf, Zenon
<1>4. frames' = Tail(frames) /\ gone' = gone + Len(Keep(f.samples, Sounds))
  BY <1>2, Zenon DEF RenderVoice, Sounds
<1> QED
  BY <1>1, <1>2, <1>3, <1>4, Zenon

LEMMA RenderedVoice ==
    ASSUME VoiceInv, RenderVoice
    PROVE  VoiceInv'
<1>0. Fields /\ VoiceIsKept
  BY DEF VoiceInv
<1>1. PICK f \in Framed :
        /\ frames # <<>> /\ f = Head(frames) /\ frames = <<f>> \o Tail(frames)
        /\ frames' = Tail(frames) /\ Tail(frames) \in Seq(Framed)
        /\ gone' = gone + Len(Keep(f.samples, Sounds))
  BY <1>0, RenderIs, Zenon
<1>2. UNCHANGED <<chunk, pendingSeam, halted, feeding, fed, cuts>>
  BY DEF RenderVoice
<1>3. f \in FrameSet /\ frames' \in Seq(FrameSet) /\ frames' \in Seq(Framed) /\ chunk \in Seq(Nat)
      /\ gone \in Nat /\ Len(fed) \in Nat /\ gone <= Len(fed)
  <2>1. f \in FrameSet
    BY DEF Framed
  <2>2. frames' \in Seq(Framed)
    BY <1>1, Zenon
  <2>3. frames' \in Seq(FrameSet)
    BY <2>2, FramedIs, Zenon
  <2>4. chunk \in Seq(Nat)
    BY <1>0, SoundsSeq, Zenon DEF Fields
  <2>5. gone \in Nat /\ Len(fed) \in Nat /\ gone <= Len(fed)
    BY <1>0 DEF Fields
  <2> QED
    BY <2>1, <2>2, <2>3, <2>4, <2>5
<1>4. Heard(frames, chunk) = Keep(f.samples, Sounds) \o Heard(frames', chunk)
  BY <1>1, <1>3, HeardFirst, Zenon
<1>5. PICK s \in Seq(Nat) : s = Keep(f.samples, Sounds)
  <2>1. f.samples \in Seq(Nat)
    BY <1>3, FrameFields
  <2>2. Keep(f.samples, Sounds) \in Seq(Nat \cap Sounds)
    BY <2>1, KeepType, Zenon
  <2>3. Nat \cap Sounds \subseteq Nat
    OBVIOUS
  <2> QED
    BY <2>2, <2>3, SeqOfSub, Zenon
<1>6. PICK t \in Seq(Nat) : t = Heard(frames', chunk)
  <2>1. FlattenSeq(VoiceOf(frames')) \o chunk \in Seq(Nat)
    BY <1>3, FlatVoice, ConcatIs, Zenon
  <2>2. Heard(frames', chunk) \in Seq(Nat \cap Sounds)
    BY <2>1, KeepType, Zenon DEF Heard
  <2>3. Nat \cap Sounds \subseteq Nat
    OBVIOUS
  <2> QED
    BY <2>2, <2>3, SeqOfSub, Zenon
<1>7. s \o t = Numbers(gone, Len(fed))
  BY <1>0, <1>4, <1>5, <1>6, VoiceIs, Zenon
<1>8. gone' <= Len(fed) /\ t = Numbers(gone', Len(fed))
  <2>1. PICK a \in Nat, b \in Nat : a = gone /\ b = Len(fed)
    BY <1>3
  <2>2. a <= b /\ s \o t = Numbers(a, b)
    BY <1>3, <1>7, <2>1, Zenon
  <2>3. a + Len(s) <= b /\ t = Numbers(a + Len(s), b)
    BY <2>2, NumbersCut, Zenon
  <2> QED
    BY <1>1, <1>5, <2>1, <2>3, Zenon
<1>9. gone' \in Nat
  BY <1>1, <1>3, <1>5
<1>10. Fields'
  BY <1>0, <1>2, <1>3, <1>8, <1>9, Zenon DEF Fields
<1>11. VoiceIsKept'
  <2>1. VoiceIsKept' <=> (Heard(frames, chunk) = Numbers(gone, Len(fed)))'
    BY Zenon DEF VoiceIsKept, Heard, Waiting, VoiceOf, Numbers, Sounds
  <2> QED
    BY <1>2, <1>6, <1>8, <2>1, Zenon
<1> QED
  BY <1>10, <1>11 DEF VoiceInv

LEMMA VoiceStep ==
    ASSUME VoiceInv, [RenderNext]_renderVars
    PROVE  VoiceInv'
<1>1. ASSUME frames' = frames, chunk' = chunk, fed' = fed, gone' = gone, cuts' = cuts,
             pendingSeam' = pendingSeam, halted' \in BOOLEAN, feeding' \subseteq ChunkLengths
      PROVE  VoiceInv'
  <2>1. Fields'
    BY <1>1, Zenon DEF VoiceInv, Fields
  <2>2. VoiceIsKept'
    BY <1>1, Zenon DEF VoiceInv, VoiceIsKept, Waiting
  <2> QED
    BY <2>1, <2>2 DEF VoiceInv
<1>2. halted \in BOOLEAN /\ feeding \subseteq ChunkLengths
  BY DEF VoiceInv, Fields
<1>3. ASSUME NEW n \in ChunkLengths, FeedCheck(n)
      PROVE  VoiceInv'
  BY <1>1, <1>2, <1>3 DEF FeedCheck, jitter, history
<1>4. ASSUME NEW n \in ChunkLengths, Feed(n)
      PROVE  VoiceInv'
  BY <1>4, FeedVoice
<1>5. CASE Halt
  BY <1>1, <1>2, <1>5 DEF Halt, jitter, history
<1>6. CASE RenderSilence
  BY <1>1, <1>2, <1>6 DEF RenderSilence, jitter, history
<1>7. CASE UNCHANGED renderVars
  BY <1>1, <1>2, <1>7 DEF renderVars, jitter, history
<1> QED
  BY <1>3, <1>4, <1>5, <1>6, <1>7, MarkVoice, ClearVoice, RenderedVoice DEF RenderNext, RenderTick

LEMMA VoiceAlways == RenderSpec => []VoiceInv
BY FieldsInitial, VoiceStep, PTL DEF RenderSpec

\* Every sample fed and neither played nor cleared waits, once and in its order,
\* for any lengths of frames and chunks and wherever the boundaries fall.
THEOREM KeepsTheVoice == RenderSpec => []VoiceIsKept
<1>1. VoiceInv => VoiceIsKept
  BY DEF VoiceInv
<1> QED
  BY <1>1, VoiceAlways, PTL

-----------------------------------------------------------------------------
(* Chunks and their seams.                                                 *)

\* IsSeam and what a queued frame promises, of any feeds and boundaries.
SeamAt(k, fd, ct) ==
    /\ k = 1 \/ fd[k - 1] # fd[k]
    /\ fd[k] > 0 /\ ct[fd[k]] = "mark"

InStep(s, j, fd, ct) ==
    /\ s[j] # Silence => s[j - 1] # Silence
    /\ IF s[j] = Silence
       THEN s[j - 1] = Silence \/ fd[s[j - 1]] < Len(ct)
       ELSE s[j] = s[j - 1] + 1 /\ fd[s[j]] = fd[s[j - 1]]

OneChunk(f, fd, ct) ==
    /\ \A j \in 1 .. FrameSamples : f.samples[j] \in 0 .. Len(fd)
    /\ f.samples[1] # Silence
    /\ f.seam <=> SeamAt(f.samples[1], fd, ct)
    /\ \A j \in 2 .. FrameSamples : InStep(f.samples, j, fd, ct)

Queued == \A i \in 1 .. Len(frames) : OneChunk(frames[i], fed, cuts)

\* The partial frame is the last of what was fed, since the last boundary.
Partial ==
    /\ Len(chunk) <= Len(fed)
    /\ \A i \in 1 .. Len(chunk) : chunk[i] = Len(fed) - Len(chunk) + i
    /\ \A k \in 1 .. Len(fed) : fed[k] <= Len(cuts)
    /\ \A k \in 1 .. Len(fed) : k > Len(fed) - Len(chunk) => fed[k] = Len(cuts)

\* The seam waits for the first frame after a mark.
Armed ==
    pendingSeam <=>
        /\ Len(cuts) > 0 /\ cuts[Len(cuts)] = "mark"
        /\ Len(fed) = Len(chunk) \/ fed[Len(fed) - Len(chunk)] # Len(cuts)

ChunkInv == Fields /\ Partial /\ Armed /\ Queued

\* The tail is the end of what was heard last.
TailIs ==
    \/ heard = <<>> /\ tail = <<>>
    \/ heard \in [1 .. FrameSamples -> SUBSET Nat] /\ tail = Kept(heard)

FadeInv == ChunkInv /\ TailIs

-----------------------------------------------------------------------------
(* What is fed and marked later changes nothing about a queued frame.      *)

\* gd begins with fd.
Extends(gd, fd) ==
    /\ Len(fd) <= Len(gd)
    /\ \A k \in 1 .. Len(fd) : gd[k] = fd[k]

LEMMA SeamStays ==
    ASSUME NEW fd \in Seq(Nat), NEW gd \in Seq(Nat), NEW ct \in Seq({"mark", "clear"}),
           NEW dt \in Seq({"mark", "clear"}), Extends(gd, fd), Extends(dt, ct),
           \A k \in 1 .. Len(fd) : fd[k] <= Len(ct), NEW k \in 1 .. Len(fd)
    PROVE  SeamAt(k, gd, dt) <=> SeamAt(k, fd, ct)
<1>1. gd[k] = fd[k] /\ fd[k] \in Nat /\ fd[k] <= Len(ct)
  BY DEF Extends
<1>2. k = 1 \/ gd[k - 1] = fd[k - 1]
  <2>1. k # 1 => k - 1 \in 1 .. Len(fd)
    OBVIOUS
  <2> QED
    BY <2>1 DEF Extends
<1>3. fd[k] > 0 => dt[fd[k]] = ct[fd[k]]
  <2>1. fd[k] > 0 => fd[k] \in 1 .. Len(ct)
    BY <1>1
  <2> QED
    BY <2>1, Zenon DEF Extends
<1> QED
  BY <1>1, <1>2, <1>3, Zenon DEF SeamAt

LEMMA StaysBelow == \A a, c, d \in Nat : a < c /\ c <= d => a < d
OBVIOUS

LEMMA InStepStays ==
    ASSUME NEW s \in Seq(Nat), NEW fd \in Seq(Nat), NEW gd \in Seq(Nat), NEW ct, NEW dt,
           Len(ct) \in Nat, Len(dt) \in Nat, Len(ct) <= Len(dt), Extends(gd, fd),
           \A j \in 1 .. Len(s) : s[j] \in 0 .. Len(fd),
           NEW j \in 2 .. Len(s), InStep(s, j, fd, ct)
    PROVE  InStep(s, j, gd, dt)
<1>1. s[j] \in 0 .. Len(fd) /\ s[j - 1] \in 0 .. Len(fd)
  OBVIOUS
<1>4. ASSUME NEW k \in 0 .. Len(fd), k # Silence
      PROVE  gd[k] = fd[k] /\ fd[k] \in Nat
  <2>1. k \in 1 .. Len(fd)
    BY <1>4 DEF Silence
  <2>2. gd[k] = fd[k]
    BY <2>1, Zenon DEF Extends
  <2> QED
    BY <2>1, <2>2
<1>2. CASE s[j] = Silence
  <2>1. s[j - 1] # Silence => gd[s[j - 1]] = fd[s[j - 1]] /\ fd[s[j - 1]] \in Nat
    BY <1>1, <1>4, Zenon
  <2>2. s[j - 1] = Silence \/ fd[s[j - 1]] < Len(ct)
    BY <1>2, Zenon DEF InStep
  <2>3. s[j - 1] = Silence \/ gd[s[j - 1]] < Len(dt)
    <3>1. CASE s[j - 1] = Silence
      BY <3>1, Zenon
    <3>2. CASE s[j - 1] # Silence
      <4>1. PICK a \in Nat, c \in Nat, d \in Nat :
                /\ a = fd[s[j - 1]] /\ c = Len(ct) /\ d = Len(dt) /\ c <= d /\ a < c
        BY <2>1, <2>2, <3>2, Zenon
      <4>2. a < d
        BY <4>1, StaysBelow, Zenon
      <4> QED
        BY <2>1, <3>2, <4>1, <4>2, Zenon
    <3> QED
      BY <3>1, <3>2
  <2> QED
    BY <1>2, <2>3 DEF InStep
<1>3. CASE s[j] # Silence
  <2>1. s[j - 1] # Silence /\ s[j] = s[j - 1] + 1 /\ fd[s[j]] = fd[s[j - 1]]
    BY <1>3 DEF InStep
  <2>2. gd[s[j]] = fd[s[j]] /\ gd[s[j - 1]] = fd[s[j - 1]]
    BY <1>1, <1>3, <1>4, <2>1, Zenon
  <2> QED
    BY <1>3, <2>1, <2>2, Zenon DEF InStep
<1> QED
  BY <1>2, <1>3

LEMMA ChunkStays ==
    ASSUME NEW f \in Framed, NEW fd \in Seq(Nat), NEW gd \in Seq(Nat),
           NEW ct \in Seq({"mark", "clear"}), NEW dt \in Seq({"mark", "clear"}),
           Extends(gd, fd), Extends(dt, ct), \A k \in 1 .. Len(fd) : fd[k] <= Len(ct),
           OneChunk(f, fd, ct)
    PROVE  OneChunk(f, gd, dt)
<1>1. PICK s \in Seq(Nat) : s = f.samples /\ Len(s) = FrameSamples
  BY FrameFields DEF Framed
<1>2. \A j \in 1 .. Len(s) : s[j] \in 0 .. Len(fd)
  BY <1>1 DEF OneChunk
<1>3. s[1] # Silence /\ (f.seam <=> SeamAt(s[1], fd, ct))
      /\ \A j \in 2 .. Len(s) : InStep(s, j, fd, ct)
  BY <1>1, Zenon DEF OneChunk
<1>4. Len(ct) \in Nat /\ Len(dt) \in Nat /\ Len(ct) <= Len(dt) /\ Len(fd) <= Len(gd)
  BY DEF Extends
<1>5. \A j \in 1 .. Len(s) : s[j] \in 0 .. Len(gd)
  BY <1>2, <1>4
<1>6. s[1] \in 1 .. Len(fd)
  BY <1>1, <1>2, <1>3, FrameLength DEF Silence
<1>7. f.seam <=> SeamAt(s[1], gd, dt)
  BY <1>3, <1>6, SeamStays, Zenon
<1>8. \A j \in 2 .. Len(s) : InStep(s, j, gd, dt)
  BY <1>2, <1>3, <1>4, InStepStays, Zenon
<1> QED
  BY <1>1, <1>3, <1>5, <1>7, <1>8, Zenon DEF OneChunk

LEMMA QueuedStays ==
    ASSUME Fields, Partial, Queued, NEW fs \in Seq(Framed), NEW gd \in Seq(Nat),
           NEW dt \in Seq({"mark", "clear"}), Extends(gd, fed), Extends(dt, cuts),
           \A i \in 1 .. Len(fs) : OneChunk(fs[i], gd, dt)
    PROVE  \A i \in 1 .. Len(frames \o fs) : OneChunk((frames \o fs)[i], gd, dt)
<1>1. frames \in Seq(Framed) /\ fed \in Seq(Nat) /\ cuts \in Seq({"mark", "clear"})
      /\ \A k \in 1 .. Len(fed) : fed[k] <= Len(cuts)
  BY DEF Fields, Partial
<1>2. \A i \in 1 .. Len(frames) : OneChunk(frames[i], gd, dt)
  <2> SUFFICES ASSUME NEW i \in 1 .. Len(frames) PROVE OneChunk(frames[i], gd, dt)
    OBVIOUS
  <2>1. PICK f \in Framed : f = frames[i]
    BY <1>1
  <2>2. OneChunk(f, fed, cuts)
    BY <2>1, Zenon DEF Queued
  <2>3. OneChunk(f, gd, dt)
    BY <1>1, <2>2, ChunkStays, Zenon
  <2> QED
    BY <2>1, <2>3, Zenon
<1>3. PICK hs : hs = frames \o fs
  OBVIOUS
<1>4. /\ Len(hs) = Len(frames) + Len(fs) /\ Len(frames) \in Nat /\ Len(fs) \in Nat
      /\ \A i \in 1 .. Len(frames) : hs[i] = frames[i]
      /\ \A i \in 1 .. Len(fs) : hs[Len(frames) + i] = fs[i]
  BY <1>1, <1>3, ConcatIs
<1> SUFFICES ASSUME NEW i \in 1 .. Len(hs) PROVE OneChunk(hs[i], gd, dt)
  BY <1>3, Zenon
<1>5. CASE i <= Len(frames)
  <2>1. i \in 1 .. Len(frames)
    BY <1>4, <1>5
  <2> QED
    BY <1>2, <1>4, <2>1, Zenon
<1>6. CASE ~ (i <= Len(frames))
  <2>1. PICK k \in 1 .. Len(fs) : i = Len(frames) + k
    <3>1. i - Len(frames) \in 1 .. Len(fs) /\ i = Len(frames) + (i - Len(frames))
      BY <1>4, <1>6
    <3> QED
      BY <3>1
  <2> QED
    BY <1>4, <2>1, Zenon
<1> QED
  BY <1>5, <1>6

-----------------------------------------------------------------------------
(* Chunks, step by step.                                                   *)

LEMMA ChunkInitial == RenderInit => FadeInv
<1> SUFFICES ASSUME RenderInit PROVE FadeInv
  OBVIOUS
<1>1. Fields
  BY FieldsInitial DEF VoiceInv
<1>2. Partial /\ Armed /\ Queued /\ TailIs
  BY DEF RenderInit, Partial, Armed, Queued, TailIs
<1> QED
  BY <1>1, <1>2 DEF FadeInv, ChunkInv

LEMMA ClearChunks ==
    ASSUME ChunkInv, ClearPending
    PROVE  Partial' /\ Armed' /\ Queued' /\ TailIs'
<1>1. /\ frames' = <<>> /\ chunk' = <<>> /\ pendingSeam' = FALSE /\ tail' = <<>> /\ heard' = <<>>
      /\ cuts' = Append(cuts, "clear") /\ fed' = fed
  BY DEF ClearPending
<1>2. fed \in Seq(Nat) /\ cuts \in Seq({"mark", "clear"})
      /\ \A k \in 1 .. Len(fed) : fed[k] <= Len(cuts)
  BY DEF ChunkInv, Fields, Partial
<1>3. Len(cuts') = Len(cuts) + 1 /\ cuts'[Len(cuts')] = "clear"
  BY <1>1, <1>2
<1>4. Partial'
  BY <1>1, <1>2, <1>3 DEF Partial
<1>5. Armed'
  BY <1>1, <1>3 DEF Armed
<1>6. Queued' /\ TailIs'
  BY <1>1 DEF Queued, TailIs
<1> QED
  BY <1>4, <1>5, <1>6

LEMMA RenderChunks ==
    ASSUME ChunkInv, RenderVoice
    PROVE  Partial' /\ Armed' /\ Queued'
<1>1. UNCHANGED <<chunk, pendingSeam, fed, cuts>> /\ frames' = Tail(frames) /\ frames # <<>>
  BY DEF RenderVoice, Ready
<1>2. frames \in Seq(Framed)
  BY DEF ChunkInv, Fields
<1>3. Partial' /\ Armed'
  BY <1>1, Zenon DEF ChunkInv, Partial, Armed
<1>4. Queued'
  <2> SUFFICES ASSUME NEW i \in 1 .. Len(frames') PROVE OneChunk(frames'[i], fed', cuts')
    BY DEF Queued
  <2>1. i + 1 \in 1 .. Len(frames) /\ frames'[i] = frames[i + 1]
    BY <1>1, <1>2
  <2> QED
    BY <1>1, <2>1, Zenon DEF ChunkInv, Queued
<1> QED
  BY <1>3, <1>4

\* The partial frame that a boundary completes ends its chunk.
LEMMA MarkedFrame ==
    ASSUME ChunkInv, MarkChunkBoundary, chunk # <<>>,
           NEW f \in Framed,
           \A j \in 1 .. FrameSamples : f.samples[j] = IF j <= Len(chunk) THEN chunk[j] ELSE Silence,
           f.seam = pendingSeam
    PROVE  OneChunk(f, fed, cuts')
<1>1. PICK s \in Seq(Nat) : s = f.samples /\ Len(s) = FrameSamples
  BY FrameFields DEF Framed
<1>0. chunk \in Seq(Sounds) /\ cuts \in Seq({"mark", "clear"}) /\ fed \in Seq(Nat)
      /\ FrameSamples \in Nat
  BY FrameLength DEF ChunkInv, Fields
<1>2. PICK F \in Nat, L \in Nat, C \in Nat : F = FrameSamples /\ L = Len(chunk) /\ C = Len(cuts)
  <2>1. Len(chunk) \in Nat /\ Len(cuts) \in Nat
    BY <1>0
  <2> QED
    BY <1>0, <2>1, Zenon
<1>3. PICK b \in Nat : b = Len(fed) - L
  <2>1. Len(fed) \in Nat /\ L <= Len(fed)
    BY <1>0, <1>2 DEF ChunkInv, Partial
  <2>2. Len(fed) - L \in Nat
    BY <2>1
  <2> QED
    BY <2>2, Zenon
<1>4. /\ fed \in Seq(Nat) /\ L >= 1 /\ L < F /\ Len(fed) = b + L
      /\ \A k \in 1 .. Len(fed) : k > b => fed[k] = C
      /\ cuts \in Seq({"mark", "clear"}) /\ cuts' = Append(cuts, "mark")
  BY <1>2, <1>3 DEF ChunkInv, Fields, Partial, MarkChunkBoundary
<1>5. \A j \in 1 .. F : s[j] = IF j <= L THEN b + j ELSE 0
  <2>1. \A j \in 1 .. L : chunk[j] = b + j
    BY <1>2, <1>3 DEF ChunkInv, Partial
  <2>2. \A j \in 1 .. F : s[j] = IF j <= L THEN chunk[j] ELSE 0
    BY <1>1, <1>2, Zenon DEF Silence
  <2> QED
    BY <1>2, <2>1, <2>2
<1>6. \A j \in 1 .. F : s[j] \in 0 .. Len(fed)
  <2> SUFFICES ASSUME NEW j \in 1 .. F PROVE s[j] \in 0 .. Len(fed)
    OBVIOUS
  <2>1. s[j] = IF j <= L THEN b + j ELSE 0
    BY <1>5, Zenon
  <2>2. Len(fed) = b + L
    BY <1>4
  <2> QED
    BY <2>1, <2>2
<1>7. s[1] = b + 1 /\ s[1] # Silence /\ b + 1 \in 1 .. Len(fed)
  <2>1. 1 \in 1 .. F /\ 1 <= L /\ Len(fed) = b + L
    BY <1>4
  <2>2. s[1] = b + 1
    BY <1>5, <2>1
  <2> QED
    BY <2>1, <2>2 DEF Silence
<1>8. Len(cuts') = C + 1 /\ (C > 0 => cuts'[C] = cuts[C])
  BY <1>2, <1>4
<1>9. fed[b + 1] = C
  BY <1>4, <1>7
<1>10. pendingSeam <=> SeamAt(b + 1, fed, cuts')
  <2>1. pendingSeam <=> C > 0 /\ cuts[C] = "mark" /\ (b = 0 \/ fed[b] # C)
    <3>1. pendingSeam <=> C > 0 /\ cuts[C] = "mark" /\ (Len(fed) = L \/ fed[Len(fed) - L] # C)
      BY <1>2, Zenon DEF ChunkInv, Armed
    <3>2. (Len(fed) = L <=> b = 0) /\ Len(fed) - L = b
      BY <1>4
    <3> QED
      BY <3>1, <3>2, Zenon
  <2>2. b + 1 = 1 <=> b = 0
    OBVIOUS
  <2>3. (b + 1) - 1 = b
    OBVIOUS
  <2> QED
    BY <1>8, <1>9, <2>1, <2>2, <2>3, Zenon DEF SeamAt
<1>11. ASSUME NEW j \in 2 .. F PROVE InStep(s, j, fed, cuts')
  <2>1. j - 1 \in 1 .. F /\ j \in 1 .. F
    OBVIOUS
  <2>2. CASE j <= L
    <3>1. s[j] = b + j /\ s[j - 1] = b + (j - 1)
      BY <1>5, <2>1, <2>2
    <3>2. fed[b + j] = C /\ fed[b + (j - 1)] = C
      <4>1. b + j \in 1 .. Len(fed) /\ b + j > b /\ b + (j - 1) \in 1 .. Len(fed) /\ b + (j - 1) > b
        BY <1>4, <2>1, <2>2
      <4> QED
        BY <1>4, <4>1, Zenon
    <3>3. s[j] # Silence /\ s[j - 1] # Silence /\ s[j] = s[j - 1] + 1
      BY <3>1, <2>1 DEF Silence
    <3> QED
      BY <3>1, <3>2, <3>3, Zenon DEF InStep
  <2>3. CASE j = L + 1
    <3>1. s[j] = Silence /\ s[j - 1] = b + L
      BY <1>4, <1>5, <2>1, <2>3 DEF Silence
    <3>2. fed[b + L] < Len(cuts')
      BY <1>4, <1>8
    <3> QED
      BY <3>1, <3>2, Zenon DEF InStep
  <2>4. CASE j > L + 1
    <3>1. s[j] = Silence /\ s[j - 1] = Silence
      BY <1>4, <1>5, <2>1, <2>4 DEF Silence
    <3> QED
      BY <3>1, Zenon DEF InStep
  <2> QED
    BY <2>2, <2>3, <2>4
<1>12. \A j \in 2 .. FrameSamples : InStep(f.samples, j, fed, cuts')
  BY <1>1, <1>2, <1>11, Zenon
<1>13. \A j \in 1 .. FrameSamples : f.samples[j] \in 0 .. Len(fed)
  BY <1>1, <1>2, <1>6, Zenon
<1>14. f.samples[1] # Silence
  BY <1>1, <1>7, Zenon
<1>15. f.seam <=> SeamAt(f.samples[1], fed, cuts')
  BY <1>1, <1>7, <1>10, Zenon
<1> QED
  BY <1>12, <1>13, <1>14, <1>15, Zenon DEF OneChunk

LEMMA ExtendsItself == ASSUME NEW s, Len(s) \in Nat PROVE Extends(s, s)
BY DEF Extends

LEMMA ExtendsAppend ==
    ASSUME NEW S, NEW s \in Seq(S), NEW e \in S
    PROVE  Extends(Append(s, e), s)
BY DEF Extends

LEMMA MarkChunks ==
    ASSUME ChunkInv, MarkChunkBoundary
    PROVE  Partial' /\ Armed' /\ Queued'
<1>1. /\ frames' = frames \o Enqueue(Padded, pendingSeam)
      /\ chunk' = <<>> /\ pendingSeam' = TRUE /\ cuts' = Append(cuts, "mark") /\ fed' = fed
  BY DEF MarkChunkBoundary
<1>2. /\ fed \in Seq(Nat) /\ cuts \in Seq({"mark", "clear"})
      /\ \A k \in 1 .. Len(fed) : fed[k] <= Len(cuts)
      /\ chunk \in Seq(Sounds) /\ Len(chunk) < FrameSamples /\ pendingSeam \in BOOLEAN
  BY DEF ChunkInv, Fields, Partial
<1>3. Len(cuts') = Len(cuts) + 1 /\ cuts'[Len(cuts')] = "mark" /\ cuts' \in Seq({"mark", "clear"})
  BY <1>1, <1>2
<1>4. Partial'
  BY <1>1, <1>2, <1>3 DEF Partial
<1>5. Armed'
  <2>1. Len(fed) = 0 \/ fed[Len(fed)] # Len(cuts')
    BY <1>2, <1>3
  <2> QED
    BY <1>1, <1>2, <1>3, <2>1 DEF Armed
<1>6. PICK w \in Seq(Seq(Nat)) :
        /\ w = Padded
        /\ chunk = <<>> => w = <<>>
        /\ chunk # <<>> => Len(w) = 1
        /\ \A i \in 1 .. Len(w) :
             /\ Len(w[i]) = FrameSamples
             /\ \A j \in 1 .. FrameSamples : w[i][j] = IF j <= Len(chunk) THEN chunk[j] ELSE Silence
  <2>1. chunk \in Seq(Nat)
    BY <1>2, SoundsSeq, Zenon
  <2> QED
    BY <1>2, <2>1, PaddedIs, Zenon
<1>7. PICK e \in Seq(Framed) : e = Enqueue(w, pendingSeam) /\ Len(e) = Len(w)
  <2>1. \A i \in 1 .. Len(w) : Len(w[i]) = FrameSamples
    BY <1>6, Zenon
  <2>2. Enqueue(w, pendingSeam) \in Seq(Framed)
    BY <1>2, <2>1, EnqueueFramed, Zenon
  <2>3. Len(Enqueue(w, pendingSeam)) = Len(w)
    BY <1>2, EnqueueIs, Zenon
  <2> QED
    BY <2>2, <2>3, Zenon
<1>8. \A i \in 1 .. Len(e) : OneChunk(e[i], fed, cuts')
  <2> SUFFICES ASSUME NEW i \in 1 .. Len(e) PROVE OneChunk(e[i], fed, cuts')
    OBVIOUS
  <2>1. chunk # <<>> /\ i = 1 /\ i \in 1 .. Len(w)
    <3>1. i \in 1 .. Len(w)
      BY <1>7, Zenon
    <3>2. w # <<>>
      BY <3>1
    <3>3. Len(w) = 1
      BY <1>6, <3>2, Zenon
    <3> QED
      BY <1>6, <3>1, <3>2, <3>3
  <2>2. PICK f \in Framed : f = e[i]
    BY <1>7
  <2>3. f = [samples |-> w[i], seam |-> pendingSeam /\ i = 1]
    BY <1>2, <1>7, <2>1, <2>2, EnqueueIs, Zenon
  <2>4. f.samples = w[i] /\ f.seam = (pendingSeam /\ i = 1)
    BY <2>3
  <2>5. \A j \in 1 .. FrameSamples : f.samples[j] = IF j <= Len(chunk) THEN chunk[j] ELSE Silence
    BY <1>6, <2>1, <2>4, Zenon
  <2>6. f.seam = pendingSeam
    BY <1>2, <2>1, <2>4
  <2>7. OneChunk(f, fed, cuts')
    BY <2>1, <2>5, <2>6, MarkedFrame, Zenon
  <2> QED
    BY <2>2, <2>7, Zenon
<1>9. Queued'
  <2>1. frames' = frames \o e
    BY <1>1, <1>6, <1>7, Zenon
  <2>2. Extends(fed, fed) /\ Extends(cuts', cuts)
    <3>1. Len(fed) \in Nat /\ "mark" \in {"mark", "clear"}
      BY <1>2
    <3> QED
      BY <1>1, <1>2, <3>1, ExtendsItself, ExtendsAppend, Zenon
  <2>3. Fields /\ Partial /\ Queued
    BY DEF ChunkInv
  <2>4. \A i \in 1 .. Len(frames \o e) : OneChunk((frames \o e)[i], fed, cuts')
    BY <1>2, <1>3, <1>7, <1>8, <2>2, <2>3, QueuedStays, Zenon
  <2> QED
    BY <1>1, <2>1, <2>4, Zenon DEF Queued
<1> QED
  BY <1>4, <1>5, <1>9

-----------------------------------------------------------------------------
(* Feeding.                                                                *)

\* What the chunker cuts up are the last samples fed, all of one chunk.
LEMMA FedLast ==
    ASSUME ChunkInv, NEW n \in ChunkLengths, Feed(n)
    PROVE  \E pcm \in Seq(Nat), b \in Nat :
             /\ b = Len(fed) - Len(chunk)
             /\ Len(fed') = b + Len(pcm)
             /\ \A k \in 1 .. Len(pcm) : pcm[k] = b + k /\ fed'[b + k] = Len(cuts)
             /\ \A k \in 1 .. Len(fed) : fed'[k] = fed[k]
             /\ fed' \in Seq(Nat)
             /\ frames' = frames \o Enqueue(Whole(pcm), pendingSeam)
             /\ chunk' = Rest(pcm)
             /\ pendingSeam' = (pendingSeam /\ Whole(pcm) = <<>>)
<1>0. Fields /\ Partial
  BY DEF ChunkInv
<1>1. PICK pcm \in Seq(Sounds) :
         /\ pcm = chunk \o Numbers(Len(fed), Len(fed) + n)
         /\ Len(pcm) = Len(chunk) + n
         /\ frames' = frames \o Enqueue(Whole(pcm), pendingSeam)
         /\ chunk' = Rest(pcm)
         /\ pendingSeam' = (pendingSeam /\ Whole(pcm) = <<>>)
  BY <1>0, FeedIs
<1>2. /\ fed' \in Seq(Nat) /\ Len(fed') = Len(fed) + n
      /\ \A k \in 1 .. Len(fed) : fed'[k] = fed[k]
      /\ \A k \in 1 .. n : fed'[Len(fed) + k] = Len(cuts)
  BY <1>0, FedIs
<1>3. /\ chunk \in Seq(Sounds) /\ fed \in Seq(Nat) /\ Len(chunk) <= Len(fed) /\ n \in Nat
      /\ \A i \in 1 .. Len(chunk) : chunk[i] = Len(fed) - Len(chunk) + i
      /\ \A k \in 1 .. Len(fed) : k > Len(fed) - Len(chunk) => fed[k] = Len(cuts)
  BY <1>0, RenderAssumption DEF Fields, Partial
<1>4. PICK L \in Nat, N \in Nat : L = Len(chunk) /\ N = Len(fed)
  <2>1. Len(chunk) \in Nat /\ Len(fed) \in Nat
    BY <1>3
  <2> QED
    BY <2>1, Zenon
<1>5. PICK b \in Nat : b = N - L
  <2>1. N - L \in Nat
    BY <1>3, <1>4
  <2> QED
    BY <2>1, Zenon
<1>6. PICK new \in Seq(Sounds) : /\ new = Numbers(N, N + n) /\ Len(new) = n
                                 /\ \A i \in 1 .. n : new[i] = N + i
  <2>1. N + n \in Nat /\ N <= N + n /\ (N + n) - N = n
    BY <1>3
  <2>2. PICK m \in Nat : m = N + n
    BY <2>1
  <2>3. /\ Numbers(N, m) \in Seq(Sounds) /\ Len(Numbers(N, m)) = m - N
        /\ \A i \in 1 .. m - N : Numbers(N, m)[i] = N + i
    BY <2>1, <2>2, NumbersAre, Zenon
  <2> QED
    BY <2>1, <2>2, <2>3, Zenon
<1>7. PICK c \in Seq(Sounds) : c = chunk
  BY <1>3
<1>8. pcm = c \o new
  BY <1>1, <1>4, <1>6, <1>7, Zenon
<1>9. /\ \A k \in 1 .. L : pcm[k] = c[k]
      /\ \A k \in 1 .. n : pcm[L + k] = new[k]
  BY <1>4, <1>6, <1>7, <1>8, ConcatIs
<1>10. ASSUME NEW k \in 1 .. L + n
       PROVE  pcm[k] = b + k /\ fed'[b + k] = Len(cuts)
  <2>1. CASE k <= L
    <3>1. k \in 1 .. L /\ b + k \in 1 .. N /\ b + k > N - L
      BY <1>3, <1>5, <2>1
    <3>2. pcm[k] = N - L + k
      BY <1>3, <1>4, <1>7, <1>9, <3>1, Zenon
    <3>3. fed'[b + k] = Len(cuts)
      BY <1>2, <1>3, <1>4, <3>1, Zenon
    <3> QED
      BY <1>5, <3>2, <3>3
  <2>2. CASE ~ (k <= L)
    <3>1. PICK j \in 1 .. n : k = L + j
      <4>1. k - L \in 1 .. n /\ k = L + (k - L)
        BY <1>3, <2>2
      <4> QED
        BY <4>1, Zenon
    <3>2. pcm[k] = N + j
      BY <1>6, <1>9, <3>1, Zenon
    <3>3. fed'[N + j] = Len(cuts)
      BY <1>2, <1>4, Zenon
    <3>4. N + j = b + k
      BY <1>3, <1>5, <3>1
    <3> QED
      BY <3>2, <3>3, <3>4, Zenon
  <2> QED
    BY <2>1, <2>2
<1>11. Len(fed') = b + Len(pcm)
  <2>1. N + n = b + (L + n)
    BY <1>3, <1>5
  <2> QED
    BY <1>1, <1>2, <1>4, <2>1, Zenon
<1>12. pcm \in Seq(Nat) /\ Len(pcm) = L + n /\ b = Len(fed) - Len(chunk)
  BY <1>1, <1>4, <1>5, SoundsSeq, Zenon
<1> QED
  BY <1>1, <1>2, <1>10, <1>11, <1>12, Zenon

\* A whole frame cut out of one chunk.
LEMMA CutFrame ==
    ASSUME NEW f \in Framed, NEW m \in Nat, NEW gd \in Seq(Nat), NEW ct, NEW C \in Nat,
           m + FrameSamples <= Len(gd),
           \A j \in 1 .. FrameSamples : f.samples[j] = m + j /\ gd[m + j] = C,
           f.seam <=> SeamAt(m + 1, gd, ct)
    PROVE  OneChunk(f, gd, ct)
<1>1. PICK s \in Seq(Nat) : s = f.samples /\ Len(s) = FrameSamples
  BY FrameFields DEF Framed
<1>2. PICK F \in Nat \ {0} : F = FrameSamples
  BY FrameLength
<1>3. \A j \in 1 .. F : s[j] = m + j /\ gd[m + j] = C
  BY <1>1, <1>2, Zenon
<1>4. \A j \in 1 .. F : s[j] \in 0 .. Len(gd) /\ s[j] # Silence
  <2> SUFFICES ASSUME NEW j \in 1 .. F PROVE s[j] \in 0 .. Len(gd) /\ s[j] # Silence
    OBVIOUS
  <2>1. s[j] = m + j /\ m + F <= Len(gd)
    BY <1>2, <1>3, Zenon
  <2> QED
    BY <2>1 DEF Silence
<1>5. s[1] = m + 1 /\ s[1] # Silence
  <2>1. 1 \in 1 .. F
    BY <1>2
  <2> QED
    BY <1>3, <1>4, <2>1, Zenon
<1>6. ASSUME NEW j \in 2 .. F PROVE InStep(s, j, gd, ct)
  <2>1. j - 1 \in 1 .. F /\ j \in 1 .. F
    OBVIOUS
  <2>2. s[j] = m + j /\ s[j - 1] = m + (j - 1) /\ gd[m + j] = C /\ gd[m + (j - 1)] = C
    BY <1>3, <2>1, Zenon
  <2>3. m + j = (m + (j - 1)) + 1
    BY <2>1
  <2>4. s[j] # Silence /\ s[j - 1] # Silence
    BY <1>4, <2>1, Zenon
  <2> QED
    BY <2>2, <2>3, <2>4, Zenon DEF InStep
<1>7. f.seam <=> SeamAt(f.samples[1], gd, ct)
  BY <1>1, <1>5, Zenon
<1>8. \A j \in 1 .. FrameSamples : f.samples[j] \in 0 .. Len(gd)
  BY <1>1, <1>2, <1>4, Zenon
<1>9. \A j \in 2 .. FrameSamples : InStep(f.samples, j, gd, ct)
  BY <1>1, <1>2, <1>6, Zenon
<1> QED
  BY <1>1, <1>5, <1>7, <1>8, <1>9, Zenon DEF OneChunk

LEMMA FeedChunks ==
    ASSUME ChunkInv, NEW n \in ChunkLengths, Feed(n)
    PROVE  Partial' /\ Armed' /\ Queued'
<1>0. Fields /\ Partial /\ Queued
  BY DEF ChunkInv
<1>1. PICK pcm \in Seq(Nat), b \in Nat :
        /\ b = Len(fed) - Len(chunk)
        /\ Len(fed') = b + Len(pcm)
        /\ \A k \in 1 .. Len(pcm) : pcm[k] = b + k /\ fed'[b + k] = Len(cuts)
        /\ \A k \in 1 .. Len(fed) : fed'[k] = fed[k]
        /\ fed' \in Seq(Nat)
        /\ frames' = frames \o Enqueue(Whole(pcm), pendingSeam)
        /\ chunk' = Rest(pcm)
        /\ pendingSeam' = (pendingSeam /\ Whole(pcm) = <<>>)
  BY FedLast, Zenon
<1>2. /\ fed \in Seq(Nat) /\ cuts \in Seq({"mark", "clear"})
      /\ \A k \in 1 .. Len(fed) : fed[k] <= Len(cuts)
      /\ chunk \in Seq(Sounds) /\ pendingSeam \in BOOLEAN
  BY <1>0 DEF Fields, Partial
<1>3. cuts' = cuts
  BY DEF Feed
<1>4. PICK P \in Nat, C \in Nat, F \in Nat \ {0} : P = Len(pcm) /\ C = Len(cuts) /\ F = FrameSamples
  <2>1. Len(pcm) \in Nat /\ Len(cuts) \in Nat /\ FrameSamples \in Nat \ {0}
    BY <1>2, FrameLength
  <2> QED
    BY <2>1, Zenon
<1>5. PICK q \in Nat : q = P \div FrameSamples
  BY Cutting
<1>6. PICK m \in Nat : m = q * FrameSamples /\ m <= P /\ P - m < F
  <2>1. q * FrameSamples \in 0 .. P /\ P - q * FrameSamples < FrameSamples
    BY <1>5, Cutting, Zenon
  <2>2. q * FrameSamples \in Nat /\ q * FrameSamples <= P
    BY <2>1
  <2> QED
    BY <1>4, <2>1, <2>2, Zenon
<1>21. m <= P /\ P - m < F
  BY <1>6, Zenon
<1>7. PICK w \in Seq(Seq(Nat)) :
        /\ w = Whole(pcm) /\ Len(w) = q
        /\ \A i \in 1 .. Len(w) :
             /\ Len(w[i]) = FrameSamples
             /\ \A j \in 1 .. FrameSamples : w[i][j] = pcm[(i - 1) * FrameSamples + j]
  <2>1. /\ Whole(pcm) \in Seq(Seq(Nat))
        /\ Len(Whole(pcm)) = Len(pcm) \div FrameSamples
        /\ \A i \in 1 .. Len(Whole(pcm)) :
             /\ Len(Whole(pcm)[i]) = FrameSamples
             /\ \A j \in 1 .. FrameSamples : Whole(pcm)[i][j] = pcm[(i - 1) * FrameSamples + j]
    BY WholeIs, Zenon
  <2>2. Len(Whole(pcm)) = q
    BY <1>4, <1>5, <2>1, Zenon
  <2> QED
    BY <2>1, <2>2, Zenon
<1>8. PICK r \in Seq(Nat) : r = Rest(pcm) /\ Len(r) = P - m /\ \A j \in 1 .. Len(r) : r[j] = pcm[m + j]
  BY <1>4, <1>5, <1>6, RestIs, Zenon
<1>9. \A k \in 1 .. P : pcm[k] = b + k /\ fed'[b + k] = C
  BY <1>1, <1>4, Zenon
<1>10. Len(fed') = b + P
  BY <1>1, <1>4, Zenon
<1>11. b <= Len(fed) /\ Len(fed) <= b + P /\ (\A k \in 1 .. Len(fed) : k > b => k - b \in 1 .. P)
       /\ (\A k \in 1 .. b : k \in 1 .. Len(fed))
  <2>1. PICK N \in Nat, L \in Nat : N = Len(fed) /\ L = Len(chunk)
    <3>1. Len(fed) \in Nat /\ Len(chunk) \in Nat
      BY <1>2
    <3> QED
      BY <3>1, Zenon
  <2>2. b = N - L
    BY <1>1, <2>1, Zenon
  <2>3. Len(fed') = N + n /\ n \in Nat
    BY <1>0, <2>1, FedIs, RenderAssumption, Zenon
  <2>4. b + P = N + n
    BY <1>10, <2>3, Zenon
  <2>5. b <= N /\ N <= b + P /\ (\A k \in 1 .. N : k > b => k - b \in 1 .. P)
        /\ (\A k \in 1 .. b : k \in 1 .. N)
    BY <2>2, <2>3, <2>4
  <2> QED
    BY <2>1, <2>5, Zenon
<1>12. ASSUME NEW k \in 1 .. b + P, k > b PROVE fed'[k] = C
  <2>1. k - b \in 1 .. P /\ k = b + (k - b)
    BY <1>12
  <2> QED
    BY <1>9, <2>1, Zenon
<1>13. ASSUME NEW k \in 1 .. b + P PROVE fed'[k] <= C
  <2>1. CASE k <= b
    <3>1. k \in 1 .. Len(fed)
      BY <1>11, <2>1
    <3>2. fed'[k] = fed[k] /\ fed[k] <= C
      BY <1>1, <1>2, <1>4, <3>1, Zenon
    <3> QED
      BY <3>2, Zenon
  <2>2. CASE ~ (k <= b)
    <3>1. fed'[k] = C /\ C <= C
      BY <1>12, <2>2
    <3> QED
      BY <3>1, Zenon
  <2> QED
    BY <2>1, <2>2
<1>14. chunk' = r /\ Len(chunk') = P - m
  BY <1>1, <1>8, Zenon
<1>15. Partial'
  <2>1. Len(r) <= b + P
    BY <1>21, <1>8
  <2>2. \A i \in 1 .. Len(r) : r[i] = (b + P) - Len(r) + i
    <3> SUFFICES ASSUME NEW i \in 1 .. Len(r) PROVE r[i] = (b + P) - Len(r) + i
      OBVIOUS
    <3>0. PICK R \in Nat : R = Len(r) /\ R = P - m
      <4>1. Len(r) \in Nat
        OBVIOUS
      <4> QED
        BY <1>8, <4>1, Zenon
    <3>1. m + i \in 1 .. P /\ (b + P) - Len(r) + i = b + (m + i)
      <4>1. i \in 1 .. R
        BY <3>0, Zenon
      <4>2. m + i \in 1 .. P /\ (b + P) - R + i = b + (m + i)
        BY <1>21, <3>0, <4>1
      <4> QED
        BY <3>0, <4>2, Zenon
    <3>2. r[i] = b + (m + i)
      BY <1>8, <1>9, <3>1, Zenon
    <3> QED
      BY <3>1, <3>2, Zenon
  <2>3. \A k \in 1 .. b + P : k > (b + P) - Len(r) => fed'[k] = C
    <3>1. \A k \in 1 .. b + P : k > (b + P) - Len(r) => k > b
      BY <1>21, <1>8
    <3> QED
      BY <1>12, <3>1, Zenon
  <2> QED
    BY <1>3, <1>4, <1>10, <1>13, <1>14, <2>1, <2>2, <2>3, Zenon DEF Partial
<1>16. PICK e \in Seq(Framed) : e = Enqueue(w, pendingSeam) /\ Len(e) = q
  <2>1. \A i \in 1 .. Len(w) : Len(w[i]) = FrameSamples
    BY <1>7, Zenon
  <2>2. Enqueue(w, pendingSeam) \in Seq(Framed)
    BY <1>2, <2>1, EnqueueFramed, Zenon
  <2>3. Len(Enqueue(w, pendingSeam)) = Len(w)
    BY <1>2, EnqueueIs, Zenon
  <2> QED
    BY <1>7, <2>2, <2>3, Zenon
<1>17. pendingSeam <=> C > 0 /\ cuts[C] = "mark" /\ (b = 0 \/ fed'[b] # C)
  <2>1. pendingSeam <=> C > 0 /\ cuts[C] = "mark" /\ (Len(fed) = Len(chunk) \/ fed[Len(fed) - Len(chunk)] # C)
    BY <1>4, Zenon DEF ChunkInv, Armed
  <2>2. Len(fed) = Len(chunk) <=> b = 0
    <3>1. Len(fed) \in Nat /\ Len(chunk) \in Nat
      BY <1>2
    <3> QED
      BY <1>1, <3>1
  <2>3. b # 0 => fed'[b] = fed[b]
    <3>1. b # 0 => b \in 1 .. b
      OBVIOUS
    <3> QED
      BY <1>1, <1>11, <3>1, Zenon
  <2>4. pendingSeam <=> C > 0 /\ cuts[C] = "mark" /\ (b = 0 \/ fed[b] # C)
    BY <1>1, <2>1, <2>2, Zenon
  <2> QED
    BY <2>3, <2>4, Zenon
<1>18. Armed'
  <2>1. pendingSeam' = (pendingSeam /\ w = <<>>)
    BY <1>1, <1>7, Zenon
  <2>2. (b + P) - (P - m) = b + m
    BY <1>21
  <2>3. CASE q = 0
    <3>1. w = <<>>
      BY <1>7, <2>3
    <3>2. m = 0
      <4>1. 0 * FrameSamples = 0
        BY FrameLength, Z3
      <4> QED
        BY <1>6, <2>3, <4>1, Zenon
    <3>3. b + m = b /\ (b + P = P - m <=> b = 0)
      BY <3>2
    <3>4. pendingSeam' <=> C > 0 /\ cuts[C] = "mark" /\ (b = 0 \/ fed'[b] # C)
      BY <1>2, <1>17, <2>1, <3>1
    <3> QED
      BY <1>3, <1>4, <1>10, <1>14, <2>2, <3>3, <3>4, Zenon DEF Armed
  <2>4. CASE q # 0
    <3>1. w # <<>>
      BY <1>7, <2>4
    <3>2. m >= 1
      <4>1. q * F >= F
        BY <2>4, Z3
      <4>2. m >= F
        BY <1>4, <1>6, <4>1, Zenon
      <4> QED
        BY <4>2
    <3>3. b + m \in 1 .. b + P /\ b + m > b /\ b + P # P - m
      BY <1>21, <3>2
    <3>4. fed'[b + m] = C
      BY <1>12, <3>3, Zenon
    <3>5. ~ pendingSeam'
      BY <2>1, <3>1, Zenon
    <3> QED
      BY <1>3, <1>4, <1>10, <1>14, <2>2, <3>3, <3>4, <3>5, Zenon DEF Armed
  <2> QED
    BY <2>3, <2>4
<1>19. ASSUME NEW i \in 1 .. Len(e) PROVE OneChunk(e[i], fed', cuts)
  <2>0. i \in 1 .. q /\ i \in 1 .. Len(w)
    BY <1>7, <1>16, <1>19
  <2>1. PICK f \in Framed : f = e[i]
    BY <1>16, <1>19
  <2>2. f = [samples |-> w[i], seam |-> pendingSeam /\ i = 1]
    BY <1>2, <1>16, <2>0, <2>1, EnqueueIs, Zenon
  <2>3. f.samples = w[i] /\ f.seam = (pendingSeam /\ i = 1)
    BY <2>2
  <2>4. /\ (i - 1) * FrameSamples \in Nat
        /\ i * FrameSamples = (i - 1) * FrameSamples + FrameSamples
        /\ i * FrameSamples <= P
        /\ i > 1 => (i - 1) * FrameSamples >= FrameSamples
    BY <1>5, <2>0, Cutting, Zenon
  <2>5. PICK d \in Nat : d = (i - 1) * FrameSamples
    BY <2>4, Zenon
  <2>6. d + F <= P /\ (i > 1 => d >= F)
    BY <1>4, <2>4, <2>5
  <2>7. i = 1 => d = 0
    <3>1. i = 1 => i - 1 = 0
      OBVIOUS
    <3>2. 0 * FrameSamples = 0
      BY FrameLength, Z3
    <3> QED
      BY <2>5, <3>1, <3>2, Zenon
  <2>8. PICK k \in Nat : k = b + d
    OBVIOUS
  <2>9. ASSUME NEW j \in 1 .. F PROVE f.samples[j] = k + j /\ fed'[k + j] = C
    <3>1. d + j \in 1 .. P /\ b + (d + j) = k + j
      BY <2>6, <2>8
    <3>2. w[i][j] = pcm[d + j]
      BY <1>4, <1>7, <2>0, <2>5, Zenon
    <3> QED
      BY <1>9, <2>3, <3>1, <3>2, Zenon
  <2>10. fed'[k + 1] = C
    <3>1. 1 \in 1 .. F
      OBVIOUS
    <3> QED
      BY <2>9, <3>1, Zenon
  <2>11. f.seam <=> SeamAt(k + 1, fed', cuts)
    <3>1. CASE i = 1
      <4>1. k = b /\ (k + 1) - 1 = b /\ (k + 1 = 1 <=> b = 0)
        BY <2>7, <2>8, <3>1
      <4>2. f.seam <=> pendingSeam
        BY <1>2, <2>3, <3>1
      <4> QED
        BY <1>17, <2>10, <4>1, <4>2, Zenon DEF SeamAt
    <3>2. CASE i # 1
      <4>1. k \in 1 .. b + P /\ k > b /\ (k + 1) - 1 = k /\ k + 1 # 1
        BY <2>0, <2>6, <2>8, <3>2
      <4>2. fed'[k] = C
        BY <1>12, <4>1, Zenon
      <4>3. ~ f.seam
        BY <1>2, <2>3, <3>2
      <4> QED
        BY <2>10, <4>1, <4>2, <4>3, Zenon DEF SeamAt
    <3> QED
      BY <3>1, <3>2
  <2>12. k + F <= Len(fed')
    BY <1>10, <2>6, <2>8
  <2>13. OneChunk(f, fed', cuts)
    BY <1>1, <1>4, <2>9, <2>11, <2>12, CutFrame, Zenon
  <2> QED
    BY <2>1, <2>13, Zenon
<1>20. Queued'
  <2>1. frames' = frames \o e
    BY <1>1, <1>7, <1>16, Zenon
  <2>2. Extends(fed', fed) /\ Extends(cuts, cuts)
    <3>1. Len(cuts) \in Nat
      BY <1>2
    <3>2. Len(fed) <= Len(fed')
      BY <1>10, <1>11, Zenon
    <3> QED
      BY <1>1, <3>1, <3>2, ExtendsItself, Zenon DEF Extends
  <2>3. \A i \in 1 .. Len(frames \o e) : OneChunk((frames \o e)[i], fed', cuts)
    BY <1>0, <1>1, <1>2, <1>16, <1>19, <2>2, QueuedStays, Zenon
  <2> QED
    BY <1>3, <2>1, <2>3, Zenon DEF Queued
<1> QED
  BY <1>15, <1>18, <1>20

-----------------------------------------------------------------------------
(* Crossfades.                                                             *)

\* A dst's worth of sets, mixed or not.
Mixable(v) ==
    /\ v \in [1 .. FrameSamples -> SUBSET Nat]
    /\ \A over : Blend(over, v) =
          [i \in 1 .. FrameSamples |->
             IF i <= (Min({Len(over), FrameSamples}) \div Channels) * Channels
             THEN over[i] \cup v[i] ELSE v[i]]

LEMMA VoiceSets ==
    ASSUME NEW f \in Framed
    PROVE  Mixable(Voice(f.samples))
<1>1. PICK s \in Seq(Nat), n \in Nat : s = f.samples /\ n = FrameSamples /\ Len(s) = n
  BY FrameFields, FrameLength DEF Framed
<1>2. DOMAIN s = 1 .. n /\ \A i \in 1 .. n : s[i] \in Nat
  BY <1>1
<1>3. \A i \in 1 .. n : {s[i]} \ {Silence} \in SUBSET Nat
  BY <1>2
<1>4. Voice(s) = [i \in 1 .. n |-> {s[i]} \ {Silence}]
  BY <1>2, Zenon DEF Voice
<1>5. Voice(s) \in [1 .. n -> SUBSET Nat]
  BY <1>3, <1>4, Zenon
<1>6. DOMAIN Voice(s) = 1 .. n /\ Len(Voice(s)) = n
  BY <1>5
<1> QED
  BY <1>1, <1>5, <1>6, Zenon DEF Blend, Mixable

LEMMA FadeLength ==
    /\ FadeSamples \in Nat /\ FadeSamples <= FrameSamples
    /\ (Min({FadeSamples, FrameSamples}) \div Channels) * Channels = FadeSamples
<1>1. FadeSamples \in Nat /\ FadeSamples <= FrameSamples /\ FrameSamples \in Nat
  BY RenderAssumption
<1>2. Min({FadeSamples, FrameSamples}) = FadeSamples
  BY <1>1, MinOfTwo
<1>3. PICK d \in Nat, c \in Nat \ {0} : d = FadeSamples /\ c = Channels /\ d % c = 0
  BY RenderAssumption
<1>4. (d \div c) * c = d
  BY <1>3, Z3
<1> QED
  BY <1>1, <1>2, <1>3, <1>4, Zenon

LEMMA KeptIs ==
    ASSUME NEW dst \in [1 .. FrameSamples -> SUBSET Nat]
    PROVE  /\ Kept(dst) \in Seq(SUBSET Nat) /\ Len(Kept(dst)) = FadeSamples
           /\ \A i \in 1 .. FadeSamples : Kept(dst)[i] = dst[FrameSamples - FadeSamples + i]
<1>1. PICK n \in Nat, d \in Nat : n = FrameSamples /\ d = FadeSamples /\ d <= n
  BY FadeLength, FrameLength
<1>2. dst \in Seq(SUBSET Nat) /\ Len(dst) = n
  BY <1>1
<1>3. PICK m \in Nat : m = n - d
  BY <1>1
<1>4. m \in 0 .. Len(dst) /\ n \in m .. Len(dst) /\ n - m = d
  BY <1>1, <1>2, <1>3
<1>5. /\ SubSeq(dst, m + 1, n) \in Seq(SUBSET Nat)
      /\ Len(SubSeq(dst, m + 1, n)) = n - m
      /\ \A i \in 1 .. n - m : SubSeq(dst, m + 1, n)[i] = dst[m + i]
  BY <1>2, <1>4, CutType, Zenon
<1>6. Kept(dst) = SubSeq(dst, m + 1, n)
  BY <1>1, <1>2, <1>3, Zenon DEF Kept
<1> QED
  BY <1>1, <1>3, <1>4, <1>5, <1>6, Zenon

LEMMA RenderedFade ==
    ASSUME FadeInv, RenderVoice
    PROVE  /\ TailIs'
           /\ LET s == Head(frames).samples
              IN \A i \in 1 .. FrameSamples :
                   heard'[i] = Voice(s)[i] \cup
                     IF IsSeam(s[1]) /\ heard # <<>> /\ i <= FadeSamples
                     THEN heard[FrameSamples - FadeSamples + i] ELSE {}
<1>1. PICK f \in Framed : f = Head(frames) /\ OneChunk(f, fed, cuts)
  <2>1. frames \in Seq(Framed) /\ frames # <<>>
    BY DEF FadeInv, ChunkInv, Fields, RenderVoice, Ready
  <2>2. Head(frames) \in Framed /\ Head(frames) = frames[1] /\ 1 \in 1 .. Len(frames)
    BY <2>1
  <2> QED
    BY <2>2, Zenon DEF FadeInv, ChunkInv, Queued
<1>2. PICK v : v = Voice(f.samples)
  OBVIOUS
<1>3. /\ v \in [1 .. FrameSamples -> SUBSET Nat]
      /\ \A over : Blend(over, v) =
            [i \in 1 .. FrameSamples |->
               IF i <= (Min({Len(over), FrameSamples}) \div Channels) * Channels
               THEN over[i] \cup v[i] ELSE v[i]]
  <2>1. Mixable(v)
    BY <1>2, VoiceSets, Zenon
  <2> QED
    BY <2>1, Zenon DEF Mixable
<1>4. f.seam <=> IsSeam(f.samples[1])
  BY <1>1, Zenon DEF OneChunk, SeamAt, IsSeam
<1>5. PICK dst : /\ dst = IF f.seam /\ tail # <<>> /\ FadeSamples > 0 THEN Blend(tail, v) ELSE v
                 /\ tail' = Kept(dst) /\ heard' = dst
  BY <1>1, <1>2, Zenon DEF RenderVoice
<1>6. CASE ~ (f.seam /\ tail # <<>> /\ FadeSamples > 0)
  <2>1. dst = v
    BY <1>5, <1>6, Zenon
  <2>2. TailIs'
    BY <1>3, <1>5, <2>1, Zenon DEF TailIs
  <2>3. ASSUME NEW i \in 1 .. FrameSamples
        PROVE  ~ (IsSeam(f.samples[1]) /\ heard # <<>> /\ i <= FadeSamples)
    <3>1. CASE FadeSamples > 0
      <4>1. ~ f.seam \/ tail = <<>>
        BY <1>6, <3>1
      <4>2. tail = <<>> => heard = <<>>
        <5> SUFFICES ASSUME tail = <<>>, heard \in [1 .. FrameSamples -> SUBSET Nat], tail = Kept(heard)
                     PROVE  FALSE
          BY DEF FadeInv, TailIs
        <5>1. Len(Kept(heard)) = FadeSamples
          BY KeptIs
        <5> QED
          BY <3>1, <5>1
      <4> QED
        BY <1>4, <4>1, <4>2, Zenon
    <3>2. CASE ~ (FadeSamples > 0)
      BY <3>2, FadeLength, FrameLength
    <3> QED
      BY <3>1, <3>2
  <2>4. \A i \in 1 .. FrameSamples : v[i] \cup {} = v[i]
    BY Zenon
  <2> QED
    BY <1>1, <1>2, <1>5, <2>1, <2>2, <2>3, <2>4, Zenon
<1>7. CASE f.seam /\ tail # <<>> /\ FadeSamples > 0
  <2>1. heard \in [1 .. FrameSamples -> SUBSET Nat] /\ tail = Kept(heard) /\ heard # <<>>
    <3>1. heard \in [1 .. FrameSamples -> SUBSET Nat] /\ tail = Kept(heard)
      BY <1>7, Zenon DEF FadeInv, TailIs
    <3>2. heard # <<>>
      BY <3>1, FrameLength
    <3> QED
      BY <3>1, <3>2
  <2>2. /\ Len(tail) = FadeSamples /\ tail \in Seq(SUBSET Nat)
        /\ \A i \in 1 .. FadeSamples : tail[i] = heard[FrameSamples - FadeSamples + i]
    BY <2>1, KeptIs, Zenon
  <2>3. (Min({Len(tail), FrameSamples}) \div Channels) * Channels = FadeSamples
    BY <2>2, FadeLength, Zenon
  <2>4. dst = [i \in 1 .. FrameSamples |-> IF i <= FadeSamples THEN tail[i] \cup v[i] ELSE v[i]]
    BY <1>3, <1>5, <1>7, <2>3, Zenon
  <2>5. ASSUME NEW i \in 1 .. FrameSamples, i <= FadeSamples
        PROVE  i \in 1 .. FadeSamples /\ tail[i] \in SUBSET Nat
    <3>1. i \in 1 .. FadeSamples
      BY <2>5, FadeLength, FrameLength
    <3> QED
      BY <2>2, <3>1
  <2>6. dst \in [1 .. FrameSamples -> SUBSET Nat]
    <3>1. \A i \in 1 .. FrameSamples :
             (IF i <= FadeSamples THEN tail[i] \cup v[i] ELSE v[i]) \in SUBSET Nat
      BY <1>3, <2>5
    <3> QED
      BY <2>4, <3>1, Zenon
  <2>7. TailIs'
    BY <1>5, <2>6, Zenon DEF TailIs
  <2>8. ASSUME NEW i \in 1 .. FrameSamples
        PROVE  dst[i] = v[i] \cup
                 IF IsSeam(f.samples[1]) /\ heard # <<>> /\ i <= FadeSamples
                 THEN heard[FrameSamples - FadeSamples + i] ELSE {}
    <3>1. dst[i] = IF i <= FadeSamples THEN tail[i] \cup v[i] ELSE v[i]
      BY <2>4, Zenon
    <3>2. CASE i <= FadeSamples
      <4>1. tail[i] = heard[FrameSamples - FadeSamples + i]
        BY <2>2, <2>5, <3>2, Zenon
      <4>2. tail[i] \cup v[i] = v[i] \cup tail[i]
        BY Zenon
      <4> QED
        BY <1>4, <1>7, <2>1, <3>1, <3>2, <4>1, <4>2, Zenon
    <3>3. CASE ~ (i <= FadeSamples)
      <4>1. v[i] \cup {} = v[i]
        BY Zenon
      <4> QED
        BY <3>1, <3>3, <4>1, Zenon
    <3> QED
      BY <3>2, <3>3
  <2> QED
    BY <1>1, <1>2, <1>5, <2>7, <2>8, Zenon
<1> QED
  BY <1>6, <1>7

LEMMA FadeStep ==
    ASSUME FadeInv, VoiceInv, [RenderNext]_renderVars
    PROVE  FadeInv'
<1>1. Fields'
  BY VoiceStep DEF VoiceInv
<1>2. ASSUME UNCHANGED <<jitter, history>>
      PROVE  Partial' /\ Armed' /\ Queued' /\ TailIs'
  BY <1>2, Zenon DEF FadeInv, ChunkInv, Partial, Armed, Queued, TailIs, jitter, history
<1>3. ASSUME UNCHANGED <<tail, heard>>
      PROVE  TailIs'
  BY <1>3, Zenon DEF FadeInv, TailIs
<1>4. ASSUME NEW n \in ChunkLengths, FeedCheck(n) PROVE FadeInv'
  BY <1>1, <1>2, <1>4, Zenon DEF FeedCheck, FadeInv, ChunkInv
<1>5. ASSUME NEW n \in ChunkLengths, Feed(n) PROVE FadeInv'
  <2>1. UNCHANGED <<tail, heard>>
    BY <1>5, Zenon DEF Feed
  <2>2. Partial' /\ Armed' /\ Queued'
    BY <1>5, FeedChunks, Zenon DEF FadeInv
  <2> QED
    BY <1>1, <1>3, <2>1, <2>2, Zenon DEF FadeInv, ChunkInv
<1>6. CASE MarkChunkBoundary
  <2>1. UNCHANGED <<tail, heard>>
    BY <1>6, Zenon DEF MarkChunkBoundary
  <2>2. Partial' /\ Armed' /\ Queued'
    BY <1>6, MarkChunks, Zenon DEF FadeInv
  <2> QED
    BY <1>1, <1>3, <2>1, <2>2, Zenon DEF FadeInv, ChunkInv
<1>7. CASE ClearPending
  BY <1>1, <1>7, ClearChunks, Zenon DEF FadeInv, ChunkInv
<1>8. CASE Halt
  BY <1>1, <1>2, <1>8, Zenon DEF Halt, FadeInv, ChunkInv
<1>9. CASE RenderVoice
  <2>1. Partial' /\ Armed' /\ Queued'
    BY <1>9, RenderChunks, Zenon DEF FadeInv
  <2>2. TailIs'
    BY <1>9, RenderedFade, Zenon
  <2> QED
    BY <1>1, <2>1, <2>2, Zenon DEF FadeInv, ChunkInv
<1>10. CASE RenderSilence
  BY <1>1, <1>2, <1>10, Zenon DEF RenderSilence, FadeInv, ChunkInv
<1>11. CASE UNCHANGED renderVars
  <2>1. UNCHANGED <<jitter, history>>
    BY <1>11, Zenon DEF renderVars
  <2> QED
    BY <1>1, <1>2, <2>1, Zenon DEF FadeInv, ChunkInv
<1> QED
  BY <1>4, <1>5, <1>6, <1>7, <1>8, <1>9, <1>10, <1>11, Zenon DEF RenderNext, RenderTick

LEMMA FadeAlways == RenderSpec => []FadeInv
<1>1. RenderInit => FadeInv
  BY ChunkInitial
<1>2. FadeInv /\ VoiceInv /\ [RenderNext]_renderVars => FadeInv'
  BY FadeStep
<1> QED
  BY <1>1, <1>2, VoiceAlways, PTL DEF RenderSpec

\* Whatever is fed, marked, cleared and played, a frame in the queue holds audio
\* of one chunk, padding ends that chunk, and the seam is on the frame of the
\* head of a marked chunk, and on no other.
THEOREM ChunksStayApart == RenderSpec => []ChunksDoNotMix
<1>1. FadeInv => ChunksDoNotMix
  <2>1. ASSUME FadeInv, NEW i \in DOMAIN frames
        PROVE  LET s == frames[i].samples
               IN /\ s[1] # Silence
                  /\ frames[i].seam <=> IsSeam(s[1])
                  /\ \A j \in 2 .. FrameSamples :
                       IF s[j] = Silence
                       THEN s[j - 1] = Silence \/ fed[s[j - 1]] < Len(cuts)
                       ELSE s[j] = s[j - 1] + 1 /\ fed[s[j]] = fed[s[j - 1]]
    <3>1. i \in 1 .. Len(frames)
      BY <2>1 DEF FadeInv, ChunkInv, Fields
    <3>2. OneChunk(frames[i], fed, cuts)
      BY <2>1, <3>1, Zenon DEF FadeInv, ChunkInv, Queued
    <3> QED
      BY <3>2, Zenon DEF OneChunk, InStep, SeamAt, IsSeam
  <2> QED
    BY <2>1, Zenon DEF ChunksDoNotMix
<1> QED
  BY <1>1, FadeAlways, PTL

\* A frame is heard as it was fed, and faded in over the end of the last one
\* heard since the last clear exactly when it begins a marked chunk.
THEOREM FadesOnlyAtSeams == RenderSpec => FadesAtSeams
<1>1. ASSUME FadeInv, [RenderNext]_renderVars, heard' \notin {heard, <<>>}
      PROVE  RenderVoice
  <2>1. heard' # heard /\ heard' # <<>>
    BY <1>1
  <2>2. \A n \in ChunkLengths : ~ FeedCheck(n) /\ ~ Feed(n)
    BY <2>1, Zenon DEF FeedCheck, Feed, history
  <2>3. ~ MarkChunkBoundary /\ ~ ClearPending /\ ~ Halt /\ ~ RenderSilence /\ ~ UNCHANGED renderVars
    BY <2>1, Zenon DEF MarkChunkBoundary, ClearPending, Halt, RenderSilence, renderVars, history
  <2> QED
    BY <1>1, <2>2, <2>3, Zenon DEF RenderNext, RenderTick
<1>2. FadeInv /\ [RenderNext]_renderVars =>
         (heard' \notin {heard, <<>>} =>
            LET s == Head(frames).samples
            IN \A i \in 1 .. FrameSamples :
                 heard'[i] = Voice(s)[i] \cup
                   IF IsSeam(s[1]) /\ heard # <<>> /\ i <= FadeSamples
                   THEN heard[FrameSamples - FadeSamples + i] ELSE {})
  BY <1>1, RenderedFade, Zenon
<1> QED
  BY <1>2, FadeAlways, PTL DEF RenderSpec, FadesAtSeams

-----------------------------------------------------------------------------
(* Types.                                                                  *)

\* Nothing is heard that was not fed, and the bed stays within its asset.
HeardWasFed == heard = <<>> \/ heard \in [1 .. FrameSamples -> SUBSET Samples]
BedPlace == pos \in Nat /\ (BedSamples > 0 => pos < BedSamples)

TypeInv == FadeInv /\ HeardWasFed /\ BedPlace

LEMMA BedMoves == ASSUME BedPlace, MixBed PROVE BedPlace'
<1>1. BedSamples \in Nat /\ pos \in Nat /\ FrameSamples \in Nat
  BY RenderAssumption DEF BedPlace
<1>2. CASE BedSamples = 0
  BY <1>2 DEF MixBed, BedPlace
<1>3. CASE BedSamples # 0
  <2>1. PICK x \in Nat, b \in Nat \ {0} : x = pos + FrameSamples /\ b = BedSamples
    <3>1. pos + FrameSamples \in Nat /\ BedSamples \in Nat \ {0}
      BY <1>1, <1>3
    <3> QED
      BY <3>1, Zenon
  <2>2. x % b \in Nat /\ x % b < b
    BY <2>1, Z3
  <2>3. pos' = x % b
    BY <1>3, <2>1, Zenon DEF MixBed
  <2> QED
    BY <2>1, <2>2, <2>3, Zenon DEF BedPlace, MixBed
<1> QED
  BY <1>2, <1>3

LEMMA HeardFed ==
    ASSUME TypeInv, RenderVoice
    PROVE  HeardWasFed'
<1>1. PICK f \in Framed : f = Head(frames) /\ OneChunk(f, fed, cuts)
  <2>1. frames \in Seq(Framed) /\ frames # <<>>
    BY DEF TypeInv, FadeInv, ChunkInv, Fields, RenderVoice, Ready
  <2>2. Head(frames) \in Framed /\ Head(frames) = frames[1] /\ 1 \in 1 .. Len(frames)
    BY <2>1
  <2> QED
    BY <2>2, Zenon DEF TypeInv, FadeInv, ChunkInv, Queued
<1>2. PICK s \in Seq(Nat) : s = f.samples /\ Len(s) = FrameSamples
  BY FrameFields DEF Framed
<1>3. fed' = fed /\ Samples' = Samples
  BY Zenon DEF RenderVoice, Samples
<1>4. PICK g : g = heard'
  OBVIOUS
<1>5. \A i \in 1 .. FrameSamples :
        g[i] = Voice(s)[i] \cup
                 IF IsSeam(s[1]) /\ heard # <<>> /\ i <= FadeSamples
                 THEN heard[FrameSamples - FadeSamples + i] ELSE {}
  BY <1>1, <1>2, <1>4, RenderedFade, Zenon DEF TypeInv
<1>6. ASSUME NEW i \in 1 .. FrameSamples PROVE g[i] \in SUBSET Samples
  <2>1. Voice(s)[i] \in SUBSET Samples
    <3>1. s[i] \in Samples
      BY <1>1, <1>2, Zenon DEF OneChunk, Samples
    <3>2. DOMAIN s = 1 .. FrameSamples
      BY <1>2
    <3>3. Voice(s)[i] = {s[i]} \ {Silence}
      BY <3>2, Zenon DEF Voice
    <3> QED
      BY <3>1, <3>3, Zenon
  <2>2. ASSUME heard # <<>>, i <= FadeSamples
        PROVE  heard[FrameSamples - FadeSamples + i] \in SUBSET Samples
    <3>1. FrameSamples - FadeSamples + i \in 1 .. FrameSamples
      BY <2>2, FadeLength, FrameLength
    <3>2. heard \in [1 .. FrameSamples -> SUBSET Samples]
      BY <2>2, Zenon DEF TypeInv, HeardWasFed
    <3> QED
      BY <3>1, <3>2, Zenon
  <2> QED
    BY <1>5, <2>1, <2>2, Zenon
<1>7. \E d : g = [i \in 1 .. FrameSamples |-> d[i]]
  <2>1. heard' = <<>> \/ heard' \in [1 .. FrameSamples -> SUBSET Nat]
    BY RenderedFade, Zenon DEF TypeInv, TailIs
  <2>2. heard' # <<>>
    <3>1. PICK v : v = Voice(f.samples) /\ v \in [1 .. FrameSamples -> SUBSET Nat]
                   /\ \A over : \E h : Blend(over, v) = [i \in 1 .. FrameSamples |-> h[i]]
      <4>1. PICK v : v = Voice(f.samples)
        OBVIOUS
      <4>2. Mixable(v)
        BY <4>1, VoiceSets, Zenon
      <4>3. v \in [1 .. FrameSamples -> SUBSET Nat]
        BY <4>2, Zenon DEF Mixable
      <4>4. ASSUME NEW over PROVE \E h : Blend(over, v) = [i \in 1 .. FrameSamples |-> h[i]]
        <5>1. Blend(over, v) = [i \in 1 .. FrameSamples |-> Blend(over, v)[i]]
          BY <4>2, Zenon DEF Mixable
        <5> QED
          BY <5>1, Zenon
      <4> QED
        BY <4>1, <4>3, <4>4, Zenon
    <3>2. heard' = v \/ heard' = Blend(tail, v)
      BY <1>1, <3>1, Zenon DEF RenderVoice
    <3>3. DOMAIN heard' = 1 .. FrameSamples
      BY <3>1, <3>2, Zenon
    <3>4. 1 \in DOMAIN heard' /\ DOMAIN <<>> = {}
      BY <3>3, FrameLength
    <3> QED
      BY <3>4, Zenon
  <2>3. heard' \in [1 .. FrameSamples -> SUBSET Nat]
    BY <2>1, <2>2, Zenon
  <2> QED
    BY <1>4, <2>3, Zenon
<1>8. g \in [1 .. FrameSamples -> SUBSET Samples]
  BY <1>6, <1>7, Zenon
<1> QED
  BY <1>3, <1>4, <1>8, Zenon DEF HeardWasFed

LEMMA TypeInitial == RenderInit => TypeInv
BY ChunkInitial DEF RenderInit, TypeInv, HeardWasFed, BedPlace

LEMMA TypeStep ==
    ASSUME TypeInv, VoiceInv, [RenderNext]_renderVars
    PROVE  TypeInv'
<1>1. FadeInv'
  BY FadeStep DEF TypeInv
<1>2. ASSUME fed' = fed, heard' = heard PROVE HeardWasFed'
  BY <1>2, Zenon DEF TypeInv, HeardWasFed, Samples
<1>3. ASSUME pos' = pos PROVE BedPlace'
  BY <1>3, Zenon DEF TypeInv, BedPlace
<1>4. ASSUME NEW n \in ChunkLengths, FeedCheck(n) PROVE TypeInv'
  BY <1>1, <1>2, <1>3, <1>4, Zenon DEF FeedCheck, history, TypeInv
<1>5. ASSUME NEW n \in ChunkLengths, Feed(n) PROVE TypeInv'
  <2>1. heard' = heard /\ pos' = pos
    BY <1>5, Zenon DEF Feed
  <2>2. SUBSET Samples \subseteq SUBSET Samples'
    <3>1. Fields /\ n \in Nat
      BY RenderAssumption DEF TypeInv, FadeInv, ChunkInv
    <3>2. Len(fed') = Len(fed) + n /\ Len(fed) \in Nat
      BY <1>5, <3>1, FedIs DEF Fields
    <3>3. 0 .. Len(fed) \subseteq 0 .. Len(fed')
      BY <3>1, <3>2
    <3> QED
      BY <3>3, Zenon DEF Samples
  <2>3. HeardWasFed'
    <3>1. heard = <<>> \/ heard \in [1 .. FrameSamples -> SUBSET Samples']
      BY <2>2, Zenon DEF TypeInv, HeardWasFed
    <3> QED
      BY <2>1, <3>1, Zenon DEF HeardWasFed
  <2> QED
    BY <1>1, <1>3, <2>1, <2>3, Zenon DEF TypeInv
<1>6. CASE MarkChunkBoundary
  BY <1>1, <1>2, <1>3, <1>6, Zenon DEF MarkChunkBoundary, TypeInv
<1>7. CASE ClearPending
  <2>1. heard' = <<>> /\ pos' = pos
    BY <1>7, Zenon DEF ClearPending
  <2> QED
    BY <1>1, <1>3, <2>1, Zenon DEF TypeInv, HeardWasFed
<1>8. CASE Halt
  BY <1>1, <1>2, <1>3, <1>8, Zenon DEF Halt, history, TypeInv
<1>9. CASE RenderVoice
  <2>1. BedPlace'
    BY <1>9, BedMoves, Zenon DEF RenderVoice, TypeInv
  <2> QED
    BY <1>1, <1>9, <2>1, HeardFed, Zenon DEF TypeInv
<1>10. CASE RenderSilence
  <2>1. BedPlace'
    BY <1>10, BedMoves, Zenon DEF RenderSilence, TypeInv
  <2> QED
    BY <1>1, <1>2, <1>10, <2>1, Zenon DEF RenderSilence, history, TypeInv
<1>11. CASE UNCHANGED renderVars
  BY <1>1, <1>2, <1>3, <1>11, Zenon DEF renderVars, history, TypeInv
<1> QED
  BY <1>4, <1>5, <1>6, <1>7, <1>8, <1>9, <1>10, <1>11, Zenon DEF RenderNext, RenderTick

\* The fields keep their types: frames are whole, a partial frame is shorter than a
\* frame and without silence, a tail is whole or empty, and nothing is queued, kept
\* or counted that was not fed (the invariants of jitterBuffer and StreamChunker).
THEOREM RenderTypes == RenderSpec => []RenderTypeOK
<1>1. ASSUME TypeInv PROVE RenderTypeOK
  <2>0. Fields /\ Partial /\ Queued /\ TailIs
    BY <1>1 DEF TypeInv, FadeInv, ChunkInv
  <2>1. ASSUME NEW i \in DOMAIN frames
        PROVE  /\ frames[i].samples \in [1 .. FrameSamples -> Samples]
               /\ frames[i].seam \in BOOLEAN
    <3>1. i \in 1 .. Len(frames) /\ frames[i] \in Framed
      BY <2>0 DEF Fields
    <3>2. PICK f \in Framed : f = frames[i] /\ OneChunk(f, fed, cuts)
      BY <2>0, <3>1, Zenon DEF Queued
    <3>3. PICK s \in Seq(Nat) : s = f.samples /\ Len(s) = FrameSamples
      BY FrameFields DEF Framed
    <3>4. \A j \in 1 .. FrameSamples : s[j] \in Samples
      BY <3>2, <3>3, Zenon DEF OneChunk, Samples
    <3>5. s \in [1 .. FrameSamples -> Samples]
      BY <3>3, <3>4
    <3>6. f.seam \in BOOLEAN
      BY FrameFields DEF Framed
    <3> QED
      BY <3>2, <3>3, <3>5, <3>6, Zenon
  <2>2. chunk \in UNION {[1 .. n -> Samples \ {Silence}] : n \in 0 .. FrameSamples - 1}
    <3>1. PICK c \in Seq(Sounds), N \in Nat, L \in Nat : c = chunk /\ N = Len(fed) /\ L = Len(c)
      <4>1. chunk \in Seq(Sounds) /\ Len(chunk) \in Nat /\ Len(fed) \in Nat
        BY <2>0 DEF Fields
      <4> QED
        BY <4>1, Zenon
    <3>2. L \in 0 .. FrameSamples - 1 /\ L <= N
      BY <2>0, <3>1, FrameLength DEF Fields, Partial
    <3>3. \A i \in 1 .. L : c[i] = N - L + i
      BY <2>0, <3>1, Zenon DEF Partial
    <3>4. \A i \in 1 .. L : c[i] \in (0 .. N) \ {0}
      <4> SUFFICES ASSUME NEW i \in 1 .. L PROVE c[i] \in (0 .. N) \ {0}
        OBVIOUS
      <4>1. c[i] = N - L + i
        BY <3>3, Zenon
      <4> QED
        BY <3>2, <4>1
    <3>5. c \in [1 .. L -> (0 .. N) \ {0}]
      BY <3>1, <3>4
    <3>6. c \in [1 .. L -> Samples \ {Silence}]
      BY <3>1, <3>5, Zenon DEF Samples, Silence
    <3> QED
      BY <3>1, <3>2, <3>6, Zenon
  <2>3. tail = <<>> \/ tail \in [1 .. FadeSamples -> SUBSET Samples]
    <3> SUFFICES ASSUME tail # <<>> PROVE tail \in [1 .. FadeSamples -> SUBSET Samples]
      OBVIOUS
    <3>1. heard \in [1 .. FrameSamples -> SUBSET Nat] /\ tail = Kept(heard)
      BY <2>0, Zenon DEF TailIs
    <3>2. heard \in [1 .. FrameSamples -> SUBSET Samples]
      <4>1. heard # <<>>
        BY <3>1, FrameLength
      <4> QED
        BY <1>1, <4>1, Zenon DEF TypeInv, HeardWasFed
    <3>3. PICK t \in Seq(SUBSET Nat) :
            /\ t = tail /\ Len(t) = FadeSamples
            /\ \A i \in 1 .. FadeSamples : t[i] = heard[FrameSamples - FadeSamples + i]
      BY <3>1, KeptIs, Zenon
    <3>4. \A i \in 1 .. FadeSamples : FrameSamples - FadeSamples + i \in 1 .. FrameSamples
      BY FadeLength, FrameLength
    <3>5. \A i \in 1 .. FadeSamples : t[i] \in SUBSET Samples
      BY <3>2, <3>3, <3>4, Zenon
    <3>6. t \in [1 .. FadeSamples -> SUBSET Samples]
      BY <3>3, <3>5
    <3> QED
      BY <3>3, <3>6, Zenon
  <2>4. gone \in Samples
    BY <2>0 DEF Fields, Samples
  <2>5. pendingSeam \in BOOLEAN /\ halted \in BOOLEAN /\ feeding \subseteq ChunkLengths
    BY <2>0 DEF Fields
  <2> QED
    BY <1>1, <2>1, <2>2, <2>3, <2>4, <2>5, Zenon DEF RenderTypeOK, TypeInv, BedPlace
<1>2. RenderSpec => []TypeInv
  <2>1. TypeInv /\ VoiceInv /\ [RenderNext]_renderVars => TypeInv'
    BY TypeStep
  <2> QED
    BY <2>1, TypeInitial, VoiceAlways, PTL DEF RenderSpec
<1> QED
  BY <1>1, <1>2, PTL
=============================================================================
