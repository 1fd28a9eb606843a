---------------------------- MODULE DuplexSession ---------------------------
(***************************************************************************)
(* The life of a duplex.Engine (duplex/duplex.go, send in duplex/           *)
(* capture.go): Start launches the audio goroutine, which ticks until the   *)
(* context is cancelled, Stop is called or a consumer stalls; it is the     *)
(* only sender on the Events channel, and blocks when that is full.         *)
(*                                                                          *)
(* Events are numbered in the order send is called for them; what they say  *)
(* is in DuplexCapture.  Every section under Engine.mu is one step, the     *)
(* closing of a channel another.                                            *)
(***************************************************************************)
EXTENDS Naturals, Sequences

CONSTANTS
    Starters,     \* goroutines that call Start, once each
    Stoppers,     \* goroutines that call Stop, once each
    EventBuffer,  \* capacity of the Events channel
    Burst,        \* bound on the events of one tick
    MaxEvents     \* bound on the events of the session

ASSUME SessionAssumption ==
    /\ EventBuffer \in Nat \ {0}
    /\ Burst \in Nat \ {0}
    /\ MaxEvents \in Nat

VARIABLES
    at,          \* the audio goroutine; "absent" before Start launches it
    burst,       \* events its tick has still to send
    sent,        \* events send has been called for and returned
    channel,     \* the Events channel
    eventsDone,  \* it is closed
    received,    \* what the consumer has taken from it
    stop,        \* Engine.stop is closed
    done,        \* Engine.done is closed
    stalled,     \* Engine.err is ErrEventsStalled
    started, stopped,  \* the flags under Engine.mu
    cancelled,   \* the context is cancelled
    starting,    \* where each Start call stands
    stopping,    \* where each Stop call stands
    sawStarted,  \* each Stop call's local copy of started
    panic        \* "send" on a closed channel, a second "close" of one, or "none"

pipe  == <<channel, received, sent>>
audio == <<at, burst>>
flags == <<started, stopped>>
calls == <<starting, stopping, sawStarted>>
vars == <<audio, pipe, eventsDone, stop, done, stalled, flags, cancelled, calls, panic>>

Init ==
    /\ at = "absent" /\ burst = 0
    /\ sent = 0 /\ channel = <<>> /\ received = <<>>
    /\ eventsDone = FALSE /\ stop = FALSE /\ done = FALSE
    /\ stalled = FALSE
    /\ started = FALSE /\ stopped = FALSE
    /\ cancelled = FALSE
    /\ starting = [u \in Starters |-> "out"]
    /\ stopping = [c \in Stoppers |-> "out"]
    /\ sawStarted = [c \in Stoppers |-> FALSE]
    /\ panic = "none"

-----------------------------------------------------------------------------
(* shutdown and finalize, from whichever goroutine calls them.             *)

\* close(e.stop), by whoever set stopped first.
CloseStop ==
    /\ stop' = TRUE
    /\ panic' = IF stop THEN "close" ELSE panic

\* Where shutdown goes after its critical section: on to close stop if it was
\* first.  The mutant does so every time.
MutShutdown(first, rest) == first
Shutdown(first, rest) == IF stopped THEN rest ELSE first

\* eventsOnce: the first finalize closes the channel, the others do nothing.
Finalize == eventsDone' = TRUE

-----------------------------------------------------------------------------
(* Start and Stop.                                                         *)

StartCall(u) ==
    /\ starting[u] = "out"
    /\ starting' = [starting EXCEPT ![u] = IF cancelled THEN "refused" ELSE "checked"]
    /\ UNCHANGED <<audio, pipe, eventsDone, stop, done, stalled, flags, cancelled,
                   stopping, sawStarted, panic>>

\* The critical section of Start.
MayStart == ~stopped /\ ~started

StartLock(u) ==
    /\ starting[u] = "checked"
    /\ IF MayStart
       THEN /\ started' = TRUE
            /\ at' = "select"
            /\ starting' = [starting EXCEPT ![u] = "launched"]
       ELSE /\ starting' = [starting EXCEPT ![u] = "refused"]
            /\ UNCHANGED <<started, at>>
    /\ UNCHANGED <<burst, pipe, eventsDone, stop, done, stalled, stopped, cancelled,
                   stopping, sawStarted, panic>>

Cancel ==
    /\ ~cancelled
    /\ cancelled' = TRUE
    /\ UNCHANGED <<audio, pipe, eventsDone, stop, done, stalled, flags, calls, panic>>

\* Stop reads started in one critical section ...
StopRead(c) ==
    /\ stopping[c] = "out"
    /\ sawStarted' = [sawStarted EXCEPT ![c] = started]
    /\ stopping' = [stopping EXCEPT ![c] = "read"]
    /\ UNCHANGED <<audio, pipe, eventsDone, stop, done, stalled, flags, cancelled,
                   starting, panic>>

\* ... and sets stopped in another.
StopLock(c) ==
    /\ stopping[c] = "read"
    /\ stopped' = TRUE
    /\ stopping' = [stopping EXCEPT ![c] = Shutdown("close", "wait")]
    /\ UNCHANGED <<audio, pipe, eventsDone, stop, done, stalled, started, cancelled,
                   starting, sawStarted, panic>>

StopClose(c) ==
    /\ stopping[c] = "close"
    /\ CloseStop
    /\ stopping' = [stopping EXCEPT ![c] = "wait"]
    /\ UNCHANGED <<audio, pipe, eventsDone, done, stalled, flags, cancelled, starting,
                   sawStarted>>

\* Stop waits for the audio goroutine it knows of.  The mutant does not wait
\* for one that has not seen the closed stop yet.
MutMayReturn(c) == sawStarted[c] => stop
MayReturn(c) == sawStarted[c] => done

StopReturn(c) ==
    /\ stopping[c] = "wait"
    /\ MayReturn(c)
    /\ IF sawStarted[c] THEN UNCHANGED eventsDone ELSE Finalize
    /\ stopping' = [stopping EXCEPT ![c] = "returned"]
    /\ UNCHANGED <<audio, pipe, stop, done, stalled, flags, cancelled, starting,
                   sawStarted, panic>>

-----------------------------------------------------------------------------
(* The audio goroutine.                                                    *)

\* One tick: some events to send.
Tick ==
    /\ at = "select"
    /\ \E n \in 0 .. Burst :
         /\ sent + n <= MaxEvents
         /\ burst' = n
         /\ at' = IF n = 0 THEN "select" ELSE "send"
    /\ UNCHANGED <<pipe, eventsDone, stop, done, stalled, flags, cancelled, calls, panic>>

Room == Len(channel) < EventBuffer

\* send returns: on to the next event of the tick, or to the ticker.
SendReturns ==
    /\ sent' = sent + 1
    /\ burst' = burst - 1
    /\ at' = IF burst = 1 THEN "select" ELSE "send"

\* Both selects of send have these two cases; the second, in which the
\* goroutine is blocked, has the timer too.  A send on a closed channel panics,
\* whether or not there is room; the deferred calls of run are made even so, and
\* then the process ends.
Deliver ==
    /\ at \in {"send", "blocked"}
    /\ \/ /\ Room /\ ~eventsDone
          /\ channel' = Append(channel, sent + 1)
          /\ SendReturns
          /\ UNCHANGED panic
       \/ /\ eventsDone
          /\ panic' = "send"
          /\ at' = "leaving"
          /\ UNCHANGED <<burst, channel, sent>>
    /\ UNCHANGED <<received, eventsDone, stop, done, stalled, flags, cancelled, calls>>

\* The mutant of the discarding case gives an event up when the channel is full.
MutMayDiscard == stop \/ ~Room
MayDiscard == stop

Discard ==
    /\ at \in {"send", "blocked"}
    /\ MayDiscard
    /\ SendReturns
    /\ UNCHANGED <<channel, received, eventsDone, stop, done, stalled, flags, cancelled,
                   calls, panic>>

Block ==
    /\ at = "send"
    /\ ~Room /\ ~stop /\ ~eventsDone
    /\ at' = "blocked"
    /\ UNCHANGED <<burst, pipe, eventsDone, stop, done, stalled, flags, cancelled, calls,
                   panic>>

\* The stall timer fires: the error is stored, then shutdown is called.
TimerSet == at = "blocked"

Stall ==
    /\ TimerSet
    /\ stalled' = TRUE
    /\ at' = "stalling"
    /\ UNCHANGED <<burst, pipe, eventsDone, stop, done, flags, cancelled, calls, panic>>

StallLock ==
    /\ at = "stalling"
    /\ stopped' = TRUE
    /\ at' = Shutdown("stallclose", "stalled")
    /\ UNCHANGED <<burst, pipe, eventsDone, stop, done, stalled, started, cancelled, calls,
                   panic>>

StallClose ==
    /\ at = "stallclose"
    /\ CloseStop
    /\ at' = "stalled"
    /\ UNCHANGED <<burst, pipe, eventsDone, done, stalled, flags, cancelled, calls>>

\* The event that stalled is dropped, the tick goes on.
StallReturns ==
    /\ at = "stalled"
    /\ SendReturns
    /\ UNCHANGED <<channel, received, eventsDone, stop, done, stalled, flags, cancelled,
                   calls, panic>>

Send == Deliver \/ Discard \/ Block \/ Stall \/ StallLock \/ StallClose \/ StallReturns

\* What run's select leaves the loop for.  The mutant forgets the context.
MutHalted == stop
Halted == stop \/ cancelled

Leave ==
    /\ at = "select"
    /\ Halted
    /\ at' = "leaving"
    /\ UNCHANGED <<burst, pipe, eventsDone, stop, done, stalled, flags, cancelled, calls,
                   panic>>

\* The deferred calls: shutdown, finalize, close(done).
LeaveLock ==
    /\ at = "leaving"
    /\ stopped' = TRUE
    /\ at' = Shutdown("closing", "finalizing")
    /\ UNCHANGED <<burst, pipe, eventsDone, stop, done, stalled, started, cancelled, calls,
                   panic>>

LeaveClose ==
    /\ at = "closing"
    /\ CloseStop
    /\ at' = "finalizing"
    /\ UNCHANGED <<burst, pipe, eventsDone, done, stalled, flags, cancelled, calls>>

LeaveFinalize ==
    /\ at = "finalizing"
    /\ Finalize
    /\ at' = "ending"
    /\ UNCHANGED <<burst, pipe, stop, done, stalled, flags, cancelled, calls, panic>>

LeaveDone ==
    /\ at = "ending"
    /\ done' = TRUE
    /\ panic' = IF done THEN "close" ELSE panic
    /\ at' = "gone"
    /\ UNCHANGED <<burst, pipe, eventsDone, stop, stalled, flags, cancelled, calls>>

Exit == LeaveLock \/ LeaveClose \/ LeaveFinalize \/ LeaveDone

-----------------------------------------------------------------------------
(* The consumer of Events, which may be as slow as it likes.               *)
Receive ==
    /\ channel # <<>>
    /\ received' = Append(received, Head(channel))
    /\ channel' = Tail(channel)
    /\ UNCHANGED <<audio, sent, eventsDone, stop, done, stalled, flags, cancelled, calls,
                   panic>>

StopStep(c) == StopLock(c) \/ StopClose(c) \/ StopReturn(c)

Next ==
    \/ \E u \in Starters : StartCall(u) \/ StartLock(u)
    \/ \E c \in Stoppers : StopRead(c) \/ StopStep(c)
    \/ Cancel
    \/ Tick
    \/ Send
    \/ Leave
    \/ Exit
    \/ Receive

\* The audio goroutine and the goroutines inside Stop run when they can, and
\* the stall timer fires.  A select with two ready cases takes either, at
\* random: it does not take the ticker for ever once stop is closed.  Nothing
\* is assumed of the consumer or of the context.
Fairness ==
    /\ WF_vars(Send)
    /\ SF_vars(Leave)
    /\ WF_vars(Exit)
    /\ \A c \in Stoppers : WF_vars(StopStep(c))

Spec == Init /\ [][Next]_vars /\ Fairness

-----------------------------------------------------------------------------
(* The type invariant of the engine's fields and of its callers.           *)
TypeOK ==
    /\ at \in {"absent", "select", "send", "blocked", "stalling", "stallclose", "stalled",
               "leaving", "closing", "finalizing", "ending", "gone"}
    /\ burst \in 0 .. Burst
    /\ (at \in {"send", "blocked", "stalling", "stallclose", "stalled"}) => burst > 0
    /\ sent \in 0 .. MaxEvents
    /\ channel \in Seq(1 .. MaxEvents) /\ Len(channel) <= EventBuffer
    /\ received \in Seq(1 .. MaxEvents)
    /\ {eventsDone, stop, done, stalled, started, stopped, cancelled} \subseteq BOOLEAN
    /\ panic \in {"none", "send", "close"}
    /\ starting \in [Starters -> {"out", "checked", "launched", "refused"}]
    /\ stopping \in [Stoppers -> {"out", "read", "close", "wait", "returned"}]
    /\ sawStarted \in [Stoppers -> BOOLEAN]

\* A Stop that found no audio goroutine before a Start launched one: it closes
\* the Events channel itself and waits for nobody.
Overtaken(c) == started /\ ~sawStarted[c] /\ stopping[c] # "out"

\* However Start and Stop calls, the context and a stall race, no channel is
\* closed twice; and nothing is sent on a closed one (duplex.go:488-502, 549-556),
\* unless a Start came between the two critical sections of a Stop that has
\* returned since (duplex.go:475-485).
NoPanic ==
    /\ panic # "close"
    /\ panic = "send" => \E c \in Stoppers : Overtaken(c) /\ stopping[c] = "returned"

\* When a Stop has returned the Events channel is closed, and the audio goroutine
\* has exited ("returns after the audio goroutine has exited", duplex.go:473-474)
\* unless that Stop was overtaken by the Start.
StopWaits ==
    \A c \in Stoppers :
        stopping[c] = "returned" => eventsDone /\ (at \in {"absent", "gone"} \/ Overtaken(c))

\* "Strict FIFO order" (duplex/events.go:44-45): what the consumer has and will
\* get is in the order of the sends, and until the engine is stopped nothing
\* is missing: a full channel blocks the sender (capture.go:217-222).
FifoUntilHalt ==
    LET all == received \o channel
    IN /\ \A i, j \in DOMAIN all : i < j => all[i] < all[j]
       /\ ~stopped => all = [i \in 1 .. sent |-> i]

\* An engine that runs and is stopped, by any of the three ways, ends: the
\* Events channel is closed, the goroutine gone; and every Stop returns, unless a
\* panic ends the process first.  A dead consumer does not hold it up for ever
\* (Config.StallTimeout, duplex.go:241-247).
EndsOnceHalted ==
    /\ (at # "absent" /\ (cancelled \/ stopped)) ~> (at = "gone" /\ eventsDone)
    /\ \A c \in Stoppers : stopping[c] = "read" ~> (stopping[c] = "returned" \/ panic # "none")

=============================================================================
