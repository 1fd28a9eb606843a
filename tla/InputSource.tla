----------------------------- MODULE InputSource ----------------------------
(***************************************************************************)
(* timeline.InputSource (timeline/input.go): microphone samples cross from *)
(* a device callback to the goroutine that pulls them, through a Ring, and *)
(* a third goroutine may Close the source at any moment.                   *)
(*                                                                         *)
(* The callback is the Ring's producer, Pull its consumer.  Both consult   *)
(* the closed flag outside the ring: the callback before its Write, Pull   *)
(* after its Read.                                                         *)
(***************************************************************************)
EXTENDS Ring

CONSTANT MaxOffered   \* bound on the samples callbacks are given

ASSUME OfferedAssumption == MaxOffered \in Nat

VARIABLES
    closed,     \* InputSource.closed
    dropped,    \* InputSource.dropped
    pulling,    \* a Pull has read the ring and not yet looked at closed
    ended,      \* a Pull has returned io.EOF
    offered,    \* history: samples the callback was given while not closed
    quiet,      \* history: no callback was under way when Close was called
    pulledClosed \* history: the source was closed when the last Pull began

sourceVars == <<closed, dropped, pulling, ended, offered, quiet, pulledClosed>>
vars == <<ringVars, sourceVars>>

SourceInit ==
    /\ Init
    /\ closed = FALSE
    /\ dropped = 0
    /\ pulling = FALSE
    /\ ended = FALSE
    /\ offered = 0
    /\ quiet = FALSE
    /\ pulledClosed = FALSE

-----------------------------------------------------------------------------
(* The device callback.                                                    *)

\* The closed check and the ring's first load: nobody else moves head, so no
\* step of another goroutine fits between them that could tell them apart.
CallbackEnter(s) ==
    /\ ~closed
    /\ offered + Len(s) <= MaxOffered
    /\ WriteCall(s)
    /\ offered' = offered + Len(s)
    /\ UNCHANGED <<closed, dropped, pulling, ended, quiet, pulledClosed>>

\* A callback that finds the source closed discards its samples.
CallbackIgnored ==
    /\ closed
    /\ wpc = "idle"
    /\ UNCHANGED vars

CallbackStep ==
    /\ WriteLoadTail \/ WriteCopy
    /\ UNCHANGED sourceVars

\* What did not fit is counted.
DroppedNow == dropped + (Len(src) - wN)

CallbackReturn ==
    /\ WritePublish
    /\ dropped' = DroppedNow
    /\ UNCHANGED <<closed, pulling, ended, offered, quiet, pulledClosed>>

-----------------------------------------------------------------------------
(* Pull.  Its callers drop a source that returned io.EOF, and never ask    *)
(* for nothing.                                                            *)

PullEnter(n) ==
    /\ n > 0
    /\ ~ended
    /\ ~pulling
    /\ ReadCall(n)
    /\ pulledClosed' = closed
    /\ UNCHANGED <<closed, dropped, pulling, ended, offered, quiet>>

PullStep ==
    /\ ReadLoadTail \/ ReadCopy
    /\ UNCHANGED sourceVars

PullRead ==
    /\ ReadPublish
    /\ pulling' = TRUE
    /\ UNCHANGED <<closed, dropped, ended, offered, quiet, pulledClosed>>

\* The end of the source.  The mutants end it as soon as it is closed, and
\* never.
MutEndAtClose == closed
MutNeverEnd   == closed /\ got = <<>> /\ Queued < 0
AtEnd == closed /\ got = <<>>

PullReturn ==
    /\ pulling
    /\ pulling' = FALSE
    /\ ended' = AtEnd
    /\ UNCHANGED <<ringVars, closed, dropped, offered, quiet, pulledClosed>>

-----------------------------------------------------------------------------
Close ==
    /\ ~closed
    /\ closed' = TRUE
    /\ quiet' = (wpc = "idle")
    /\ UNCHANGED <<ringVars, dropped, pulling, ended, offered, pulledClosed>>

SourceNext ==
    \/ \E s \in Slices : CallbackEnter(s)
    \/ CallbackIgnored
    \/ CallbackStep
    \/ CallbackReturn
    \/ \E n \in Wants : PullEnter(n)
    \/ PullStep
    \/ PullRead
    \/ PullReturn
    \/ Close

\* The consumer (the mixer's or a player's loop) keeps pulling until the end.
SourceSpec ==
    /\ SourceInit
    /\ [][SourceNext]_vars
    /\ WF_vars(\E n \in Wants : PullEnter(n))
    /\ WF_vars(PullStep \/ PullRead \/ PullReturn)

-----------------------------------------------------------------------------
SourceTypeOK ==
    /\ TypeOK
    /\ closed \in BOOLEAN
    /\ dropped \in Nat
    /\ pulling \in BOOLEAN
    /\ ended \in BOOLEAN
    /\ offered \in Nat
    /\ quiet \in BOOLEAN
    /\ pulledClosed \in BOOLEAN
    /\ pulling => rpc = "idle"

\* Every sample a callback was given is queued, delivered, counted as dropped
\* or still in the callback's hands: the ring overruns in no other way.
EverySampleAccounted ==
    offered = sent + dropped + (IF wpc = "idle" THEN 0 ELSE Len(src))

\* When no callback was under way at Close, a Pull that begins after Close
\* ends the source only when everything buffered has been delivered.
QuietEndIsDrained == (ended /\ quiet /\ pulledClosed) => Queued = 0

\* Pull "returns (0, io.EOF) once Close has been called and the ring has been
\* drained" (input.go:75-76): the end of the source finds the ring empty.
EndIsDrained == [][(ended' /\ ~ended) => Queued = 0]_vars

\* A closed source ends: the mixer is not left pulling silence from it.
ClosedSourceEnds == closed ~> ended

=============================================================================
