------------------------------ MODULE Timeline ------------------------------
(***************************************************************************)
(* timeline.Timeline (timeline/impl.go): cues scheduled at frames of one   *)
(* axis, pulled by one consumer, with a cursor that Seek moves.  Schedule, *)
(* Append, Seek and Close come from any goroutine; each holds the mutex    *)
(* throughout, but for Append, which lets go of it between reading the end *)
(* of the schedule and scheduling there.                                   *)
(*                                                                         *)
(* The axis and the sources are counted in frames; where the code converts *)
(* frames to durations and back, so does this.  A source is its length     *)
(* (Indefinite for one without an end) and how far it has been read; it    *)
(* gives what it is asked for until its end, and tells its end with the    *)
(* last frames or in the next Pull.  Sources that run short for lack of    *)
(* input are InputSource's subject; gains are left out.                    *)
(***************************************************************************)
EXTENDS Integers, Sequences, SequencesExt, FiniteSetsExt, Timing, Filters

CONSTANTS
    Cues,         \* the cues, each scheduled or appended once
    Starts,       \* the frames they are scheduled at
    Lengths,      \* the lengths of their sources
    Factories,    \* whether a cue may have a Factory: a subset of BOOLEAN
    PullSizes,    \* frames pulled at a time
    Deltas,       \* frames Seek moves the cursor by
    MaxCursor     \* bound on the cursor

Indefinite == -1

ASSUME TimelineAssumption ==
    /\ Starts \subseteq Nat
    /\ Lengths \subseteq (Nat \ {0}) \cup {Indefinite}
    /\ Factories \subseteq BOOLEAN
    /\ PullSizes \subseteq Nat \ {0}
    /\ Deltas \subseteq Int
    /\ MaxCursor \in Nat

VARIABLES
    cursor,    \* Timeline.cursor
    end,       \* Timeline.end
    active,    \* Timeline.active
    closed,    \* Timeline.closed
    keepHistory, \* Timeline.keepHistory
    start,     \* activeCue.startFrame; for an Append under way, the end it read
    length,    \* the length of each cue's source
    factory,   \* the cues with a Factory
    pos,       \* how far each cue's source has been read
    finished,  \* activeCue.finished
    cancelled, \* handle.cancelled
    done,      \* handles whose Done is closed
    state,     \* each cue: "new", "appending", "scheduled" or "refused"
    appended,  \* history: the cues given to Append
    placed,    \* history: the cues inserted on the axis so far
    before,    \* history: those placed when a cue's Append read the end
    astray     \* history: the cues a Seek has left out of step with the cursor

axis    == <<cursor, end, closed>>
config  == <<keepHistory, length>>
handles == <<cancelled, done>>
history == <<appended, placed, before, astray>>
vars == <<config, axis, active, start, factory, pos, finished, handles, state, history>>

Init ==
    /\ cursor = 0 /\ end = 0 /\ closed = FALSE
    /\ keepHistory \in BOOLEAN
    /\ active = <<>>
    /\ start = [c \in Cues |-> 0]
    /\ length \in [Cues -> Lengths]
    /\ factory = {}
    /\ pos = [c \in Cues |-> 0]
    /\ finished = {}
    /\ cancelled = {} /\ done = {}
    /\ state = [c \in Cues |-> "new"]
    /\ appended = {} /\ placed = {} /\ astray = {}
    /\ before = [c \in Cues |-> {}]

Finite(c) == length[c] # Indefinite

\* A length or a position in frames goes through a time.Duration, and back.
ThroughDuration(frames) == DurationToFrames(FramesToDuration(frames))

\* endFrameOf: a source says how long it is as a duration.
EndOf(c, from) == IF Finite(c) THEN from + ThroughDuration(length[c]) ELSE Indefinite

-----------------------------------------------------------------------------
(* Schedule, Append.                                                       *)

\* insertActive: before the first cue that starts later.
Inserted(c, from) ==
    LET later == {i \in DOMAIN active : from < start[active[i]]}
    IN InsertAt(active, IF later = {} THEN Len(active) + 1 ELSE Min(later), c)

\* How far the source of a cue may have been advanced before it is inserted.
\* The mutant does not skip what is already in the past.
MutAdvanced(c, from) == {0}
Advanced(c, from) == {Max({0, cursor - from})}

\* advanceSource meets the end: before the cursor it must, at the cursor it may,
\* depending on the kind of source.
SkippedToEnd(c, from) == Finite(c) /\ cursor > from /\ cursor - from >= length[c]
MustEnd(c, from) == SkippedToEnd(c, from) /\ cursor - from > length[c]

\* The mutant leaves the end where it is when it inserts a cue.
MutEndAfter(c, from) == end
EndAfter(c, from) == Max({end, EndOf(c, from)})

\* The part of Schedule under the lock.
Place(c, from) ==
    \/ /\ closed
       /\ state' = [state EXCEPT ![c] = "refused"]
       /\ UNCHANGED <<active, end, start, pos, done, placed>>
    \/ /\ ~closed /\ SkippedToEnd(c, from)
       /\ done' = done \cup {c}
       /\ state' = [state EXCEPT ![c] = "scheduled"]
       /\ start' = [start EXCEPT ![c] = from]
       /\ UNCHANGED <<active, end, pos, placed>>
    \/ /\ ~closed /\ ~MustEnd(c, from)
       /\ \E n \in Advanced(c, from) : pos' = [pos EXCEPT ![c] = n]
       /\ active' = Inserted(c, from)
       /\ end' = EndAfter(c, from)
       /\ start' = [start EXCEPT ![c] = from]
       /\ state' = [state EXCEPT ![c] = "scheduled"]
       /\ placed' = placed \cup {c}
       /\ UNCHANGED done

\* A cue comes with a factory or without.
Choose(c) == \E f \in Factories : factory' = IF f THEN factory \cup {c} ELSE factory

Schedule(c, from) ==
    /\ state[c] = "new"
    /\ Choose(c)
    /\ Place(c, from)
    /\ UNCHANGED <<cursor, closed, config, finished, cancelled, appended, before, astray>>

\* Append reads the end under the lock ...
AppendRead(c) ==
    /\ state[c] = "new"
    /\ Finite(c)
    /\ start' = [start EXCEPT ![c] = ThroughDuration(end)]
    /\ state' = [state EXCEPT ![c] = "appending"]
    /\ appended' = appended \cup {c}
    /\ before' = [before EXCEPT ![c] = placed]
    /\ UNCHANGED <<axis, active, config, factory, pos, finished, handles, placed, astray>>

\* ... and schedules the cue there, whatever others have placed meanwhile.
AppendSchedule(c) ==
    /\ state[c] = "appending"
    /\ Choose(c)
    /\ Place(c, start[c])
    /\ UNCHANGED <<cursor, closed, config, finished, cancelled, appended, before, astray>>

-----------------------------------------------------------------------------
(* Pull.                                                                   *)

\* The cues that the segment [cursor, cursor + n) is mixed from.
Mixed(n) == {c \in ToSet(active) :
                c \notin cancelled \cup finished /\ start[c] < cursor + n}

\* Frames wanted from a cue: from its start, or from the segment's.
Wanted(c, n) == n - Max({0, start[c] - cursor})

\* How far a source has been read when it has given what it was asked for.
ReadTo(c, n) == IF Finite(c) THEN Min({length[c], pos[c] + Wanted(c, n)})
                ELSE pos[c] + Wanted(c, n)

\* Those that must, and those that may, return EOF with what they give.
AtEnd(n)   == {c \in Mixed(n) : Finite(c) /\ ReadTo(c, n) = length[c]}
PastEnd(n) == {c \in AtEnd(n) : ReadTo(c, n) - pos[c] < Wanted(c, n)}

\* What Pull drops from the list: cancelled cues, and those that have ended
\* unless history is kept.
Dropped(n, ended) ==
    cancelled \cup (IF keepHistory THEN {}
                    ELSE ended \cup {c \in finished : start[c] < cursor + n})

\* MaxCursor also bounds how far a cue without an end is read: one that a Seek
\* leaves astray is ahead of the cursor, and farther with every such Seek.
Bounded(n) ==
    /\ cursor + n <= MaxCursor
    /\ \A c \in Mixed(n) : ~Finite(c) => ReadTo(c, n) <= MaxCursor

Pull(n) ==
    /\ ~closed
    /\ Bounded(n)
    /\ \E ended \in SUBSET AtEnd(n) :
         /\ PastEnd(n) \subseteq ended
         /\ done' = done \cup (cancelled \cap ToSet(active)) \cup ended
         /\ finished' = finished \cup ended
         /\ active' = Keep(active, Cues \ Dropped(n, ended))
    /\ pos' = [c \in Cues |-> IF c \in Mixed(n) THEN ReadTo(c, n) ELSE pos[c]]
    /\ cursor' = cursor + n
    /\ UNCHANGED <<end, closed, start, config, factory, cancelled, state, history>>

-----------------------------------------------------------------------------
(* Seek: cue after cue, in the order of the list, until one cannot follow; *)
(* the cursor moves when all of them have.                                 *)

Behind(c, target) == Finite(c) /\ target >= EndOf(c, start[c])
ToCome(c, target) == c \notin finished /\ target < start[c] /\ ~Behind(c, target)
Replayed(c, target) == ~Behind(c, target) /\ ~ToCome(c, target)

\* A cue to be replayed that has no factory: Seek gives up when it meets one.
Stuck(target) == {c \in ToSet(active) \ factory : Replayed(c, target)}

\* The cues Seek has dealt with when it returns.
Met(target) ==
    {active[i] : i \in {j \in DOMAIN active : \A k \in 1 .. j : active[k] \notin Stuck(target)}}

\* Those of them it ends, and those it gives a new source.
Ended(target) == {c \in Met(target) : Behind(c, target)}
Fresh(target) == {c \in Met(target) : Replayed(c, target)}

\* Cues that have begun to play and that Seek takes to before their start
\* without a new source: it only passes over them (impl.go:234-236).
Passed(target) == {c \in ToSet(active) : ToCome(c, target) /\ start[c] < cursor}

\* A Seek that fails has already given some cues the position of a cursor that
\* then does not move.
Misplaced(target) ==
    IF Stuck(target) = {} THEN (astray \ Fresh(target)) \cup Passed(target)
    ELSE astray \cup Fresh(target)

Seek(delta) ==
    LET target == cursor + delta
    IN /\ delta < 0 => keepHistory
       /\ target \in 0 .. MaxCursor
       /\ pos' = [c \in Cues |-> IF c \in Fresh(target) THEN Max({0, target - start[c]})
                                 ELSE pos[c]]
       /\ finished' = (finished \cup Ended(target)) \ Fresh(target)
       /\ done' = done \cup (Ended(target) \ finished)
       /\ cursor' = IF Stuck(target) = {} THEN target ELSE cursor
       /\ astray' = Misplaced(target)
       /\ UNCHANGED <<end, closed, active, start, config, factory, cancelled, state,
                      appended, placed, before>>

-----------------------------------------------------------------------------
(* Handle.Cancel, Close.                                                   *)
Cancel(c) ==
    /\ state[c] = "scheduled"
    /\ cancelled' = cancelled \cup {c}
    /\ done' = done \cup {c}
    /\ UNCHANGED <<axis, active, start, config, factory, pos, finished, state, history>>

\* The mutant forgets the handles of the cues it drops.
MutFinishedByClose == {}
FinishedByClose == ToSet(active)

Close ==
    /\ ~closed
    /\ closed' = TRUE
    /\ done' = done \cup FinishedByClose
    /\ active' = <<>>
    /\ UNCHANGED <<cursor, end, start, config, factory, pos, finished, cancelled, state, history>>

Next ==
    \/ \E c \in Cues, from \in Starts : Schedule(c, from)
    \/ \E c \in Cues : AppendRead(c) \/ AppendSchedule(c) \/ Cancel(c)
    \/ \E n \in PullSizes : Pull(n)
    \/ \E delta \in Deltas : Seek(delta)
    \/ Close

Spec == Init /\ [][Next]_vars

-----------------------------------------------------------------------------
\* The type invariant; the list is in the order of the starts (impl.go:410-424)
\* and holds no cue twice.
TypeOK ==
    /\ cursor \in 0 .. MaxCursor /\ end \in Nat /\ closed \in BOOLEAN /\ keepHistory \in BOOLEAN
    /\ active \in Seq(Cues) /\ IsInjective(active)
    /\ \A i, j \in DOMAIN active : i < j => start[active[i]] <= start[active[j]]
    /\ start \in [Cues -> Nat]
    /\ length \in [Cues -> Lengths] /\ factory \subseteq Cues
    /\ pos \in [Cues -> Nat]
    /\ finished \subseteq Cues /\ cancelled \subseteq done /\ done \subseteq Cues
    /\ state \in [Cues -> {"new", "appending", "scheduled", "refused"}]
    /\ appended \subseteq Cues /\ placed \subseteq Cues /\ astray \subseteq Cues
    /\ before \in [Cues -> SUBSET Cues]

\* Every cue still to be played is exactly as far into its source as the cursor
\* is past its start, so that each of its frames is heard at its own place on
\* the axis, after a Seek as well ("playback resumes from the right place",
\* impl.go:220-226) - but for the cues a Seek leaves astray: those it takes back
\* to before their start in the middle of playing, and those a failing Seek
\* rewinds before it gives up, until a Seek that succeeds gives them a new source.
InStep ==
    \A c \in ToSet(active) \ (finished \cup cancelled \cup astray) :
        LET elapsed == Max({0, cursor - start[c]})
        IN pos[c] = IF Finite(c) THEN Min({length[c], elapsed}) ELSE elapsed

\* An appended cue starts at the very frame at which the last of the cues that
\* were on the axis when its Append read the end is over: behind them all, with
\* no gap, whether they have been played, dropped or cancelled since
\* (impl.go:22-25, 158-160).  So an Append called after another has returned
\* comes right behind it; two that overlap may both come behind the same cues,
\* on top of each other, and a Schedule between the two critical sections of an
\* Append is not seen by it.
AppendsBackToBack ==
    \A d \in appended : start[d] = Max({0} \cup {EndOf(c, start[c]) : c \in before[d]})

\* A cue that was scheduled and whose Done is open is still to be played; the
\* Done of one that has ended is closed; and a cue whose Done is closed is only
\* played on if it was cancelled, until Pull drops it, or rewound by a Seek.
NothingForgotten ==
    /\ \A c \in Cues : state[c] = "scheduled" /\ c \notin done => c \in ToSet(active)
    /\ finished \subseteq done
    /\ \A c \in (ToSet(active) \ finished) \cap done : c \in cancelled \cup factory

=============================================================================
