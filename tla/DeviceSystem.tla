---------------------------- MODULE DeviceSystem ----------------------------
(***************************************************************************)
(* devices.System (devices/system.go): the cache of the operating system's *)
(* audio devices, kept current by watchLoop - from the events of the       *)
(* backend's watcher where there is one (the property listeners of         *)
(* devices/platform_darwin_cgo.go), else by polling - and handed to        *)
(* subscribers as a snapshot and the events that follow it.                *)
(*                                                                         *)
(* A device of the operating system is an endpoint, an id and a direction: *)
(* an aggregate device is two endpoints with one id.  The tables of the    *)
(* operating system and of the watcher have an entry for each endpoint,    *)
(* that of System, and of a subscriber, one for each id.  Name, SampleRate *)
(* and Channels are the one value props.  The operating system changes its *)
(* table as it likes; reading it (List) is one step, and may fail.         *)
(***************************************************************************)
EXTENDS Integers, Sequences, FiniteSets, Functions, SequencesExt

CONSTANTS
    Endpoints,     \* the endpoints there may be: pairs of an id and a direction
    Props,         \* what else a device is
    FirstProps,    \* those of them that a device has in the first table
    Subscribers,   \* callers of Snapshot
    Backends,      \* of {"native", "polling"}
    OutCap,        \* capacity of the watcher's event channel
    MaxChanges,    \* bound on what the operating system changes
    MaxFailures    \* bound on the failing calls of the backend

ASSUME DeviceAssumption ==
    /\ IsFiniteSet(Endpoints)
    /\ \A e \in Endpoints : e = <<e[1], e[2]>> /\ e[2] \in {"output", "input"}
    /\ FirstProps \subseteq Props
    /\ Backends \subseteq {"native", "polling"}
    /\ OutCap \in Nat \ {0}
    /\ MaxChanges \in Nat /\ MaxFailures \in Nat

VARIABLES
    os,         \* the operating system's table
    backend,    \* whether the backend has native Watch
    loop,       \* where watchLoop is
    cache,      \* System.cache
    views,      \* what each subscriber made of its snapshot and its events
    closing,    \* Close: "no", "waiting" for watchLoop, "returned"
    run,        \* darwinWatcher.run: "off", "idle", or in refresh's "listing"
    dirty,      \* darwinWatcher.dirty holds a pulse
    snapshot,   \* darwinWatcher.snapshot; of the polling loop, its last List
    emitting,   \* events of the refresh under way that are not sent yet
    out,        \* darwinWatcher.out
    missed,     \* history: devices that changed between the first two Lists
    deaf,       \* history: a change since the last List pulsed nothing
    changes, failures

system == <<loop, cache, views>>
watcher == <<run, dirty, snapshot, emitting, out, missed, deaf>>
world == <<os, changes>>
vars == <<world, backend, system, watcher, closing, failures>>

Directions == {"output", "input"}
Ids == {e[1] : e \in Endpoints}

\* The ids that can only ever be one endpoint.
Plain == {i \in Ids : \E d \in Directions : <<i, d>> \notin Endpoints}

Device(id, direction, default, props) ==
    [id |-> id, direction |-> direction, default |-> default, props |-> props]
DevicesAt(e) == {Device(e[1], e[2], d, p) : d \in BOOLEAN, p \in Props}
Devices == UNION {DevicesAt(e) : e \in Endpoints}

\* Tables by endpoint, and by id.
Tables ==
    {t \in UNION {[present -> Devices] : present \in SUBSET Endpoints} :
        \A e \in DOMAIN t : t[e] \in DevicesAt(e)}
Caches ==
    {t \in UNION {[present -> Devices] : present \in SUBSET Ids} :
        \A i \in DOMAIN t : t[i].id = i}

OneDefaultEach(table) ==
    \A i, j \in DOMAIN table :
        table[i].default /\ table[j].default /\ table[i].direction = table[j].direction
            => i = j

With(table, key, device) ==
    [k \in DOMAIN table \cup {key} |-> IF k = key THEN device ELSE table[k]]
Without(table, key) == Restrict(table, DOMAIN table \ {key})

\* List gives the output of a device before its input (platform_darwin.go), and
\* of the endpoints with one id the last one stays.
Shown(table, id) == IF <<id, "input">> \in DOMAIN table THEN <<id, "input">> ELSE <<id, "output">>
ById(table) == [id \in {e[1] : e \in DOMAIN table} |-> table[Shown(table, id)]]

-----------------------------------------------------------------------------
(* Events, and what they do to a table                                     *)

Event(kind, device) == [kind |-> kind, device |-> device]

\* The default of a direction taken from whoever has it.
Dethroned(table, direction) ==
    [k \in DOMAIN table |-> IF table[k].direction = direction
                            THEN [table[k] EXCEPT !.default = FALSE] ELSE table[k]]

\* applyEvent, which knows a device by its id alone; a subscriber that keeps a
\* table of its own does the same.
Applied(table, event) ==
    LET device == event.device
    IN CASE event.kind \in {"added", "property"} -> With(table, device.id, device)
         [] event.kind = "removed" -> Without(table, device.id)
         [] event.kind = "default" -> With(Dethroned(table, device.direction), device.id,
                                           [device EXCEPT !.default = TRUE])

AllApplied(table, events) ==
    LET after[n \in 0 .. Len(events)] ==
            IF n = 0 THEN table ELSE Applied(after[n - 1], events[n])
    IN after[Len(events)]

\* The difference of two tables, both by endpoint or both by id.
Removed(old, new) == {Event("removed", old[k]) : k \in DOMAIN old \ DOMAIN new}
Added(old, new) == {Event("added", new[k]) : k \in DOMAIN new \ DOMAIN old}
BecameDefault(old, new) ==
    {k \in DOMAIN old \cap DOMAIN new : ~old[k].default /\ new[k].default}
DefaultChanged(old, new) == {Event("default", new[k]) : k \in BecameDefault(old, new)}
PropertyChanged(old, new) ==
    {Event("property", new[k]) :
        k \in {j \in (DOMAIN old \cap DOMAIN new) \ BecameDefault(old, new) :
                   old[j].props # new[j].props}}

\* diffDevices, of tables by endpoint, and diffAndEmit, of tables by id: the
\* orders in which a change is told.  Go ranges over a map in any order.
DiffDevices(old, new) ==
    {r \o a \o d \o p : r \in SetToSeqs(Removed(old, new)),
                        a \in SetToSeqs(Added(old, new)),
                        d \in SetToSeqs(DefaultChanged(old, new)),
                        p \in SetToSeqs(PropertyChanged(old, new))}
DiffAndEmit(old, new) ==
    {r \o e : r \in SetToSeqs(Removed(old, new)),
              e \in SetToSeqs(Added(old, new) \cup DefaultChanged(old, new)
                                 \cup PropertyChanged(old, new))}

-----------------------------------------------------------------------------
(* The operating system                                                    *)

Nothing == << >>
Cancelled == closing # "no"

Init ==
    /\ os \in {t \in Tables : /\ OneDefaultEach(t)
                             /\ \A i \in DOMAIN t : t[i].props \in FirstProps}
    /\ backend \in Backends
    /\ loop = "starting"
    /\ cache = ById(os)
    /\ views = [s \in Subscribers |-> [at |-> "off", table |-> Nothing]]
    /\ closing = "no"
    /\ run = "off" /\ dirty = FALSE
    /\ snapshot = Nothing /\ emitting = <<>> /\ out = <<>>
    /\ missed = {} /\ deaf = FALSE /\ changes = 0 /\ failures = 0

\* goAudioPropertyChanged.  A listener is installed for the device list and
\* the two defaults, and for nothing else; a pulse is kept until it is taken.
Pulse(heard) ==
    /\ dirty' = (dirty \/ (run # "off" /\ heard))
    /\ deaf' = (deaf \/ (backend = "native" /\ ~(run # "off" /\ heard)))

\* Once the context is cancelled nobody reads the table any more, and what it
\* does then is left out.
Change(table, heard) ==
    /\ ~Cancelled
    /\ changes < MaxChanges /\ changes' = changes + 1
    /\ table # os /\ OneDefaultEach(table)
    /\ os' = table
    /\ Pulse(heard)
    /\ UNCHANGED <<backend, system, run, snapshot, emitting, out, missed, closing,
                   failures>>

\* A new device may take the default from another.
Plug ==
    \E e \in Endpoints \ DOMAIN os, p \in Props :
        \/ Change(With(os, e, Device(e[1], e[2], FALSE, p)), TRUE)
        \/ Change(With(Dethroned(os, e[2]), e, Device(e[1], e[2], TRUE, p)), TRUE)
Unplug == \E e \in DOMAIN os : Change(Without(os, e), TRUE)
MoveDefault ==
    \/ \E e \in DOMAIN os :
           Change(With(Dethroned(os, e[2]), e, [os[e] EXCEPT !.default = TRUE]), TRUE)
    \/ \E d \in Directions : Change(Dethroned(os, d), TRUE)
ChangeProps ==
    \E e \in DOMAIN os, p \in Props :
        Change([os EXCEPT ![e].props = p], FALSE)

-----------------------------------------------------------------------------
(* The cache and its subscribers.  Applying a change holds System.mu for    *)
(* writing, and is one step; Snapshot holds it for reading, from before it   *)
(* copies the cache until it has subscribed.                                 *)

\* Nobody holds the lock for reading.  The mutant does not ask.
MutUnread == TRUE
Unread == \A s \in Subscribers : views[s].at # "copied"

ApplyAll(table, events) ==
    /\ Unread
    /\ cache' = table
    /\ views' = [s \in Subscribers |->
                    IF views[s].at = "on"
                    THEN [views[s] EXCEPT !.table = AllApplied(@, events)]
                    ELSE views[s]]

SnapshotCopies(s) ==
    /\ views[s].at = "off"
    /\ views' = [views EXCEPT ![s] = [at |-> "copied", table |-> cache]]
    /\ UNCHANGED <<world, backend, loop, cache, watcher, closing, failures>>
SnapshotSubscribes(s) ==
    /\ views[s].at = "copied"
    /\ views' = [views EXCEPT ![s].at = "on"]
    /\ UNCHANGED <<world, backend, loop, cache, watcher, closing, failures>>
Cancel(s) ==
    /\ views[s].at = "on"
    /\ views' = [views EXCEPT ![s] = [at |-> "off", table |-> Nothing]]
    /\ UNCHANGED <<world, backend, loop, cache, watcher, closing, failures>>

Close ==
    /\ closing = "no" /\ closing' = "waiting"
    /\ UNCHANGED <<world, backend, system, watcher, failures>>

\* Close does not wait for watchLoop.
MutCloseReturns ==
    /\ closing = "waiting"
    /\ closing' = "returned"
    /\ UNCHANGED <<world, backend, system, watcher, failures>>

CloseReturns ==
    /\ closing = "waiting" /\ loop = "ended"
    /\ closing' = "returned"
    /\ UNCHANGED <<world, backend, system, watcher, failures>>

-----------------------------------------------------------------------------
(* watchLoop, and the watcher it starts                                    *)

Fail == failures < MaxFailures /\ failures' = failures + 1

\* Watch lists the devices once more before it installs its listeners.
WatchLists ==
    /\ loop = "starting" /\ backend = "native" /\ ~Cancelled
    /\ snapshot' = os
    /\ missed' = {i \in Ids : \/ i \in DOMAIN ById(os) /\ i \notin DOMAIN cache
                              \/ i \in DOMAIN cache /\ i \notin DOMAIN ById(os)
                              \/ i \in DOMAIN cache /\ ById(os)[i] # cache[i]}
    /\ deaf' = FALSE
    /\ loop' = "installing"
    /\ UNCHANGED <<world, backend, cache, views, run, dirty, emitting, out, closing,
                   failures>>
WatchInstalls ==
    /\ loop = "installing"
    /\ run' = "idle" /\ loop' = "watching"
    /\ UNCHANGED <<world, backend, cache, views, dirty, snapshot, emitting, out,
                   missed, deaf, closing, failures>>
WatchFails ==
    /\ backend = "native"
    /\ \/ loop = "starting" /\ Cancelled /\ UNCHANGED failures
       \/ loop \in {"starting", "installing"} /\ Fail
    /\ loop' = "ended"
    /\ UNCHANGED <<world, backend, cache, views, watcher, closing>>
WatchNotSupported ==
    /\ loop = "starting" /\ backend = "polling"
    /\ loop' = "polling"
    /\ UNCHANGED <<world, backend, cache, views, watcher, closing, failures>>

ApplyEvent ==
    /\ loop = "watching" /\ out # <<>>
    /\ ApplyAll(Applied(cache, Head(out)), <<Head(out)>>)
    /\ out' = Tail(out)
    /\ missed' = missed \ {Head(out).device.id}
    /\ UNCHANGED <<world, backend, loop, run, dirty, snapshot, emitting, deaf,
                   closing, failures>>

PollLists ==
    /\ loop = "polling" /\ ~Cancelled
    /\ snapshot' = os /\ loop' = "listed"
    /\ UNCHANGED <<world, backend, cache, views, run, dirty, emitting, out, missed,
                   deaf, closing, failures>>
PollApplies ==
    /\ loop = "listed" /\ loop' = "polling"
    /\ \E events \in DiffAndEmit(cache, ById(snapshot)) : ApplyAll(ById(snapshot), events)
    /\ UNCHANGED <<world, backend, watcher, closing, failures>>

\* A poll that fails ends the loop.
MutPollFails ==
    /\ loop = "polling"
    /\ Fail
    /\ loop' = "ended"
    /\ UNCHANGED <<world, backend, cache, views, watcher, closing>>

PollFails ==
    /\ loop = "polling"
    /\ Fail
    /\ UNCHANGED <<world, backend, system, watcher, closing>>

\* On a cancelled context, or on the channel that the watcher closed.
LoopEnds ==
    /\ loop \in {"watching", "polling"}
    /\ Cancelled
    /\ loop' = "ended"
    /\ UNCHANGED <<world, backend, cache, views, watcher, closing, failures>>

-----------------------------------------------------------------------------
(* darwinWatcher.run: a goroutine that Close does not wait for             *)

TakePulse ==
    /\ run = "idle" /\ emitting = <<>> /\ dirty
    /\ dirty' = FALSE /\ run' = "listing"
    /\ UNCHANGED <<world, backend, system, snapshot, emitting, out, missed, deaf,
                   closing, failures>>
Refresh ==
    /\ run = "listing" /\ ~Cancelled /\ run' = "idle"
    /\ snapshot' = os /\ deaf' = FALSE
    /\ emitting' \in DiffDevices(snapshot, os)
    /\ UNCHANGED <<world, backend, system, dirty, out, missed, closing, failures>>
RefreshFails ==
    /\ run = "listing" /\ run' = "idle"
    /\ deaf' = TRUE
    /\ \/ Cancelled /\ UNCHANGED failures
       \/ Fail
    /\ UNCHANGED <<world, backend, system, dirty, snapshot, emitting, out, missed,
                   closing>>

\* A full channel loses the event, as it loses a pulse.
MutEmit ==
    /\ emitting # <<>>
    /\ out' = IF Len(out) < OutCap THEN Append(out, Head(emitting)) ELSE out
    /\ emitting' = Tail(emitting)
    /\ UNCHANGED <<world, backend, system, run, dirty, snapshot, missed, deaf,
                   closing, failures>>

Emit ==
    /\ emitting # <<>> /\ Len(out) < OutCap
    /\ out' = Append(out, Head(emitting))
    /\ emitting' = Tail(emitting)
    /\ UNCHANGED <<world, backend, system, run, dirty, snapshot, missed, deaf,
                   closing, failures>>

WatcherEnds ==
    /\ run = "idle" /\ Cancelled
    /\ run' = "off" /\ emitting' = <<>>
    /\ dirty' = FALSE /\ snapshot' = Nothing /\ deaf' = FALSE  \* garbage now
    /\ UNCHANGED <<world, backend, system, out, missed, closing, failures>>

-----------------------------------------------------------------------------
OsChanges == Plug \/ Unplug \/ MoveDefault \/ ChangeProps
WatchLoop == \/ WatchLists \/ WatchInstalls \/ WatchFails \/ WatchNotSupported
             \/ ApplyEvent \/ PollLists \/ PollApplies \/ PollFails \/ LoopEnds
Watcher == TakePulse \/ Refresh \/ RefreshFails \/ Emit \/ WatcherEnds
Next ==
    \/ OsChanges
    \/ \E s \in Subscribers : SnapshotCopies(s) \/ SnapshotSubscribes(s) \/ Cancel(s)
    \/ Close \/ CloseReturns
    \/ WatchLoop \/ Watcher

\* All goroutines run whenever they can, and the ticker keeps firing; a writer
\* that waits for the lock keeps later readers out (sync.RWMutex), so that
\* Snapshots in turn do not hold it up for ever: strong fairness.
Fairness ==
    /\ \A s \in Subscribers : WF_vars(SnapshotSubscribes(s))
    /\ WF_vars(WatchLists \/ WatchInstalls \/ WatchNotSupported)
    /\ SF_vars(ApplyEvent)
    /\ WF_vars(PollLists) /\ SF_vars(PollApplies)
    /\ WF_vars(LoopEnds \/ WatchFails)
    /\ WF_vars(TakePulse) /\ WF_vars(Refresh) /\ WF_vars(Emit)
    /\ WF_vars(CloseReturns)

Spec == Init /\ [][Next]_vars /\ Fairness

-----------------------------------------------------------------------------
(* Properties                                                              *)

\* Every variable has the values the code can give it; a table has at most one
\* entry for an endpoint, the cache one for an id, and the channel no more than
\* its capacity.
TypeOK ==
    /\ {os, snapshot} \subseteq Tables /\ cache \in Caches
    /\ backend \in Backends
    /\ loop \in {"starting", "installing", "watching", "polling", "listed", "ended"}
    /\ \A s \in Subscribers :
           views[s].at \in {"off", "copied", "on"} /\ views[s].table \in Caches
    /\ closing \in {"no", "waiting", "returned"}
    /\ run \in {"off", "idle", "listing"} /\ dirty \in BOOLEAN
    /\ Len(out) <= OutCap
    /\ missed \subseteq Ids /\ deaf \in BOOLEAN

\* What one side knows of the devices in ids is what is true of them.  Who is
\* NOT the default any more is not part of it: no event says so.
Agree(known, truth, ids) ==
    \A i \in ids :
        /\ i \in DOMAIN known <=> i \in DOMAIN truth
        /\ i \in DOMAIN truth =>
               /\ known[i].direction = truth[i].direction
               /\ known[i].props = truth[i].props
               /\ truth[i].default => known[i].default

\* A subscriber that applies its events to its snapshot knows what the cache
\* knows, and no event between the copy and the subscription is missed (the
\* promise of Snapshot, system.go:95-97), whichever order the events of a diff
\* are told in: with a watcher it has the very same table; while polling, the
\* same ids, and the same devices for those that cannot turn from an output
\* into an input, of which no event tells (system.go:198-213).
SubscribersFollow ==
    \A s \in Subscribers :
        views[s].at = "on" =>
            IF backend = "native" THEN views[s].table = cache
            ELSE /\ DOMAIN views[s].table = DOMAIN cache
                 /\ Agree(views[s].table, cache, Plain)

\* The watcher keeps a snapshot of its own beside the cache, and what it has
\* told or is about to tell makes up the difference: no event is lost in the
\* channel or overtaken.  Not for the devices that changed before Watch's own
\* List, which no event will mention; nor for ids of two endpoints, whose events
\* overwrite and delete each other in the cache.
OnTheWay ==
    run # "off" /\ ~Cancelled =>
        Agree(AllApplied(cache, out \o emitting), ById(snapshot), Plain \ missed)

\* Once the operating system is quiet the cache comes to agree with it: when
\* polling, it is what one List gives by id, through any failed poll; with
\* listeners, it agrees for the ids of one endpoint, if what changed last was
\* something they listen to and its refresh did not fail.
CacheConverges ==
    <>[](\/ Cancelled
         \/ backend = "polling" /\ cache = ById(os)
         \/ backend = "native" /\ (loop = "ended" \/ deaf)
         \/ backend = "native" /\ Agree(cache, ById(os), Plain \ missed))

\* After Close has returned, no subscriber is called and the cache is still.
ClosedIsQuiet ==
    [][closing = "returned" =>
          /\ cache' = cache
          /\ \A s \in Subscribers :
                 views[s].at = "on" /\ views'[s].at = "on" => views'[s] = views[s]]_vars

\* DefaultOutput "returns the system default output device": at most one
\* device of the cache is the default of its direction.
OneDefault == OneDefaultEach(cache)

\* List "returns the current device set" (system.go:117): once the operating
\* system is quiet, the cache has every id that is there, of however many
\* endpoints.
ListIsCurrent ==
    <>[](Cancelled \/ loop = "ended" \/ deaf
           \/ \A i \in Ids \ missed : i \in DOMAIN ById(os) => i \in DOMAIN cache)
=============================================================================
