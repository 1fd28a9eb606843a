----------------------------- MODULE DeviceProofs ----------------------------
(***************************************************************************)
(* Proofs about DeviceSystem for any endpoints, subscribers, back ends and   *)
(* numbers of changes and failures.                                        *)
(***************************************************************************)
EXTENDS DeviceSystem, SequenceLemmas, FiniteSetTheorems

\* Close returns only when watchLoop has ended, and nothing starts it again.
Joined ==
    /\ closing = "returned" => loop = "ended"
    /\ views = [s \in Subscribers |-> views[s]]

LEMMA JoinedStep ==
    ASSUME Joined, [Next]_vars
    PROVE  Joined'
<1> USE DEF Joined
<1>1. CASE OsChanges
  BY <1>1 DEF OsChanges, Plug, Unplug, MoveDefault, ChangeProps, Change, system
<1>2. ASSUME NEW s \in Subscribers, SnapshotCopies(s) \/ SnapshotSubscribes(s) \/ Cancel(s)
      PROVE  Joined'
  BY <1>2 DEF SnapshotCopies, SnapshotSubscribes, Cancel
<1>3. CASE Close \/ CloseReturns
  BY <1>3 DEF Close, CloseReturns, system
<1>4. CASE WatchLoop
  BY <1>4 DEF WatchLoop, WatchLists, WatchInstalls, WatchFails, WatchNotSupported,
              ApplyEvent, PollLists, PollApplies, PollFails, LoopEnds, ApplyAll, system
<1>5. CASE Watcher
  BY <1>5 DEF Watcher, TakePulse, Refresh, RefreshFails, Emit, WatcherEnds, system
<1>6. CASE UNCHANGED vars
  BY <1>6 DEF vars, system
<1> QED
  BY <1>1, <1>2, <1>3, <1>4, <1>5, <1>6 DEF Next

\* A subscriber that stays subscribed is told nothing: its view is as it was.
Still ==
    /\ cache' = cache
    /\ \A s \in Subscribers :
           views[s].at = "on" /\ views'[s].at = "on" => views'[s] = views[s]

LEMMA QuietStep ==
    ASSUME Joined, closing = "returned", [Next]_vars
    PROVE  Still
<1> USE DEF Still
<1>1. loop = "ended"
  BY DEF Joined
<1>2. CASE OsChanges
  BY <1>2 DEF OsChanges, Plug, Unplug, MoveDefault, ChangeProps, Change, system
<1>3. ASSUME NEW s \in Subscribers, SnapshotCopies(s) \/ SnapshotSubscribes(s)
      PROVE  Still
  BY <1>3 DEF SnapshotCopies, SnapshotSubscribes, Joined
<1>4. ASSUME NEW s \in Subscribers, Cancel(s)
      PROVE  Still
  BY <1>4 DEF Cancel, Joined
<1>5. CASE Close \/ CloseReturns
  BY <1>5 DEF Close, CloseReturns, system
<1>6. CASE WatchLoop
  BY <1>1, <1>6 DEF WatchLoop, WatchLists, WatchInstalls, WatchFails, WatchNotSupported,
              ApplyEvent, PollLists, PollApplies, PollFails, LoopEnds, system
<1>7. CASE Watcher
  BY <1>7 DEF Watcher, TakePulse, Refresh, RefreshFails, Emit, WatcherEnds, system
<1>8. CASE UNCHANGED vars
  BY <1>8 DEF vars, system
<1> QED
  BY <1>2, <1>3, <1>4, <1>5, <1>6, <1>7, <1>8 DEF Next

\* After System.Close has returned the cache does not move and no subscriber
\* is called, although the watcher's own goroutine may still be at work.
THEOREM QuietOnceClosed == Spec => ClosedIsQuiet
<1>1. Init => Joined
  BY DEF Init, Joined
<1>2. Joined /\ [Next]_vars => Joined'
  BY JoinedStep
<1>3. Joined /\ [Next]_vars =>
        [closing = "returned" =>
             /\ cache' = cache
             /\ \A s \in Subscribers :
                    views[s].at = "on" /\ views'[s].at = "on" => views'[s] = views[s]]_vars
  BY QuietStep DEF Still
<1> QED
  BY <1>1, <1>2, <1>3, PTL DEF Spec, ClosedIsQuiet
-----------------------------------------------------------------------------
(* Events applied one after another.                                       *)

\* f[n] is the table after the first n events.
Folded(f, table, events) ==
    /\ f[0] = table
    /\ \A n \in 1 .. Len(events) : f[n] = Applied(f[n - 1], events[n])

After(f, table, events) ==
    f = [n \in 0 .. Len(events) |-> IF n = 0 THEN table ELSE Applied(f[n - 1], events[n])]

LEMMA FoldExists ==
    ASSUME NEW table, NEW events, Len(events) \in Nat
    PROVE  \E f : After(f, table, events)
<1> DEFINE Eq(f, m) == f = [n \in 0 .. m |-> IF n = 0 THEN table ELSE Applied(f[n - 1], events[n])]
           Good == {m \in Nat : \E f : Eq(f, m)}
<1>1. 0 \in Good
  <2>1. PICK f : f = [n \in 0 .. 0 |-> table]
    OBVIOUS
  <2>2. \A n \in 0 .. 0 : n = 0
    OBVIOUS
  <2>3. [n \in 0 .. 0 |-> table] = [n \in 0 .. 0 |-> IF n = 0 THEN table ELSE Applied(f[n - 1], events[n])]
    BY <2>2, Zenon
  <2>4. Eq(f, 0)
    BY <2>1, <2>3, Zenon
  <2> QED
    BY <2>4
<1>2. ASSUME NEW m \in Nat, m \in Good PROVE m + 1 \in Good
  <2>1. PICK f : Eq(f, m)
    BY <1>2
  <2>2. PICK g : g = [n \in 0 .. m + 1 |-> IF n = m + 1 THEN Applied(f[m], events[m + 1]) ELSE f[n]]
    OBVIOUS
  <2>3. \A n \in 0 .. m : f[n] = IF n = 0 THEN table ELSE Applied(f[n - 1], events[n])
    BY <2>1, Zenon
  <2>4. \A n \in 0 .. m : g[n] = f[n]
    BY <2>2
  <2>5. g[m + 1] = Applied(f[m], events[m + 1])
    BY <2>2
  <2>6. ASSUME NEW n \in 0 .. m + 1
        PROVE  g[n] = IF n = 0 THEN table ELSE Applied(g[n - 1], events[n])
    <3>1. CASE n = m + 1
      <4>1. n # 0 /\ n - 1 = m /\ m \in 0 .. m
        BY <3>1
      <4> QED
        BY <2>4, <2>5, <3>1, <4>1, Zenon
    <3>2. CASE n # m + 1
      <4>1. n \in 0 .. m /\ (n # 0 => n - 1 \in 0 .. m)
        BY <3>2
      <4> QED
        BY <2>3, <2>4, <4>1, Zenon
    <3> QED
      BY <3>1, <3>2
  <2>7. g = [n \in 0 .. m + 1 |-> g[n]]
    BY <2>2, Zenon
  <2>8. Eq(g, m + 1)
    BY <2>6, <2>7, Zenon
  <2> QED
    BY <2>8
<1> HIDE DEF Good
<1>3. Nat \subseteq Good
  BY <1>1, <1>2, Induction
<1>4. Len(events) \in Good
  BY <1>3
<1>5. PICK f : Eq(f, Len(events))
  BY <1>4 DEF Good
<1> QED
  BY <1>5, Zenon DEF After

LEMMA AllAppliedIs ==
    ASSUME NEW table, NEW events, Len(events) \in Nat
    PROVE  \E f : Folded(f, table, events) /\ AllApplied(table, events) = f[Len(events)]
<1> DEFINE h == CHOOSE f : After(f, table, events)
<1>1. AllApplied(table, events) = h[Len(events)]
  BY Zenon DEF AllApplied, After
<1>2. \E f : After(f, table, events)
  BY FoldExists, Zenon
<1>3. After(h, table, events)
  BY <1>2, Zenon
<1> HIDE DEF h
<1>4. \A n \in 0 .. Len(events) : h[n] = IF n = 0 THEN table ELSE Applied(h[n - 1], events[n])
  BY <1>3, Zenon DEF After
<1>5. 0 \in 0 .. Len(events) /\ \A n \in 1 .. Len(events) : n \in 0 .. Len(events) /\ n # 0
  OBVIOUS
<1> QED
  BY <1>1, <1>4, <1>5, Zenon DEF Folded

\* The same events lead to the same tables.
LEMMA FoldsAgree ==
    ASSUME NEW table, NEW es, NEW ds, NEW f, NEW g, NEW m,
           Folded(f, table, es), Folded(g, table, ds), Alike(m, es, ds)
    PROVE  f[m] = g[m]
<1> USE DEF Alike
<1> DEFINE Good == {n \in Nat : n <= m => f[n] = g[n]}
<1>1. 0 \in Good
  BY DEF Folded
<1>2. ASSUME NEW n \in Nat, n \in Good PROVE n + 1 \in Good
  <2> SUFFICES ASSUME n + 1 <= m PROVE f[n + 1] = g[n + 1]
    OBVIOUS
  <2>1. f[n] = g[n]
    BY <1>2
  <2>2. n + 1 \in 1 .. Len(es) /\ n + 1 \in 1 .. Len(ds) /\ n + 1 \in 1 .. m /\ (n + 1) - 1 = n
    OBVIOUS
  <2> QED
    BY <2>1, <2>2, Zenon DEF Folded
<1> HIDE DEF Good
<1>3. Nat \subseteq Good
  BY <1>1, <1>2, Induction
<1>4. m \in Good /\ m <= m
  BY <1>3
<1> QED
  BY <1>4 DEF Good

Kinds == {"added", "removed", "default", "property"}
EventSet == [kind : Kinds, device : Devices]

LEMMA AppliedNone ==
    ASSUME NEW table
    PROVE  AllApplied(table, <<>>) = table
<1>1. Len(<<>>) = 0
  OBVIOUS
<1>2. PICK f : Folded(f, table, <<>>) /\ AllApplied(table, <<>>) = f[Len(<<>>)]
  BY <1>1, AllAppliedIs
<1> QED
  BY <1>1, <1>2, Zenon DEF Folded

LEMMA AppliedAppend ==
    ASSUME NEW table, NEW es \in Seq(EventSet), NEW e \in EventSet
    PROVE  AllApplied(table, Append(es, e)) = Applied(AllApplied(table, es), e)
<1>1. PICK ds : ds = Append(es, e)
  OBVIOUS
<1>2. PICK m \in Nat : m = Len(es)
  OBVIOUS
<1>3. Len(ds) = m + 1 /\ ds[m + 1] = e /\ \A n \in 1 .. m : es[n] = ds[n]
  BY <1>1, <1>2
<1>4. PICK f : Folded(f, table, es) /\ AllApplied(table, es) = f[m]
  BY <1>2, AllAppliedIs, Zenon
<1>5. Len(ds) \in Nat
  BY <1>3
<1>6. PICK g : Folded(g, table, ds) /\ AllApplied(table, ds) = g[m + 1]
  BY <1>3, <1>5, AllAppliedIs, Zenon
<1>7. f[m] = g[m]
  <2>1. Alike(m, es, ds)
    BY <1>2, <1>3 DEF Alike
  <2>2. Folded(f, table, es) /\ Folded(g, table, ds)
    BY <1>4, <1>6
  <2> QED
    BY <2>1, <2>2, FoldsAgree
<1>8. m + 1 \in 1 .. Len(ds) /\ (m + 1) - 1 = m
  BY <1>3
<1>9. g[m + 1] = Applied(g[m], e)
  BY <1>3, <1>6, <1>8, Zenon DEF Folded
<1> QED
  BY <1>1, <1>4, <1>6, <1>7, <1>9, Zenon

LEMMA AppliedOne ==
    ASSUME NEW table, NEW e \in EventSet
    PROVE  AllApplied(table, <<e>>) = Applied(table, e)
<1>1. <<e>> = Append(<<>>, e) /\ <<>> \in Seq(EventSet)
  OBVIOUS
<1> QED
  BY <1>1, AppliedAppend, AppliedNone, Zenon

LEMMA AppliedConcat ==
    ASSUME NEW table, NEW es \in Seq(EventSet), NEW ds \in Seq(EventSet)
    PROVE  AllApplied(table, es \o ds) = AllApplied(AllApplied(table, es), ds)
<1> DEFINE P == {u \in Seq(EventSet) :
                    AllApplied(table, es \o u) = AllApplied(AllApplied(table, es), u)}
<1>1. <<>> \in P
  <2>1. <<>> \in Seq(EventSet) /\ es \o <<>> = es
    OBVIOUS
  <2> QED
    BY <2>1, AppliedNone, Zenon
<1>2. \A u \in Seq(EventSet), e \in EventSet : u \in P => Append(u, e) \in P
  <2> SUFFICES ASSUME NEW u \in Seq(EventSet), NEW e \in EventSet, u \in P
               PROVE  Append(u, e) \in P
    OBVIOUS
  <2>1. PICK v \in Seq(EventSet) : v = es \o u
    BY ConcatIs, Zenon
  <2>2. AllApplied(table, v) = AllApplied(AllApplied(table, es), u)
    BY <2>1, Zenon
  <2>3. es \o Append(u, e) = Append(v, e)
    BY <2>1, ConcatAppend
  <2>4. AllApplied(table, Append(v, e)) = Applied(AllApplied(table, v), e)
    BY AppliedAppend
  <2>5. AllApplied(AllApplied(table, es), Append(u, e)) = Applied(AllApplied(AllApplied(table, es), u), e)
    BY AppliedAppend
  <2>6. Append(u, e) \in Seq(EventSet)
    OBVIOUS
  <2> QED
    BY <2>2, <2>3, <2>4, <2>5, <2>6, Zenon
<1> HIDE DEF P
<1>3. Seq(EventSet) \subseteq P
  BY <1>1, <1>2, SeqInduction
<1>4. ds \in P
  BY <1>3
<1> QED
  BY <1>4 DEF P

-----------------------------------------------------------------------------
(* Devices and tables of them.                                             *)

LEMMA DeviceHas ==
    ASSUME NEW d \in Devices
    PROVE  /\ d.id \in Ids /\ d.default \in BOOLEAN /\ d.props \in Props
           /\ <<d.id, d.direction>> \in Endpoints /\ d.direction \in Directions
           /\ d = Device(d.id, d.direction, d.default, d.props)
<1>1. PICK e \in Endpoints : d \in DevicesAt(e)
  BY DEF Devices
<1>2. PICK b \in BOOLEAN, p \in Props : d = Device(e[1], e[2], b, p)
  BY <1>1 DEF DevicesAt
<1>3. e = <<e[1], e[2]>> /\ e[2] \in Directions
  BY DeviceAssumption DEF Directions
<1> QED
  BY <1>2, <1>3 DEF Device, Ids

LEMMA DeviceIs ==
    ASSUME NEW e \in Endpoints, NEW b \in BOOLEAN, NEW p \in Props
    PROVE  /\ Device(e[1], e[2], b, p) \in DevicesAt(e)
           /\ DevicesAt(e) \subseteq Devices
BY DEF DevicesAt, Devices

LEMMA EndpointOf ==
    ASSUME NEW e \in Endpoints, NEW d \in DevicesAt(e)
    PROVE  /\ d \in Devices /\ d.id = e[1] /\ d.direction = e[2]
           /\ e = <<d.id, d.direction>> /\ d.default \in BOOLEAN /\ d.props \in Props
<1>1. e = <<e[1], e[2]>>
  BY DeviceAssumption
<1> QED
  BY <1>1 DEF DevicesAt, Devices, Device

LEMMA DeviceSet ==
    ASSUME NEW e \in Endpoints, NEW d \in DevicesAt(e), NEW b \in BOOLEAN
    PROVE  /\ [d EXCEPT !.default = b] \in DevicesAt(e)
           /\ [d EXCEPT !.default = b].id = d.id
           /\ [d EXCEPT !.default = b].direction = d.direction
           /\ [d EXCEPT !.default = b].props = d.props
           /\ [d EXCEPT !.default = b].default = b
BY DEF DevicesAt, Device

LEMMA SomewhereSet ==
    ASSUME NEW d \in Devices, NEW b \in BOOLEAN
    PROVE  /\ [d EXCEPT !.default = b] \in Devices
           /\ [d EXCEPT !.default = b].id = d.id
           /\ [d EXCEPT !.default = b].direction = d.direction
           /\ [d EXCEPT !.default = b].props = d.props
           /\ [d EXCEPT !.default = b].default = b
<1>1. PICK e \in Endpoints : d \in DevicesAt(e)
  BY DEF Devices
<1>2. PICK c : c = [d EXCEPT !.default = b]
  OBVIOUS
<1>3. c \in DevicesAt(e) /\ c.id = d.id /\ c.direction = d.direction /\ c.props = d.props
      /\ c.default = b
  BY <1>1, <1>2, DeviceSet
<1>4. c \in Devices
  BY <1>3 DEF Devices
<1> QED
  BY <1>2, <1>3, <1>4

\* An id that can be one endpoint only has one direction.
LEMMA PlainDirection ==
    ASSUME NEW c \in Devices, NEW d \in Devices, c.id = d.id, c.id \in Plain
    PROVE  c.direction = d.direction
<1>1. PICK i, x, y : i = c.id /\ x = c.direction /\ y = d.direction
  OBVIOUS
<1>2. /\ <<i, x>> \in Endpoints /\ x \in Directions
      /\ <<i, y>> \in Endpoints /\ y \in Directions
  BY <1>1, DeviceHas, Zenon
<1>3. PICK z \in Directions : <<i, z>> \notin Endpoints
  BY <1>1 DEF Plain
<1>4. z # x /\ z # y
  BY <1>2, <1>3
<1> QED
  BY <1>1, <1>2, <1>4 DEF Directions

LEMMA CacheIs ==
    ASSUME NEW S \in SUBSET Ids, NEW table \in [S -> Devices], \A i \in S : table[i].id = i
    PROVE  table \in Caches
BY DEF Caches

LEMMA CacheHas ==
    ASSUME NEW table \in Caches
    PROVE  /\ DOMAIN table \in SUBSET Ids /\ table = [i \in DOMAIN table |-> table[i]]
           /\ \A i \in DOMAIN table : table[i] \in Devices /\ table[i].id = i
BY DEF Caches

LEMMA TableIs ==
    ASSUME NEW S \in SUBSET Endpoints, NEW table, table = [e \in S |-> table[e]],
           \A e \in S : table[e] \in DevicesAt(e)
    PROVE  table \in Tables
<1>1. \A e \in S : table[e] \in Devices
  BY DEF Devices
<1>2. table \in [S -> Devices]
  BY <1>1
<1>3. DOMAIN table = S
  BY <1>2
<1> QED
  BY <1>2, <1>3 DEF Tables

LEMMA TableHas ==
    ASSUME NEW table \in Tables
    PROVE  /\ DOMAIN table \in SUBSET Endpoints /\ table = [e \in DOMAIN table |-> table[e]]
           /\ \A e \in DOMAIN table : table[e] \in DevicesAt(e) /\ table[e] \in Devices
BY DEF Tables

LEMMA WithoutIs ==
    ASSUME NEW table, NEW key
    PROVE  /\ DOMAIN Without(table, key) = DOMAIN table \ {key}
           /\ Without(table, key) = [k \in DOMAIN table \ {key} |-> Without(table, key)[k]]
           /\ \A k \in DOMAIN table : k # key => Without(table, key)[k] = table[k]
BY DEF Without, Restrict

LEMMA DethronedIs ==
    ASSUME NEW table, NEW direction
    PROVE  /\ DOMAIN Dethroned(table, direction) = DOMAIN table
           /\ Dethroned(table, direction)
                = [k \in DOMAIN table |-> Dethroned(table, direction)[k]]
           /\ \A k \in DOMAIN table :
                 Dethroned(table, direction)[k] =
                    IF table[k].direction = direction
                    THEN [table[k] EXCEPT !.default = FALSE] ELSE table[k]
BY Zenon DEF Dethroned

LEMMA CacheWith ==
    ASSUME NEW table \in Caches, NEW d \in Devices
    PROVE  With(table, d.id, d) \in Caches
<1>1. PICK t : t = With(table, d.id, d)
  OBVIOUS
<1>2. PICK S : S = DOMAIN table \cup {d.id}
  OBVIOUS
<1>3. /\ t = [k \in S |-> t[k]] /\ t[d.id] = d
      /\ \A k \in DOMAIN table : k # d.id => t[k] = table[k]
  <2>1. /\ t = [k \in DOMAIN table \cup {d.id} |-> t[k]] /\ t[d.id] = d
        /\ \A k \in DOMAIN table : k # d.id => t[k] = table[k]
    BY <1>1, Zenon DEF With
  <2> QED
    BY <1>2, <2>1
<1>4. /\ DOMAIN table \in SUBSET Ids /\ d.id \in Ids
      /\ \A i \in DOMAIN table : table[i] \in Devices /\ table[i].id = i
  BY CacheHas, DeviceHas
<1>5. \A k \in S : t[k] \in Devices /\ t[k].id = k
  BY <1>2, <1>3, <1>4
<1>6. t \in [S -> Devices]
  BY <1>3, <1>5
<1>7. S \in SUBSET Ids
  BY <1>2, <1>4
<1> QED
  BY <1>1, <1>5, <1>6, <1>7, CacheIs

LEMMA CacheWithout ==
    ASSUME NEW table \in Caches, NEW id
    PROVE  Without(table, id) \in Caches
<1>1. PICK t : t = Without(table, id)
  OBVIOUS
<1>2. PICK S : S = DOMAIN table \ {id}
  OBVIOUS
<1>3. t = [k \in S |-> t[k]] /\ \A k \in DOMAIN table : k # id => t[k] = table[k]
  BY <1>1, <1>2, WithoutIs, Zenon
<1>4. /\ DOMAIN table \in SUBSET Ids
      /\ \A i \in DOMAIN table : table[i] \in Devices /\ table[i].id = i
  BY CacheHas
<1>5. \A k \in S : t[k] \in Devices /\ t[k].id = k
  BY <1>2, <1>3, <1>4
<1>6. t \in [S -> Devices] /\ S \in SUBSET Ids
  BY <1>2, <1>3, <1>4, <1>5
<1> QED
  BY <1>1, <1>5, <1>6, CacheIs

LEMMA CacheDethroned ==
    ASSUME NEW table \in Caches, NEW direction
    PROVE  Dethroned(table, direction) \in Caches
<1>1. PICK t : t = Dethroned(table, direction)
  OBVIOUS
<1>2. PICK S : S = DOMAIN table
  OBVIOUS
<1>3. /\ t = [k \in S |-> t[k]]
      /\ \A k \in S : t[k] = IF table[k].direction = direction
                             THEN [table[k] EXCEPT !.default = FALSE] ELSE table[k]
  <2>1. /\ t = [k \in DOMAIN table |-> t[k]]
        /\ \A k \in DOMAIN table : t[k] = IF table[k].direction = direction
                                         THEN [table[k] EXCEPT !.default = FALSE] ELSE table[k]
    BY <1>1, DethronedIs
  <2> QED
    BY <1>2, <2>1
<1>4. S \in SUBSET Ids /\ \A i \in S : table[i] \in Devices /\ table[i].id = i
  BY <1>2, CacheHas
<1>5. ASSUME NEW k \in S PROVE t[k] \in Devices /\ t[k].id = k
  <2>1. PICK d \in Devices : d = table[k] /\ d.id = k
    BY <1>4
  <2>2. [d EXCEPT !.default = FALSE] \in Devices /\ [d EXCEPT !.default = FALSE].id = d.id
    BY SomewhereSet
  <2>3. t[k] = IF d.direction = direction THEN [d EXCEPT !.default = FALSE] ELSE d
    BY <1>3, <2>1, Zenon
  <2> QED
    BY <2>1, <2>2, <2>3, Zenon
<1>6. t \in [S -> Devices]
  BY <1>3, <1>5
<1> QED
  BY <1>1, <1>4, <1>5, <1>6, CacheIs

LEMMA TableWith ==
    ASSUME NEW table \in Tables, NEW e \in Endpoints, NEW d \in DevicesAt(e)
    PROVE  With(table, e, d) \in Tables
<1>1. PICK t : t = With(table, e, d)
  OBVIOUS
<1>2. PICK S : S = DOMAIN table \cup {e}
  OBVIOUS
<1>3. /\ t = [k \in S |-> t[k]] /\ t[e] = d
      /\ \A k \in DOMAIN table : k # e => t[k] = table[k]
  <2>1. /\ t = [k \in DOMAIN table \cup {e} |-> t[k]] /\ t[e] = d
        /\ \A k \in DOMAIN table : k # e => t[k] = table[k]
    BY <1>1, Zenon DEF With
  <2> QED
    BY <1>2, <2>1
<1>4. DOMAIN table \in SUBSET Endpoints /\ \A k \in DOMAIN table : table[k] \in DevicesAt(k)
  BY TableHas
<1>5. S \in SUBSET Endpoints /\ \A k \in S : t[k] \in DevicesAt(k)
  BY <1>2, <1>3, <1>4
<1> QED
  BY <1>1, <1>3, <1>5, TableIs

LEMMA TableWithout ==
    ASSUME NEW table \in Tables, NEW e
    PROVE  Without(table, e) \in Tables
<1>1. PICK t : t = Without(table, e)
  OBVIOUS
<1>2. PICK S : S = DOMAIN table \ {e}
  OBVIOUS
<1>3. t = [k \in S |-> t[k]] /\ \A k \in DOMAIN table : k # e => t[k] = table[k]
  BY <1>1, <1>2, WithoutIs, Zenon
<1>4. DOMAIN table \in SUBSET Endpoints /\ \A k \in DOMAIN table : table[k] \in DevicesAt(k)
  BY TableHas
<1>5. S \in SUBSET Endpoints /\ \A k \in S : t[k] \in DevicesAt(k)
  BY <1>2, <1>3, <1>4
<1> QED
  BY <1>1, <1>3, <1>5, TableIs

LEMMA TableDethroned ==
    ASSUME NEW table \in Tables, NEW direction
    PROVE  Dethroned(table, direction) \in Tables
<1>1. PICK t : t = Dethroned(table, direction)
  OBVIOUS
<1>2. PICK S : S = DOMAIN table
  OBVIOUS
<1>3. /\ t = [k \in S |-> t[k]]
      /\ \A k \in S : t[k] = IF table[k].direction = direction
                             THEN [table[k] EXCEPT !.default = FALSE] ELSE table[k]
  <2>1. /\ t = [k \in DOMAIN table |-> t[k]]
        /\ \A k \in DOMAIN table : t[k] = IF table[k].direction = direction
                                         THEN [table[k] EXCEPT !.default = FALSE] ELSE table[k]
    BY <1>1, DethronedIs
  <2> QED
    BY <1>2, <2>1
<1>4. S \in SUBSET Endpoints /\ \A k \in S : table[k] \in DevicesAt(k)
  BY <1>2, TableHas
<1>5. ASSUME NEW k \in S PROVE t[k] \in DevicesAt(k)
  <2>1. PICK d \in DevicesAt(k) : d = table[k]
    BY <1>4
  <2>2. [d EXCEPT !.default = FALSE] \in DevicesAt(k)
    BY <1>4, DeviceSet
  <2>3. t[k] = IF d.direction = direction THEN [d EXCEPT !.default = FALSE] ELSE d
    BY <1>3, <2>1, Zenon
  <2> QED
    BY <2>2, <2>3, Zenon
<1> QED
  BY <1>1, <1>3, <1>4, <1>5, TableIs

\* A table by id shows one endpoint of each id.
LEMMA ByIdHas ==
    ASSUME NEW table \in Tables
    PROVE  /\ DOMAIN ById(table) = {e[1] : e \in DOMAIN table}
           /\ \A i \in DOMAIN ById(table) :
                 Shown(table, i) \in DOMAIN table /\ ById(table)[i] = table[Shown(table, i)]
                 /\ table[Shown(table, i)].id = i
<1>1. DOMAIN ById(table) = {e[1] : e \in DOMAIN table}
  BY DEF ById
<1>2. DOMAIN table \in SUBSET Endpoints /\ \A k \in DOMAIN table : table[k] \in DevicesAt(k)
  BY TableHas
<1>3. ASSUME NEW i \in DOMAIN ById(table)
      PROVE  /\ Shown(table, i) \in DOMAIN table /\ ById(table)[i] = table[Shown(table, i)]
             /\ table[Shown(table, i)].id = i
  <2>1. ById(table)[i] = table[Shown(table, i)]
    BY <1>1, Zenon DEF ById
  <2>2. PICK e \in DOMAIN table : i = e[1]
    BY <1>1
  <2>3. e = <<i, e[2]>> /\ e[2] \in {"output", "input"}
    BY <1>2, <2>2, DeviceAssumption
  <2>4. Shown(table, i) \in DOMAIN table
    <3>1. CASE e[2] = "input"
      BY <2>3, <3>1, Zenon DEF Shown
    <3>2. CASE e[2] = "output"
      BY <2>3, <3>2, Zenon DEF Shown
    <3> QED
      BY <2>3, <3>1, <3>2
  <2>5. Shown(table, i)[1] = i
    BY DEF Shown
  <2>6. table[Shown(table, i)].id = i
    BY <1>2, <2>4, <2>5, EndpointOf
  <2> QED
    BY <2>1, <2>4, <2>6
<1> QED
  BY <1>1, <1>3

LEMMA ByIdIs ==
    ASSUME NEW table \in Tables
    PROVE  ById(table) \in Caches
<1>1. PICK t : t = ById(table)
  OBVIOUS
<1>2. /\ DOMAIN t = {e[1] : e \in DOMAIN table}
      /\ \A i \in DOMAIN t : Shown(table, i) \in DOMAIN table /\ t[i] = table[Shown(table, i)]
                             /\ table[Shown(table, i)].id = i
  BY <1>1, ByIdHas, Zenon
<1>3. DOMAIN table \in SUBSET Endpoints /\ \A k \in DOMAIN table : table[k] \in Devices
  BY TableHas
<1>4. DOMAIN t \in SUBSET Ids
  BY <1>2, <1>3 DEF Ids
<1>5. \A i \in DOMAIN t : t[i] \in Devices /\ t[i].id = i
  BY <1>2, <1>3
<1>6. t = [i \in DOMAIN t |-> t[i]]
  BY <1>1, Zenon DEF ById
<1>7. t \in [DOMAIN t -> Devices]
  BY <1>5, <1>6
<1> QED
  BY <1>1, <1>4, <1>5, <1>7, CacheIs

LEMMA ByIdOneDefault ==
    ASSUME NEW table \in Tables, OneDefaultEach(table)
    PROVE  OneDefaultEach(ById(table))
<1>1. PICK t : t = ById(table)
  OBVIOUS
<1>2. \A i \in DOMAIN t : Shown(table, i) \in DOMAIN table /\ t[i] = table[Shown(table, i)]
                          /\ table[Shown(table, i)].id = i
  BY <1>1, ByIdHas, Zenon
<1>3. ASSUME NEW i \in DOMAIN t, NEW j \in DOMAIN t, t[i].default, t[j].default,
             t[i].direction = t[j].direction
      PROVE  i = j
  <2>1. PICK a \in DOMAIN table, b \in DOMAIN table :
            t[i] = table[a] /\ t[j] = table[b] /\ table[a].id = i /\ table[b].id = j
    BY <1>2
  <2>2. a = b
    BY <1>3, <2>1, Zenon DEF OneDefaultEach
  <2> QED
    BY <2>1, <2>2
<1> QED
  BY <1>1, <1>3, Zenon DEF OneDefaultEach

\* The endpoint of a plain id stands for it.
LEMMA ByIdPlain ==
    ASSUME NEW table \in Tables, NEW e \in Endpoints, e[1] \in Plain
    PROVE  /\ e[1] \in DOMAIN ById(table) <=> e \in DOMAIN table
           /\ e \in DOMAIN table => ById(table)[e[1]] = table[e]
<1>1. PICK i : i = e[1]
  OBVIOUS
<1>2. e = <<i, e[2]>> /\ e[2] \in Directions
  BY <1>1, DeviceAssumption DEF Directions
<1>3. PICK z \in Directions : <<i, z>> \notin Endpoints
  BY <1>1 DEF Plain
<1>4. DOMAIN table \in SUBSET Endpoints
  BY TableHas
<1>5. e \in DOMAIN table => i \in DOMAIN ById(table)
  BY <1>1, ByIdHas
<1>6. ASSUME i \in DOMAIN ById(table)
      PROVE  e \in DOMAIN table /\ ById(table)[i] = table[e]
  <2>1. Shown(table, i) \in DOMAIN table /\ ById(table)[i] = table[Shown(table, i)]
    BY <1>6, ByIdHas
  <2>2. PICK d \in Directions : Shown(table, i) = <<i, d>>
    BY DEF Shown, Directions
  <2>3. d # z /\ e[2] # z
    BY <1>2, <1>3, <1>4, <2>1, <2>2
  <2>4. d = e[2]
    BY <1>2, <2>3 DEF Directions
  <2> QED
    BY <1>2, <2>1, <2>2, <2>4
<1> QED
  BY <1>1, <1>5, <1>6

-----------------------------------------------------------------------------
(* One event.                                                              *)

\* What an event leaves of a table: of another device, and of its own.
Kept(after, table, i, told) ==
    /\ i \in DOMAIN after <=> i \in DOMAIN table
    /\ i \in DOMAIN table =>
          /\ after[i].direction = table[i].direction
          /\ after[i].props = table[i].props
          /\ IF told.kind = "default" /\ table[i].direction = told.device.direction
             THEN ~after[i].default ELSE after[i].default = table[i].default
Effect(after, table, e) ==
    /\ after \in Caches
    /\ e.device.id \in DOMAIN after <=> e.kind # "removed"
    /\ e.kind # "removed" => /\ after[e.device.id].direction = e.device.direction
                             /\ after[e.device.id].props = e.device.props
    /\ e.kind \in {"added", "property"} => after[e.device.id].default = e.device.default
    /\ e.kind = "default" => after[e.device.id].default
    /\ \A i \in Ids \ {e.device.id} : Kept(after, table, i, e)

LEMMA AppliedIs ==
    ASSUME NEW table \in Caches, NEW e \in EventSet
    PROVE  Effect(Applied(table, e), table, e)
<1>1. PICK d \in Devices : d = e.device
  BY DEF EventSet
<1>2. e.kind \in {"added", "removed", "default", "property"}
  BY DEF EventSet, Kinds
<1>3. PICK t : t = Applied(table, e)
  OBVIOUS
<1>4. CASE e.kind \in {"added", "property"}
  <2>1. t = With(table, d.id, d)
    BY <1>1, <1>3, <1>4, Zenon DEF Applied
  <2>2. t \in Caches
    BY <2>1, CacheWith
  <2>3. /\ DOMAIN t = DOMAIN table \cup {d.id} /\ t[d.id] = d
        /\ \A k \in DOMAIN table : k # d.id => t[k] = table[k]
    BY <2>1 DEF With
  <2>4. e.kind # "default" /\ e.kind # "removed"
    BY <1>4
  <2>5. ASSUME NEW i \in Ids \ {d.id} PROVE Kept(t, table, i, e)
    <3>1. i # d.id /\ (i \in DOMAIN t <=> i \in DOMAIN table)
      BY <2>3
    <3>2. i \in DOMAIN table => t[i] = table[i]
      BY <2>3, <3>1
    <3> QED
      BY <2>4, <3>1, <3>2, Zenon DEF Kept
  <2>6. Effect(t, table, e)
    BY <1>1, <2>2, <2>3, <2>4, <2>5 DEF Effect
  <2> QED
    BY <1>3, <2>6
<1>5. CASE e.kind = "removed"
  <2>1. e.kind \notin {"added", "property"} /\ e.kind # "default"
    BY <1>5
  <2>2. t = Without(table, d.id)
    BY <1>1, <1>3, <1>5, <2>1, Zenon DEF Applied
  <2>3. t \in Caches
    BY <2>2, CacheWithout
  <2>4. /\ DOMAIN t = DOMAIN table \ {d.id}
        /\ \A k \in DOMAIN table : k # d.id => t[k] = table[k]
    BY <2>2 DEF Without, Restrict
  <2>5. ASSUME NEW i \in Ids \ {d.id} PROVE Kept(t, table, i, e)
    <3>1. i # d.id /\ (i \in DOMAIN t <=> i \in DOMAIN table)
      BY <2>4
    <3>2. i \in DOMAIN table => t[i] = table[i]
      BY <2>4, <3>1
    <3> QED
      BY <2>1, <3>1, <3>2, Zenon DEF Kept
  <2>6. Effect(t, table, e)
    BY <1>1, <1>5, <2>1, <2>3, <2>4, <2>5 DEF Effect
  <2> QED
    BY <1>3, <2>6
<1>6. CASE e.kind = "default"
  <2>1. e.kind \notin {"added", "property"} /\ e.kind # "removed"
    BY <1>6
  <2>2. PICK c \in Devices : /\ c = [d EXCEPT !.default = TRUE] /\ c.id = d.id
                             /\ c.direction = d.direction /\ c.props = d.props /\ c.default
    BY SomewhereSet
  <2>3. PICK q \in Caches : q = Dethroned(table, d.direction)
    BY CacheDethroned
  <2>4. t = With(q, d.id, c)
    BY <1>1, <1>3, <1>6, <2>1, <2>2, <2>3, Zenon DEF Applied
  <2>5. t = With(q, c.id, c)
    BY <2>2, <2>4
  <2>6. t \in Caches
    BY <2>5, CacheWith
  <2>7. /\ DOMAIN t = DOMAIN q \cup {d.id} /\ t[d.id] = c
        /\ \A k \in DOMAIN q : k # d.id => t[k] = q[k]
    BY <2>4 DEF With
  <2>8. /\ DOMAIN q = DOMAIN table
        /\ \A k \in DOMAIN table : q[k] = IF table[k].direction = d.direction
                                        THEN [table[k] EXCEPT !.default = FALSE] ELSE table[k]
    BY <2>3 DEF Dethroned
  <2>9. ASSUME NEW i \in Ids \ {d.id} PROVE Kept(t, table, i, e)
    <3>1. i # d.id /\ (i \in DOMAIN t <=> i \in DOMAIN table)
      BY <2>7, <2>8
    <3>2. ASSUME i \in DOMAIN table
          PROVE  t[i] = IF table[i].direction = d.direction
                        THEN [table[i] EXCEPT !.default = FALSE] ELSE table[i]
      BY <2>7, <2>8, <3>1, <3>2, Zenon
    <3>3. ASSUME i \in DOMAIN table
          PROVE  /\ t[i].direction = table[i].direction
                 /\ t[i].props = table[i].props
                 /\ IF table[i].direction = d.direction
                    THEN ~t[i].default ELSE t[i].default = table[i].default
      <4>1. PICK x \in Devices : x = table[i]
        BY <3>3, CacheHas
      <4>2. PICK y : y = [x EXCEPT !.default = FALSE]
        OBVIOUS
      <4>3. y.direction = x.direction /\ y.props = x.props /\ ~y.default
        BY <4>2, SomewhereSet
      <4>4. t[i] = IF x.direction = d.direction THEN y ELSE x
        BY <3>2, <3>3, <4>1, <4>2, Zenon
      <4> QED
        BY <4>1, <4>3, <4>4, Zenon
    <3> QED
      BY <1>1, <1>6, <3>1, <3>3, Zenon DEF Kept
  <2>10. Effect(t, table, e)
    BY <1>1, <1>6, <2>1, <2>2, <2>6, <2>7, <2>9 DEF Effect
  <2> QED
    BY <1>3, <2>10
<1> QED
  BY <1>2, <1>4, <1>5, <1>6

LEMMA AppliedInCaches ==
    ASSUME NEW table \in Caches, NEW es \in Seq(EventSet)
    PROVE  AllApplied(table, es) \in Caches
<1> DEFINE P == {u \in Seq(EventSet) : AllApplied(table, u) \in Caches}
<1>1. <<>> \in P
  <2>1. <<>> \in Seq(EventSet)
    OBVIOUS
  <2> QED
    BY <2>1, AppliedNone, Zenon
<1>2. \A u \in Seq(EventSet), e \in EventSet : u \in P => Append(u, e) \in P
  <2> SUFFICES ASSUME NEW u \in Seq(EventSet), NEW e \in EventSet, u \in P
               PROVE  Append(u, e) \in P
    OBVIOUS
  <2>1. PICK t \in Caches : t = AllApplied(table, u)
    BY Zenon
  <2>2. Applied(t, e) \in Caches
    BY AppliedIs, Zenon DEF Effect
  <2>3. AllApplied(table, Append(u, e)) = Applied(t, e)
    BY <2>1, AppliedAppend, Zenon
  <2>4. Append(u, e) \in Seq(EventSet)
    OBVIOUS
  <2> QED
    BY <2>2, <2>3, <2>4, Zenon
<1> HIDE DEF P
<1>3. Seq(EventSet) \subseteq P
  BY <1>1, <1>2, SeqInduction
<1>4. es \in P
  BY <1>3
<1> QED
  BY <1>4 DEF P

\* Agreement about one device, which is what Agree says of each.
Knows(known, truth, i) ==
    /\ i \in DOMAIN known <=> i \in DOMAIN truth
    /\ i \in DOMAIN truth =>
           /\ known[i].direction = truth[i].direction
           /\ known[i].props = truth[i].props
           /\ truth[i].default => known[i].default

LEMMA AgreeIs ==
    ASSUME NEW known, NEW truth, NEW ids
    PROVE  Agree(known, truth, ids) <=> \A i \in ids : Knows(known, truth, i)
BY Zenon DEF Agree, Knows

\* An event tells what is true of a plain id, and of another at least that its
\* default is nobody else's.
Tells(e, truth) ==
    /\ e.device.id \in Plain =>
           /\ e.device.id \in DOMAIN truth <=> e.kind # "removed"
           /\ e.kind # "removed" => e.device = truth[e.device.id]
    /\ e.kind = "default" =>
           \A i \in DOMAIN truth \ {e.device.id} :
               truth[i].direction = e.device.direction => ~truth[i].default

LEMMA ToldOnce ==
    ASSUME NEW known \in Caches, NEW truth, NEW ids \in SUBSET Plain, NEW e \in EventSet,
           Agree(known, truth, ids), Tells(e, truth)
    PROVE  Agree(Applied(known, e), truth, ids \cup ({e.device.id} \cap Plain))
<1>1. PICK k : k = Applied(known, e)
  OBVIOUS
<1>2. Effect(k, known, e)
  BY <1>1, AppliedIs, Zenon
<1>3. e.kind \in {"added", "removed", "default", "property"}
  BY DEF EventSet, Kinds
<1>4. ASSUME NEW i \in ids \cup ({e.device.id} \cap Plain)
      PROVE  Knows(k, truth, i)
  <2>1. CASE i = e.device.id
    <3>1. i \in Plain
      BY <1>4
    <3>2. /\ i \in DOMAIN truth <=> e.kind # "removed"
          /\ e.kind # "removed" => e.device = truth[i]
      BY <2>1, <3>1, Zenon DEF Tells
    <3>3. i \in DOMAIN k <=> e.kind # "removed"
      BY <1>2, <2>1, Zenon DEF Effect
    <3>4. ASSUME e.kind # "removed"
          PROVE  /\ k[i].direction = truth[i].direction /\ k[i].props = truth[i].props
                 /\ truth[i].default => k[i].default
      <4>1. k[i].direction = e.device.direction /\ k[i].props = e.device.props
        BY <1>2, <2>1, <3>4, Zenon DEF Effect
      <4>2. CASE e.kind = "default"
        <5>1. k[i].default
          BY <1>2, <2>1, <4>2, Zenon DEF Effect
        <5> QED
          BY <3>2, <3>4, <4>1, <5>1, Zenon
      <4>3. CASE e.kind \in {"added", "property"}
        <5>1. k[i].default = e.device.default
          BY <1>2, <2>1, <4>3, Zenon DEF Effect
        <5> QED
          BY <3>2, <3>4, <4>1, <5>1, Zenon
      <4> QED
        BY <1>3, <3>4, <4>2, <4>3
    <3> QED
      BY <3>2, <3>3, <3>4, Zenon DEF Knows
  <2>2. CASE i # e.device.id
    <3>1. i \in ids /\ i \in Ids \ {e.device.id}
      BY <1>4, <2>2 DEF Plain
    <3>2. Knows(known, truth, i)
      BY <3>1, AgreeIs
    <3>3. Kept(k, known, i, e)
      BY <1>2, <3>1, Zenon DEF Effect
    <3>4. e.kind = "default" /\ i \in DOMAIN truth /\ truth[i].direction = e.device.direction
            => ~truth[i].default
      BY <2>2 DEF Tells
    <3> QED
      BY <3>2, <3>3, <3>4, Zenon DEF Knows, Kept
  <2> QED
    BY <2>1, <2>2
<1>5. Agree(k, truth, ids \cup ({e.device.id} \cap Plain))
  BY <1>4, AgreeIs, Zenon
<1> QED
  BY <1>1, <1>5

IdsOf(events) == {e.device.id : e \in ToSet(events)}

LEMMA IdsOfAppend ==
    ASSUME NEW es \in Seq(EventSet), NEW e \in EventSet
    PROVE  IdsOf(Append(es, e)) = IdsOf(es) \cup {e.device.id}
<1>1. ToSet(Append(es, e)) = ToSet(es) \cup {e}
  BY SetOfAppend
<1> QED
  BY <1>1 DEF IdsOf

LEMMA IdsOfNone == ToSet(<<>>) = {} /\ IdsOf(<<>>) = {}
BY DEF IdsOf, ToSet

LEMMA Told ==
    ASSUME NEW known \in Caches, NEW truth, NEW ids \in SUBSET Plain,
           NEW es \in Seq(EventSet), Agree(known, truth, ids),
           \A e \in ToSet(es) : Tells(e, truth)
    PROVE  Agree(AllApplied(known, es), truth, ids \cup (IdsOf(es) \cap Plain))
<1> DEFINE P == {u \in Seq(EventSet) :
                    (\A e \in ToSet(u) : Tells(e, truth)) =>
                       Agree(AllApplied(known, u), truth, ids \cup (IdsOf(u) \cap Plain))}
<1>1. <<>> \in P
  <2>1. <<>> \in Seq(EventSet)
    OBVIOUS
  <2>2. ids \cup (IdsOf(<<>>) \cap Plain) = ids
    BY IdsOfNone
  <2> QED
    BY <2>1, <2>2, AppliedNone, Zenon
<1>2. \A u \in Seq(EventSet), e \in EventSet : u \in P => Append(u, e) \in P
  <2> SUFFICES ASSUME NEW u \in Seq(EventSet), NEW e \in EventSet, u \in P,
                      \A d \in ToSet(Append(u, e)) : Tells(d, truth)
               PROVE  Agree(AllApplied(known, Append(u, e)), truth,
                            ids \cup (IdsOf(Append(u, e)) \cap Plain))
    <3>1. \A u \in Seq(EventSet), e \in EventSet : Append(u, e) \in Seq(EventSet)
      OBVIOUS
    <3> QED
      BY <3>1, Zenon
  <2>1. ToSet(Append(u, e)) = ToSet(u) \cup {e}
    BY SetOfAppend
  <2>2. Tells(e, truth) /\ \A d \in ToSet(u) : Tells(d, truth)
    BY <2>1
  <2>3. PICK k \in Caches : k = AllApplied(known, u)
    BY AppliedInCaches, Zenon
  <2>4. PICK mine \in SUBSET Plain : mine = ids \cup (IdsOf(u) \cap Plain)
    OBVIOUS
  <2>5. Agree(k, truth, mine)
    BY <2>2, <2>3, <2>4, Zenon
  <2>6. AllApplied(known, Append(u, e)) = Applied(k, e)
    BY <2>3, AppliedAppend, Zenon
  <2>7. ids \cup (IdsOf(Append(u, e)) \cap Plain) = mine \cup ({e.device.id} \cap Plain)
    BY <2>4, IdsOfAppend
  <2>8. Agree(Applied(k, e), truth, mine \cup ({e.device.id} \cap Plain))
    BY <2>2, <2>5, ToldOnce
  <2> QED
    BY <2>6, <2>7, <2>8, Zenon
<1> HIDE DEF P
<1>3. Seq(EventSet) \subseteq P
  BY <1>1, <1>2, SeqInduction
<1>4. es \in P
  BY <1>3
<1> QED
  BY <1>4 DEF P

\* Which ids there are, of however many endpoints.
LEMMA ListedOnce ==
    ASSUME NEW known \in Caches, NEW present, NEW ids \in SUBSET Ids, NEW es \in Seq(EventSet),
           \A i \in ids : i \in DOMAIN known <=> i \in present,
           \A e \in ToSet(es) : e.device.id \in present <=> e.kind # "removed"
    PROVE  \A i \in ids \cup IdsOf(es) : i \in DOMAIN AllApplied(known, es) <=> i \in present
<1> DEFINE P == {u \in Seq(EventSet) :
                    (\A e \in ToSet(u) : e.device.id \in present <=> e.kind # "removed") =>
                       \A i \in ids \cup IdsOf(u) :
                          i \in DOMAIN AllApplied(known, u) <=> i \in present}
<1>1. <<>> \in P
  <2>1. <<>> \in Seq(EventSet)
    OBVIOUS
  <2>2. ids \cup IdsOf(<<>>) = ids
    BY IdsOfNone
  <2> QED
    BY <2>1, <2>2, AppliedNone, Zenon
<1>2. \A u \in Seq(EventSet), e \in EventSet : u \in P => Append(u, e) \in P
  <2> SUFFICES ASSUME NEW u \in Seq(EventSet), NEW e \in EventSet, u \in P,
                      \A d \in ToSet(Append(u, e)) : d.device.id \in present <=> d.kind # "removed",
                      NEW i \in ids \cup IdsOf(Append(u, e))
               PROVE  i \in DOMAIN AllApplied(known, Append(u, e)) <=> i \in present
    <3>1. \A u \in Seq(EventSet), e \in EventSet : Append(u, e) \in Seq(EventSet)
      OBVIOUS
    <3> QED
      BY <3>1, Zenon
  <2>1. ToSet(Append(u, e)) = ToSet(u) \cup {e}
    BY SetOfAppend
  <2>2. /\ e.device.id \in present <=> e.kind # "removed"
        /\ \A d \in ToSet(u) : d.device.id \in present <=> d.kind # "removed"
    BY <2>1
  <2>3. PICK k \in Caches : k = AllApplied(known, u)
    BY AppliedInCaches, Zenon
  <2>4. \A j \in ids \cup IdsOf(u) : j \in DOMAIN k <=> j \in present
    BY <2>2, <2>3, Zenon
  <2>5. PICK t : t = Applied(k, e)
    OBVIOUS
  <2>6. AllApplied(known, Append(u, e)) = t
    BY <2>3, <2>5, AppliedAppend, Zenon
  <2>7. Effect(t, k, e)
    BY <2>5, AppliedIs, Zenon
  <2>8. CASE i = e.device.id
    BY <2>2, <2>6, <2>7, <2>8, Zenon DEF Effect
  <2>9. CASE i # e.device.id
    <3>1. i \in ids \cup IdsOf(u)
      BY <2>9, IdsOfAppend
    <3>2. i \in Ids
      <4>1. \A d \in ToSet(u) : d \in EventSet
        BY DEF ToSet
      <4>2. \A d \in EventSet : d.device.id \in Ids
        BY DeviceHas DEF EventSet
      <4> QED
        BY <3>1, <4>1, <4>2 DEF IdsOf
    <3>3. Kept(t, k, i, e)
      BY <2>7, <2>9, <3>2 DEF Effect
    <3> QED
      BY <2>4, <2>6, <3>1, <3>3, Zenon DEF Kept
  <2> QED
    BY <2>8, <2>9
<1> HIDE DEF P
<1>3. Seq(EventSet) \subseteq P
  BY <1>1, <1>2, SeqInduction
<1>4. es \in P
  BY <1>3
<1> QED
  BY <1>4 DEF P

-----------------------------------------------------------------------------
(* The events of a diff, in any of their orders.                           *)

LEMMA OrderIs ==
    ASSUME NEW S, IsFiniteSet(S), NEW es \in SetToSeqs(S)
    PROVE  es \in Seq(S) /\ ToSet(es) = S
<1>1. PICK n \in Nat : n = Cardinality(S)
  BY FS_CardinalityType, Zenon
<1>2. IsFiniteSet(1 .. n) /\ Cardinality(1 .. n) = n
  <2>1. 1 \in Int /\ n \in Int
    OBVIOUS
  <2>2. IsFiniteSet(1 .. n) /\ Cardinality(1 .. n) = IF 1 > n THEN 0 ELSE n - 1 + 1
    BY <2>1, FS_Interval, Zenon
  <2> QED
    BY <2>2
<1>3. es \in [1 .. n -> S] /\ \A i, j \in 1 .. n : i # j => es[i] # es[j]
  BY <1>1 DEF SetToSeqs
<1>4. es \in Injection(1 .. n, S)
  BY <1>3 DEF Injection, IsInjective
<1>5. es \in Surjection(1 .. n, S)
  BY <1>1, <1>2, <1>4, FS_Injection
<1>6. ToSet(es) = S
  BY <1>3, <1>5 DEF Surjection, ToSet
<1> QED
  BY <1>3, <1>6

\* A finite table of devices, whatever its keys.
Sized(table) == IsFiniteSet(DOMAIN table) /\ \A k \in DOMAIN table : table[k] \in Devices

LEMMA SizedIs ==
    ASSUME NEW table \in Tables \cup Caches
    PROVE  Sized(table)
<1>1. IsFiniteSet(Endpoints)
  BY DeviceAssumption
<1>2. PICK f : f = [e \in Endpoints |-> e[1]]
  OBVIOUS
<1>3. f \in Surjection(Endpoints, Ids)
  BY <1>2 DEF Surjection, Ids
<1>4. IsFiniteSet(Ids)
  BY <1>1, <1>3, FS_Surjection
<1>5. CASE table \in Tables
  BY <1>1, <1>5, TableHas, FS_Subset DEF Sized
<1>6. CASE table \in Caches
  BY <1>4, <1>6, CacheHas, FS_Subset DEF Sized
<1> QED
  BY <1>5, <1>6

\* An event of the kind for every device of I.
Telling(kind, I, table) == {Event(kind, table[i]) : i \in I}

LEMMA EventsAre ==
    ASSUME NEW I, IsFiniteSet(I), NEW table,
           \A i \in I : table[i] \in Devices,
           NEW kind \in Kinds
    PROVE  IsFiniteSet(Telling(kind, I, table)) /\ Telling(kind, I, table) \subseteq EventSet
<1> PICK S : S = Telling(kind, I, table)
  OBVIOUS
<1>0. S = {Event(kind, table[i]) : i \in I}
  BY Zenon DEF Telling
<1>2. PICK f : f = [i \in I |-> Event(kind, table[i])]
  OBVIOUS
<1>3. f \in Surjection(I, S)
  BY <1>0, <1>2 DEF Surjection
<1>4. IsFiniteSet(S)
  BY <1>3, FS_Surjection
<1>5. S \subseteq EventSet
  BY <1>0 DEF Event, EventSet
<1> QED
  BY <1>4, <1>5

Changes(old, new) ==
    Removed(old, new) \cup Added(old, new) \cup DefaultChanged(old, new) \cup PropertyChanged(old, new)

LEMMA ChangesAre ==
    ASSUME NEW old, NEW new, Sized(old), Sized(new)
    PROVE  /\ IsFiniteSet(Removed(old, new)) /\ Removed(old, new) \subseteq EventSet
           /\ IsFiniteSet(Added(old, new)) /\ Added(old, new) \subseteq EventSet
           /\ IsFiniteSet(DefaultChanged(old, new)) /\ DefaultChanged(old, new) \subseteq EventSet
           /\ IsFiniteSet(PropertyChanged(old, new)) /\ PropertyChanged(old, new) \subseteq EventSet
<1>1. /\ IsFiniteSet(DOMAIN old) /\ \A i \in DOMAIN old : old[i] \in Devices
      /\ IsFiniteSet(DOMAIN new) /\ \A i \in DOMAIN new : new[i] \in Devices
  BY DEF Sized
<1> USE DEF Kinds
<1>2. IsFiniteSet(Removed(old, new)) /\ Removed(old, new) \subseteq EventSet
  <2>1. PICK I : I = DOMAIN old \ DOMAIN new
    OBVIOUS
  <2>2. IsFiniteSet(I) /\ \A i \in I : old[i] \in Devices
    BY <1>1, <2>1, FS_Subset
  <2>3. Removed(old, new) = Telling("removed", I, old)
    BY <2>1, Zenon DEF Removed, Telling
  <2>4. "removed" \in Kinds
    OBVIOUS
  <2> QED
    BY <2>2, <2>3, <2>4, EventsAre, Zenon
<1>3. IsFiniteSet(Added(old, new)) /\ Added(old, new) \subseteq EventSet
  <2>1. PICK I : I = DOMAIN new \ DOMAIN old
    OBVIOUS
  <2>2. IsFiniteSet(I) /\ \A i \in I : new[i] \in Devices
    BY <1>1, <2>1, FS_Subset
  <2>3. Added(old, new) = Telling("added", I, new)
    BY <2>1, Zenon DEF Added, Telling
  <2>4. "added" \in Kinds
    OBVIOUS
  <2> QED
    BY <2>2, <2>3, <2>4, EventsAre, Zenon
<1>4. IsFiniteSet(DefaultChanged(old, new)) /\ DefaultChanged(old, new) \subseteq EventSet
  <2>1. PICK I : I = BecameDefault(old, new)
    OBVIOUS
  <2>2. IsFiniteSet(I) /\ \A i \in I : new[i] \in Devices
    BY <1>1, <2>1, FS_Subset DEF BecameDefault
  <2>3. DefaultChanged(old, new) = Telling("default", I, new)
    BY <2>1, Zenon DEF DefaultChanged, Telling
  <2>4. "default" \in Kinds
    OBVIOUS
  <2> QED
    BY <2>2, <2>3, <2>4, EventsAre, Zenon
<1>5. IsFiniteSet(PropertyChanged(old, new)) /\ PropertyChanged(old, new) \subseteq EventSet
  <2>1. PICK I : I = {j \in (DOMAIN old \cap DOMAIN new) \ BecameDefault(old, new) :
                         old[j].props # new[j].props}
    OBVIOUS
  <2>2. IsFiniteSet(I) /\ \A i \in I : new[i] \in Devices
    BY <1>1, <2>1, FS_Subset
  <2>3. PropertyChanged(old, new) = Telling("property", I, new)
    BY <2>1, Zenon DEF PropertyChanged, Telling
  <2>4. "property" \in Kinds
    OBVIOUS
  <2> QED
    BY <2>2, <2>3, <2>4, EventsAre, Zenon
<1> QED
  BY <1>2, <1>3, <1>4, <1>5

LEMMA ConcatSet ==
    ASSUME NEW S, NEW s \in Seq(S), NEW t \in Seq(S)
    PROVE  ToSet(s \o t) = ToSet(s) \cup ToSet(t)
<1>1. PICK u \in Seq(S) : u = s \o t
  BY ConcatIs, Zenon
<1>2. Joins(u, s, t)
  BY <1>1, ConcatJoins, Zenon
<1>3. Len(u) = Len(s) + Len(t) /\ Len(s) \in Nat /\ Len(t) \in Nat
  BY <1>2 DEF Joins
<1>4. DOMAIN u = 1 .. Len(u) /\ DOMAIN s = 1 .. Len(s) /\ DOMAIN t = 1 .. Len(t)
  OBVIOUS
<1>5. ASSUME NEW i \in 1 .. Len(u) PROVE u[i] \in ToSet(s) \cup ToSet(t)
  <2>1. CASE i \in 1 .. Len(s)
    BY <1>2, <1>4, <2>1, Zenon DEF Joins, ToSet
  <2>2. CASE i \notin 1 .. Len(s)
    <3>1. i - Len(s) \in 1 .. Len(t) /\ Len(s) + (i - Len(s)) = i
      BY <1>3, <2>2
    <3>2. u[i] = t[i - Len(s)]
      BY <1>2, <3>1, Zenon DEF Joins
    <3> QED
      BY <1>4, <3>1, <3>2, Zenon DEF ToSet
  <2> QED
    BY <2>1, <2>2
<1>6. ASSUME NEW i \in 1 .. Len(s) PROVE s[i] \in ToSet(u)
  <2>1. i \in 1 .. Len(u) /\ u[i] = s[i]
    BY <1>2, <1>3 DEF Joins
  <2> QED
    BY <1>4, <2>1, Zenon DEF ToSet
<1>7. ASSUME NEW i \in 1 .. Len(t) PROVE t[i] \in ToSet(u)
  <2>1. Len(s) + i \in 1 .. Len(u)
    BY <1>3
  <2>2. u[Len(s) + i] = t[i]
    BY <1>2, Zenon DEF Joins
  <2> QED
    BY <1>4, <2>1, <2>2, Zenon DEF ToSet
<1>8. ToSet(u) = ToSet(s) \cup ToSet(t)
  <2>1. \A x \in ToSet(u) : x \in ToSet(s) \cup ToSet(t)
    BY <1>4, <1>5, Zenon DEF ToSet
  <2>2. \A x \in ToSet(s) : x \in ToSet(u)
    BY <1>4, <1>6, Zenon DEF ToSet
  <2>3. \A x \in ToSet(t) : x \in ToSet(u)
    BY <1>4, <1>7, Zenon DEF ToSet
  <2> QED
    BY <2>1, <2>2, <2>3
<1> QED
  BY <1>1, <1>8

\* x is the concatenation of s and t, and its set their union.
Combines(x, s, t) == x = s \o t /\ ToSet(x) = ToSet(s) \cup ToSet(t)

LEMMA ConcatCombines ==
    ASSUME NEW S, NEW s \in Seq(S), NEW t \in Seq(S)
    PROVE  \E x \in Seq(S) : Combines(x, s, t)
<1>1. s \o t \in Seq(S)
  OBVIOUS
<1>2. Combines(s \o t, s, t)
  <2>1. ToSet(s \o t) = ToSet(s) \cup ToSet(t)
    BY ConcatSet, Zenon
  <2> QED
    BY <2>1 DEF Combines
<1> QED
  BY <1>1, <1>2, Zenon

Emissions(Rs, Ss) == {r \o s : r \in Rs, s \in Ss}

LEMMA ReportIs ==
    ASSUME NEW old, NEW new, Sized(old), Sized(new),
           NEW es \in DiffDevices(old, new) \cup DiffAndEmit(old, new)
    PROVE  es \in Seq(EventSet) /\ ToSet(es) = Changes(old, new)
<1>1. PICK R, A, D, P : /\ R = Removed(old, new) /\ A = Added(old, new)
                        /\ D = DefaultChanged(old, new) /\ P = PropertyChanged(old, new)
  OBVIOUS
<1>2. /\ IsFiniteSet(R) /\ IsFiniteSet(A) /\ IsFiniteSet(D) /\ IsFiniteSet(P)
      /\ R \subseteq EventSet /\ A \subseteq EventSet /\ D \subseteq EventSet /\ P \subseteq EventSet
  BY <1>1, ChangesAre, Zenon
<1>3. ASSUME NEW S \in SUBSET EventSet, IsFiniteSet(S), NEW s \in SetToSeqs(S)
      PROVE  s \in Seq(EventSet) /\ ToSet(s) = S
  <2>1. s \in Seq(S) /\ ToSet(s) = S
    BY <1>3, OrderIs, Zenon
  <2>2. s \in Seq(EventSet)
    BY <2>1
  <2> QED
    BY <2>1, <2>2
<1>4. CASE es \in DiffDevices(old, new)
  <2>1. PICK r \in SetToSeqs(R), a \in SetToSeqs(A), d \in SetToSeqs(D), p \in SetToSeqs(P) :
            es = r \o a \o d \o p
    <3>1. PICK Rs, As, Ds, Ps : /\ Rs = SetToSeqs(R) /\ As = SetToSeqs(A)
                                /\ Ds = SetToSeqs(D) /\ Ps = SetToSeqs(P)
      OBVIOUS
    <3>2. /\ SetToSeqs(Removed(old, new)) = Rs /\ SetToSeqs(Added(old, new)) = As
          /\ SetToSeqs(DefaultChanged(old, new)) = Ds /\ SetToSeqs(PropertyChanged(old, new)) = Ps
      BY <1>1, <3>1, Zenon
    <3>3. \E r \in Rs, a \in As, d \in Ds, p \in Ps : es = r \o a \o d \o p
      BY <1>4, <3>2 DEF DiffDevices
    <3>4. PICK r \in Rs, a \in As, d \in Ds, p \in Ps : es = r \o a \o d \o p
      BY <3>3
    <3> QED
      BY <3>1, <3>4
  <2>2. /\ r \in Seq(EventSet) /\ a \in Seq(EventSet) /\ d \in Seq(EventSet) /\ p \in Seq(EventSet)
        /\ ToSet(r) = R /\ ToSet(a) = A /\ ToSet(d) = D /\ ToSet(p) = P
    BY <1>2, <1>3
  <2>3. PICK x \in Seq(EventSet) : Combines(x, r, a)
    BY <2>2, ConcatCombines, Zenon
  <2>4. PICK y \in Seq(EventSet) : Combines(y, x, d)
    BY <2>2, ConcatCombines, Zenon
  <2>5. PICK z \in Seq(EventSet) : Combines(z, y, p)
    BY <2>2, ConcatCombines, Zenon
  <2>6. es = z
    BY <2>1, <2>3, <2>4, <2>5, Zenon DEF Combines
  <2>7. /\ ToSet(x) = R \cup A
        /\ ToSet(y) = ToSet(x) \cup D
        /\ ToSet(z) = ToSet(y) \cup P
    BY <2>2, <2>3, <2>4, <2>5 DEF Combines
  <2>8. ToSet(z) = R \cup A \cup D \cup P
    BY <2>7
  <2> QED
    BY <1>1, <2>6, <2>8 DEF Changes
<1>5. CASE es \in DiffAndEmit(old, new)
  <2>1. PICK S : S = A \cup D \cup P
    OBVIOUS
  <2>2. PICK r \in SetToSeqs(R), s \in SetToSeqs(S) : es = r \o s
    <3>1. PICK Rs, Ss : Rs = SetToSeqs(R) /\ Ss = SetToSeqs(S)
      OBVIOUS
    <3>2. /\ SetToSeqs(Removed(old, new)) = Rs
          /\ SetToSeqs(Added(old, new) \cup DefaultChanged(old, new)
                         \cup PropertyChanged(old, new)) = Ss
      BY <1>1, <2>1, <3>1, Zenon
    <3>3. DiffAndEmit(old, new) =
              Emissions(SetToSeqs(Removed(old, new)),
                        SetToSeqs(Added(old, new) \cup DefaultChanged(old, new)
                                     \cup PropertyChanged(old, new)))
      BY DEF DiffAndEmit, Emissions
    <3>4. es \in Emissions(Rs, Ss)
      BY <1>5, <3>2, <3>3, Zenon
    <3>5. \E r \in Rs, s \in Ss : es = r \o s
      BY <3>4 DEF Emissions
    <3> QED
      BY <3>1, <3>5, Zenon
  <2>3. IsFiniteSet(A \cup D)
    BY <1>2, FS_Union
  <2>4. IsFiniteSet(S) /\ S \in SUBSET EventSet
    BY <1>2, <2>1, <2>3, FS_Union
  <2>5. /\ r \in Seq(EventSet) /\ s \in Seq(EventSet)
        /\ ToSet(r) = R /\ ToSet(s) = S
    BY <1>2, <1>3, <2>4
  <2>6. es \in Seq(EventSet) /\ ToSet(es) = R \cup S
    <3>1. PICK x \in Seq(EventSet) : Combines(x, r, s)
      BY <2>5, ConcatCombines, Zenon
    <3> QED
      BY <2>2, <2>5, <3>1 DEF Combines
  <2>7. R \cup S = Changes(old, new)
    BY <1>1, <2>1 DEF Changes
  <2> QED
    BY <2>6, <2>7
<1> QED
  BY <1>4, <1>5

LEMMA ChangeFrom ==
    ASSUME NEW old, NEW new, NEW e \in Changes(old, new)
    PROVE  \/ /\ e.kind = "removed"
              /\ \E k \in DOMAIN old \ DOMAIN new : e.device = old[k]
           \/ /\ e.kind \in {"added", "default", "property"}
              /\ \E k \in DOMAIN new : e.device = new[k] /\ (e.kind = "default" => new[k].default)
<1>1. CASE e \in Removed(old, new)
  BY <1>1 DEF Removed, Event
<1>2. CASE e \in Added(old, new)
  BY <1>2 DEF Added, Event
<1>3. CASE e \in DefaultChanged(old, new)
  BY <1>3 DEF DefaultChanged, BecameDefault, Event
<1>4. CASE e \in PropertyChanged(old, new)
  BY <1>4 DEF PropertyChanged, Event
<1> QED
  BY <1>1, <1>2, <1>3, <1>4 DEF Changes

\* The events of a diff of tables by endpoint tell what is true by id, of the
\* ids of one endpoint.
LEMMA DiffTells ==
    ASSUME NEW old \in Tables, NEW new \in Tables, OneDefaultEach(new), NEW e \in Changes(old, new)
    PROVE  Tells(e, ById(new))
<1>1. PICK t : t = ById(new)
  OBVIOUS
<1>2. /\ DOMAIN old \in SUBSET Endpoints /\ \A k \in DOMAIN old : old[k] \in DevicesAt(k)
      /\ DOMAIN new \in SUBSET Endpoints /\ \A k \in DOMAIN new : new[k] \in DevicesAt(k)
  BY TableHas
<1>3. \A i \in DOMAIN t : /\ Shown(new, i) \in DOMAIN new /\ t[i] = new[Shown(new, i)]
                          /\ new[Shown(new, i)].id = i
  BY <1>1, ByIdHas, Zenon
<1>4. CASE e.kind = "removed" /\ \E k \in DOMAIN old \ DOMAIN new : e.device = old[k]
  <2>1. PICK k \in DOMAIN old \ DOMAIN new : e.device = old[k]
    BY <1>4
  <2>2. k \in Endpoints /\ e.device.id = k[1]
    BY <1>2, <2>1, EndpointOf
  <2>3. k[1] \in Plain => k[1] \notin DOMAIN t
    BY <1>1, <2>1, <2>2, ByIdPlain
  <2> QED
    BY <1>1, <1>4, <2>2, <2>3 DEF Tells
<1>5. CASE /\ e.kind \in {"added", "default", "property"}
           /\ \E k \in DOMAIN new : e.device = new[k] /\ (e.kind = "default" => new[k].default)
  <2>1. PICK k \in DOMAIN new : e.device = new[k] /\ (e.kind = "default" => new[k].default)
    BY <1>5
  <2>2. k \in Endpoints /\ e.device.id = k[1]
    BY <1>2, <2>1, EndpointOf
  <2>3. k[1] \in Plain => k[1] \in DOMAIN t /\ t[k[1]] = new[k]
    BY <1>1, <2>2, ByIdPlain
  <2>4. ASSUME e.kind = "default", NEW i \in DOMAIN t \ {e.device.id},
               t[i].direction = e.device.direction
        PROVE  ~t[i].default
    <3>1. PICK j \in DOMAIN new : t[i] = new[j] /\ new[j].id = i
      BY <1>3
    <3>2. j # k
      BY <2>1, <2>4, <3>1
    <3> QED
      BY <2>1, <2>4, <3>1, <3>2, Zenon DEF OneDefaultEach
  <2>5. e.kind # "removed"
    BY <1>5
  <2> QED
    BY <1>1, <2>1, <2>2, <2>3, <2>4, <2>5, Zenon DEF Tells
<1> QED
  BY <1>4, <1>5, ChangeFrom, Zenon

LEMMA EmitTells ==
    ASSUME NEW old \in Caches, NEW new \in Caches, OneDefaultEach(new), NEW e \in Changes(old, new)
    PROVE  Tells(e, new) /\ (e.device.id \in DOMAIN new <=> e.kind # "removed")
<1>2. /\ \A k \in DOMAIN old : old[k].id = k
      /\ \A k \in DOMAIN new : new[k].id = k
  BY CacheHas
<1>4. CASE e.kind = "removed" /\ \E k \in DOMAIN old \ DOMAIN new : e.device = old[k]
  BY <1>2, <1>4 DEF Tells
<1>5. CASE /\ e.kind \in {"added", "default", "property"}
           /\ \E k \in DOMAIN new : e.device = new[k] /\ (e.kind = "default" => new[k].default)
  <2>1. PICK k \in DOMAIN new : e.device = new[k] /\ (e.kind = "default" => new[k].default)
    BY <1>5
  <2>2. e.device.id = k /\ e.kind # "removed"
    BY <1>2, <1>5, <2>1
  <2>4. ASSUME e.kind = "default", NEW i \in DOMAIN new \ {k}, new[i].direction = e.device.direction
        PROVE  ~new[i].default
    <3>1. i # k
      OBVIOUS
    <3> QED
      BY <2>1, <2>4, <3>1, Zenon DEF OneDefaultEach
  <2> QED
    BY <2>1, <2>2, <2>4, Zenon DEF Tells
<1> QED
  BY <1>4, <1>5, ChangeFrom, Zenon

\* Where no event tells of a device, the new table has what the old one had.
LEMMA UntoldKeeps ==
    ASSUME NEW old, NEW new, NEW k, NEW i, \A e \in Changes(old, new) : e.device.id # i,
           k \in DOMAIN old => old[k].id = i, k \in DOMAIN new => new[k].id = i
    PROVE  /\ k \in DOMAIN old <=> k \in DOMAIN new
           /\ k \in DOMAIN new =>
                  old[k].props = new[k].props /\ (new[k].default => old[k].default)
<1>1. /\ \A e \in Removed(old, new) : e.device.id # i
      /\ \A e \in Added(old, new) : e.device.id # i
      /\ \A e \in DefaultChanged(old, new) : e.device.id # i
      /\ \A e \in PropertyChanged(old, new) : e.device.id # i
  BY DEF Changes
<1>0. \A kind, d : Event(kind, d).device = d
  BY DEF Event
<1>2. k \in DOMAIN old => k \in DOMAIN new
  <2> SUFFICES ASSUME k \in DOMAIN old \ DOMAIN new PROVE FALSE
    OBVIOUS
  <2>1. Event("removed", old[k]) \in Removed(old, new)
    BY Zenon DEF Removed
  <2> QED
    BY <1>0, <1>1, <2>1, Zenon
<1>3. k \in DOMAIN new => k \in DOMAIN old
  <2> SUFFICES ASSUME k \in DOMAIN new \ DOMAIN old PROVE FALSE
    OBVIOUS
  <2>1. Event("added", new[k]) \in Added(old, new)
    BY Zenon DEF Added
  <2> QED
    BY <1>0, <1>1, <2>1, Zenon
<1>4. k \notin BecameDefault(old, new)
  <2> SUFFICES ASSUME k \in BecameDefault(old, new) PROVE FALSE
    OBVIOUS
  <2>1. Event("default", new[k]) \in DefaultChanged(old, new)
    BY Zenon DEF DefaultChanged
  <2>2. k \in DOMAIN new
    BY DEF BecameDefault
  <2> QED
    BY <1>0, <1>1, <2>1, <2>2, Zenon
<1>5. k \in DOMAIN new => old[k].props = new[k].props
  <2> SUFFICES ASSUME k \in DOMAIN new, old[k].props # new[k].props PROVE FALSE
    OBVIOUS
  <2>1. k \in {j \in (DOMAIN old \cap DOMAIN new) \ BecameDefault(old, new) :
                  old[j].props # new[j].props}
    BY <1>3, <1>4
  <2>2. Event("property", new[k]) \in PropertyChanged(old, new)
    BY <2>1, Zenon DEF PropertyChanged
  <2> QED
    BY <1>0, <1>1, <2>2, Zenon
<1>6. k \in DOMAIN new => (new[k].default => old[k].default)
  BY <1>3, <1>4 DEF BecameDefault
<1> QED
  BY <1>2, <1>3, <1>5, <1>6

LEMMA UntoldById ==
    ASSUME NEW old \in Tables, NEW new \in Tables, NEW i \in Plain,
           \A e \in Changes(old, new) : e.device.id # i
    PROVE  Knows(ById(old), ById(new), i)
<1>1. PICK k \in Endpoints : k[1] = i
  BY DEF Plain, Ids
<1>2. /\ \A j \in DOMAIN old : old[j] \in DevicesAt(j)
      /\ \A j \in DOMAIN new : new[j] \in DevicesAt(j)
  BY TableHas
<1>3. /\ k \in DOMAIN old => old[k].id = i /\ old[k].direction = k[2]
      /\ k \in DOMAIN new => new[k].id = i /\ new[k].direction = k[2]
  BY <1>1, <1>2, EndpointOf
<1>4. /\ k \in DOMAIN old <=> k \in DOMAIN new
      /\ k \in DOMAIN new => old[k].props = new[k].props /\ (new[k].default => old[k].default)
  BY <1>3, UntoldKeeps
<1>5. PICK s, t : s = ById(old) /\ t = ById(new)
  OBVIOUS
<1>6. /\ i \in DOMAIN s <=> k \in DOMAIN old
      /\ k \in DOMAIN old => s[i] = old[k]
      /\ i \in DOMAIN t <=> k \in DOMAIN new
      /\ k \in DOMAIN new => t[i] = new[k]
  BY <1>1, <1>5, ByIdPlain
<1>7. Knows(s, t, i)
  BY <1>3, <1>4, <1>6, Zenon DEF Knows
<1> QED
  BY <1>5, <1>7

LEMMA UntoldHere ==
    ASSUME NEW old \in Caches, NEW new \in Caches, NEW i \in Plain,
           \A e \in Changes(old, new) : e.device.id # i
    PROVE  Knows(old, new, i)
<1>1. /\ \A j \in DOMAIN old : old[j] \in Devices /\ old[j].id = j
      /\ \A j \in DOMAIN new : new[j] \in Devices /\ new[j].id = j
  BY CacheHas
<1>2. /\ i \in DOMAIN old <=> i \in DOMAIN new
      /\ i \in DOMAIN new => old[i].props = new[i].props /\ (new[i].default => old[i].default)
  BY <1>1, UntoldKeeps
<1>3. i \in DOMAIN old /\ i \in DOMAIN new => old[i].direction = new[i].direction
  BY <1>1, PlainDirection
<1> QED
  BY <1>2, <1>3, Zenon DEF Knows

LEMMA KnowsOn ==
    ASSUME NEW a, NEW b, NEW c, NEW i, Knows(a, b, i), Knows(b, c, i)
    PROVE  Knows(a, c, i)
BY Zenon DEF Knows

\* A table that agrees with what is shown of the old one, and is told of the
\* changes, agrees with what is shown of the new one.
LEMMA DiffTold ==
    ASSUME NEW known \in Caches, NEW old \in Tables, NEW new \in Tables, OneDefaultEach(new),
           NEW ids \in SUBSET Plain, Agree(known, ById(old), ids), NEW es \in DiffDevices(old, new)
    PROVE  /\ es \in Seq(EventSet)
           /\ Agree(AllApplied(known, es), ById(new), ids \cup (IdsOf(es) \cap Plain))
<1>1. es \in Seq(EventSet) /\ ToSet(es) = Changes(old, new)
  BY ReportIs, SizedIs
<1>2. PICK was, is : was = ById(old) /\ is = ById(new)
  OBVIOUS
<1>3. \A e \in ToSet(es) : Tells(e, is)
  BY <1>1, <1>2, DiffTells
<1>4. PICK J \in SUBSET Plain : J = ids \ IdsOf(es)
  OBVIOUS
<1>5. ASSUME NEW i \in J PROVE Knows(known, is, i)
  <2>1. \A e \in Changes(old, new) : e.device.id # i
    BY <1>1, <1>4 DEF IdsOf
  <2>2. Knows(was, is, i)
    BY <1>2, <2>1, UntoldById
  <2>3. Knows(known, was, i)
    BY <1>2, <1>4, AgreeIs
  <2> QED
    BY <2>2, <2>3, KnowsOn
<1>6. Agree(known, is, J)
  BY <1>5, AgreeIs
<1>7. Agree(AllApplied(known, es), is, J \cup (IdsOf(es) \cap Plain))
  BY <1>1, <1>3, <1>6, Told
<1>8. J \cup (IdsOf(es) \cap Plain) = ids \cup (IdsOf(es) \cap Plain)
  BY <1>4
<1> QED
  BY <1>1, <1>2, <1>7, <1>8, Zenon

LEMMA PollTold ==
    ASSUME NEW known \in Caches, NEW old \in Caches, NEW new \in Caches, OneDefaultEach(new),
           DOMAIN known = DOMAIN old, Agree(known, old, Plain), NEW es \in DiffAndEmit(old, new)
    PROVE  /\ DOMAIN AllApplied(known, es) = DOMAIN new
           /\ Agree(AllApplied(known, es), new, Plain)
<1>1. es \in Seq(EventSet) /\ ToSet(es) = Changes(old, new)
  BY ReportIs, SizedIs
<1>2. \A e \in ToSet(es) : Tells(e, new) /\ (e.device.id \in DOMAIN new <=> e.kind # "removed")
  BY <1>1, EmitTells
<1>3. PICK J \in SUBSET Plain : J = Plain \ IdsOf(es)
  OBVIOUS
<1>4. ASSUME NEW i \in J PROVE Knows(known, new, i)
  <2>1. \A e \in Changes(old, new) : e.device.id # i
    BY <1>1, <1>3 DEF IdsOf
  <2>2. Knows(old, new, i)
    BY <2>1, UntoldHere
  <2>3. Knows(known, old, i)
    BY <1>3, AgreeIs
  <2> QED
    BY <2>2, <2>3, KnowsOn
<1>5. Agree(known, new, J)
  BY <1>4, AgreeIs
<1>6. Agree(AllApplied(known, es), new, J \cup (IdsOf(es) \cap Plain))
  BY <1>1, <1>2, <1>5, Told
<1>7. J \cup (IdsOf(es) \cap Plain) = Plain
  BY <1>3
<1>8. PICK L \in SUBSET Ids : L = Ids \ IdsOf(es)
  OBVIOUS
<1>9. ASSUME NEW i \in L PROVE i \in DOMAIN known <=> i \in DOMAIN new
  <2>1. \A e \in Changes(old, new) : e.device.id # i
    BY <1>1, <1>8 DEF IdsOf
  <2>2. (i \in DOMAIN old => old[i].id = i) /\ (i \in DOMAIN new => new[i].id = i)
    BY CacheHas
  <2> QED
    BY <2>1, <2>2, UntoldKeeps
<1>10. PICK present : present = DOMAIN new
  OBVIOUS
<1>11. \A i \in L \cup IdsOf(es) : i \in DOMAIN AllApplied(known, es) <=> i \in present
  BY <1>1, <1>2, <1>9, <1>10, ListedOnce
<1>12. /\ DOMAIN AllApplied(known, es) \in SUBSET Ids /\ DOMAIN new \in SUBSET Ids
  <2>1. PICK t \in Caches : t = AllApplied(known, es)
    BY <1>1, AppliedInCaches, Zenon
  <2> QED
    BY <2>1, CacheHas
<1>13. DOMAIN AllApplied(known, es) = DOMAIN new
  BY <1>8, <1>10, <1>11, <1>12
<1> QED
  BY <1>6, <1>7, <1>13, Zenon

-----------------------------------------------------------------------------
(* The types.                                                              *)

Views == [at : {"off", "copied", "on"}, table : Caches]

Types ==
    /\ os \in Tables /\ snapshot \in Tables /\ cache \in Caches
    /\ OneDefaultEach(os) /\ OneDefaultEach(snapshot)
    /\ backend \in Backends
    /\ loop \in {"starting", "installing", "watching", "polling", "listed", "ended"}
    /\ views \in [Subscribers -> Views]
    /\ closing \in {"no", "waiting", "returned"}
    /\ run \in {"off", "idle", "listing"} /\ dirty \in BOOLEAN
    /\ out \in Seq(EventSet) /\ emitting \in Seq(EventSet) /\ Len(out) <= OutCap
    /\ missed \in SUBSET Ids /\ deaf \in BOOLEAN

LEMMA NothingIs == Nothing \in Tables /\ Nothing \in Caches /\ OneDefaultEach(Nothing)
<1>1. Nothing \in [{} -> Devices] /\ DOMAIN Nothing = {} /\ Nothing = [e \in {} |-> Nothing[e]]
  BY DEF Nothing
<1>2. {} \in SUBSET Ids /\ {} \in SUBSET Endpoints
  OBVIOUS
<1>3. Nothing \in Tables
  BY <1>1, <1>2, TableIs
<1>4. Nothing \in Caches
  BY <1>1, <1>2, CacheIs
<1> QED
  BY <1>1, <1>3, <1>4 DEF OneDefaultEach

LEMMA TypesInit ==
    ASSUME Init
    PROVE  Types
<1>1. Nothing \in Tables /\ Nothing \in Caches /\ OneDefaultEach(Nothing)
  BY NothingIs
<1>2. os \in Tables /\ OneDefaultEach(os) /\ cache = ById(os)
  BY DEF Init
<1>3. cache \in Caches
  BY <1>2, ByIdIs
<1>4. views \in [Subscribers -> Views]
  BY <1>1 DEF Init, Views
<1>5. <<>> \in Seq(EventSet) /\ Len(<<>>) = 0 /\ 0 <= OutCap
  BY DeviceAssumption
<1> QED
  BY <1>1, <1>2, <1>3, <1>4, <1>5 DEF Init, Types

LEMMA ChangeTypes ==
    ASSUME Types, NEW table \in Tables, NEW heard \in BOOLEAN, Change(table, heard)
    PROVE  Types'
BY DEF Types, Change, Pulse, system, OneDefaultEach

LEMMA OsChangesTypes ==
    ASSUME Types, OsChanges
    PROVE  Types'
<1>1. os \in Tables /\ DOMAIN os \in SUBSET Endpoints /\ \A e \in DOMAIN os : os[e] \in DevicesAt(e)
  BY TableHas DEF Types
<1>2. CASE Plug
  <2>1. PICK e \in Endpoints, p \in Props :
            \/ Change(With(os, e, Device(e[1], e[2], FALSE, p)), TRUE)
            \/ Change(With(Dethroned(os, e[2]), e, Device(e[1], e[2], TRUE, p)), TRUE)
    BY <1>2 DEF Plug
  <2>2. /\ Device(e[1], e[2], FALSE, p) \in DevicesAt(e)
        /\ Device(e[1], e[2], TRUE, p) \in DevicesAt(e)
    BY DeviceIs
  <2>3. /\ With(os, e, Device(e[1], e[2], FALSE, p)) \in Tables
        /\ With(Dethroned(os, e[2]), e, Device(e[1], e[2], TRUE, p)) \in Tables
    BY <1>1, <2>2, TableWith, TableDethroned
  <2> QED
    BY <2>1, <2>3, ChangeTypes
<1>3. CASE Unplug
  <2>1. PICK e : Change(Without(os, e), TRUE)
    BY <1>3 DEF Unplug
  <2>2. Without(os, e) \in Tables
    BY <1>1, TableWithout
  <2> QED
    BY <2>1, <2>2, ChangeTypes
<1>4. CASE MoveDefault
  <2>1. CASE \E e \in DOMAIN os :
                 Change(With(Dethroned(os, e[2]), e, [os[e] EXCEPT !.default = TRUE]), TRUE)
    <3>1. PICK e \in DOMAIN os :
              Change(With(Dethroned(os, e[2]), e, [os[e] EXCEPT !.default = TRUE]), TRUE)
      BY <2>1
    <3>2. [os[e] EXCEPT !.default = TRUE] \in DevicesAt(e)
      BY <1>1, DeviceSet
    <3>3. With(Dethroned(os, e[2]), e, [os[e] EXCEPT !.default = TRUE]) \in Tables
      BY <1>1, <3>2, TableWith, TableDethroned
    <3> QED
      BY <3>1, <3>3, ChangeTypes
  <2>2. CASE \E d \in Directions : Change(Dethroned(os, d), TRUE)
    BY <1>1, <2>2, TableDethroned, ChangeTypes
  <2> QED
    BY <1>4, <2>1, <2>2 DEF MoveDefault
<1>5. CASE ChangeProps
  <2>1. PICK e \in DOMAIN os, p \in Props : Change([os EXCEPT ![e].props = p], FALSE)
    BY <1>5 DEF ChangeProps
  <2>2. PICK t : t = [os EXCEPT ![e].props = p]
    OBVIOUS
  <2>3. PICK d \in DevicesAt(e) : d = os[e]
    BY <1>1
  <2>4. [d EXCEPT !.props = p] \in DevicesAt(e)
    BY DEF DevicesAt, Device
  <2>5. PICK S \in SUBSET Endpoints : S = DOMAIN os
    BY <1>1
  <2>6. t = [k \in S |-> t[k]] /\ t[e] = [d EXCEPT !.props = p]
        /\ \A k \in S : k # e => t[k] = os[k]
    BY <1>1, <2>2, <2>3, <2>5
  <2>7. \A k \in S : t[k] \in DevicesAt(k)
    BY <1>1, <2>4, <2>5, <2>6
  <2>8. t \in Tables
    BY <2>6, <2>7, TableIs
  <2> QED
    BY <2>1, <2>2, <2>8, ChangeTypes
<1> QED
  BY <1>2, <1>3, <1>4, <1>5 DEF OsChanges

LEMMA ApplyAllTypes ==
    ASSUME Types, NEW table \in Caches, NEW events \in Seq(EventSet), ApplyAll(table, events)
    PROVE  cache' \in Caches /\ views' \in [Subscribers -> Views]
<1>1. ASSUME NEW s \in Subscribers
      PROVE  (IF views[s].at = "on" THEN [views[s] EXCEPT !.table = AllApplied(@, events)]
              ELSE views[s]) \in Views
  <2>1. views[s] \in Views
    BY DEF Types
  <2>2. PICK t \in Caches : t = views[s].table
    BY <2>1 DEF Views
  <2>3. AllApplied(t, events) \in Caches
    BY AppliedInCaches
  <2> QED
    BY <2>1, <2>2, <2>3 DEF Views
<1> QED
  BY <1>1 DEF ApplyAll

LEMMA HeadAndTail ==
    ASSUME NEW es \in Seq(EventSet), es # <<>>
    PROVE  /\ Head(es) \in EventSet /\ Tail(es) \in Seq(EventSet)
           /\ es = <<Head(es)>> \o Tail(es) /\ <<Head(es)>> \in Seq(EventSet)
           /\ Len(es) = Len(Tail(es)) + 1
OBVIOUS

LEMMA WatchLoopTypes ==
    ASSUME Types, WatchLoop
    PROVE  Types'
<1>1. CASE WatchLists
  BY <1>1 DEF Types, WatchLists, world
<1>2. CASE WatchInstalls
  BY <1>2 DEF Types, WatchInstalls, world, OneDefaultEach
<1>3. CASE WatchFails \/ WatchNotSupported \/ PollFails \/ LoopEnds
  BY <1>3 DEF Types, WatchFails, WatchNotSupported, PollFails, LoopEnds, world, watcher, system,
              OneDefaultEach
<1>4. CASE ApplyEvent
  <2>1. PICK e \in EventSet, rest \in Seq(EventSet) :
            e = Head(out) /\ rest = Tail(out) /\ <<e>> \in Seq(EventSet) /\ Len(out) = Len(rest) + 1
    BY <1>4, HeadAndTail DEF ApplyEvent, Types
  <2>2. Applied(cache, e) \in Caches
    BY AppliedIs, Zenon DEF Effect, Types
  <2>3. ApplyAll(Applied(cache, e), <<e>>)
    BY <1>4, <2>1 DEF ApplyEvent
  <2>4. cache' \in Caches /\ views' \in [Subscribers -> Views]
    BY <2>1, <2>2, <2>3, ApplyAllTypes
  <2>5. Len(rest) <= OutCap
    BY <2>1, DeviceAssumption DEF Types
  <2> QED
    BY <1>4, <2>1, <2>4, <2>5 DEF Types, ApplyEvent, world, OneDefaultEach
<1>5. CASE PollLists
  BY <1>5 DEF Types, PollLists, world
<1>6. CASE PollApplies
  <2>1. PICK table \in Caches : table = ById(snapshot)
    BY ByIdIs DEF Types
  <2>2. PICK events \in DiffAndEmit(cache, table) : ApplyAll(table, events)
    BY <1>6, <2>1 DEF PollApplies
  <2>3. events \in Seq(EventSet)
    BY ReportIs, SizedIs DEF Types
  <2>4. cache' \in Caches /\ views' \in [Subscribers -> Views]
    BY <2>2, <2>3, ApplyAllTypes
  <2> QED
    BY <1>6, <2>4 DEF Types, PollApplies, world, watcher, OneDefaultEach
<1> QED
  BY <1>1, <1>2, <1>3, <1>4, <1>5, <1>6 DEF WatchLoop

\* One subscriber's table is set, and nothing else.
LEMMA OneViewSet ==
    ASSUME Types, NEW s \in Subscribers, SnapshotCopies(s) \/ SnapshotSubscribes(s) \/ Cancel(s)
    PROVE  /\ views' \in [Subscribers -> Views] /\ \A u \in Subscribers : u # s => views'[u] = views[u]
           /\ \/ views'[s].at = "copied" /\ views'[s].table = cache
              \/ views[s].at = "copied" /\ views'[s].at = "on" /\ views'[s].table = views[s].table
              \/ views'[s].at = "off"
           /\ UNCHANGED <<world, backend, loop, cache, watcher, closing, failures>>
<1>1. views \in [Subscribers -> Views] /\ cache \in Caches /\ Nothing \in Caches
  BY NothingIs DEF Types
<1>2. PICK v \in Views :
          /\ views' = [views EXCEPT ![s] = v]
          /\ \/ v.at = "copied" /\ v.table = cache
             \/ views[s].at = "copied" /\ v.at = "on" /\ v.table = views[s].table
             \/ v.at = "off"
  <2>1. CASE SnapshotCopies(s)
    <3>1. PICK v : v = [at |-> "copied", table |-> cache]
      OBVIOUS
    <3>2. v \in Views /\ v.at = "copied" /\ v.table = cache
      BY <1>1, <3>1 DEF Views
    <3> QED
      BY <2>1, <3>1, <3>2 DEF SnapshotCopies
  <2>2. CASE SnapshotSubscribes(s)
    <3>1. PICK v : v = [views[s] EXCEPT !.at = "on"]
      OBVIOUS
    <3>2. v \in Views /\ v.at = "on" /\ v.table = views[s].table
      BY <1>1, <3>1 DEF Views
    <3>3. views' = [views EXCEPT ![s] = v] /\ views[s].at = "copied"
      BY <2>2, <3>1, Zenon DEF SnapshotSubscribes
    <3> QED
      BY <3>2, <3>3
  <2>3. CASE Cancel(s)
    <3>1. PICK v : v = [at |-> "off", table |-> Nothing]
      OBVIOUS
    <3>2. v \in Views /\ v.at = "off"
      BY <1>1, <3>1 DEF Views
    <3> QED
      BY <2>3, <3>1, <3>2 DEF Cancel
  <2> QED
    BY <2>1, <2>2, <2>3
<1>3. UNCHANGED <<world, backend, loop, cache, watcher, closing, failures>>
  BY DEF SnapshotCopies, SnapshotSubscribes, Cancel
<1> QED
  BY <1>1, <1>2, <1>3

LEMMA TypesStep ==
    ASSUME Types, [Next]_vars
    PROVE  Types'
<1>1. CASE OsChanges
  BY <1>1, OsChangesTypes
<1>2. ASSUME NEW s \in Subscribers, SnapshotCopies(s) \/ SnapshotSubscribes(s) \/ Cancel(s)
      PROVE  Types'
  <2>1. /\ views' \in [Subscribers -> Views]
        /\ UNCHANGED <<world, backend, loop, cache, watcher, closing, failures>>
    BY <1>2, OneViewSet
  <2> QED
    BY <2>1 DEF Types, world, watcher, OneDefaultEach
<1>3. CASE Close \/ CloseReturns
  BY <1>3 DEF Close, CloseReturns, Types, world, watcher, system, OneDefaultEach
<1>4. CASE WatchLoop
  BY <1>4, WatchLoopTypes
<1>5. CASE TakePulse \/ RefreshFails
  BY <1>5 DEF TakePulse, RefreshFails, Types, world, system, OneDefaultEach
<1>6. CASE Refresh
  <2>1. emitting' \in Seq(EventSet)
    BY <1>6, ReportIs, SizedIs DEF Refresh, Types
  <2> QED
    BY <1>6, <2>1 DEF Refresh, Types, world, system
<1>7. CASE Emit
  <2>1. Head(emitting) \in EventSet /\ Tail(emitting) \in Seq(EventSet)
    BY <1>7, HeadAndTail DEF Emit, Types
  <2>2. out' \in Seq(EventSet) /\ Len(out') <= OutCap
    BY <1>7, <2>1, DeviceAssumption DEF Emit, Types
  <2> QED
    BY <1>7, <2>1, <2>2 DEF Emit, Types, world, system, OneDefaultEach
<1>8. CASE WatcherEnds
  <2>1. <<>> \in Seq(EventSet)
    OBVIOUS
  <2> QED
    BY <1>8, <2>1, NothingIs DEF WatcherEnds, Types, world, system
<1>9. CASE UNCHANGED vars
  BY <1>9 DEF vars, Types, world, watcher, system, OneDefaultEach
<1> QED
  BY <1>1, <1>2, <1>3, <1>4, <1>5, <1>6, <1>7, <1>8, <1>9 DEF Next, Watcher

\* Every variable keeps to the values the code can give it: the tables of the
\* operating system and of the watcher have each endpoint at most once, the
\* cache and the subscribers each id, and the channel keeps to its capacity.
THEOREM WithinBounds == Spec => []TypeOK
<1>1. Init => Types
  BY TypesInit
<1>2. Types /\ [Next]_vars => Types'
  BY TypesStep
<1>3. Types => TypeOK
  BY DEF Types, TypeOK, Views
<1> QED
  BY <1>1, <1>2, <1>3, PTL DEF Spec

-----------------------------------------------------------------------------
(* What subscribers know.                                                  *)

LEMMA AgreeSelf ==
    ASSUME NEW table, NEW ids
    PROVE  Agree(table, table, ids)
BY DEF Agree

\* What a subscriber made of its snapshot follows from the cache.
FollowsTable(known, table) ==
    IF backend = "native" THEN known = table
    ELSE DOMAIN known = DOMAIN table /\ Agree(known, table, Plain)

\* The loop is the one of the back end, a copy that is not subscribed yet is
\* of the cache as it is, since Snapshot keeps writers out, and a subscriber
\* has followed it since.
Following ==
    /\ loop \in {"installing", "watching"} => backend = "native"
    /\ loop \in {"polling", "listed"} => backend = "polling"
    /\ \A s \in Subscribers :
           /\ views[s].at = "copied" => views[s].table = cache
           /\ views[s].at = "on" => FollowsTable(views[s].table, cache)

LEMMA FollowStep ==
    ASSUME Types, Following, [Next]_vars
    PROVE  Following'
<1> USE DEF FollowsTable
<1>1. CASE UNCHANGED <<loop, cache, views, backend>>
  BY <1>1 DEF Following, Agree
<1>2. ASSUME NEW s \in Subscribers, SnapshotCopies(s) \/ SnapshotSubscribes(s) \/ Cancel(s)
      PROVE  Following'
  <2>1. /\ \A u \in Subscribers : u # s => views'[u] = views[u]
        /\ \/ views'[s].at = "copied" /\ views'[s].table = cache
           \/ views[s].at = "copied" /\ views'[s].at = "on" /\ views'[s].table = views[s].table
           \/ views'[s].at = "off"
        /\ UNCHANGED <<loop, cache, backend>>
    BY <1>2, OneViewSet
  <2>2. Agree(cache, cache, Plain)
    BY AgreeSelf
  <2>3. ASSUME NEW u \in Subscribers
        PROVE  /\ views'[u].at = "copied" => views'[u].table = cache
               /\ views'[u].at = "on" => FollowsTable(views'[u].table, cache)
    <3>1. CASE u # s
      BY <2>1, <3>1 DEF Following
    <3>2. CASE u = s
      <4>1. CASE views'[s].at = "copied" /\ views'[s].table = cache
        BY <3>2, <4>1
      <4>2. CASE views[s].at = "copied" /\ views'[s].at = "on" /\ views'[s].table = views[s].table
        <5>1. views'[s].table = cache
          BY <4>2 DEF Following
        <5> QED
          BY <2>2, <3>2, <4>2, <5>1
      <4>3. CASE views'[s].at = "off"
        BY <3>2, <4>3
      <4> QED
        BY <2>1, <4>1, <4>2, <4>3
    <3> QED
      BY <3>1, <3>2
  <2> QED
    BY <2>1, <2>3 DEF Following, Agree
<1>3. ASSUME NEW table, NEW events \in Seq(EventSet), ApplyAll(table, events), UNCHANGED backend,
             loop' \in {"watching", "polling"}, loop' = "watching" <=> backend = "native",
             loop' = "polling" <=> backend = "polling",
             \A known \in Caches : FollowsTable(known, cache)
                                     => FollowsTable(AllApplied(known, events), table)
      PROVE  Following'
  <2>1. ASSUME NEW s \in Subscribers
        PROVE  /\ views'[s].at # "copied"
               /\ views'[s].at = "on" => FollowsTable(views'[s].table, table)
    <3>1. PICK v \in Views : v = views[s]
      BY DEF Types
    <3>2. views'[s] = IF v.at = "on" THEN [v EXCEPT !.table = AllApplied(@, events)] ELSE v
      BY <1>3, <3>1 DEF ApplyAll
    <3>3. v.at # "copied"
      BY <1>3, <3>1 DEF ApplyAll, Unread
    <3>4. PICK known \in Caches : known = v.table
      BY DEF Views
    <3>5. views'[s].at = v.at
      BY <3>2 DEF Views
    <3>6. v.at = "on" => views'[s].table = AllApplied(known, events)
      BY <3>2, <3>4 DEF Views
    <3>7. v.at = "on" => FollowsTable(known, cache)
      BY <3>1, <3>4, Zenon DEF Following
    <3> QED
      BY <1>3, <3>3, <3>5, <3>6, <3>7, Zenon
  <2>2. cache' = table
    BY <1>3 DEF ApplyAll
  <2> QED
    BY <1>3, <2>1, <2>2 DEF Following
<1>4. CASE ApplyEvent
  <2>1. PICK e \in EventSet : e = Head(out) /\ <<e>> \in Seq(EventSet)
    BY <1>4, HeadAndTail DEF ApplyEvent, Types
  <2>2. ApplyAll(Applied(cache, e), <<e>>)
    BY <1>4, <2>1 DEF ApplyEvent
  <2>3. backend = "native" /\ UNCHANGED <<backend, loop>> /\ loop = "watching"
    BY <1>4 DEF ApplyEvent, Following
  <2>4. ASSUME NEW known \in Caches, FollowsTable(known, cache)
        PROVE  FollowsTable(AllApplied(known, <<e>>), Applied(cache, e))
    <3>1. AllApplied(known, <<e>>) = Applied(known, e)
      BY AppliedOne, Zenon
    <3> QED
      BY <2>3, <2>4, <3>1
  <2> QED
    BY <1>3, <2>1, <2>2, <2>3, <2>4
<1>5. CASE PollApplies
  <2>1. PICK table \in Caches : table = ById(snapshot) /\ OneDefaultEach(table)
    BY ByIdIs, ByIdOneDefault DEF Types
  <2>2. PICK events \in DiffAndEmit(cache, table) : ApplyAll(table, events)
    BY <1>5, <2>1 DEF PollApplies
  <2>3. events \in Seq(EventSet)
    BY ReportIs, SizedIs DEF Types
  <2>4. backend = "polling" /\ loop' = "polling" /\ UNCHANGED backend
    BY <1>5 DEF PollApplies, Following
  <2>5. ASSUME NEW known \in Caches, FollowsTable(known, cache)
        PROVE  FollowsTable(AllApplied(known, events), table)
    <3>1. DOMAIN known = DOMAIN cache /\ Agree(known, cache, Plain)
      BY <2>4, <2>5
    <3>2. DOMAIN AllApplied(known, events) = DOMAIN table /\ Agree(AllApplied(known, events), table, Plain)
      BY <2>1, <3>1, PollTold DEF Types
    <3> QED
      BY <2>4, <3>2
  <2> QED
    BY <1>3, <2>2, <2>3, <2>4, <2>5
<1>6. CASE OsChanges
  BY <1>1, <1>6 DEF OsChanges, Plug, Unplug, MoveDefault, ChangeProps, Change, system
<1>7. CASE Close \/ CloseReturns
  BY <1>1, <1>7 DEF Close, CloseReturns, system
<1>8. CASE WatchLists \/ WatchInstalls \/ WatchFails \/ WatchNotSupported \/ PollLists
             \/ PollFails \/ LoopEnds
  <2>1. UNCHANGED <<cache, views, backend>>
    BY <1>8 DEF WatchLists, WatchInstalls, WatchFails, WatchNotSupported, PollLists,
                PollFails, LoopEnds, system
  <2>2. /\ loop' \in {"installing", "watching"} => backend = "native"
        /\ loop' \in {"polling", "listed"} => backend = "polling"
    BY <1>8 DEF WatchLists, WatchInstalls, WatchFails, WatchNotSupported, PollLists,
                PollFails, LoopEnds, system, Following
  <2> QED
    BY <2>1, <2>2 DEF Following, Agree
<1>9. CASE Watcher
  BY <1>1, <1>9 DEF Watcher, TakePulse, Refresh, RefreshFails, Emit, WatcherEnds, system
<1>10. CASE UNCHANGED vars
  BY <1>1, <1>10 DEF vars, system
<1> QED
  BY <1>2, <1>4, <1>5, <1>6, <1>7, <1>8, <1>9, <1>10 DEF Next, WatchLoop

\* Whatever the operating system does, in whichever order a diff is told, and
\* whenever a Snapshot falls, a subscriber's table follows the cache: with a
\* watcher it is the cache, and while polling it has the same ids, and agrees on
\* those of one endpoint.
THEOREM Follows == Spec => []SubscribersFollow
<1>1. ASSUME Init PROVE Types /\ Following
  BY <1>1, TypesInit DEF Init, Following
<1>2. Types /\ Following /\ [Next]_vars => (Types /\ Following)'
  BY TypesStep, FollowStep
<1>3. Following => SubscribersFollow
  BY DEF Following, FollowsTable, SubscribersFollow
<1> QED
  BY <1>1, <1>2, <1>3, PTL DEF Spec

-----------------------------------------------------------------------------
(* What is on its way to the cache.                                        *)

\* The cache, once it is told what is in the channel and what is being sent,
\* agrees with the watcher's snapshot on every id of one endpoint but those that
\* changed between the first two Lists and that no event on its way mentions.
Underway ==
    Agree(AllApplied(cache, out \o emitting), ById(snapshot),
          (Plain \ missed) \cup (IdsOf(out \o emitting) \cap Plain))

Way ==
    /\ loop = "installing" => Agree(cache, ById(snapshot), Plain \ missed)
    /\ loop \in {"starting", "installing"} => run = "off" /\ out = <<>> /\ emitting = <<>>
    /\ run = "listing" => emitting = <<>>
    /\ run # "off" /\ ~Cancelled => loop = "watching"
    /\ run # "off" /\ ~Cancelled => Underway

LEMMA IdsOfConcat ==
    ASSUME NEW es \in Seq(EventSet), NEW ds \in Seq(EventSet)
    PROVE  IdsOf(es \o ds) = IdsOf(es) \cup IdsOf(ds)
<1>1. ToSet(es \o ds) = ToSet(es) \cup ToSet(ds)
  BY ConcatSet, Zenon
<1> QED
  BY <1>1 DEF IdsOf

\* The cache applies the first event of the channel.
LEMMA ApplyEventWay ==
    ASSUME Types, Underway, ApplyEvent
    PROVE  Underway'
<1>1. PICK e \in EventSet, rest \in Seq(EventSet), one \in Seq(EventSet) :
          e = Head(out) /\ rest = Tail(out) /\ one = <<e>> /\ out = one \o rest
  BY HeadAndTail DEF ApplyEvent, Types
<1>2. PICK coming \in Seq(EventSet) : coming = rest \o emitting
  BY ConcatIs, Zenon DEF Types
<1>3. out \o emitting = one \o coming
  BY <1>1, <1>2 DEF Types
<1>4. PICK next : next = Applied(cache, e)
  OBVIOUS
<1>5. AllApplied(cache, one) = next
  BY <1>1, <1>4, AppliedOne, Zenon
<1>6. AllApplied(cache, out \o emitting) = AllApplied(next, coming)
  <2>1. AllApplied(cache, one \o coming) = AllApplied(AllApplied(cache, one), coming)
    BY AppliedConcat
  <2> QED
    BY <1>3, <1>5, <2>1, Zenon
<1>7. IdsOf(out \o emitting) = {e.device.id} \cup IdsOf(coming)
  <2>1. ToSet(one) = {e}
    BY <1>1 DEF ToSet
  <2>2. IdsOf(one) = {e.device.id}
    BY <2>1 DEF IdsOf
  <2> QED
    BY <1>3, <2>2, IdsOfConcat, Zenon
<1>9. PICK mine, yours :
          /\ mine = (Plain \ missed) \cup (IdsOf(out \o emitting) \cap Plain)
          /\ yours = (Plain \ (missed \ {e.device.id})) \cup (IdsOf(coming) \cap Plain)
  OBVIOUS
<1>10. mine = yours
  BY <1>7, <1>9
<1>11. Agree(AllApplied(next, coming), ById(snapshot), yours)
  BY <1>6, <1>9, <1>10, Zenon DEF Underway
<1>12. /\ cache' = next /\ out' = rest /\ emitting' = emitting /\ snapshot' = snapshot
       /\ missed' = missed \ {e.device.id}
  BY <1>1, <1>4 DEF ApplyEvent, ApplyAll
<1>13. Agree(AllApplied(cache', out' \o emitting'), ById(snapshot'),
             (Plain \ missed') \cup (IdsOf(out' \o emitting') \cap Plain))
  BY <1>2, <1>9, <1>11, <1>12, Zenon
<1> QED
  BY <1>13 DEF Underway

\* The watcher reads the table again, and tells what is new in it.
LEMMA RefreshWay ==
    ASSUME Types, Underway, emitting = <<>>, Refresh
    PROVE  Underway'
<1>1. out \o emitting = out
  BY DEF Types
<1>2. PICK es \in DiffDevices(snapshot, os) : es = emitting'
  BY DEF Refresh
<1>3. PICK known \in Caches : known = AllApplied(cache, out)
  BY AppliedInCaches, Zenon DEF Types
<1>4. PICK ids \in SUBSET Plain : ids = (Plain \ missed) \cup (IdsOf(out) \cap Plain)
  OBVIOUS
<1>5. Agree(known, ById(snapshot), ids)
  BY <1>1, <1>3, <1>4, Zenon DEF Underway
<1>6. es \in Seq(EventSet) /\ Agree(AllApplied(known, es), ById(os), ids \cup (IdsOf(es) \cap Plain))
  <2>1. snapshot \in Tables /\ os \in Tables /\ OneDefaultEach(os)
    BY DEF Types
  <2> QED
    BY <1>5, <2>1, DiffTold
<1>7. AllApplied(cache, out \o es) = AllApplied(known, es)
  <2>1. out \in Seq(EventSet) /\ es \in Seq(EventSet)
    BY <1>6 DEF Types
  <2>2. AllApplied(cache, out \o es) = AllApplied(AllApplied(cache, out), es)
    BY <2>1, AppliedConcat
  <2> QED
    BY <1>3, <2>2, Zenon
<1>8. IdsOf(out \o es) = IdsOf(out) \cup IdsOf(es)
  BY <1>6, IdsOfConcat, Zenon DEF Types
<1>9. ids \cup (IdsOf(es) \cap Plain) = (Plain \ missed) \cup (IdsOf(out \o es) \cap Plain)
  BY <1>4, <1>8
<1>10. cache' = cache /\ out' = out /\ snapshot' = os /\ missed' = missed
  BY DEF Refresh, system
<1>11. Agree(AllApplied(cache', out' \o emitting'), ById(snapshot'),
             (Plain \ missed') \cup (IdsOf(out' \o emitting') \cap Plain))
  BY <1>2, <1>6, <1>7, <1>9, <1>10, Zenon
<1> QED
  BY <1>11 DEF Underway

\* The watcher's first List is compared with the cache.
LEMMA WatchListsWay ==
    ASSUME Types, WatchLists
    PROVE  Agree(cache', ById(snapshot'), Plain \ missed')
<1>1. PICK t : t = ById(os)
  OBVIOUS
<1>2. missed' = {i \in Ids : \/ i \in DOMAIN t /\ i \notin DOMAIN cache
                             \/ i \in DOMAIN cache /\ i \notin DOMAIN t
                             \/ i \in DOMAIN cache /\ t[i] # cache[i]}
  BY <1>1 DEF WatchLists
<1>3. ASSUME NEW i \in Plain \ missed' PROVE Knows(cache, t, i)
  <2>1. i \in Ids
    BY DEF Plain
  <2>2. (i \in DOMAIN cache <=> i \in DOMAIN t) /\ (i \in DOMAIN cache => t[i] = cache[i])
    BY <1>2, <1>3, <2>1
  <2> QED
    BY <2>2, Zenon DEF Knows
<1>4. Agree(cache, t, Plain \ missed')
  BY <1>3, AgreeIs
<1>5. cache' = cache /\ snapshot' = os
  BY DEF WatchLists
<1> QED
  BY <1>1, <1>4, <1>5, Zenon

LEMMA WayStep ==
    ASSUME Types, Way, [Next]_vars
    PROVE  Way'
<1> DEFINE Same == /\ UNCHANGED <<loop, run, out, emitting, cache, snapshot, missed>>
                   /\ Cancelled => Cancelled'
<1>1. CASE Same
  BY <1>1 DEF Way, Underway, Agree, ById, Shown
<1>2. CASE OsChanges
  BY <1>1, <1>2 DEF OsChanges, Plug, Unplug, MoveDefault, ChangeProps, Change, system, Cancelled
<1>3. ASSUME NEW s \in Subscribers, SnapshotCopies(s) \/ SnapshotSubscribes(s) \/ Cancel(s)
      PROVE  Way'
  BY <1>1, <1>3 DEF SnapshotCopies, SnapshotSubscribes, Cancel, watcher, Cancelled
<1>4. CASE Close \/ CloseReturns
  BY <1>1, <1>4 DEF Close, CloseReturns, watcher, system, Cancelled
<1>5. CASE WatchLists
  <2>1. run = "off" /\ out = <<>> /\ emitting = <<>> /\ loop = "starting"
    BY <1>5 DEF Way, WatchLists
  <2>2. Agree(cache', ById(snapshot'), Plain \ missed')
    BY <1>5, WatchListsWay
  <2>3. (Agree(cache, ById(snapshot), Plain \ missed))'
    BY <2>2 DEF Agree, ById, Shown
  <2> QED
    BY <1>5, <2>1, <2>3 DEF Way, WatchLists
<1>6. CASE WatchInstalls
  <2>1. run = "off" /\ out = <<>> /\ emitting = <<>> /\ Agree(cache, ById(snapshot), Plain \ missed)
    BY <1>6 DEF Way, WatchInstalls
  <2>2. out \o emitting = <<>>
    BY <2>1
  <2>3. AllApplied(cache, out \o emitting) = cache
    BY <2>2, AppliedNone, Zenon
  <2>4. IdsOf(out \o emitting) = {}
    BY <2>2, IdsOfNone
  <2>5. (Plain \ missed) \cup (IdsOf(out \o emitting) \cap Plain) = Plain \ missed
    BY <2>4
  <2>6. Underway
    BY <2>1, <2>3, <2>5, Zenon DEF Underway
  <2>7. UNCHANGED <<cache, snapshot, out, emitting, missed>>
    BY <1>6 DEF WatchInstalls
  <2>8. Underway'
    BY <2>6, <2>7 DEF Underway, Agree, ById, Shown
  <2> QED
    BY <1>6, <2>1, <2>8 DEF Way, WatchInstalls
<1>7. CASE WatchFails
  <2>1. run = "off"
    BY <1>7 DEF Way, WatchFails
  <2> QED
    BY <1>7, <2>1 DEF Way, WatchFails, watcher
<1>8. CASE WatchNotSupported \/ PollFails \/ PollLists \/ PollApplies
  <2>1. loop # "watching" /\ loop' \in {"polling", "listed"}
    BY <1>8 DEF WatchNotSupported, PollFails, PollLists, PollApplies, system
  <2>2. UNCHANGED <<run, emitting, closing>>
    BY <1>8 DEF WatchNotSupported, PollFails, PollLists, PollApplies, watcher
  <2> QED
    BY <2>1, <2>2 DEF Way, Cancelled
<1>9. CASE LoopEnds
  BY <1>9 DEF Way, LoopEnds, watcher, Cancelled
<1>10. CASE ApplyEvent
  <2>1. UNCHANGED <<loop, run, emitting, closing>> /\ loop = "watching"
    BY <1>10 DEF ApplyEvent
  <2>2. Underway => Underway'
    BY <1>10, ApplyEventWay
  <2> QED
    BY <2>1, <2>2 DEF Way, Cancelled
<1>11. CASE TakePulse
  <2>1. /\ UNCHANGED <<loop, out, emitting, cache, snapshot, missed, closing>>
        /\ run = "idle" /\ run' = "listing" /\ emitting = <<>>
    BY <1>11 DEF TakePulse, system
  <2>2. Underway => Underway'
    BY <2>1 DEF Underway, Agree, ById, Shown
  <2>3. Agree(cache, ById(snapshot), Plain \ missed) => (Agree(cache, ById(snapshot), Plain \ missed))'
    BY <2>1 DEF Agree, ById, Shown
  <2> QED
    BY <2>1, <2>2, <2>3 DEF Way, Cancelled
<1>12. CASE Refresh
  <2>1. /\ UNCHANGED <<loop, closing, out>> /\ run = "listing" /\ run' = "idle"
        /\ emitting = <<>> /\ ~Cancelled
    BY <1>12 DEF Refresh, system, Way
  <2>2. Underway'
    BY <1>12, <2>1, RefreshWay DEF Way
  <2> QED
    BY <2>1, <2>2 DEF Way, Cancelled
<1>13. CASE RefreshFails
  BY <1>13 DEF Way, RefreshFails, Underway, Agree, ById, Shown, Cancelled, system
<1>14. CASE Emit
  <2>1. PICK e \in EventSet, rest \in Seq(EventSet), one \in Seq(EventSet) :
            e = Head(emitting) /\ rest = Tail(emitting) /\ one = <<e>> /\ emitting = one \o rest
    BY <1>14, HeadAndTail DEF Emit, Types
  <2>2. out' = Append(out, e) /\ emitting' = rest
    BY <1>14, <2>1 DEF Emit
  <2>3. out' \o emitting' = out \o emitting
    BY <2>1, <2>2 DEF Types
  <2>4. UNCHANGED <<loop, run, cache, snapshot, missed, closing>> /\ emitting # <<>>
    BY <1>14 DEF Emit, system
  <2>5. Underway => Underway'
    BY <2>3, <2>4 DEF Underway, Agree, ById, Shown
  <2> QED
    BY <2>4, <2>5 DEF Way, Cancelled
<1>15. CASE WatcherEnds
  BY <1>15 DEF Way, WatcherEnds, system
<1>16. CASE UNCHANGED vars
  BY <1>1, <1>16 DEF vars, system, watcher, Cancelled
<1> QED
  BY <1>2, <1>3, <1>4, <1>5, <1>6, <1>7, <1>8, <1>9, <1>10, <1>11, <1>12, <1>13, <1>14, <1>15, <1>16
     DEF Next, WatchLoop, Watcher

\* What the watcher has told, and is about to tell, makes up the difference
\* between the cache and the watcher's own snapshot, for the ids of one endpoint
\* and whatever the others do: the channel loses nothing and overtakes nothing,
\* however the refreshes and the events interleave.
THEOREM DifferenceOnTheWay == Spec => []OnTheWay
<1>1. Init => Types /\ Way
  BY TypesInit DEF Init, Way
<1>2. Types /\ Way /\ [Next]_vars => (Types /\ Way)'
  BY TypesStep, WayStep
<1>3. Types /\ Way => OnTheWay
  <2>1. Underway => Agree(AllApplied(cache, out \o emitting), ById(snapshot), Plain \ missed)
    BY DEF Underway, Agree
  <2> QED
    BY <2>1 DEF Way, OnTheWay
<1> QED
  BY <1>1, <1>2, <1>3, PTL DEF Spec
=============================================================================
