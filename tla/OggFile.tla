------------------------------ MODULE OggFile -------------------------------
(***************************************************************************)
(* Ogg files (containers/ogg/writer.go, reader.go): a Writer multiplexes   *)
(* packets of several streams into pages, one packet behind its caller so  *)
(* that the last one of a stream can be marked; a Reader takes the pages   *)
(* apart again.  Between the two a file may end early, because its writer  *)
(* never got to Close, and pages of it may be damaged: their checksum      *)
(* fails and the reader's Sync skips them.                                 *)
(*                                                                         *)
(* The calls of both are made by one goroutine.  A packet is its number in *)
(* its stream and its size.                                                *)
(***************************************************************************)
EXTENDS OggFraming, Functions, FiniteSets

CONSTANTS
    Streams,      \* serial numbers, each added to the Writer with AddStream
    FirstSize,    \* bytes of a stream's first packet: it fits on a page
    Sizes,        \* bytes of the packets after it
    MaxPackets,   \* bound on the packets of all streams
    MaxDamaged,   \* bound on the damaged pages
    MaxPerRead    \* bound on the pages that one read of the file completes

ASSUME FileAssumption ==
    /\ IsFiniteSet(Streams) /\ FirstSize \in 0 .. SegMax * MaxSegs - 1
    /\ Sizes \subseteq Nat /\ MaxPackets \in Nat /\ MaxDamaged \in Nat
    /\ MaxPerRead \in Nat \ {0}

VARIABLES
    encs,      \* StreamWriter.enc
    pending,   \* StreamWriter.pending: the number of the packet held, or 0
    eosFlag,   \* StreamWriter.eosFlag
    closed,    \* Writer.closed
    file,      \* the pages written
    sizes,     \* history: of each stream, the sizes of its packets
    unread,    \* the pages the reader will yet see; those of the file at first
    pump,      \* the reader's pump
    reader,    \* the call of the reader that is under way
    listed,    \* Reader.streams
    got,       \* history: the packets each stream's reader got
    lost       \* history: the pages of the file that the reader does not see

writer == <<encs, pending, eosFlag, closed, file, sizes>>
reading == <<unread, pump, reader, listed, got, lost>>
vars == <<writer, reading>>

NewPump == [decs |-> <<>>, order |-> <<>>, sawData |-> FALSE, done |-> FALSE,
            queues |-> [s \in Streams |-> <<>>]]

Init ==
    /\ encs = [s \in Streams |-> NewEncoder]
    /\ pending = [s \in Streams |-> 0]
    /\ eosFlag = [s \in Streams |-> FALSE]
    /\ closed = FALSE /\ file = <<>>
    /\ sizes = [s \in Streams |-> <<>>]
    /\ unread = <<>> /\ lost = {} /\ pump = NewPump
    /\ reader = [op |-> "none"] /\ listed = {}
    /\ got = [s \in Streams |-> <<>>]

-----------------------------------------------------------------------------
(* Writing                                                                 *)

Writing == reader.op = "none" /\ ~closed

\* submit: the encoder of s with its pending packet, and the pages that fill.
Submitted(s, eos) ==
    IF pending[s] = 0 THEN [enc |-> encs[s], pages |-> <<>>]
    ELSE Drained(PacketIn(encs[s], pending[s], sizes[s][pending[s]], eos), s,
                 FALSE, <<>>)
Flushed(s, eos) ==
    LET submitted == Submitted(s, eos)
    IN  Drained(submitted.enc, s, TRUE, submitted.pages)

Lengths == [s \in Streams |-> Len(sizes[s])]
WritePacket(s, size) ==
    /\ Writing /\ SumFunction(Lengths) < MaxPackets
    /\ size \in (IF sizes[s] = <<>> THEN {FirstSize} ELSE Sizes)
    /\ LET submitted == Submitted(s, FALSE)
       IN  /\ encs' = [encs EXCEPT ![s] = submitted.enc]
           /\ file' = file \o submitted.pages
    /\ pending' = [pending EXCEPT ![s] = Len(sizes[s]) + 1]
    /\ sizes' = [sizes EXCEPT ![s] = Append(@, size)]
    /\ UNCHANGED <<eosFlag, closed, reading>>

\* As the codec writers do after each header packet.
ForceFlush(s) ==
    /\ Writing /\ pending[s] # 0
    /\ LET flushed == Flushed(s, FALSE)
       IN  /\ encs' = [encs EXCEPT ![s] = flushed.enc]
           /\ file' = file \o flushed.pages
    /\ pending' = [pending EXCEPT ![s] = 0]
    /\ UNCHANGED <<eosFlag, closed, sizes, reading>>

SetEOS(s) ==
    /\ Writing /\ ~eosFlag[s]
    /\ eosFlag' = [eosFlag EXCEPT ![s] = TRUE]
    /\ UNCHANGED <<encs, pending, closed, file, sizes, reading>>

\* finalFlush of every stream, in the order they were added.
Close(order) ==
    /\ Writing /\ closed' = TRUE
    /\ encs' = [s \in Streams |-> Flushed(s, eosFlag[s]).enc]
    /\ file' = file \o FlattenSeq([i \in DOMAIN order |->
                                      Flushed(order[i], eosFlag[order[i]]).pages])
    /\ pending' = [s \in Streams |-> 0]
    /\ UNCHANGED <<eosFlag, sizes, reading>>

-----------------------------------------------------------------------------
(* Reading                                                                 *)

\* Of the file only the first pages may have been written for good, and of
\* those some may be damaged.
OpenFile ==
    /\ reader.op = "none"
    /\ \E end \in 0 .. Len(file) : \E damaged \in SUBSET (1 .. end) :
           /\ Cardinality(damaged) <= MaxDamaged
           /\ lost' = damaged \cup (end + 1 .. Len(file))
    /\ unread' = FlattenSeq([i \in 1 .. Len(file) |->
                                IF i \in lost' THEN <<>> ELSE <<file[i]>>])
    /\ reader' = [op |-> "scan"]
    /\ encs' = [s \in Streams |-> NewEncoder]       \* the writer is gone
    /\ pending' = [s \in Streams |-> 0] /\ eosFlag' = [s \in Streams |-> FALSE]
    /\ closed' = TRUE
    /\ UNCHANGED <<file, sizes, pump, listed, got>>

\* The first page of a stream opens its decoder.
Opened(p, page) ==
    LET s == page.serial
    IN  IF page.bos /\ s \notin DOMAIN p.decs
        THEN [p EXCEPT !.decs = [t \in DOMAIN p.decs \cup {s} |->
                                    IF t = s THEN NewDecoder ELSE p.decs[t]],
                       !.order = Append(@, s)]
        ELSE [p EXCEPT !.sawData = @ \/ ~page.bos]

\* What feedOne does with a page.
FeedPage(p, page) ==
    LET s == page.serial
        opened == Opened(p, page)
        filled == PageIn(opened.decs[s], page)
        out == PacketsOut(filled.partial)
    IN  IF s \notin DOMAIN opened.decs THEN opened
        ELSE [opened EXCEPT !.decs[s] = [filled EXCEPT !.partial = out.partial],
                            !.queues[s] = @ \o out.packets]

\* feedOne: a read of the file completes n pages, and may find the end.
Fed(n) ==
    LET after[k \in 0 .. n] == IF k = 0 THEN pump ELSE FeedPage(after[k - 1], unread[k])
    IN  after[n]

Feed(n, end) ==
    /\ ~pump.done
    /\ n <= Min({Len(unread), MaxPerRead}) /\ (end => n = Len(unread)) /\ (n = 0 => end)
    /\ pump' = [Fed(n) EXCEPT !.done = end]
    /\ unread' = SubSeq(unread, n + 1, Len(unread))
    /\ UNCHANGED <<reader, listed, got, lost, writer>>

Listing(todo) == IF todo = <<>> THEN [op |-> "idle"] ELSE [op |-> "list", todo |-> todo]

\* The scan stops at the first stream.
MutScanned ==
    /\ reader.op = "scan" /\ (pump.order # <<>> \/ pump.done)
    /\ reader' = Listing(pump.order)
    /\ UNCHANGED <<unread, pump, listed, got, lost, writer>>

\* NewReader lists the streams whose first page has come up before any data.
Scan(n, end) ==
    /\ reader.op = "scan" /\ ~pump.sawData
    /\ Feed(n, end)
Scanned ==
    /\ reader.op = "scan" /\ (pump.sawData \/ pump.done)
    /\ reader' = Listing(pump.order)
    /\ UNCHANGED <<unread, pump, listed, got, lost, writer>>
\* The stream whose next packet the call under way needs.
Wanted == IF reader.op = "list" THEN {Head(reader.todo)}
          ELSE IF reader.op = "read" THEN {reader.stream} ELSE {}
FeedForPacket(n, end) ==
    /\ \E s \in Wanted : pump.queues[s] = <<>>
    /\ Feed(n, end)

Take(s) ==
    /\ pump.queues[s] # <<>>
    /\ pump' = [pump EXCEPT !.queues[s] = Tail(@)]
    /\ got' = [got EXCEPT ![s] = Append(@, Head(pump.queues[s]))]

\* The first packet of a stream is taken as its header.
ListStream ==
    /\ reader.op = "list"
    /\ LET s == Head(reader.todo)
       IN  \/ Take(s) /\ listed' = listed \cup {s}
           \/ pump.queues[s] = <<>> /\ pump.done /\ UNCHANGED <<pump, got, listed>>
    /\ reader' = Listing(Tail(reader.todo))
    /\ UNCHANGED <<unread, lost, writer>>
ReadPacket(s) ==
    /\ reader.op = "idle" /\ s \in listed
    /\ \/ Take(s) /\ UNCHANGED reader
       \/ /\ pump.queues[s] = <<>> /\ ~pump.done
          /\ reader' = [op |-> "read", stream |-> s]
          /\ UNCHANGED <<pump, got>>
    /\ UNCHANGED <<unread, listed, lost, writer>>
ReadReturns ==
    /\ reader.op = "read" /\ Take(reader.stream)
    /\ reader' = [op |-> "idle"]
    /\ UNCHANGED <<unread, listed, lost, writer>>
ReadEnds ==
    /\ reader.op = "read" /\ pump.queues[reader.stream] = <<>> /\ pump.done
    /\ reader' = [op |-> "idle"]
    /\ UNCHANGED <<unread, pump, listed, got, lost, writer>>

-----------------------------------------------------------------------------
Next ==
    \/ \E s \in Streams : \/ \E size \in Sizes \cup {FirstSize} : WritePacket(s, size)
                          \/ ForceFlush(s) \/ SetEOS(s) \/ ReadPacket(s)
    \/ \E order \in SetToSeqs(Streams) : Close(order)
    \/ OpenFile \/ Scanned \/ ListStream \/ ReadReturns \/ ReadEnds
    \/ \E n \in 0 .. MaxPerRead, end \in BOOLEAN :
           Scan(n, end) \/ FeedForPacket(n, end)

Spec == Init /\ [][Next]_vars

-----------------------------------------------------------------------------
(* Properties                                                              *)

PagesOf(s, pages) ==
    FlattenSeq([i \in DOMAIN pages |-> IF pages[i].serial = s THEN <<pages[i]>> ELSE <<>>])
Packet(s, n) == Lacing(n, sizes[s][n])
Number(packet) == packet[1].packet
Taken(s) == got[s] \o pump.queues[s]

\* Whatever is lost of a file, what a stream's reader is given are whole
\* packets as they were written, in their order and none twice: never the
\* beginning of one with the end of another.
PacketsWhole ==
    \A s \in Streams : \A i \in 1 .. Len(Taken(s)) :
        LET n == Number(Taken(s)[i])
        IN  /\ Taken(s)[i] = Packet(s, n)
            /\ i > 1 => n > Number(Taken(s)[i - 1])

\* The segments of packet n that are on a page the reader sees.
Arrived(s, n) ==
    {at \in ((1 .. Len(file)) \ lost) \X (1 .. MaxSegs) :
        LET page == file[at[1]]
        IN  /\ page.serial = s
            /\ at[2] \in DOMAIN page.segments /\ page.segments[at[2]].packet = n}

\* A lost page costs the packets it has a part of and no others: those of
\* which every page arrived have all been read when ReadPacket says io.EOF.
LossIsContained ==
    \A s \in listed :
        reader.op = "idle" /\ pump.done /\ pump.queues[s] = <<>> =>
            \A n \in 1 .. Len(sizes[s]) :
                Cardinality(Arrived(s, n)) = Len(Packet(s, n)) =>
                    \E i \in 1 .. Len(got[s]) : Number(got[s][i]) = n

\* Close leaves nothing behind: the pages of a stream hold all its packets,
\* and its last one, that page alone, is marked as the end if SetEOS was
\* called and there was still a packet to mark.
CloseFinishes ==
    [][closed' /\ ~closed /\ reader' = reader =>
          \A s \in Streams :
              LET pages == PagesOf(s, file')
              IN  /\ FlattenSeq([i \in 1 .. Len(pages) |-> pages[i].segments])
                       = FlattenSeq([n \in 1 .. Len(sizes[s]) |-> Packet(s, n)])
                  /\ \A i \in 1 .. Len(pages) :
                        pages[i].eos <=> /\ i = Len(pages)
                                         /\ eosFlag[s] /\ pending[s] # 0]_vars

\* NewReader finds every stream whose first page is among those in front of
\* the first page of data.  (The Writer does not see to it that they all are.)
StreamsFound ==
    reader.op \in {"idle", "read"} =>
        \A i \in (1 .. Len(file)) \ lost :
            /\ file[i].bos
            /\ \A j \in (1 .. i) \ lost : file[j].bos
            => file[i].serial \in listed
=============================================================================
