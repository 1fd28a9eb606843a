----------------------------- MODULE OggFraming -----------------------------
(***************************************************************************)
(* Ogg framing (libraries/ogg: libogg's framing.c, and the native port     *)
(* that follows it statement for statement): how packets are cut into      *)
(* segments, segments grouped into pages, and pages turned into packets    *)
(* again when some of them are missing.  Operators only; OggFile has the   *)
(* state.                                                                  *)
(*                                                                         *)
(* A segment is its lacing value and the packet it is of, which the        *)
(* decoder never looks at.  Granule positions, checksums and the layout of *)
(* the header are left out: a page that does not match its checksum is one *)
(* the decoder never sees.                                                 *)
(***************************************************************************)
EXTENDS Integers, Sequences, SequencesExt, FiniteSetsExt

CONSTANTS
    SegMax,      \* 255, the lacing value that says the packet goes on
    MaxSegs,     \* 255, the segments of a full page
    NominalFill, \* 4096, the bytes of a page that is large enough
    PageMin      \* 4, the packets it should then hold

ASSUME FramingAssumption ==
    /\ {SegMax, MaxSegs, PageMin} \subseteq Nat \ {0} /\ NominalFill \in Nat

\* first is the flag 0x100 of lacing_vals: the packet begins here.
Segment(packet, val, first) == [packet |-> packet, val |-> val, first |-> first]
Ends(segment) == segment.val < SegMax

-----------------------------------------------------------------------------
(* Encoding                                                                *)

NewEncoder == [lacing |-> <<>>, begun |-> FALSE, eos |-> FALSE, pageno |-> 0]

\* A packet whose size is a multiple of SegMax ends in an empty segment.
Lacing(packet, bytes) ==
    [i \in 1 .. bytes \div SegMax + 1 |->
        Segment(packet, IF i <= bytes \div SegMax THEN SegMax ELSE bytes % SegMax,
                i = 1)]

PacketIn(enc, packet, bytes, eos) ==
    [enc EXCEPT !.lacing = @ \o Lacing(packet, bytes), !.eos = @ \/ eos]

Bytes(segments) == FoldLeft(LAMBDA sum, seg : sum + seg.val, 0, segments)
PacketsEnded(segments) == Len(SelectSeq(segments, Ends))

\* After these segments the page is large enough, and a packet has just ended.
LargeEnough(segments) ==
    /\ segments # <<>> /\ Ends(Last(segments))
    /\ Bytes(segments) > NominalFill
    /\ PacketsEnded(segments) >= PageMin

\* The lengths at which the loops of ogg_stream_flush_i break off.
Breaks(enc, most) ==
    IF enc.begun
    THEN {n \in 0 .. most - 1 : LargeEnough(SubSeq(enc.lacing, 1, n))}
    ELSE {n \in 1 .. most : Ends(enc.lacing[n])}

\* ogg_stream_flush_i: the segments of the next page; 0 if there is nothing
\* to write, or nothing that has to be written yet.
PageLength(enc, force) ==
    LET most == Min({Len(enc.lacing), MaxSegs})
        breaks == Breaks(enc, most)
        vals == IF breaks = {} THEN most ELSE Min(breaks)
    IN  IF force \/ (enc.begun /\ (breaks # {} \/ vals = MaxSegs)) THEN vals ELSE 0

\* Every page of an ended stream says that it is the last.
MutPage(enc, serial, vals) ==
    [serial |-> serial, no |-> enc.pageno,
     continued |-> ~enc.lacing[1].first, bos |-> ~enc.begun, eos |-> enc.eos,
     segments |-> SubSeq(enc.lacing, 1, vals)]

Page(enc, serial, vals) ==
    [serial |-> serial, no |-> enc.pageno,
     continued |-> ~enc.lacing[1].first, bos |-> ~enc.begun,
     eos |-> enc.eos /\ Len(enc.lacing) = vals,
     segments |-> SubSeq(enc.lacing, 1, vals)]

AfterPage(enc, vals) ==
    [enc EXCEPT !.lacing = SubSeq(@, vals + 1, Len(@)), !.begun = TRUE,
                !.pageno = @ + 1]

\* ogg_stream_pageout writes a page that is not full for two reasons.
MustPageOut(enc) == enc.lacing # <<>> /\ (enc.eos \/ ~enc.begun)

\* One call of ogg_stream_pageout, or of ogg_stream_flush.
NextPage(out, serial, flush) ==
    LET vals == PageLength(out.enc, flush \/ MustPageOut(out.enc))
    IN  IF vals = 0 THEN out
        ELSE [enc |-> AfterPage(out.enc, vals),
              pages |-> Append(out.pages, Page(out.enc, serial, vals))]

\* The pages that a caller gets by calling it until there are no more, and the
\* encoder after them.  A page takes a segment at least.
Drained(enc, serial, flush, pages) ==
    LET after[n \in 0 .. Len(enc.lacing)] ==
            IF n = 0 THEN [enc |-> enc, pages |-> pages]
            ELSE NextPage(after[n - 1], serial, flush)
    IN  after[Len(enc.lacing)]

-----------------------------------------------------------------------------
(* Decoding.  The caller takes every packet there is after each page, so   *)
(* that the segments left over are those of a packet that goes on.         *)

NewDecoder == [partial |-> <<>>, pageno |-> 0]

\* The whole page is skipped.
MutContinuation(segments) == Len(segments)

\* The segments before the first packet that begins on a continued page.
Continuation(segments) ==
    LET ends == {n \in 1 .. Len(segments) : Ends(segments[n])}
    IN  IF ends = {} THEN Len(segments) ELSE Min(ends)

\* A page out of sequence leaves the packet that was going on as it is.
MutKept(dec, page) == dec.partial

\* A page out of sequence ends the packet that was going on.
Kept(dec, page) == IF page.no = dec.pageno THEN dec.partial ELSE <<>>

\* ogg_stream_pagein.  What continues a packet that is not there is skipped.
PageIn(dec, page) ==
    LET kept == Kept(dec, page)
        skip == IF page.continued /\ kept = <<>>
                THEN Continuation(page.segments) ELSE 0
    IN  [partial |-> kept \o SubSeq(page.segments, skip + 1, Len(page.segments)),
         pageno |-> page.no + 1]

\* ogg_stream_packetout, until it has no more.  It goes through the segments
\* and returns a packet, the sequence of its segments, where one ends; the rest
\* is left for the next page.  A hole is returned as -1, and skipped.
Gather(out, segment) ==
    LET packet == Append(out.partial, segment)
    IN  IF Ends(segment) THEN [packets |-> Append(out.packets, packet), partial |-> <<>>]
        ELSE [packets |-> out.packets, partial |-> packet]

PacketsOut(segments) ==
    LET after[n \in 0 .. Len(segments)] ==
            IF n = 0 THEN [packets |-> <<>>, partial |-> <<>>]
            ELSE Gather(after[n - 1], segments[n])
    IN  after[Len(segments)]
=============================================================================
