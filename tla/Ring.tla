-------------------------------- MODULE Ring --------------------------------
(***************************************************************************)
(* buffers.Ring (buffers/buffers.go): the lock-free single-producer        *)
(* single-consumer ring under mixer.Mixer and timeline.InputSource.        *)
(*                                                                         *)
(* Every atomic load, every slot access and every atomic store is a step   *)
(* of its own, so the two goroutines interleave as finely as the code      *)
(* lets them.  head and tail are uint64 counters that wrap at Word and are *)
(* masked to a slot only when a slot is touched.                           *)
(*                                                                         *)
(* sent, rcvd, wRoom, rAvail and room are history: how far the two         *)
(* streams have come since the last Reset, and what was true when a call   *)
(* began.  No action's guard reads them, but for the bound MaxSent.        *)
(***************************************************************************)
EXTENDS Integers, Sequences

CONSTANTS Sample,   \* the sample values
          Zero,     \* the sample a new ring is filled with
          Size,     \* capacity, a power of two in the code (NewRing)
          Word,     \* the counters are integers modulo Word (2^64)
          Slices,   \* the slices a caller passes to Write
          Wants,    \* the lengths of the slices a caller passes to Read
          MaxSent   \* bound on the samples written between two Resets

ASSUME RingAssumption ==
    /\ Zero \in Sample
    /\ Size \in Nat \ {0}
    /\ Word \in Nat
    /\ Word % Size = 0
    /\ Size < Word
    /\ Slices \subseteq Seq(Sample)
    /\ Wants \subseteq Nat
    /\ MaxSent \in Nat

VARIABLES
    buf, head, tail,                        \* shared
    wpc, src, wHead, wN, wI,                \* the producer's call
    rpc, want, rHead, rTail, rN, dst,       \* the consumer's call
    got,                                    \* what the last Read returned
    sent, rcvd, wRoom, rAvail, room         \* history

shared   == <<buf, head, tail>>
producer == <<wpc, src, wHead, wN, wI, wRoom, room>>
consumer == <<rpc, want, rHead, rTail, rN, dst, got, rAvail>>
ringVars == <<shared, producer, consumer, sent, rcvd>>

Min2(a, b) == IF a <= b THEN a ELSE b

\* uint64 subtraction of two counters.
Dist(a, b) == (a - b) % Word

\* The slot a counter value falls on: (counter & mask) after uint64 addition.
Slot(i) == (i % Word) % Size

Queued == sent - rcvd

\* A returning call's local variables are gone.
DropWriteLocals == wHead' = 0 /\ wN' = 0 /\ wI' = 0 /\ wRoom' = 0
DropReadLocals ==
    want' = 0 /\ rHead' = 0 /\ rTail' = 0 /\ rN' = 0 /\ dst' = <<>> /\ rAvail' = 0

Init ==
    /\ buf = [i \in 0 .. (Size - 1) |-> Zero]
    /\ head = 0
    /\ tail = 0
    /\ wpc = "idle"
    /\ src = <<>>
    /\ wHead = 0
    /\ wN = 0
    /\ wI = 0
    /\ rpc = "idle"
    /\ want = 0
    /\ rHead = 0
    /\ rTail = 0
    /\ rN = 0
    /\ dst = <<>>
    /\ got = <<>>
    /\ sent = 0
    /\ rcvd = 0
    /\ wRoom = 0
    /\ rAvail = 0
    /\ room = 0

-----------------------------------------------------------------------------
(* Write: load head, load tail, copy the samples that fit, publish head.   *)

WriteCall(s) ==
    /\ wpc = "idle"
    /\ sent + Len(s) <= MaxSent
    /\ wpc' = "tail"
    /\ src' = s
    /\ wHead' = head
    /\ wRoom' = Size - Queued
    /\ UNCHANGED <<shared, wN, wI, room, consumer, sent, rcvd>>

\* The room left behind tail t.  The mutants use mask, and one slot too many.
MutFreeMask(t) == (Size - 1) - Dist(wHead, t)
MutFreeOver(t) == (Size + 1) - Dist(wHead, t)
Free(t) == Size - Dist(wHead, t)

WriteLoadTail ==
    /\ wpc = "tail"
    /\ wpc' = "copy"
    /\ wN' = Min2(Len(src), Free(tail))
    /\ wI' = 0
    /\ UNCHANGED <<shared, src, wHead, wRoom, room, consumer, sent, rcvd>>

WriteCopy ==
    /\ wpc = "copy"
    /\ wI < wN
    /\ buf' = [buf EXCEPT ![Slot(wHead + wI)] = src[wI + 1]]
    /\ wI' = wI + 1
    /\ UNCHANGED <<head, tail, wpc, src, wHead, wN, wRoom, room, consumer,
                   sent, rcvd>>

\* head.Store.  The mutants publish before the last sample is copied, and
\* forget that the counter is a machine word.
PublishWhen(copied, newHead) ==
    /\ wpc = "copy"
    /\ copied
    /\ wpc' = "idle"
    /\ head' = newHead
    /\ sent' = sent + wN
    /\ room' = 0
    /\ DropWriteLocals
    /\ UNCHANGED <<buf, tail, src, consumer, rcvd>>

MutPublishEarly == PublishWhen(wI + 1 >= wN, (wHead + wN) % Word)
WritePublish    == PublishWhen(wI = wN, (wHead + wN) % Word)

-----------------------------------------------------------------------------
(* Len on the producer's side, as mixer.run uses it: load head, load tail. *)
(* room is what the producer then takes to be free: Cap() - Len().         *)

LenCall ==
    /\ wpc = "idle"
    /\ wpc' = "len"
    /\ wHead' = head
    /\ UNCHANGED <<shared, src, wN, wI, wRoom, room, consumer, sent, rcvd>>

\* The occupancy Len computes.  The mutant subtracts as if nothing wrapped.
MutLenSigned(t) == wHead - t
LenOf(t) == Dist(wHead, t)

LenLoadTail ==
    /\ wpc = "len"
    /\ wpc' = "idle"
    /\ room' = Size - LenOf(tail)
    /\ DropWriteLocals
    /\ UNCHANGED <<shared, src, consumer, sent, rcvd>>

-----------------------------------------------------------------------------
(* Read: load head, load tail, copy what is there, publish tail.           *)

ReadCall(n) ==
    /\ rpc = "idle"
    /\ rpc' = "tail"
    /\ want' = n
    /\ rHead' = head
    /\ rAvail' = Queued
    /\ UNCHANGED <<shared, producer, rTail, rN, dst, got, sent, rcvd>>

ReadLoadTail ==
    /\ rpc = "tail"
    /\ rpc' = "copy"
    /\ rTail' = tail
    /\ rN' = Min2(want, Dist(rHead, tail))
    /\ dst' = <<>>
    /\ UNCHANGED <<shared, producer, want, rHead, got, rAvail, sent, rcvd>>

ReadCopy ==
    /\ rpc = "copy"
    /\ Len(dst) < rN
    /\ dst' = Append(dst, buf[Slot(rTail + Len(dst))])
    /\ UNCHANGED <<shared, producer, rpc, want, rHead, rTail, rN, got, rAvail,
                   sent, rcvd>>

ReadPublish ==
    /\ rpc = "copy"
    /\ Len(dst) = rN
    /\ rpc' = "idle"
    /\ tail' = (rTail + rN) % Word
    /\ rcvd' = rcvd + rN
    /\ got' = dst
    /\ DropReadLocals
    /\ UNCHANGED <<buf, head, producer, sent>>

-----------------------------------------------------------------------------
\* Reset is the caller's to serialise: neither side may be in a call.
Reset ==
    /\ wpc = "idle"
    /\ rpc = "idle"
    /\ head' = 0
    /\ tail' = 0
    /\ sent' = 0
    /\ rcvd' = 0
    /\ room' = 0
    /\ UNCHANGED <<buf, wpc, src, wHead, wN, wI, wRoom, consumer>>

Next ==
    \/ \E s \in Slices : WriteCall(s)
    \/ WriteLoadTail
    \/ WriteCopy
    \/ WritePublish
    \/ LenCall
    \/ LenLoadTail
    \/ \E n \in Wants : ReadCall(n)
    \/ ReadLoadTail
    \/ ReadCopy
    \/ ReadPublish
    \/ Reset

Spec == Init /\ [][Next]_ringVars

-----------------------------------------------------------------------------
TypeOK ==
    /\ buf \in [0 .. (Size - 1) -> Sample]
    /\ head \in 0 .. (Word - 1)
    /\ tail \in 0 .. (Word - 1)
    /\ wpc \in {"idle", "tail", "copy", "len"}
    /\ src \in Seq(Sample)
    /\ wHead \in 0 .. (Word - 1)
    /\ wN \in Nat
    /\ wI \in Nat
    /\ rpc \in {"idle", "tail", "copy"}
    /\ want \in Nat
    /\ rHead \in 0 .. (Word - 1)
    /\ rTail \in 0 .. (Word - 1)
    /\ rN \in Nat
    /\ dst \in Seq(Sample)
    /\ got \in Seq(Sample)
    /\ sent \in Nat
    /\ rcvd \in Nat
    /\ wRoom \in Int
    /\ rAvail \in Int
    /\ room \in Int

\* The producer never touches the slot the consumer is about to copy from:
\* the plain (non-atomic) accesses to buf in Write and Read do not race.
SlotsDisjoint ==
    (wpc = "copy" /\ wI < wN /\ rpc = "copy" /\ Len(dst) < rN)
        => Slot(wHead + wI) # Slot(rTail + Len(dst))

\* A Write takes everything that fitted when it was called, and a Read
\* everything that was queued when it was called, up to the slice's length:
\* a stale view of the other side's counter only ever errs on the safe side.
TakesWhatFits ==
    /\ wpc = "copy" => wN >= Min2(Len(src), wRoom)
    /\ rpc = "copy" => rN >= Min2(want, rAvail)

\* The room the producer computed from Len stays there until it writes,
\* whatever the consumer does meanwhile: what mixer.run relies on when it
\* ignores the result of its Write.
RoomIsKept == room <= Size - Queued

\* The ring implements the FIFO: a Write takes effect when head is stored, a
\* Read when tail is.
FIFO == INSTANCE SampleFifo
            WITH lo <- rcvd, hi <- sent, offered <- src,
                 item <- [p \in rcvd .. (sent - 1) |-> buf[p % Size]]

ImplementsFifo == FIFO!Spec

=============================================================================
