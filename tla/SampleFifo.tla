----------------------------- MODULE SampleFifo -----------------------------
(***************************************************************************)
(* What a buffers.Ring promises its two users: a bounded FIFO of samples   *)
(* in which a Write and a Read each take effect at one instant.  Samples   *)
(* carry their position in the stream: positions lo .. hi - 1 are queued,  *)
(* lo is the next to be read and hi the next to be written.                *)
(***************************************************************************)
EXTENDS Integers, Sequences

CONSTANTS Sample,   \* the sample values
          Size      \* the capacity of the queue

VARIABLES lo, hi,   \* the queued positions are lo .. hi - 1
          item,     \* the sample at each queued position
          offered,  \* the slice the producer offered last
          got       \* what the last Read returned

vars == <<lo, hi, item, offered, got>>

Empty == [p \in {} |-> 0]

Init ==
    /\ lo = 0
    /\ hi = 0
    /\ item = Empty
    /\ offered = <<>>
    /\ got = <<>>

\* The producer comes with a new slice; nothing is queued yet.
Offer ==
    /\ offered' \in Seq(Sample)
    /\ UNCHANGED <<lo, hi, item, got>>

\* A prefix of the offered slice is queued behind what is queued already, and
\* never more than the queue has room for.
Write ==
    /\ hi' \in hi .. (hi + Len(offered))
    /\ hi' - lo <= Size
    /\ item' = [p \in lo .. (hi' - 1) |->
                    IF p < hi THEN item[p] ELSE offered[p - hi + 1]]
    /\ UNCHANGED <<lo, offered, got>>

\* The oldest samples leave the queue, in order, and are what the Read returns.
Read ==
    /\ lo' \in lo .. hi
    /\ item' = [p \in lo' .. (hi - 1) |-> item[p]]
    /\ got' = [j \in 1 .. (lo' - lo) |-> item[lo + j - 1]]
    /\ UNCHANGED <<hi, offered>>

\* Everything queued is discarded and positions start again at zero.
Reset ==
    /\ lo' = 0
    /\ hi' = 0
    /\ item' = Empty
    /\ UNCHANGED <<offered, got>>

Next == Offer \/ Write \/ Read \/ Reset

Spec == Init /\ [][Next]_vars

=============================================================================
