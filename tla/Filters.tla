------------------------------ MODULE Filters ------------------------------
(* What a loop keeps of a list.                                            *)
EXTENDS Sequences, SequencesExt

\* The elements of s that are in T, in the order they have in s.
Keep(s, T) == FlattenSeq([i \in DOMAIN s |-> IF s[i] \in T THEN <<s[i]>> ELSE <<>>])

=============================================================================
