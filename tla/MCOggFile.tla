----------------------------- MODULE MCOggFile ------------------------------
(* Two streams for TLC, and the symmetry between them: each stream has its *)
(* own state on both sides, and Close takes them in any order.             *)
EXTENDS OggFile

CONSTANTS a, b
MCStreams == {a, b}
MCSymmetry == Permutations(MCStreams)
=============================================================================
