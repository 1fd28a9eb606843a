------------------------------- MODULE MCRing -------------------------------
(* The instance of Ring that TLC checks: two sample values; slices empty,   *)
(* shorter and longer than the ring, and reads of one, two and five.       *)
EXTENDS Ring

CONSTANTS a, b

MCSlices == {<<>>, <<a>>, <<b, a, b>>, <<a, b, b, a, b>>}
MCWants  == {1, 2, 5}

=============================================================================
