--------------------------- MODULE MCInputSource ----------------------------
(* A two-sample ring, callbacks that fill it in part and overrun it, and    *)
(* pulls shorter and longer than what it holds.                             *)
EXTENDS InputSource

CONSTANTS a, b

MCSlices == {<<a>>, <<b, a, b>>}
MCWants  == {1, 3}

=============================================================================
