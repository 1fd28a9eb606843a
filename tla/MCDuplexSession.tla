-------------------------- MODULE MCDuplexSession ---------------------------
(* Two calls of Start, two of Stop, a channel of one event and ticks of up   *)
(* to two, so that the audio goroutine blocks in the middle of a tick.       *)
EXTENDS DuplexSession

CONSTANTS u1, u2, c1, c2

=============================================================================
