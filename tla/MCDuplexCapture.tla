-------------------------- MODULE MCDuplexCapture ---------------------------
(* Frames of two samples, pushes of one, two and three of them, so that a    *)
(* frame spans pushes and a push spans frames; a queue that two pushes fill, *)
(* ticks of at most two frames, a pre-roll of two.                           *)
EXTENDS DuplexCapture

=============================================================================
