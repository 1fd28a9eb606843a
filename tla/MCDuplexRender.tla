--------------------------- MODULE MCDuplexRender ---------------------------
(* Frames of three samples and a fade of two, chunks of one, two and four    *)
(* samples so that a chunk ends in a partial frame and one Write completes a *)
(* frame begun by another; two boundaries and a clear at any moment.         *)
EXTENDS DuplexRender

=============================================================================
