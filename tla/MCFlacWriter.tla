---------------------------- MODULE MCFlacWriter -----------------------------
(***************************************************************************)
(* Four frames, of which each may hold a false code, encoded one or two at *)
(* a time or not at all.                                                   *)
(***************************************************************************)
EXTENDS FlacWriter
=============================================================================
