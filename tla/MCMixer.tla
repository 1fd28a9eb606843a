------------------------------- MODULE MCMixer ------------------------------
(* The instances of Mixer that TLC checks.  In Mixer.cfg two live tracks, two *)
(* setters and two closers, an output ring of four chunks and callbacks of   *)
(* half a chunk, so that the ring is left with less than a chunk free.  In   *)
(* MixerLive.cfg a file track and a live one, a channel of one operation, and *)
(* a device that has stopped calling back, so that the ring stays full.      *)
EXTENDS Mixer, TLC

CONSTANTS file, mic, line, s1, s2, k1, k2, full, low

\* The tracks are alike, and so are the callers.
Alike == Permutations(Tracks) \cup Permutations(Setters) \cup Permutations(Closers)

=============================================================================
