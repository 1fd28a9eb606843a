----------------------------- MODULE MCTimeline -----------------------------
(* Two cues, of two frames, three frames or without an end, scheduled ahead  *)
(* of the cursor or behind it, with history kept or not.                     *)
EXTENDS Timeline

CONSTANTS a, b

LengthsMC == {2, 3, Indefinite}
DeltasMC == {-2, 1, 2}

\* The cues are alike.
Alike == Permutations(Cues)

=============================================================================
