----------------------------- MODULE FlacWriter ------------------------------
(***************************************************************************)
(* Ogg FLAC files (containers/ogg/flac.go): FLACWriter takes what its FLAC *)
(* encoder writes apart again into frames, one Ogg packet each.  It finds  *)
(* where a frame ends by looking for the code that begins the next one;    *)
(* the data of a frame may contain such a code too, which is told apart    *)
(* by the checksum every frame ends in.                                    *)
(*                                                                         *)
(* The encoder's bytes are cut at every code at which a frame may seem to  *)
(* begin: a piece is its frame, its number in it and the number of the     *)
(* frame's pieces, so that a frame without a false code is one piece.      *)
(* Codes in a frame's first five bytes, which the search skips, are left   *)
(* out, and so are the headers in front of the frames.  One goroutine      *)
(* makes all calls.                                                        *)
(***************************************************************************)
EXTENDS Integers, Sequences, SequencesExt

CONSTANTS
    MaxFrames,    \* bound on the frames
    MaxFalse,     \* bound on the false codes in one frame
    MaxPerCall    \* bound on the frames that the encoder writes in one call

VARIABLES
    pendingFrame,  \* FLACWriter.pendingFrame: pieces without an end in sight
    closed,        \* FLACWriter.closed
    failed,        \* a call has returned an error
    packets,       \* the Ogg packets of the file, each a sequence of pieces
    frames         \* history: the number of pieces of each frame encoded

vars == <<pendingFrame, closed, failed, packets, frames>>

Init ==
    /\ pendingFrame = <<>> /\ closed = FALSE /\ failed = FALSE
    /\ packets = <<>> /\ frames = <<>>

Pieces(frame, count) ==
    [k \in 1 .. count |-> [frame |-> frame, part |-> k, of |-> count]]

\* What the encoder writes for the frames after those there are.
Encoded(counts) ==
    FlattenSeq([i \in 1 .. Len(counts) |-> Pieces(Len(frames) + i, counts[i])])

\* The checksum in front of the next code is that of the bytes since the last.
IsFrame(piece) == piece.of = 1

\* splitFLACFrames: whether a frame ends at a code or not, the next one is taken
\* to begin there, so that what it cuts off is always one piece: a frame, or
\* passed over.  The last piece is kept back, or when the writer is closed taken
\* for a frame.
Split(pieces, final) ==
    IF pieces = <<>> THEN [frames |-> <<>>, remainder |-> <<>>]
    ELSE LET found == SelectSeq(Front(pieces), IsFrame)
         IN  IF final THEN [frames |-> Append(found, Last(pieces)), remainder |-> <<>>]
             ELSE [frames |-> found, remainder |-> <<Last(pieces)>>]

\* drain and emitFrames: what the encoder has written is split behind what was
\* kept back, and each frame found is handed to the StreamWriter.
Drain(counts, final) ==
    LET split == Split(pendingFrame \o Encoded(counts), final)
    IN  /\ packets' = packets \o [i \in DOMAIN split.frames |-> <<split.frames[i]>>]
        /\ pendingFrame' = split.remainder
        /\ frames' = frames \o counts

Encode(counts) ==
    /\ ~closed
    /\ Drain(counts, FALSE)
    /\ UNCHANGED <<closed, failed>>

\* The encoder writes what it has left.  Close fails when the last piece begins
\* with a false code, and does not look like a frame's header.
Close(counts) ==
    /\ ~closed /\ closed' = TRUE
    /\ Drain(counts, TRUE)
    /\ failed' \in IF packets' # <<>> /\ Last(packets')[1].part > 1
                   THEN BOOLEAN ELSE {FALSE}

Next ==
    \E n \in 0 .. MaxPerCall : \E counts \in [1 .. n -> 1 .. MaxFalse + 1] :
        /\ Len(frames) + n <= MaxFrames
        /\ Encode(counts) \/ Close(counts)

Spec == Init /\ [][Next]_vars

-----------------------------------------------------------------------------
(* Properties                                                              *)

\* A file whose Close has succeeded holds every frame that the encoder wrote,
\* whole, as one packet: the comment on FLACWriter (flac.go:353-364) says that
\* there is "one packet per audio frame", and of codes inside a frame that
\* "false sync inside frame data is therefore rejected".
EveryFrameIsAPacket ==
    closed /\ ~failed =>
        packets = [n \in 1 .. Len(frames) |-> Pieces(n, frames[n])]
=============================================================================
