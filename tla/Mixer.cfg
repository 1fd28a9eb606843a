CONSTANTS
    file = file
    mic = mic
    line = line
    s1 = s1
    s2 = s2
    k1 = k1
    k2 = k2
    full = full
    low = low
    Tracks = {mic, line}
    LiveTracks = {mic, line}
    Setters = {s1, s2}
    Closers = {k1, k2}
    Gains = {full, low}
    Unity = full
    PendingCap = 2
    RingCap = 8
    Chunk = 2
    Channels = 1
    LiveFloor = 4
    Fills = {1}
    MaxCalls = 2
SPECIFICATION Spec
INVARIANTS
    LiveAheadBounded
    NoChunkLost
    DoneMatchesEvents
    GainsAgree
    CloseFinishesExisting
SYMMETRY Alike
CHECK_DEADLOCK FALSE
