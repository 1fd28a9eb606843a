CONSTANTS
    file = file
    mic = mic
    line = line
    s1 = s1
    s2 = s2
    k1 = k1
    k2 = k2
    full = full
    low = low
    Tracks = {file, mic}
    LiveTracks = {mic}
    Setters = {s1}
    Closers = {k1}
    Gains = {full, low}
    Unity = full
    PendingCap = 1
    RingCap = 4
    Chunk = 2
    Channels = 1
    LiveFloor = 4
    Fills = {}
    MaxCalls = 2
SPECIFICATION FairSpec
PROPERTIES
    RemovalCloses
    CallsReturn
CHECK_DEADLOCK FALSE
