CONSTANTS
    FrameSamples = 3
    FadeSamples = 2
    Channels = 1
    BedSamples = 2
    ChunkLengths = {1, 2, 4}
    MaxFed = 8
    MaxMarks = 2
    MaxClears = 1
SPECIFICATION RenderSpec
INVARIANTS
    VoiceIsKept
    ChunksDoNotMix
PROPERTIES
    FadesAtSeams
    WholeIsPlayed
CHECK_DEADLOCK FALSE
