CONSTANTS
    FrameSamples = 2
    CaptureBuffer = 5
    Batch = 2
    LeadInFrames = 1
    TagsPerFrame = 2
    PreRollSamples = 5
    PushLengths = {1, 2, 3}
    MaxPushed = 10
SPECIFICATION Spec
INVARIANTS
    NothingLost
    TagsExact
    Utterances
    OnsetIsWhole
CHECK_DEADLOCK FALSE
