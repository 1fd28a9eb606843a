SPECIFICATION Spec
CONSTANTS
    MaxFrames = 4
    MaxFalse = 1
    MaxPerCall = 2
INVARIANT EveryFrameIsAPacket
CHECK_DEADLOCK FALSE
