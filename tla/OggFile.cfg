SPECIFICATION Spec
CONSTANTS
    a = a
    b = b
    Streams <- MCStreams
    SegMax = 2
    MaxSegs = 3
    NominalFill = 0
    PageMin = 1
    FirstSize = 1
    Sizes = {1, 12}
    MaxPackets = 5
    MaxDamaged = 1
    MaxPerRead = 2
SYMMETRY MCSymmetry
INVARIANTS
    PacketsWhole
    LossIsContained
    StreamsFound
PROPERTIES
    CloseFinishes
CHECK_DEADLOCK FALSE
