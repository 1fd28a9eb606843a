CONSTANTS
    a = a
    b = b
    Sample = {a, b}
    Zero = a
    Size = 4
    Word = 8
    MaxSent = 9
    Slices <- MCSlices
    Wants <- MCWants
SPECIFICATION Spec
INVARIANTS
    SlotsDisjoint
    TakesWhatFits
    RoomIsKept
PROPERTIES
    ImplementsFifo
