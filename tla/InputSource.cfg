CONSTANTS
    a = a
    b = b
    Sample = {a, b}
    Zero = a
    Size = 2
    Word = 4
    MaxSent = 6
    MaxOffered = 6
    Slices <- MCSlices
    Wants <- MCWants
SPECIFICATION SourceSpec
INVARIANTS
    QuietEndIsDrained
PROPERTIES
    ClosedSourceEnds
