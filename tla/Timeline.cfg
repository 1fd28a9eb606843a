CONSTANTS
    a = a
    b = b
    Cues = {a, b}
    Starts = {0, 1, 3}
    Lengths <- LengthsMC
    Factories = {TRUE, FALSE}
    PullSizes = {1, 2}
    Deltas <- DeltasMC
    MaxCursor = 5
    Second = 10
    Rate = 3
    Word = 4096
SPECIFICATION Spec
INVARIANTS
    InStep
    AppendsBackToBack
    NothingForgotten
SYMMETRY Alike
CHECK_DEADLOCK FALSE
