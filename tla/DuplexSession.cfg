CONSTANTS
    u1 = u1
    u2 = u2
    c1 = c1
    c2 = c2
    Starters = {u1, u2}
    Stoppers = {c1, c2}
    EventBuffer = 1
    Burst = 2
    MaxEvents = 4
SPECIFICATION Spec
INVARIANTS
    NoPanic
    StopWaits
    FifoUntilHalt
PROPERTIES
    EndsOnceHalted
CHECK_DEADLOCK FALSE
