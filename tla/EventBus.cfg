CONSTANTS
    p1 = p1
    p2 = p2
    a = a
    b = b
    Publishers = {p1, p2}
    Subscribers = {a, b}
    MaxPublishes = 2
SPECIFICATION BusSpec
INVARIANTS
    CalledInOrder
    NobodyMissed
    AtMostOneLate
SYMMETRY Alike
CHECK_DEADLOCK FALSE
