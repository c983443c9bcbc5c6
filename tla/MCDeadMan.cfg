SPECIFICATION Spec
CONSTANTS
    e1 = e1
    e2 = e2
    x1 = x1
    Orders = {e1, e2, x1}
    Exits = {x1}
    T = 8
    Gap = 2
    MaxFaults = 2
CHECK_DEADLOCK FALSE
INVARIANTS
    OneMissIsSafe
    GoneIsCovered
PROPERTIES
    RestingEnds
