SPECIFICATION Spec
CONSTANTS
    MaxOrders = 2
    MaxSize = 3
    Requests = {1, 3}
    FmtVolume <- MCFmtVolume
    OrderMin = 2
    ChunkSize = 1
INVARIANTS
    ExactlyOnce
    NothingLeftBehind
PROPERTIES
    EveryOrderEnds
    EveryFillIsApplied
    ImplementsLedger
