SPECIFICATION RecoverySpec
CONSTANTS
    MaxOrders = 1
    MaxSize = 3
    Requests = {2, 3}
    FmtVolume <- MCFmtVolume
    OrderMin = 1
    ChunkSize = 1
    MaxCrashes = 3
INVARIANTS
    BookNeverAhead
PROPERTIES
    OfflineFillsReachTheBook
