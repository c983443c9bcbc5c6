SPECIFICATION RecoverySpec
CONSTANTS
    MaxOrders = 1
    MaxSize = 2
    Requests = {2}
    FmtVolume <- MCFmtVolume
    OrderMin = 1
    ChunkSize = 1
    MaxCrashes = 1
PROPERTIES
    CleanStopKeepsFills
