SPECIFICATION Spec
CONSTANTS
    EntrySize = 3
    OMin = 2
    FlatAt = 1
    EscMarketAfter = 1
    ExitSlots <- MCExitSlots
    MaxDoubt = 1
INVARIANT
    ClosedOnce
