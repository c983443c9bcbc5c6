SPECIFICATION Spec
CONSTANTS
    EntrySize = 3
    OMin = 2
    FlatAt = 0
    EscMarketAfter = 1
    ExitSlots <- MCExitSlots
    MaxDoubt = 1
INVARIANTS
    OneLiveExit
    NeverOversold
    BookMatchesVenue
PROPERTIES
    FlattenEscalates
