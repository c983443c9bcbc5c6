SPECIFICATION Spec
CONSTANTS
    Commands <- MCCommands
    MaxSends = 3
    MaxCrashes = 1
    MaxDeletes = 1
INVARIANTS
    BookIsReal
PROPERTIES
    Sealed
    RiskOffHolds
    CommandsAreHandled
