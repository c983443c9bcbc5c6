SPECIFICATION LockSpec
CONSTANTS
    r1 = r1
    r2 = r2
    Runners = {r1, r2}
    Old = old
    LOST_LIMIT = 2
    Attempts = 3
    MaxMishaps = 2
    MaxCrashes = 1
CHECK_DEADLOCK FALSE
INVARIANTS
    OneDriver
    SomeoneRuns
    LeavesNothing
PROPERTIES
    Converges
