SPECIFICATION Spec
CONSTANTS
    o1 = o1
    Others = {o1}
    FailHalt = 2
    MaxCrashes = 1
    MaxClears = 2
INVARIANTS
    RefusesUntilCleared
    WedgeRefuses
