SPECIFICATION Spec
CONSTANTS
    f1 = f1
    f2 = f2
    Modes = {"paper", "live"}
    Fills = {f1, f2}
    Scripts = {}
    MaxStops = 2
    MaxFails = 1
    MaxRot = 1
INVARIANTS
    NeverOlderThanSaved
    NoSavedFillIsLost
