SPECIFICATION Spec
CONSTANTS
    f1 = f1
    f2 = f2
    Modes = {"paper"}
    Fills = {f1}
    Scripts = {"trainer", "reset"}
    MaxStops = 2
    MaxFails = 1
    MaxRot = 0
INVARIANTS
    KnownGood
PROPERTIES
    TrainerKeepsBook
