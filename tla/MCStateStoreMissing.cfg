SPECIFICATION Spec
CONSTANTS
    f1 = f1
    f2 = f2
    Modes = {"paper", "live"}
    Fills = {f1, f2}
    Scripts = {}
    MaxStops = 1
    MaxFails = 0
    MaxRot = 0
PROPERTIES
    MissingPrimaryIsNotFatal
