SPECIFICATION Spec
CONSTANTS
    f1 = f1
    f2 = f2
    Modes = {"paper"}
    Fills = {f1, f2}
    Scripts = {"reset"}
    MaxStops = 0
    MaxFails = 0
    MaxRot = 0
PROPERTIES
    ResetKeepsFills
