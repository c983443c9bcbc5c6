SPECIFICATION Spec
CONSTANTS
    Commands <- MCForceDry
    MaxSends = 4
    MaxCrashes = 0
    MaxDeletes = 0
PROPERTIES
    NoPaperClose
