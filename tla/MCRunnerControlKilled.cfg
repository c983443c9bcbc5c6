SPECIFICATION Spec
CONSTANTS
    Commands <- MCForceDry
    MaxSends = 2
    MaxCrashes = 1
    MaxDeletes = 0
PROPERTIES
    ForcedRestartKeepsBook
