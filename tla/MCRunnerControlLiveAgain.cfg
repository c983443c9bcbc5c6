SPECIFICATION Spec
CONSTANTS
    Commands <- MCForceDry
    MaxSends = 3
    MaxCrashes = 0
    MaxDeletes = 1
PROPERTIES
    LiveRestartKeepsBook
