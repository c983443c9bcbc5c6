SPECIFICATION Spec
CONSTANTS
    w1 = w1
    w2 = w2
    Writers = {w1}
    EditKinds = {"content", "badSeq", "delete"}
    MaxRecords = 3
    MaxFaults = 2
    MaxEdits = 0
CHECK_DEADLOCK FALSE
INVARIANT
    CrashIsNotTamper
