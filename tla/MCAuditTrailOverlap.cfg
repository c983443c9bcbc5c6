SPECIFICATION Spec
CONSTANTS
    w1 = w1
    w2 = w2
    Writers = {w1, w2}
    EditKinds = {"content", "badSeq", "delete"}
    MaxRecords = 3
    MaxFaults = 1
    MaxEdits = 0
SYMMETRY Interchangeable
CHECK_DEADLOCK FALSE
INVARIANT
    OnlyIncompleteIsCut
