SPECIFICATION Spec
CONSTANTS
    w1 = w1
    w2 = w2
    Writers = {w1, w2}
    EditKinds = {"content", "badSeq", "delete"}
    MaxRecords = 3
    MaxFaults = 2
    MaxEdits = 1
SYMMETRY Interchangeable
CHECK_DEADLOCK FALSE
INVARIANTS
    NoFalseTamper
    CommittedStays
    OneChain
PROPERTIES
    EvidenceStays
