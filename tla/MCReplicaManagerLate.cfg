CONSTANTS
    Host = h
    Replicas = {r1, r2}
    NoAddr = NoAddr
    MAXSERVERS = 3
    Garbage <- NoGarbage
    FilePackets <- AFilePacket
    Patient = FALSE
    MaxCrashes = 0
    MaxReplications = 1
SPECIFICATION Spec
SYMMETRY Symmetry
INVARIANTS
    DistinctIds
    NeverOrphaned
