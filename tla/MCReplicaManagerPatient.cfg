CONSTANTS
    Host = h
    Replicas = {r1, r2}
    NoAddr = NoAddr
    MAXSERVERS = 2
    Garbage <- SomeGarbage
    FilePackets <- AFilePacket
    Patient = TRUE
    MaxCrashes = 1
    MaxReplications = 1
SPECIFICATION FairSpec
INVARIANTS
    TypeOK
    SlotReachesServer
    OnePrimary
PROPERTY Takeover
