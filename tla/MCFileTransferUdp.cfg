CONSTANTS
    CHUNK = 3
    SHORT = 4
    Sizes <- LossySizes
    OldSizes <- SmallOld
    Garbage <- AnyGarbage
    Opens = {TRUE, FALSE}
    MaxLost = 1
    MaxDup = 2
SPECIFICATION FairSpec
INVARIANTS
    TypeOK
    Intact
    NothingMissing
    ReturnTogether
    StrandedReceiver
PROPERTIES
    BothReturn
    CopiesInChunks
CHECK_DEADLOCK FALSE
