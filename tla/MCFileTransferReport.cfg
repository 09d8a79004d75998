CONSTANTS
    CHUNK = 3
    SHORT = 4
    Sizes <- LossySizes
    OldSizes <- NoOld
    Garbage <- NoGarbage
    Opens = {TRUE}
    MaxLost = 0
    MaxDup = 0
SPECIFICATION Spec
INVARIANT UploadReported
CHECK_DEADLOCK FALSE
