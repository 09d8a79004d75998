CONSTANTS
    Files = {a, b}
    Strandable = {b}
    SyncThreads = {s1, s2}
    MaxCommands = 1
    MaxOther = 1
    Wedges = TRUE
SPECIFICATION NewDevice
INVARIANTS
    TypeOK
    AckedIsServed
    AnswersOwnRequest
    DeleteSticks
    OneSyncThreadUnhurried
PROPERTY ExitEnds
CHECK_DEADLOCK FALSE
