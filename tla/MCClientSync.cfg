CONSTANTS
    Files = {a}
    Strandable = {}
    SyncThreads = {s1, s2}
    MaxCommands = 1
    MaxOther = 0
    Wedges = FALSE
SPECIFICATION Spec
INVARIANT OneSyncThread
CHECK_DEADLOCK FALSE
