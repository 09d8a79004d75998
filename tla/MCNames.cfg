SPECIFICATION Spec
CONSTANTS
    Characters <- TheCharacters
    Created <- TheNames
    Strandable <- TheStrandable
    Commands <- TheCommands
    MaxChanges = 5
INVARIANTS
    TypeOK
    ContentFollowsName
    EnumeratesListing
PROPERTIES
    SyncStrandsForAReason
CHECK_DEADLOCK FALSE
