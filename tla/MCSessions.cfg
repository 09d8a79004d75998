CONSTANTS
    Users = {u1, u2}
    NoUser = NoUser
    MAXCLIENTS = 2
    MAIN_PORT = 6000
    Threads = {t1, t2}
SPECIFICATION Spec
SYMMETRY Symmetry
INVARIANTS
    TypeOK
    OwnDirectory
    UniqueEntries
    OneReceiverPerPort
    ServesBoundSocket
    BindsFreshPort
PROPERTIES
    LeakIsPermanent
    ReassignedOnlyWhenIdle
