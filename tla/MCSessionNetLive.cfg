CONSTANTS
    Users = {u1, u2}
    NoUser = NoUser
    MAXCLIENTS = 1
    MAIN_PORT = 6000
    Threads = {t1, t2}
    Devices = {d1, d2}
    MaxRequests = 1
    MaxFaults <- OneVanishes
SPECIFICATION NetFairSpec
PROPERTIES
    Answered
    LoginEventually
CHECK_DEADLOCK FALSE
