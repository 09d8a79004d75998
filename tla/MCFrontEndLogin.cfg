SPECIFICATION Spec
CONSTANTS
    c1 = c1
    c2 = c2
    c3 = c3
    Clients <- ThreeClients
    MaxRequests = 1
    MaxTimeouts = 0
PROPERTY LoginReplyRerouted
CHECK_DEADLOCK FALSE
