SPECIFICATION Spec
CONSTANTS
    c1 = c1
    c2 = c2
    c3 = c3
    Clients <- ThreeClients
    MaxRequests = 2
    MaxTimeouts = 1
SYMMETRY Symmetry
INVARIANTS
    TypeOK
    AnswersItsRequest
    RequestsRefused
CHECK_DEADLOCK FALSE
