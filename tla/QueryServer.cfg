CONSTANTS
    UIntSize = 4
    Subjects = {server}
    Server = server
    Observers = {o1, o2}
    NoSubject = NoSubject
    PrescaleFactors = {1}
    SpuriousWakeups = TRUE
    MaxRequests = 2
SPECIFICATION QuerySpec
SYMMETRY TaskSymmetry
INVARIANTS
    QueryTypeOK
    NoRequestIsSleptOn
PROPERTY ServesInOrder
