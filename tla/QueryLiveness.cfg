CONSTANTS
    UIntSize = 4
    Subjects = {server}
    Server = server
    Observers = {o1}
    NoSubject = NoSubject
    PrescaleFactors = {0, 1, 2}
    SpuriousWakeups = TRUE
    MaxRequests = 3
SPECIFICATION FairQuerySpec
PROPERTY RequestAnswered
