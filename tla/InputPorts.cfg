CONSTANTS
    UIntSize = 2
    p1 = p1
    p2 = p2
    plain = plain
    own = own
    event = event
    query = query
    send = send
    Ports = {p1, p2}
    Handlers = {plain, own, event, query, send}
    Main = Main
    Class <- HandlerClasses
    Subject <- HandlerSubject
    Owner <- HandlerOwner
    PrescaleFactors = {0}
    MaxInputs = 2
SPECIFICATION FairPortSpec
INVARIANTS
    NothingFreedIsTouched
    EveryNthInput
PROPERTY HangsOnlyInCycle
CHECK_DEADLOCK FALSE
