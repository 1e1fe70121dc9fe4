CONSTANTS
    UIntSize = 2
    Subjects = {s1, s2}
    Observers = {o1, o2}
    NoSubject = NoSubject
    PrescaleFactors = {0}
    SpuriousWakeups = TRUE
SPECIFICATION TriggerSpec
SYMMETRY ObserverSymmetry
INVARIANTS
    NoLostWakeup
    NoOrphanedWaiter
    AttachmentAgrees
    NoUseAfterDestroy
    TriggerInv
PROPERTIES
    OkReportsAnEvent
    TimeoutLosesNoTrigger
