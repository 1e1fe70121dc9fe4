CONSTANTS
    UIntSize = 3
    Subjects = {s1}
    Observers = {o1}
    NoSubject = NoSubject
    PrescaleFactors = {0, 1, 2}
    SpuriousWakeups = TRUE
SPECIFICATION FairTaskSpec
INVARIANTS
    AtMostOneLateExecution
    QuietAfterShutdown
    JoinsNoSleeper
PROPERTIES
    TriggerSpec
    ShutdownCompletes
    TriggerServed
    HolderReleasesWaiter
