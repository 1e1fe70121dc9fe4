CONSTANTS
    UIntSize = 4
    Handlers = {"inner", "decorator"}
    MaxInputs = 6
    InnerFactors = {0, 1, 2}
    SpuriousWakeups = FALSE
    EarlyInputs = FALSE
    CarefulOwner = TRUE
SPECIFICATION FairQueueSpec
INVARIANTS
    FaultsHaveCauses
    SleepsOnlyOnEmptyList
PROPERTIES
    KeepsOrder
    AcceptedIsHandled
    NotifyCompletes
CHECK_DEADLOCK FALSE
