CONSTANTS
    UIntSize = 4
    Handlers = {"inner", "decorator"}
    MaxInputs = 4
    InnerFactors = {1}
    SpuriousWakeups = TRUE
    EarlyInputs = TRUE
    CarefulOwner = FALSE
SPECIFICATION QueueSpec
INVARIANT FaultsHaveCauses
PROPERTY InputNeverMissed
CHECK_DEADLOCK FALSE
