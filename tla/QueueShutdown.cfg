CONSTANTS
    UIntSize = 4
    Handlers = {"inner", "decorator"}
    MaxInputs = 2
    InnerFactors = {1}
    SpuriousWakeups = FALSE
    EarlyInputs = FALSE
    CarefulOwner = TRUE
SPECIFICATION FairQueueSpec
PROPERTY QueueShutdownCompletes
CHECK_DEADLOCK FALSE
