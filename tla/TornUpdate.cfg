CONSTANTS
    UIntSize = 4
    Subjects = {trigger}
    Trigger = trigger
    Observers = {o1}
    NoSubject = NoSubject
    PrescaleFactors = {1}
    SpuriousWakeups = FALSE
    InputFactors = {1}
    Words = {w1, w2}
    MaxInputs = 2
SPECIFICATION InputSpec
INVARIANT OkIsOneUpdate
