CONSTANTS
    UIntSize = 4
    Subjects = {trigger}
    Trigger = trigger
    Observers = {o1}
    NoSubject = NoSubject
    PrescaleFactors = {1, 2}
    SpuriousWakeups = TRUE
    InputFactors = {1, 2}
    Words = {w}
    MaxInputs = 3
SPECIFICATION FairInputSpec
INVARIANTS
    InputTypeOK
    UpdateIsRecent
    NoUpdateIsSleptOn
PROPERTY UpdateSeen
