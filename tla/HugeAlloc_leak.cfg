SPECIFICATION Spec
CONSTANTS
    kMinClassSize = 1
    kNumClasses = 2
    kHugepageSize = 2
    InitialSize = 1
    Sizes <- WideSizes
    RawSizes <- OneUnit
    Bases <- WideBases
    Keys = {1, 2, 3}
    BsrZero = {0}
    ShmgetThrows = FALSE
    BindFails = TRUE
    MaxReservation = 8
    MaxHeld = 3
INVARIANTS
    DestructorFreesAllShm
