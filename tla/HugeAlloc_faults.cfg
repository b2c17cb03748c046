SPECIFICATION FairSpec
CONSTANTS
    kMinClassSize = 1
    kNumClasses = 3
    kHugepageSize = 1
    InitialSize = 3
    Sizes <- DeepSizes
    RawSizes <- OneUnit
    Bases <- DeepBases
    Keys = {0, 1}
    BsrZero = {0, 1, 5}
    ShmgetThrows = TRUE
    BindFails = TRUE
    MaxReservation = 8
    MaxHeld = 3
INVARIANTS
    FaultsContained
    StatsExact
PROPERTIES
    CallsReturn
