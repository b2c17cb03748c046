SPECIFICATION WriterSpec
INVARIANTS
    FieldsSurviveGrowth
CONSTANTS
    max_files = 2
    NoFile = NoFile
    GreedySize = 3
    GreedySizes = {1, 2, 4}
    GreedyMsgs = 6
    FaultySize = 2
    FaultySizes = {1, 3}
    FaultyMsgs = 4
    MaxCrashes = 1
    DayLen = 4
    Rotation = 1
    MaxDelay = 2
    MaxTime = 16
    OwnedSIZE = 2
    StreamSIZE = 4
    MaxSize = 4
    MaxReport = 10
    WriterSIZE = 8
    Bits = 24
    Held = {0, 5, 8}
    MAX_PACKED_ARGS = 3
    UIntBits = 8
    MaxLength = 4
    MaxFields = 2
    Literals = {"n"}
    MaxLiterals = 1
    MaxFlags = 2
    Files = {"f", "g"}
    Streams = {"s"}
    MaxFd = 3
    MaxOpens = 4
    MaxPatterns = 3
    RECURSIVE_BOUNDARY = 2
    MaxLen = 600
    Pieces = {0, 1, 3, 5, 7, 15, 16, 17, 31, 32, 33, 50}
    MaxStream = 100
    W = 2
    Limbs = {0, 1, 3}
    Seeds = {0, 141}
    Spares = {1, 3, 6, 64, 85, 129, 255}
    Deltas = {0, 1, 2, 3, 5, 8, 16, 37}
    table_pow2 = 1
    advance_pow2 = 2
    tick_limit_pow2 = 8
    MaxDraws = 24
    MaxSets = 1
    Addr = {a1, a2, a3, a4}
    Data = {1, 2}
    nil = nil
    Devices = {"d0", "d1"}
    Names = {"d0", "eth0", "d1", "eth9"}
    MaxNames = 2
