SPECIFICATION MCSpec
CONSTANTS
    ITERS = 6
    Threads = {t1, t2, t3}
    Rows = {r1, r2}
    NoThread = NoThread
    MAX = 2
    PrintEvery = 2
    Methods = {"lock", "fetch_add"}
    BATCH_SIZE = 4
    DEPTH = 3
    NUM_BS = 3
    SLOTS_PER_BKT = 2
    DiffMod = 3
    StopMod = 2
    StylePkts = 8
    LogCap = 16
    COMPUTE = 4
    Values = {7, 13}
    NUM_PKTS = 3
    Rounds = 4
    Kernels = {"log", "double"}
    Programs = {"streams", "unified", "randMem", "seqMem"}
    NUM_THREADS = 2
    Batches = 3
    Wrap = 2
    Lookups = 2
    NumWorkers = 2
    NumChans = 3
    PoolSize = 4
    QueueDepth = 2
    kReceiverThreads = 2
    kRQDepth = 2
    kSQDepth = 2
    MaxTx = 4
    MaxPkts = 4
    RcvBuf = 2
INVARIANTS
    JobsConserved
    NoLostWakeup
    NoLostUpdate
    
    GpuRounds
    Conserved
    ReceiversInStep
PROPERTIES
    InOrder
    Completes
