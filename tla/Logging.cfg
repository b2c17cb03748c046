SPECIFICATION Spec
CONSTANTS
    Loggers = {t1, t2}
    Main = main
    Worker = worker
    NoThread = NoThread
    NoItem = NoItem
    NSinks = 2
    BlockCapacity = 2
    BlockMsgs = 1
    BlockFlushes = 1
    DiscardCapacity = 1
    DiscardMsgs = 2
    Callers = {"t", "u"}
    Levels = {2, 4}
    Addable = {"file"}
    Adjusted = {"file"}
    MaxCalls = 1
    MaxChanges = 1
    MaxTime = 1
INVARIANTS
    
    LineDelivered
PROPERTIES
    CallsReturn
