SPECIFICATION FairSpec
CONSTANTS
    Loggers = {t1, t2}
    Main = main
    Worker = worker
    NoThread = NoThread
    NoItem = NoItem
    Capacity = 1
    Policy = "discard_log_msg"
    NSinks = 1
    MaxMsgs = 1
    MaxFlushes = 0
    SinkThrows = FALSE
    Interval = FALSE
PROPERTIES
    ShutdownCompletes
