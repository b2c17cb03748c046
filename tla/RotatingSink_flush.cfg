SPECIFICATION Spec
CONSTANTS
    max_size = 2
    max_files = 1
    Sizes = {1, 2}
    MaxMsgs = 3
    MaxCrashes = 0
    Faults = FALSE
    NoFile = NoFile
INVARIANTS
    FlushSeesOpenFile
