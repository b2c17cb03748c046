SPECIFICATION Spec
CONSTANTS
    Threads = {t1, t2}
    Names = {a, b}
    Kinds = {"formatter", "handler"}
    Values = {d, v}
    Default = d
    Free = Free
    MaxLoggers = 2
SYMMETRY Symmetric
INVARIANTS
    LockedSetters
PROPERTIES
    NeverReplaced
