SPECIFICATION Spec
CONSTANTS
    Producers = {p1, p2}
    Consumers = {c1, c2}
    Items = {a, b}
    max_size = 2
    MaxPos = 4
    NoThread = NoThread
    NoItem = NoItem
SYMMETRY Symmetric
INVARIANTS
    CellProtocol
PROPERTIES
    ImplementsFifo
