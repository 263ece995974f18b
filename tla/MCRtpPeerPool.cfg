CONSTANTS
    Peer = {p1, p2, p3, p4}
    Port = {0, 1}
    Client = {c}
    Loop = loop
    None = none
    MaxTasks = 2
    MaxChunks = 2
    Careless = FALSE
    PairCount = 1
SPECIFICATION Spec
INVARIANTS
    NoFault
    RefCountsHolders
    OwnedOnce
