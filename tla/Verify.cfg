SPECIFICATION LookSpec
CONSTANTS
    p3 = p3 p1 = p1 p2 = p2  o1 = o1  o2 = o2  c1 = c1  c2 = c2
    Clients = {p1, p2, p3}
    Objects = {o1, o2}
    Chunks = {c1, c2}
    ChunkIDs <- MCChunkIDs
    NoClient = NoClient
    NoObject = NoObject
    Lookers = {p3}
    Memory = TRUE
    AutoGC = TRUE
    Ops = {"put", "delete", "gc", "close"}
    MaxUse = 2
    Failing = {}
    MaxFaults = 0
SYMMETRY Symm
INVARIANTS ReferencedPresent NothingToRepair
PROPERTIES LooksImplementObjectStore
