SPECIFICATION Spec
CONSTANTS
    p3 = p3 p1 = p1 p2 = p2  o1 = o1  o2 = o2  c1 = c1  c2 = c2
    Clients = {p1, p2}
    Objects = {o1, o2}
    Chunks = {c1, c2}
    ChunkIDs <- MCChunkIDs
    NoClient = NoClient
    NoObject = NoObject
    Memory = FALSE
    AutoGC = TRUE
    Ops = {"put", "delete", "get", "gc", "close"}
    MaxUse = 2
    Failing = {"fetch", "add", "remove", "save"}
    MaxFaults = 1
SYMMETRY Symm
INVARIANTS GCComplete ReadersServed DurableWhenQuiet
PROPERTIES GCRemovesOnlyGarbage ImplementsObjectStore
