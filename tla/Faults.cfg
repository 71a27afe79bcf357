SPECIFICATION Spec
CONSTANTS
    p3 = p3 p1 = p1 p2 = p2  o1 = o1  o2 = o2  c1 = c1  c2 = c2
    Clients = {p1, p2}
    Objects = {o1, o2}
    Chunks = {c1, c2}
    ChunkIDs <- MCChunkIDs
    NoClient = NoClient
    NoObject = NoObject
    Memory = FALSE
    AutoGC = FALSE
    Ops = {"put", "delete", "gc"}
    MaxUse = 2
    Failing = {"fetch", "add", "sub", "remove", "save", "rename"}
    MaxFaults = 1
SYMMETRY Symm
INVARIANTS TypeOK SafetyInv RefsExact RefsCover VisibleReadable DurableIndex
