SPECIFICATION CrashSpec
CONSTANTS
    p1 = p1  p2 = p2  o1 = o1  o2 = o2  c1 = c1  c2 = c2
    Clients = {p1}
    Objects = {o1, o2}
    Chunks = {c1, c2}
    ChunkIDs <- MCChunkIDs
    NoClient = NoClient
    NoObject = NoObject
    Memory = FALSE
    AutoGC = FALSE
    Ops = {"put", "get", "gc"}
    MaxUse = 2
    Failing = {"add"}
    MaxFaults = 1
    TornWrites = TRUE
    MaxCrashes = 3
SYMMETRY Symm
CHECK_DEADLOCK FALSE
INVARIANTS RecoveredReadable RecoveredCovered OpenFailsOnlyOnTorn
