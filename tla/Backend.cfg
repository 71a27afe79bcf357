SPECIFICATION Spec
CONSTANTS
    c1 = c1  c2 = c2  p1 = p1  p2 = p2  p3 = p3
    Clients = {p1, p2, p3}
    Chunks = {c1, c2}
    SizeOf <- MCSizeOf
    Kinds = {"disk", "memory"}
    NoChunk = NoChunk
    MaxFiles = 5
    MaxCrashes = 1
SYMMETRY Symm
CHECK_DEADLOCK FALSE
INVARIANTS TypeOK TotalsDriftUp FilesWhole TempsAccounted
