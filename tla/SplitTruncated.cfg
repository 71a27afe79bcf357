SPECIFICATION Spec
CONSTANTS
    Bytes = {0, 1}
    GearTable <- MCGearTable
    HashRange = 32
    DefaultAvgSize = 8
    MaxAvgSize = 16
    BufSize = 5
    MaxChunks = 12
    Registered <- MCRegistered
    Requests <- MCRequests
    Contents <- MCContents
    Endings = {"EOF", "UnexpectedEOF", "failed"}
CHECK_DEADLOCK FALSE
INVARIANTS EOFOnlyAtEnd
