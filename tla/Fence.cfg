SPECIFICATION FairSpec
CONSTANTS
    Clients = {p1, p2, p3}
    Objects = {o1, o2}
    Locks = {l1, l2}
    NoClient = NoClient
    NoObject = NoObject
    NoLock = NoLock
    MaxReads = 2
INVARIANTS TypeOK ObjectExclusive MapExact ExclusiveAlone StuckOnlyByNesting
PROPERTIES ObjectLockGranted ExclusiveGranted ImplementsStoreLocks
CHECK_DEADLOCK FALSE
