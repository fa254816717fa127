SPECIFICATION Spec
CONSTANTS
    r1 = r1
    r2 = r2
    r3 = r3
    p1 = p1
    p2 = p2
    shaA = shaA
    shaB = shaB
    server = server
    gc = gc
    Torn = Torn
    Nobody = Nobody
    Requests = {r1, r2, r3}
    Prunes = {p1, p2}
    Procs = {server}
    Home <- AllInServer
    Digests = {shaA, shaB}
    ShaOf <- MCShaOf
    Faults = {}
INVARIANTS
    CalmInv
    UniqueDigests
    CacheCoherent
PROPERTY ImplementsAtomicIndex
CHECK_DEADLOCK FALSE
