SPECIFICATION Spec
CONSTANTS
    r1 = r1
    r2 = r2
    r3 = r3
    p1 = p1
    p2 = p2
    shaA = shaA
    shaB = shaB
    server = server
    gc = gc
    Torn = Torn
    Nobody = Nobody
    Requests = {r1, r2, r3}
    Prunes = {p1}
    Procs = {server, gc}
    Home <- PrunesInGc
    Digests = {shaA, shaB}
    ShaOf <- MCShaOf
    Faults = {}
INVARIANT AckedReadable
CHECK_DEADLOCK FALSE
