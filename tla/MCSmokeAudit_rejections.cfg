SPECIFICATION FairSpec
CONSTANTS
    a1 = a1
    a2 = a2
    a3 = a3
    big = big
    Rejections = {a1, a2, a3, big}
    Broken = Broken
    Bytes <- MCBytes
    Cap = 3
    Target = 2
    MaxCrashes = 1
INVARIANTS
    TypeOK
    NewestAreKept
    CapObserved
    TornTailCostsOne
PROPERTY EveryRejectionSettles
CHECK_DEADLOCK FALSE
