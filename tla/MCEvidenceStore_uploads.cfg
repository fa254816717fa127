SPECIFICATION Spec
CONSTANTS
    u = u
    v = v
    w = w
    x = x
    shaA = shaA
    shaB = shaB
    compact = compact
    pretty = pretty
    alice = alice
    bob = bob
    prune1 = prune1
    gc1 = gc1
    boot = boot
    Absent = Absent
    Boot = boot
    Requests = {u, v, w}
    Digests = {shaA, shaB}
    ShaOf <- MCShaOf
    Raws = {compact, pretty}
    RawOf <- OneText
    Signers = {alice, bob}
    SignerOf <- TwoSigners
    Overwriting = {}
    Swept = {shaA, shaB}
    Prunable = {shaA, shaB}
    Prunes = {prune1}
    Gcs = {}
    DryRuns = {prune1}
    Faults = {"cancel", "crash"}
INVARIANTS
    TypeOK
    AckedRetrievable
    NoDanglingEntry
    StoredInv
PROPERTY OpenLeavesNoOrphan
CHECK_DEADLOCK FALSE
