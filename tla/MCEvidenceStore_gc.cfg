SPECIFICATION Spec
CONSTANTS
    u = u
    v = v
    w = w
    x = x
    shaA = shaA
    shaB = shaB
    compact = compact
    pretty = pretty
    alice = alice
    bob = bob
    prune1 = prune1
    gc1 = gc1
    boot = boot
    Absent = Absent
    Boot = boot
    Requests = {u, v, x}
    Digests = {shaA, shaB}
    ShaOf <- MCShaOf
    Raws = {compact, pretty}
    RawOf <- OneText
    Signers = {alice, bob}
    SignerOf <- OneSigner
    Overwriting = {}
    Swept = {shaA, shaB}
    Prunable = {shaA, shaB}
    Prunes = {}
    Gcs = {gc1}
    DryRuns = {}
    Faults = {"crash"}
INVARIANTS
    SparedHaveBodies
    SparedInv
CHECK_DEADLOCK FALSE
