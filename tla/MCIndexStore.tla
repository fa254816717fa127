---------------------------- MODULE MCIndexStore ----------------------------
(* Small instances of IndexStore: r1 and r2 carry the same digest.         *)
EXTENDS IndexStore
CONSTANTS r1, r2, r3, p1, p2, shaA, shaB, server, gc

MCShaOf == [r \in Requests |-> IF r \in {r1, r2} THEN shaA ELSE shaB]

\* Every call is a handler or an endpoint of the server.
AllInServer == [t \in Tasks |-> server]

\* The prunes run in ao2-cp-gc, beside the server.
PrunesInGc == [t \in Tasks |-> IF t \in Prunes THEN gc ELSE server]
=============================================================================
