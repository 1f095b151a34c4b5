\* The orphan pool: index consistency, the overshoot bound, GetOrphanRoot.
CONSTANTS
    G = G  X = X  Y = Y  O1 = O1  O2 = O2  O3 = O3  O4 = O4
    Root = G
    NoOrphan = NoOrphan
    Hashes <- MCHashes
    PrevOf <- MCPrevOf
    MaxOrphans = 2
    Lifetime = 2
    MaxTime = 4
SPECIFICATION Spec
INVARIANT TypeOK
INVARIANT PrevIndexConsistent
INVARIANT PoolOvershootAtMostOne
INVARIANT OrphanRootIsRoot
