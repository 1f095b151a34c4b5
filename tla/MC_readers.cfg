\* One writer and one goroutine calling HeightRange without chainLock,
\* while the writer extends the tip and reorganizes B1 -> A1, A2.
CONSTANTS
    G = G  A1 = A1  A2 = A2  B1 = B1  B2 = B2  C2 = C2  w1 = w1  w2 = w2  r1 = r1
    NoBlock = NoBlock
    NoWriter = NoWriter
    Blocks <- MCBlocks
    Genesis = G
    Parent <- MCParent
    Work <- MCWork
    TxCount <- MCTxCount
    Bad <- MCBad
    Writers <- MCOneWriter
    CacheSize = 1
    StoreFaults = FALSE
    ForceReorgs = FALSE
    Readers <- MCOneReader
    QueryHeights <- MCQueryHeights
    StakeEnabledHeight = 1
    CheckpointHeight = 2
    MinMemoryStakeNodes = 1
    MinMemoryNodes = 2
    BlockVersion <- MCBlockVersion
    BlockUpgradeNumToCheck = 2
SPECIFICATION Spec
INVARIANT TypeOK
