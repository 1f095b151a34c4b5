\* One writer (the block manager goroutine), no store failures, no forced
\* reorganizations: chain selection and the durable state.
CONSTANTS
    G = G  A1 = A1  A2 = A2  B1 = B1  B2 = B2  C2 = C2  w1 = w1  w2 = w2  r1 = r1
    NoBlock = NoBlock
    NoWriter = NoWriter
    Blocks <- MCBlocks
    Genesis = G
    Parent <- MCParent
    Work <- MCWork
    TxCount <- MCTxCount
    Bad <- MCBad
    Writers <- MCOneWriter
    CacheSize = 1
    StoreFaults = FALSE
    ForceReorgs = FALSE
    Readers <- MCNoReaders
    QueryHeights <- MCQueryHeights
    StakeEnabledHeight = 1
    CheckpointHeight = 1
    MinMemoryStakeNodes = 1
    MinMemoryNodes = 2
    BlockVersion <- MCBlockVersion
    BlockUpgradeNumToCheck = 2
SPECIFICATION FairSpec
INVARIANT TypeOK
INVARIANT DurableStateMatchesTip
INVARIANT DurableMainChainValid
INVARIANT InvalidMarksSound
INVARIANT TipHasMostWork
INVARIANT CacheWindow
INVARIANT NoPanic
PROPERTY NotificationOrder
PROPERTY StoreRefinement
PROPERTY CallsReturn
INVARIANT LocateBlocksCorrect
INVARIANT StakeTipInMemory
INVARIANT MajorityVersionCorrect
INVARIANT StakeVersionsCorrect
