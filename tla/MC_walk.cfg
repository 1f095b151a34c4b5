\* One writer on the tree of MC_BlockChainWalk: a failed reorganization
\* leaves an unmarked child of an invalid block, and a later block on it is
\* stopped by the known-invalid walk of getReorganizeNodes; forced
\* reorganizations between A1 and X1 move the tip onto the side branch.
CONSTANTS
    G = G  A1 = A1  X1 = X1  X2 = X2  Y = Y  Z = Z  W = W  w1 = w1  r1 = r1
    NoBlock = NoBlock
    NoWriter = NoWriter
    Blocks <- WalkBlocks
    Genesis = G
    Parent <- WalkParent
    Work <- WalkWork
    TxCount <- WalkTxCount
    Bad <- WalkBad
    Writers <- WalkWriters
    CacheSize = 1
    StoreFaults = FALSE
    ForceReorgs = TRUE
    Readers <- WalkReaders
    QueryHeights <- WalkQueryHeights
    StakeEnabledHeight = 1
    CheckpointHeight = 2
    MinMemoryStakeNodes = 1
    MinMemoryNodes = 2
    BlockVersion <- WalkVersion
    BlockUpgradeNumToCheck = 2
SPECIFICATION Spec
INVARIANT InvalidMarksSound
INVARIANT DurableStateMatchesTip
