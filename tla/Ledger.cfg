CONSTANTS
    Tx <- PoolTx
    Kind <- PoolKind
    Inputs <- PoolInputs
    Outs <- PoolOuts
    PoolRefuses = {"f", "k"}
    Block <- PoolBlock
    Genesis = 0
    Parent <- PoolParent
    Path <- PoolPath
    Vtx <- PoolVtx
    Maturity = 2
    Peer = {"p1", "p2"}
    MaxOrphans = 2
    None = None
SPECIFICATION LedgerSpec
INVARIANTS
    CoinsAreOfChain
    PoolStands
    OrphansFollow
