CONSTANTS
    Block <- Blocks
    Genesis = 0
    Parent <- ParentOf
    Path <- PathOf
    Zerotx <- Tx
    Serial <- SerialOf
    ZerotxIn <- TxIn
    Unconnectable = {5}
    CheckBlocks = 1
    None = None
SPECIFICATION StoreSpec
INVARIANTS
    CoinsHaveBlocks
    StartSucceeds
    SerialsRecorded
    ChainSpendsOnce
