CONSTANTS
    Node <- Nodes
    Dialed <- Dials
    Block <- Blocks
    Genesis = 0
    Branch <- BranchOf
    Recent = {1, 2, 3, 4, 5}
    Miner = {"s", "t"}
    Start <- Starts
    Limit = 2
    MaxReorganizationDepth = 100
    MaxDisconnects = 1
    NoBlock = NoBlock
SPECIFICATION SyncSpec
INVARIANTS
    RequestsCanBeServed
PROPERTIES
    ExchangeEnds
    FollowsUnlessDropped
    DownloadsAllButTip
CHECK_DEADLOCK FALSE
