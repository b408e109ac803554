CONSTANTS
    Block <- ForkBlock
    Genesis = 0
    Parent <- ForkParent
    Path <- ForkPath
    Height <- ForkHeight
    Work <- ForkHeight
    Address <- ForkAddress
    MaxWork = 10
    NoBlock = 99
    BadScripts = {4}
    NonFinal = {6}
    Disputable = {}
    Checkpoints = {}
    MaxReorg = 100
    ReprocessDepth = 1
    Operable = {1}
    Threads = 3
    InInitialDownload = TRUE
SPECIFICATION FairSpec
INVARIANTS
    IndexIsLinked
    CandidatesNotWorse
    BestChainActive
    GoodBlocksAreCandidates
PROPERTIES
    PruneLeavesSuccessor
    BestChainWins
CHECK_DEADLOCK FALSE
