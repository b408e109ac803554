CONSTANTS
    Block <- LateBlock
    Genesis = 0
    Parent <- LateParent
    Path <- LatePath
    Height <- LateHeight
    Work <- LateHeight
    Address <- LateAddress
    MaxWork = 10
    NoBlock = 99
    BadScripts = {}
    NonFinal = {}
    Disputable = {2, 3}
    Checkpoints = {1}
    MaxReorg = 100
    ReprocessDepth = 1
    Operable = {1}
    Threads = 1
    InInitialDownload = TRUE
SPECIFICATION Spec
INVARIANTS
    ActiveChainClean
CHECK_DEADLOCK FALSE
