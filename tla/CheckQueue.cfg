CONSTANTS
    w1 = w1
    w2 = w2
    c1 = c1
    c2 = c2
    c3 = c3
    c4 = c4
    Master = Master
    Worker = {w1, w2}
    Check = {c1, c2, c3, c4}
    Valid = {c1, c2, c3}
    BatchSize = 2
SPECIFICATION FairSpec
INVARIANTS
    AssertHolds
    VerdictIsConjunction
    FinishedBeforeReturn
PROPERTY WaitEnds
CHECK_DEADLOCK FALSE
