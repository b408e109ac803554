CONSTANTS
    t1 = t1
    t2 = t2
    a = a
    b = b
    None = None
    m1 = m1
    m2 = m2
    Tx = {t1, t2}
    Outpoint = {a, b}
    Inputs <- TwoInputs
    Masternode = {m1, m2}
    Self = m1
    Own = {t1}
    LockHeight = {5}
    VotesAt <- LateVotes
    Required = 2
SPECIFICATION FairSpec
INVARIANTS
    OneVoteEach
    CompleteIsRequested
    AcceptedInputsHaveLock
PROPERTIES
    InputsKeepOwner
    LocksAreForgotten
