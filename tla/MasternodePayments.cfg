CONSTANTS
    m1 = m1
    m2 = m2
    n1 = n1
    p1 = p1
    p2 = p2
    Node = {m1, n1}
    Masternode = {m1, m2}
    Payee = {p1, p2}
    NoPayee = none
    Height = {0, 1, 2, 3}
    Ranked <- RankedByHeight
    Unpaid = {1}
    StartHeight = 0
    Required = 2
    Ahead = 1
    Future = 1
    Past = 0
    Keep = 0
    MaxRevoters = 2
    MaxRestarts = 1
SYMMETRY Symmetry
SPECIFICATION PaymentsSpec
INVARIANT PayeesAgree
INVARIANT TallyIsVotes
