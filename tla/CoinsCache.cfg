CONSTANTS
    Pruned = Pruned
    None = None
    NullBlock = NullBlock
    Txid = {t1, t2}
    Coins = {c1, c2, Pruned}
    Block = {b1, b2}
SPECIFICATION Spec
INVARIANTS
    DbIsSnapshot
    TipIsSnapshot
PROPERTY
    ImplementsMap
