CONSTANTS
    h = h
    w = w
    p = p
    Node = {h, w, p}
    Links = {{h, p}, {p, w}}
    Hot = h
    Wallets = {h, w}
    PingValid = 1
    Expiration = 2
    Removal = 3
    MaxBroadcasts = 2
    MaxEvents = 2
    None = None
SPECIFICATION Spec
INVARIANTS
    ServedIsCurrent
PROPERTIES
    ListedWhilePinging
    SpentLeaves
