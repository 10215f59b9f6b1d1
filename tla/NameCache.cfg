SPECIFICATION Spec
CONSTANTS
    Threads = {t1, t2}
    Names = {n}
    Ips = {i1, i2}
    None = None
    Exp = 0
    MaxTime = 2
    MaxMoves = 1
INVARIANTS
    CacheInv
    ResetForgets
PROPERTIES
    NotTooOld
    LookUpsReturn
