SPECIFICATION Spec
CONSTANTS
    Threads = {t1, t2}
    Urls = {u1, u2}
    NoUrl = NoUrl
    ManLimit = 3
    CntLimit = 2
    Ahead = 2
    MaxOpens = 2
    MaxRMs = 2
SYMMETRY Symmetry
CHECK_DEADLOCK FALSE
INVARIANTS
    TypeOK
    
    ManagersByUrl
