SPECIFICATION DocumentsSpec
CONSTANTS
    c1 = c1
    c2 = c2
    c3 = c3
    e1 = e1
    t1 = t1
    t2 = t2
    Contracts = {c1}
    Epps = {e1}
    Pair <- OnePair
    Fresh = {c1, e1}
    Sessions = {t1, t2}
    MaxRequests = 2
    MaxBundles = 1
    MaxData = 0
    MaxFaults = 1
    MaxRaces = 1
SYMMETRY SessionsAlike
INVARIANTS
    LinksRevoked
    
    CopiedOnce
CHECK_DEADLOCK FALSE
