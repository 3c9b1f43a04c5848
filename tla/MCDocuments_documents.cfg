SPECIFICATION DocumentsSpec
CONSTANTS
    c1 = c1
    c2 = c2
    c3 = c3
    e1 = e1
    t1 = t1
    t2 = t2
    Contracts = {c1, c2, c3}
    Epps = {}
    Pair <- NoPair
    Fresh = {c1}
    Sessions = {t1}
    MaxRequests = 2
    MaxBundles = 0
    MaxData = 1
    MaxFaults = 0
    MaxRaces = 0
INVARIANTS
    DocumentsTypeOK
    OneSuccessor
PROPERTIES
    SignedForGood
CHECK_DEADLOCK FALSE
