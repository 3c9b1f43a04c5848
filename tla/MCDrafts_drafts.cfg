SPECIFICATION DraftsSpec
CONSTANTS
    ana = ana
    ben = ben
    e1 = e1
    e2 = e2
    s1 = s1
    s2 = s2
    People = {ana, ben}
    Events = {e1, e2}
    Sessions = {s1, s2}
    Files <- OppositeFiles
    Targets <- MCTargets
    ByHand <- MCByHand
INVARIANT PairsUnique
PROPERTY EveryBatchEnds
CHECK_DEADLOCK FALSE
