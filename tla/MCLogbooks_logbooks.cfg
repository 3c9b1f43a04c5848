CONSTANTS
    ana = ana
    ben = ben
    People = {ana, ben}
    Modes <- MCModes
    MaxRaces = 1
    MaxOvertaken = 2
SPECIFICATION LogbooksSpec
INVARIANTS
    LogbooksTypeOK
    ReviewedOnce
    WorkFrozen
PROPERTY EndIsEnd
SYMMETRY MCSymmetry
CHECK_DEADLOCK FALSE
