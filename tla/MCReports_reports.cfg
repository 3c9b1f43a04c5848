SPECIFICATION ReportsSpec
CONSTANTS
    ana = ana
    ben = ben
    Editors <- MCEditors
    MaxVersion = 4
    MaxRevisions = 1
    MaxOvertaken = 1
    MaxRaces = 1
    MaxPublications = 2
    MaxRequests = 2
    MaxLost = 1
SYMMETRY MCSymmetry
CONSTRAINT PublishedOnceEdited
INVARIANTS
    ReportsTypeOK
    SavesSeeAll
    FiguresFollowSource
    DeliveredCanBeOpened
CHECK_DEADLOCK FALSE
