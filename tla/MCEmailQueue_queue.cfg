SPECIFICATION QueueSpec
CONSTANTS
    p1 = p1
    r1 = r1
    NumBatches = 2
    Pairs = {p1}
    Items <- TwoBatches
    Workers = {w1, w2}
    MAX_ATTEMPTS = 2
    Requests = {r1, r2}
    Overtaken = FALSE
    MaxCrashes = 1
    MaxRetries = 2
CONSTRAINT OverlapOnFirstBatch
INVARIANTS
    QueueTypeOK
    AcceptedKeepsPayload
    AttemptsBounded
    DoneBatchesRest
PROPERTIES
    DeliveryImplemented
    EveryItemEnds
CHECK_DEADLOCK FALSE
