CONSTANTS
    p1 = p1
    r1 = r1
    People = {p1}
    Requests = {r1}
    LastDate = 3
    PregenerateLimit = 1
    Window = 1
    Nonexistent = {3}
SPECIFICATION SeriesSpec
CONSTRAINT Unfinished
INVARIANTS
    ExceptionsStay
    NothingLeftBehind
PROPERTY WindowCompleted
CHECK_DEADLOCK FALSE
