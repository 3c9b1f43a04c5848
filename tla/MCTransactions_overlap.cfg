CONSTANTS
    Orders = {o1, o2}
    Products = {p1, p2}
    item_id <- OneLine
    Consumables = {}
    Warehouses = {w1}
    Purchases = {}
    NoOrder = NoOrder
    MaxQuantity = 1
    MaxOnHand = 1
    Sessions = {t1, t2}
    SameOrder = FALSE
SPECIFICATION ScarceSpec
CHECK_DEADLOCK FALSE
INVARIANTS SessionsTyped HeldRowsFresh
PROPERTIES OneAtATime EveryRequestEnds
