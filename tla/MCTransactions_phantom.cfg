CONSTANTS
    Orders = {o1}
    Products = {p1}
    item_id <- OneLine
    Consumables = {p1}
    Warehouses = {w1}
    Purchases = {}
    NoOrder = NoOrder
    MaxQuantity = 1
    MaxOnHand = 2
    Sessions = {t1, t2}
    SameOrder = TRUE
SPECIFICATION StockedSpec
CHECK_DEADLOCK FALSE
INVARIANT ReservedMatchesOrders
