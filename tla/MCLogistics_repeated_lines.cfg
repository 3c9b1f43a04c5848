CONSTANTS
    Orders = {o1}
    Products = {p1, p2}
    item_id <- TwoLines
    Consumables = {p1}
    Extras = {}
    Warehouses = {w1}
    Purchases = {}
    NoOrder = NoOrder
    MaxQuantity = 1
    MaxOnHand = 2
SPECIFICATION Spec
SYMMETRY Symmetry
CHECK_DEADLOCK FALSE
INVARIANT ReservedMatchesOrders
