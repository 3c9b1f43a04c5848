CONSTANTS
    Orders = {o1, o2}
    Products = {p1}
    item_id <- OneLine
    Consumables = {p1}
    Extras = {}
    Warehouses = {w1}
    Purchases = {}
    NoOrder = NoOrder
    MaxQuantity = 2
    MaxOnHand = 2
SPECIFICATION Spec
SYMMETRY Symmetry
CHECK_DEADLOCK FALSE
INVARIANTS TypeOK BalancesValid ReservedMatchesOrders LinesChained StagesMatchLines UnitsConserved
PROPERTIES LeavesOnce OutcomeFinal
