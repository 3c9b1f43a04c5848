CONSTANTS
    Orders = {o1}
    Products = {p1, p2}
    item_id <- OneLine
    Consumables = {p1}
    Extras = {p2}
    Warehouses = {w1, w2}
    Purchases = {b1}
    NoOrder = NoOrder
    MaxQuantity = 2
    MaxOnHand = 2
SPECIFICATION StockedSpec
CONSTRAINT ExtrasOnlyAsked
SYMMETRY Symmetry
CHECK_DEADLOCK FALSE
INVARIANTS UnitsConserved
PROPERTIES CancelledWithoutPurchase PurchasesSettled
