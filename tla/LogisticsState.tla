--------------------------- MODULE LogisticsState ---------------------------
(***************************************************************************)
(* The database rows that the logistics services of EcoEvent 360 share,    *)
(* and the helpers those services call on them: warehouse stock balances   *)
(* (stock_service), logistics orders with their lines and partial-dispatch *)
(* requests (logistics_order_service), and purchase requests               *)
(* (purchase_request_service).  StockBalances, LogisticsOrders and         *)
(* PurchaseRequests add the handlers, Logistics composes them.             *)
(*                                                                         *)
(* Permissions, 404 checks, evidence uploads, prices, notes and audit      *)
(* columns are not modelled: they only refuse a request before any row is  *)
(* written, or are written and never read by a guard.                      *)
(***************************************************************************)
EXTENDS Integers, FiniteSets

CONSTANTS
    Orders,       \* identifiers of logistics_orders rows, created or not
    Products,     \* identifiers of inventory_items rows, and of the places in
                  \* which an order keeps its lines
    item_id,      \* the product of the line that stands in a place
    Consumables,  \* the products whose item_type is CONSUMABLE
    Warehouses,   \* identifiers of warehouses rows
    Purchases,    \* identifiers of purchase_requests rows, created or not
    NoOrder,      \* the NULL logistics_order_id of an unlinked purchase
    MaxQuantity,  \* bound: the largest quantity a client asks for in a line
    MaxOnHand     \* bound: the largest on-hand count that is entered by hand

ASSUME LogisticsAssumption ==
    /\ IsFiniteSet(Orders)
    /\ Consumables \subseteq Products
    /\ item_id \in [Products -> Products]
    /\ \A i \in Products : item_id[item_id[i]] = item_id[i]
    /\ \A i, j \in Products :
          item_id[i] = item_id[j] => i = j \/ item_id[i] = i \/ item_id[j] = j
    /\ Warehouses # {}
    /\ NoOrder \notin Orders
    /\ MaxQuantity \in Nat \ {0}
    /\ MaxOnHand \in Nat

VARIABLES
    status,           \* LogisticsOrder.status, "ABSENT" before the insert
    order_warehouse,  \* LogisticsOrder.warehouse_id
    dispatched_at,    \* LogisticsOrder.dispatched_at IS NOT NULL
    line,             \* the LogisticsOrderItem of an order for a product
    pending_request,  \* orders with a PENDING LogisticsPartialDispatchRequest
    stock,            \* the StockBalance of a warehouse for a product
    entered,          \* net on-hand units booked by stock_movements rows that
                      \* are not an order's OUT_TO_EVENT, return or repair
    purchase          \* PurchaseRequest rows with their items

orderVars == <<status, order_warehouse, dispatched_at, line, pending_request>>
stockVars == <<stock, entered>>
vars == <<orderVars, stockVars, purchase>>

-----------------------------------------------------------------------------
(* Status sets.  REQUESTED, STOCK_REVIEW and OBSERVED are declared by the   *)
(* enum and no service ever assigns them, so they are left out.             *)

OrderStatuses ==
    {"ABSENT", "ASSIGNED", "INSUFFICIENT_STOCK", "RESERVED", "IN_PREPARATION",
     "LOADED", "OUT_OF_WAREHOUSE", "DELIVERED", "PARTIALLY_DELIVERED",
     "OUTCOME_PENDING", "OUTCOME_RECORDED", "WITH_DIFFERENCES", "CLOSED",
     "CANCELLED"}

MANAGE_STATUSES == {"ASSIGNED", "INSUFFICIENT_STOCK"}

ACTIVE_STOCK_RESERVATION_STATUSES ==
    {"INSUFFICIENT_STOCK", "RESERVED", "IN_PREPARATION", "LOADED"}

\* Mutant: an order that has just left the warehouse may still be cancelled.
CANCELLABLE_STATUSES_WhenOut ==
    {"ASSIGNED", "OUT_OF_WAREHOUSE"} \cup ACTIVE_STOCK_RESERVATION_STATUSES

CANCELLABLE_STATUSES == {"ASSIGNED"} \cup ACTIVE_STOCK_RESERVATION_STATUSES

PurchaseStatuses ==
    {"ABSENT", "REQUESTED", "APPROVED", "REJECTED", "PURCHASED",
     "PARTIALLY_RECEIVED", "RECEIVED", "DELIVERED_DIRECT_TO_EVENT",
     "CANCELLED"}

ACTIVE_PURCHASE_STATUSES ==
    {"REQUESTED", "APPROVED", "PURCHASED", "PARTIALLY_RECEIVED"}

-----------------------------------------------------------------------------
(* Rows.  An order keeps the first line of a product in the place that has  *)
(* its name; a second line of the product, which the create schema refuses  *)
(* and add_logistics_order_item accepts, stands in another place with the   *)
(* same item_id (bound: no third).  A place without a line has the line of  *)
(* all zeros.  A purchase keeps its items in such places too.  A balance    *)
(* that was never inserted is the balance of all zeros: balances are never  *)
(* deleted, and every handler treats a missing one as empty or refuses the  *)
(* request.                                                                 *)
(* quantity_lost and quantity_discarded only ever count together, in the    *)
(* total that explains a delivery: lost stands for their sum.               *)

Line ==
    [requested : Nat, reserved : Nat, loaded : Nat, dispatched : Nat,
     delivered : Nat, consumed : Nat, returned : Nat,
     returned_damaged : Nat, lost : Nat]

NewLine(q) ==
    [requested |-> q, reserved |-> 0, loaded |-> 0, dispatched |-> 0,
     delivered |-> 0, consumed |-> 0, returned |-> 0, returned_damaged |-> 0,
     lost |-> 0]

NoLine == NewLine(0)

Lines(o) == {i \in Products : line[o][i].requested > 0}

\* No order has two lines of one product.
OneLineEach == \A i \in Products : item_id[i] = i

Items == {i \in Products : item_id[i] = i}

\* The places for second lines of product p: one or none.
SecondPlaces(p) == {j \in Products \ {p} : item_id[j] = p}

\* The sum of f over the places of product p.
OfProduct(f, p) ==
    IF item_id[p] # p THEN 0
    ELSE IF SecondPlaces(p) = {} THEN f[p]
    ELSE f[p] + f[CHOOSE j \in SecondPlaces(p) : TRUE]

Balance == [on_hand : Nat, reserved : Nat, damaged : Nat]

EmptyBalance == [on_hand |-> 0, reserved |-> 0, damaged |-> 0]

Purchase ==
    [status : PurchaseStatuses, order : Orders \cup {NoOrder},
     warehouse : Warehouses, to_warehouse : BOOLEAN,
     requested : [Products -> Nat], purchased : [Products -> Nat],
     received : [Products -> Nat]]

AnyWarehouse == CHOOSE w \in Warehouses : TRUE

NoPurchase ==
    [status |-> "ABSENT", order |-> NoOrder, warehouse |-> AnyWarehouse,
     to_warehouse |-> TRUE, requested |-> [i \in Products |-> 0],
     purchased |-> [i \in Products |-> 0], received |-> [i \in Products |-> 0]]

\* What a client may list in a request: some products, each at least one unit.
Quantities == {q \in [Products -> 0..MaxQuantity] : \E i \in Products : q[i] > 0}

-----------------------------------------------------------------------------
(* Helpers of the services.                                                 *)

Smaller(a, b) == IF a <= b THEN a ELSE b

Larger(a, b) == IF a >= b THEN a ELSE b

Positive(n) == Larger(n, 0)

\* on_hand - reserved - damaged, the units a balance can still promise.
Available(s) == s.on_hand - s.reserved - s.damaged

\* The sum of quantity_reserved over the lines in place i of the active orders
\* of warehouse w, as the number of (order, unit) pairs it counts.
ReservedUnits(w, i) ==
    {u \in Orders \X (1..MaxQuantity) :
        /\ status[u[1]] \in ACTIVE_STOCK_RESERVATION_STATUSES
        /\ order_warehouse[u[1]] = w
        /\ u[2] <= line[u[1]][i].reserved}

ReservedByActiveOrders(w, p) ==
    OfProduct([i \in Products |-> Cardinality(ReservedUnits(w, i))], p)

\* _sync_stock_reservation_from_orders: row s of product p after its reserved
\* count is recomputed from the orders and on_hand is raised to cover it.  The
\* orders are those of the database: what the handler has changed of its lines
\* is not flushed, so that the repair counts those lines as they were.
Synced(w, p, s) ==
    LET expected == ReservedByActiveOrders(w, p)
    IN  [on_hand  |-> Larger(s.on_hand, expected + s.damaged),
         reserved |-> expected,
         damaged  |-> s.damaged]

\* The row a handler works on for the line of order o in place i, when s is
\* the row it finds.
LockedBalance(o, i, s) ==
    IF status[o] \in ACTIVE_STOCK_RESERVATION_STATUSES
    THEN Synced(order_warehouse[o], item_id[i], s) ELSE s

\* The row that a loop over the lines of order o finds when it comes to the
\* line in place i.  Left(j, s) is what the line in place j leaves of row s; a
\* second line of a product comes after the first one (bound: the relationship
\* LogisticsOrder.items states no order), in the same session, and finds what
\* that one left.
Found(o, i, Left(_, _)) ==
    LET p      == item_id[i]
        stored == stock[order_warehouse[o]][p]
    IN  IF i # p /\ p \in Lines(o) THEN Left(p, stored) ELSE stored

\* _validate_quantities, and the CHECK constraints of stock_balances.
ValidBalance(s) ==
    /\ s.on_hand >= 0 /\ s.reserved >= 0 /\ s.damaged >= 0
    /\ Available(s) >= 0

HasActivePurchase(o) ==
    \E p \in Purchases : /\ purchase[p].order = o
                         /\ purchase[p].status \in ACTIVE_PURCHASE_STATUSES

-----------------------------------------------------------------------------
Init ==
    /\ status = [o \in Orders |-> "ABSENT"]
    /\ order_warehouse = [o \in Orders |-> AnyWarehouse]
    /\ dispatched_at = [o \in Orders |-> FALSE]
    /\ line = [o \in Orders |-> [i \in Products |-> NoLine]]
    /\ pending_request = {}
    /\ stock = [w \in Warehouses |-> [i \in Products |-> EmptyBalance]]
    /\ entered = [w \in Warehouses |-> [i \in Products |-> 0]]
    /\ purchase = [p \in Purchases |-> NoPurchase]

TypeOK ==
    /\ status \in [Orders -> OrderStatuses]
    /\ order_warehouse \in [Orders -> Warehouses]
    /\ dispatched_at \in [Orders -> BOOLEAN]
    /\ line \in [Orders -> [Products -> Line]]
    /\ pending_request \subseteq Orders
    /\ stock \in [Warehouses -> [Products -> Balance]]
    /\ entered \in [Warehouses -> [Products -> Int]]
    /\ purchase \in [Purchases -> Purchase]
=============================================================================
