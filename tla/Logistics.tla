----------------------------- MODULE Logistics ------------------------------
(***************************************************************************)
(* The logistics services together: people edit balances, orders reserve   *)
(* and move them, purchases fill them.  Every handler is one transaction   *)
(* that runs alone; LogisticsTransactions lets two of them overlap.        *)
(***************************************************************************)
EXTENDS StockBalances, LogisticsOrders, PurchaseRequests

Next == StockNext \/ OrderNext \/ PurchaseNext

Spec == Init /\ [][Next]_vars

-----------------------------------------------------------------------------
(* Safety.                                                                  *)

\* Every balance satisfies the CHECK constraints of stock_balances, so that no
\* commit of a handler is refused by the database: what is reserved or damaged
\* is on hand.
BalancesValid ==
    \A w \in Warehouses, i \in Products : ValidBalance(stock[w][i])

\* The reserved count of a balance is exactly what the active orders of that
\* warehouse hold of the product: no reservation leaks when an order is
\* released, split, cancelled, revived or dispatched, and the repair that the
\* handlers run (_sync_stock_reservation_from_orders) never has work to do.
\* It takes OneLineEach: with two lines of one product the repair that comes
\* before the second one undoes what the handler did for the first.
ReservedMatchesOrders ==
    \A w \in Warehouses, i \in Products :
        stock[w][i].reserved = ReservedByActiveOrders(w, i)

\* The quantities of a line form the chain the CHECK constraints of
\* logistics_order_items demand: explained <= delivered <= dispatched <=
\* loaded <= reserved <= requested.
LineChained(l) ==
    /\ OutcomeTotal(l) <= l.delivered
    /\ l.delivered <= l.dispatched
    /\ l.dispatched <= l.loaded
    /\ l.loaded <= l.reserved
    /\ l.reserved <= l.requested

LinesChained == \A o \in Orders, i \in Products : LineChained(line[o][i])

LEFT_STATUSES ==
    {"OUT_OF_WAREHOUSE", "DELIVERED", "PARTIALLY_DELIVERED", "OUTCOME_PENDING",
     "OUTCOME_RECORDED", "WITH_DIFFERENCES", "CLOSED"}

\* The status of an order tells the truth about its lines: nothing is held
\* before a reservation or after a cancellation, an order with missing units
\* is never called reserved, a loaded order is loaded completely, an order left
\* the warehouse with all it asked for, and a recorded outcome explains every
\* delivered unit.
StageMatchesLines(o) ==
    /\ status[o] = "ABSENT" => Lines(o) = {}
    /\ status[o] \in {"ABSENT", "ASSIGNED", "CANCELLED"}
          => \A i \in Products : line[o][i].reserved = 0
    /\ status[o] = "INSUFFICIENT_STOCK"
          => /\ \E i \in Lines(o) : line[o][i].reserved < line[o][i].requested
             /\ \A i \in Products : line[o][i].loaded = 0
    /\ status[o] \in {"RESERVED", "IN_PREPARATION", "LOADED"} \cup LEFT_STATUSES
          => \A i \in Lines(o) : line[o][i].reserved = line[o][i].requested
    /\ status[o] \in {"LOADED"} \cup LEFT_STATUSES
          => \A i \in Lines(o) : line[o][i].loaded = line[o][i].reserved
    /\ dispatched_at[o] <=> status[o] \in LEFT_STATUSES
    /\ \A i \in Products :
          line[o][i].dispatched = IF dispatched_at[o] THEN line[o][i].loaded ELSE 0
    /\ status[o] \in {"OUTCOME_RECORDED", "CLOSED"} => Explained(o)

StagesMatchLines == \A o \in Orders : StageMatchesLines(o)

\* Units are conserved: what a warehouse has on hand is what was entered by
\* hand, bought or transferred, less what its orders took out, plus what they
\* brought back.  No repair, correction or repeated outcome creates a unit.
\* It takes OneLineEach too: the repair raises on_hand to cover what it finds.
OrderUnits(w, Count(_)) ==
    Cardinality({u \in Orders \X (1..MaxQuantity) :
                    order_warehouse[u[1]] = w /\ u[2] <= Count(u[1])})

UnitsOut(w, i) ==
    LET out(o) == line[o][i].dispatched IN OrderUnits(w, out)

UnitsBack(w, i) ==
    LET back(o) == line[o][i].returned + line[o][i].returned_damaged
    IN  OrderUnits(w, back)

UnitsConserved ==
    \A w \in Warehouses, p \in Products :
        stock[w][p].on_hand
          = entered[w][p] - OfProduct([i \in Products |-> UnitsOut(w, i)], p)
                          + OfProduct([i \in Products |-> UnitsBack(w, i)], p)

-----------------------------------------------------------------------------
(* What a step may never do.                                                *)

\* An order leaves the warehouse once: after its dispatch neither its lines'
\* requested, reserved, loaded or dispatched units nor its warehouse change,
\* and it is never prepared, reserved or cancelled again.
LeavesOnce ==
    [][\A o \in Orders : dispatched_at[o] =>
          /\ dispatched_at'[o]
          /\ status'[o] \in LEFT_STATUSES
          /\ order_warehouse'[o] = order_warehouse[o]
          /\ \A i \in Products :
                /\ line'[o][i].dispatched = line[o][i].dispatched
                /\ line'[o][i].reserved = line[o][i].reserved]_vars

\* Once an outcome is recorded the order's lines never change, and the only
\* status that can follow is CLOSED.
OutcomeFinal ==
    [][\A o \in Orders : status[o] \in {"OUTCOME_RECORDED", "CLOSED"} =>
          /\ line'[o] = line[o]
          /\ status'[o] \in {status[o], "CLOSED"}]_vars

\* An order is not cancelled under an active purchase, so that no bought unit
\* is on its way to an order that no longer wants it.
CancelledWithoutPurchase ==
    [][\A o \in Orders : status[o] # "CANCELLED" /\ status'[o] = "CANCELLED"
          => ~HasActivePurchase(o)]_vars

\* A purchase that was refused, cancelled or completed stays so, and no
\* purchase ever receives more of a product than was requested.
PurchasesSettled ==
    [][\A p \in Purchases :
          /\ purchase[p].status \notin ACTIVE_PURCHASE_STATUSES \cup {"ABSENT"}
                => purchase'[p] = purchase[p]
          /\ \A i \in Products :
                purchase'[p].received[i] <= purchase'[p].requested[i]]_vars
=============================================================================
