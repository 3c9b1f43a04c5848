-------------------------- MODULE LogisticsOrders ---------------------------
(***************************************************************************)
(* logistics_order_service: an order is created for an event's warehouse,  *)
(* reserves stock for its lines, is prepared, loaded and dispatched,       *)
(* delivered in the field, and closed once every delivered unit is         *)
(* explained.  A partial-dispatch request splits what could not be         *)
(* reserved into a child order.  Each handler is one database transaction; *)
(* here it is one step.  A handler that loops over the lines works on one  *)
(* balance per product: what the line in place i leaves of the row it      *)
(* finds is an operator, and Found gives it to a second line of a product. *)
(***************************************************************************)
EXTENDS LogisticsState

\* _ensure_mutable
Mutable(o) ==
    /\ status[o] \in MANAGE_STATUSES
    /\ \A i \in Products : line[o][i].reserved = 0

SetStatus(o, s) == status' = [status EXCEPT ![o] = s]

\* Order o's lines of product p, and the last one that a loop comes to.
LinesOf(o, p) == {i \in Lines(o) : item_id[i] = p}

LastLine(o, p) ==
    IF LinesOf(o, p) \subseteq {p} THEN p
    ELSE CHOOSE i \in LinesOf(o, p) : i # p

\* Store the balances of order o's warehouse that its lines refer to: rows[i]
\* is what the line in place i leaves.
SetBalances(o, rows) ==
    stock' = [stock EXCEPT ![order_warehouse[o]] =
                 [p \in Products |->
                    IF LinesOf(o, p) # {} THEN rows[LastLine(o, p)] ELSE @[p]]]

\* Store order o's lines.
SetLines(o, rows) ==
    line' = [line EXCEPT ![o] =
                [i \in Products |-> IF i \in Lines(o) THEN rows[i] ELSE @[i]]]

-----------------------------------------------------------------------------
(* Creation and edition.                                                    *)

\* The schema refuses a product that is listed twice.
CreateOrder(o, w, q) ==
    /\ status[o] = "ABSENT"
    /\ \A i \in Products : q[i] > 0 => item_id[i] = i
    /\ SetStatus(o, "ASSIGNED")
    /\ order_warehouse' = [order_warehouse EXCEPT ![o] = w]
    /\ line' = [line EXCEPT ![o] = [i \in Products |-> NewLine(q[i])]]
    /\ UNCHANGED <<dispatched_at, pending_request, stockVars, purchase>>

UpdateOrder(o, w) ==
    /\ Mutable(o)
    /\ order_warehouse' = [order_warehouse EXCEPT ![o] = w]
    /\ UNCHANGED <<status, dispatched_at, line, pending_request, stockVars, purchase>>

AssignOrder(o) ==
    /\ Mutable(o)
    /\ SetStatus(o, "ASSIGNED")
    /\ UNCHANGED <<order_warehouse, dispatched_at, line, pending_request,
                   stockVars, purchase>>

\* Whatever lines the order has, of the same product or not: place i is free.
AddItem(o, i, q) ==
    /\ Mutable(o)
    /\ i \notin Lines(o)
    /\ line' = [line EXCEPT ![o][i] = NewLine(q)]
    /\ UNCHANGED <<status, order_warehouse, dispatched_at, pending_request,
                   stockVars, purchase>>

UpdateItem(o, i, q) ==
    /\ Mutable(o)
    /\ i \in Lines(o)
    /\ line' = [line EXCEPT ![o][i].requested = q]
    /\ UNCHANGED <<status, order_warehouse, dispatched_at, pending_request,
                   stockVars, purchase>>

DeleteItem(o, i) ==
    /\ Mutable(o)
    /\ i \in Lines(o)
    /\ Cardinality(Lines(o)) > 1
    /\ line' = [line EXCEPT ![o][i] = NoLine]
    /\ UNCHANGED <<status, order_warehouse, dispatched_at, pending_request,
                   stockVars, purchase>>

-----------------------------------------------------------------------------
(* Reservation.                                                             *)

\* Mutant: what is available is checked for being positive, not as a limit.
QuantityToReserveUncapped(o, i, s, usable) ==
    IF item_id[i] \in usable /\ Available(s) > 0
    THEN Positive(line[o][i].requested - line[o][i].reserved)
    ELSE 0

\* _quantity_to_reserve for the line in place i and the row s; usable are the
\* products whose catalogue entry is active, the others have nothing available.
QuantityToReserve(o, i, s, usable) ==
    IF item_id[i] \in usable
    THEN Smaller(Positive(line[o][i].requested - line[o][i].reserved),
                 Positive(Available(s)))
    ELSE 0

\* What a reservation for the line in place i leaves of row s.
RowReserved(o, i, s, usable) ==
    LET locked == LockedBalance(o, i, s)
    IN  [locked EXCEPT !.reserved = @ + QuantityToReserve(o, i, locked, usable)]

\* The row that line's reservation works on.
RowForReserve(o, i, usable) ==
    LET left(j, s) == RowReserved(o, j, s, usable)
    IN  LockedBalance(o, i, Found(o, i, left))

ReserveStock(o, usable) ==
    LET row(i)  == RowForReserve(o, i, usable)
        take(i) == QuantityToReserve(o, i, row(i), usable)
        whole == /\ Lines(o) # {}
                 /\ \A i \in Lines(o) :
                       line[o][i].reserved + take(i) >= line[o][i].requested
    IN  /\ status[o] \in {"ASSIGNED", "INSUFFICIENT_STOCK"}
        /\ SetBalances(o, [i \in Products |->
                             [row(i) EXCEPT !.reserved = @ + take(i)]])
        /\ SetLines(o, [i \in Products |->
                          [line[o][i] EXCEPT !.reserved = @ + take(i)]])
        /\ SetStatus(o, IF whole THEN "RESERVED" ELSE "INSUFFICIENT_STOCK")
        /\ UNCHANGED <<order_warehouse, dispatched_at, pending_request, entered, purchase>>

\* Mutant: the lines are reset and the balances keep their reserved count.
ReleaseLinesOnly(o) ==
    /\ SetLines(o, [i \in Products |->
                      [line[o][i] EXCEPT !.reserved = 0, !.loaded = 0]])
    /\ UNCHANGED stock

\* What the release of the line in place i leaves of row s.
RowFreed(o, i, s) ==
    IF line[o][i].reserved > 0
    THEN [LockedBalance(o, i, s) EXCEPT !.reserved = @ - line[o][i].reserved]
    ELSE s

\* _release_order_reservations: every reserved line returns its units to the
\* balance, and every line goes back to its initial preparation state.
ReleaseReservations(o) ==
    LET left(i, s) == RowFreed(o, i, s)
        freed(i)   == RowFreed(o, i, Found(o, i, left))
    IN  /\ \A i \in Lines(o) : freed(i).reserved >= 0
        /\ SetBalances(o, [i \in Products |-> freed(i)])
        /\ SetLines(o, [i \in Products |->
                          [line[o][i] EXCEPT !.reserved = 0, !.loaded = 0]])

UnreserveStock(o) ==
    /\ status[o] \in ACTIVE_STOCK_RESERVATION_STATUSES
    /\ \E i \in Lines(o) : line[o][i].reserved > 0
    /\ ReleaseReservations(o)
    /\ SetStatus(o, "ASSIGNED")
    /\ UNCHANGED <<order_warehouse, dispatched_at, pending_request, entered, purchase>>

\* Mutant: active purchases of the order are not looked for.
CancelOrderUnderPurchase(o) ==
    /\ status[o] \in CANCELLABLE_STATUSES
    /\ ReleaseReservations(o)
    /\ SetStatus(o, "CANCELLED")
    /\ UNCHANGED <<order_warehouse, dispatched_at, pending_request, entered, purchase>>

CancelOrder(o) ==
    /\ status[o] \in CANCELLABLE_STATUSES
    /\ ~HasActivePurchase(o)
    /\ ReleaseReservations(o)
    /\ SetStatus(o, "CANCELLED")
    /\ UNCHANGED <<order_warehouse, dispatched_at, pending_request, entered, purchase>>

\* check_logistics_order_stock repairs the balances of an active order, and
\* promotes an order whose lines turn out to be fully reserved.
CheckStock(o) ==
    LET left(i, s) == LockedBalance(o, i, s)
        reserved_all == /\ status[o] = "INSUFFICIENT_STOCK"
                        /\ Lines(o) # {}
                        /\ \A i \in Lines(o) :
                              line[o][i].reserved = line[o][i].requested
    IN  /\ status[o] \notin {"ABSENT", "CANCELLED"}
        /\ SetBalances(o, [i \in Products |-> LockedBalance(o, i, Found(o, i, left))])
        /\ SetStatus(o, IF reserved_all THEN "RESERVED" ELSE status[o])
        /\ UNCHANGED <<order_warehouse, dispatched_at, line, pending_request,
                       entered, purchase>>

\* transfer_stock_to_logistics_order: no more than the source has available,
\* and no more than the line still misses.
TransferStock(o, i, source, q) ==
    LET w       == order_warehouse[o]
        p       == item_id[i]
        missing == line[o][i].requested - line[o][i].reserved
                   - Positive(Available(stock[w][p]))
    IN  /\ status[o] \in {"ASSIGNED", "INSUFFICIENT_STOCK"}
        /\ source # w
        /\ i \in Lines(o)
        /\ q <= Positive(Available(stock[source][p]))
        /\ q <= missing
        /\ stock' = [stock EXCEPT ![source][p].on_hand = @ - q,
                                  ![w][p].on_hand = @ + q]
        /\ entered' = [entered EXCEPT ![source][p] = @ - q, ![w][p] = @ + q]
        /\ UNCHANGED <<orderVars, purchase>>

-----------------------------------------------------------------------------
(* Partial dispatch.                                                        *)

CreatePartialDispatch(o) ==
    /\ status[o] = "INSUFFICIENT_STOCK"
    /\ \E i \in Lines(o) : line[o][i].reserved > 0
    /\ \E i \in Lines(o) : line[o][i].reserved < line[o][i].requested
    /\ ~HasActivePurchase(o)
    /\ o \notin pending_request
    /\ pending_request' = pending_request \cup {o}
    /\ UNCHANGED <<status, order_warehouse, dispatched_at, line, stockVars, purchase>>

\* Mutant: the reserved lines keep asking for what the child order now asks for.
ApproveKeepingRequested(o, child) ==
    /\ o \in pending_request
    /\ status[o] = "INSUFFICIENT_STOCK"
    /\ status[child] = "ABSENT"
    /\ pending_request' = pending_request \ {o}
    /\ status' = [status EXCEPT ![o] = "RESERVED", ![child] = "ASSIGNED"]
    /\ order_warehouse' = [order_warehouse EXCEPT ![child] = order_warehouse[o]]
    /\ line' = [line EXCEPT
          ![o] = [i \in Products |->
                    IF line[o][i].reserved > 0 THEN line[o][i] ELSE NoLine],
          ![child] = [i \in Products |->
                        NewLine(line[o][i].requested - line[o][i].reserved)]]
    /\ UNCHANGED <<dispatched_at, stockVars, purchase>>

\* approve_partial_dispatch_request: what is missing moves to a new order of
\* the same warehouse, lines without a reservation leave the order.
ApprovePartialDispatch(o, child) ==
    /\ o \in pending_request
    /\ status[o] = "INSUFFICIENT_STOCK"
    /\ status[child] = "ABSENT"
    /\ pending_request' = pending_request \ {o}
    /\ status' = [status EXCEPT ![o] = "RESERVED", ![child] = "ASSIGNED"]
    /\ order_warehouse' = [order_warehouse EXCEPT ![child] = order_warehouse[o]]
    /\ line' = [line EXCEPT
          ![o] = [i \in Products |->
                    IF line[o][i].reserved > 0
                    THEN [line[o][i] EXCEPT !.requested = line[o][i].reserved]
                    ELSE NoLine],
          ![child] = [i \in Products |->
                        NewLine(line[o][i].requested - line[o][i].reserved)]]
    /\ UNCHANGED <<dispatched_at, stockVars, purchase>>

RejectPartialDispatch(o) ==
    /\ o \in pending_request
    /\ pending_request' = pending_request \ {o}
    /\ UNCHANGED <<status, order_warehouse, dispatched_at, line, stockVars, purchase>>

-----------------------------------------------------------------------------
(* Preparation and dispatch.                                                *)

StartPreparation(o) ==
    /\ status[o] = "RESERVED"
    /\ SetStatus(o, "IN_PREPARATION")
    /\ UNCHANGED <<order_warehouse, dispatched_at, line, pending_request,
                   stockVars, purchase>>

LoadItem(o, i, q) ==
    LET loaded(k) == IF k = i THEN q ELSE line[o][k].loaded
        complete  == \A k \in Lines(o) : /\ loaded(k) = line[o][k].reserved
                                         /\ line[o][k].reserved > 0
    IN  /\ status[o] \in {"RESERVED", "IN_PREPARATION", "LOADED"}
        /\ i \in Lines(o)
        /\ line[o][i].reserved > 0
        /\ q <= line[o][i].reserved
        /\ line' = [line EXCEPT ![o][i].loaded = q]
        /\ SetStatus(o, IF complete THEN "LOADED" ELSE "IN_PREPARATION")
        /\ UNCHANGED <<order_warehouse, dispatched_at, pending_request,
                       stockVars, purchase>>

\* The row that the dispatch of the line in place i works on when it finds s,
\* and what it leaves.
RowForDispatch(o, i, s) == Synced(order_warehouse[o], item_id[i], s)

RowDispatched(o, i, s) ==
    [RowForDispatch(o, i, s) EXCEPT !.on_hand  = @ - line[o][i].loaded,
                                    !.reserved = @ - line[o][i].loaded]

\* dispatch_logistics_order: the loaded units leave the balance and its
\* reserved count together.
DispatchOrder(o) ==
    LET left(i, s) == RowDispatched(o, i, s)
        row(i) == RowForDispatch(o, i, Found(o, i, left))
        loaded(i) == line[o][i].loaded
    IN  /\ status[o] \in {"IN_PREPARATION", "LOADED"}
        /\ ~dispatched_at[o]
        /\ Lines(o) # {}
        /\ \A i \in Lines(o) : /\ loaded(i) > 0
                               /\ loaded(i) = line[o][i].reserved
                               /\ loaded(i) <= row(i).reserved
                               /\ loaded(i) <= row(i).on_hand
        /\ SetBalances(o, [i \in Products |->
                             [row(i) EXCEPT !.on_hand  = @ - loaded(i),
                                            !.reserved = @ - loaded(i)]])
        /\ SetLines(o, [i \in Products |->
                          [line[o][i] EXCEPT !.dispatched = loaded(i)]])
        /\ SetStatus(o, "OUT_OF_WAREHOUSE")
        /\ dispatched_at' = [dispatched_at EXCEPT ![o] = TRUE]
        /\ UNCHANGED <<order_warehouse, pending_request, entered, purchase>>

-----------------------------------------------------------------------------
(* Delivery in the field.                                                   *)

\* Mutant: a delivery may still be corrected once outcomes are being reported.
DeliverItemDuringOutcome(o, i, q) ==
    /\ status[o] \in {"OUT_OF_WAREHOUSE", "PARTIALLY_DELIVERED", "OUTCOME_PENDING"}
    /\ i \in Lines(o)
    /\ line[o][i].dispatched > 0
    /\ q <= line[o][i].dispatched
    /\ line' = [line EXCEPT ![o][i].delivered = q]
    /\ UNCHANGED <<status, order_warehouse, dispatched_at, pending_request,
                   stockVars, purchase>>

DeliverItem(o, i, q) ==
    /\ status[o] \in {"OUT_OF_WAREHOUSE", "PARTIALLY_DELIVERED"}
    /\ i \in Lines(o)
    /\ line[o][i].dispatched > 0
    /\ q <= line[o][i].dispatched
    /\ line' = [line EXCEPT ![o][i].delivered = q]
    /\ UNCHANGED <<status, order_warehouse, dispatched_at, pending_request,
                   stockVars, purchase>>

ConfirmDelivery(o) ==
    LET all_delivered ==
            \A i \in Lines(o) : line[o][i].delivered = line[o][i].dispatched
    IN  /\ status[o] = "OUT_OF_WAREHOUSE"
        /\ \A i \in Lines(o) : /\ line[o][i].dispatched > 0
                               /\ line[o][i].delivered <= line[o][i].dispatched
        /\ \E i \in Lines(o) : line[o][i].delivered > 0
        /\ SetStatus(o, IF all_delivered THEN "DELIVERED" ELSE "PARTIALLY_DELIVERED")
        /\ UNCHANGED <<order_warehouse, dispatched_at, line, pending_request,
                       stockVars, purchase>>

-----------------------------------------------------------------------------
(* Outcomes and closure.                                                    *)

\* Mutant: a recorded outcome may still be corrected.
OUTCOME_STATUSES_WhenRecorded ==
    {"DELIVERED", "PARTIALLY_DELIVERED", "OUTCOME_PENDING", "WITH_DIFFERENCES",
     "OUTCOME_RECORDED"}

\* _ensure_outcome_order_state
OUTCOME_STATUSES ==
    {"DELIVERED", "PARTIALLY_DELIVERED", "OUTCOME_PENDING", "WITH_DIFFERENCES"}

\* What a client reports for a line: units consumed, returned, returned
\* damaged, and lost or discarded.
Outcomes ==
    [consumed : 0..MaxQuantity, returned : 0..MaxQuantity,
     returned_damaged : 0..MaxQuantity, lost : 0..MaxQuantity]

OutcomeTotal(x) == x.consumed + x.returned + x.returned_damaged + x.lost

\* Mutant: a correction books the reported returns again, not the difference.
RebookedBalance(s, l, x) ==
    [s EXCEPT !.on_hand = @ + x.returned + x.returned_damaged,
              !.damaged = @ + x.returned_damaged]

\* _corrected_stock_quantities: the balance once the difference between the
\* reported returns and the recorded ones is booked.
CorrectedBalance(s, l, x) ==
    LET delta_returned == x.returned - l.returned
        delta_returned_damaged == x.returned_damaged - l.returned_damaged
    IN  [s EXCEPT !.on_hand = @ + delta_returned + delta_returned_damaged,
                  !.damaged = @ + delta_returned_damaged]

ReturnsChange(l, x) ==
    x.returned # l.returned \/ x.returned_damaged # l.returned_damaged

\* The handler, which finds row s, refuses to take back units that were
\* reserved or moved since.
OutcomeAccepted(o, i, s, x) ==
    /\ line[o][i].delivered > 0
    /\ OutcomeTotal(x) <= line[o][i].delivered
    /\ item_id[i] \notin Consumables => x.consumed = 0
    /\ ReturnsChange(line[o][i], x)
          => LET t == CorrectedBalance(s, line[o][i], x)
             IN  t.on_hand >= 0 /\ t.damaged >= 0 /\ Available(t) >= 0

WithOutcome(l, x) ==
    [l EXCEPT !.consumed = x.consumed, !.returned = x.returned,
              !.returned_damaged = x.returned_damaged, !.lost = x.lost]

OutcomeStatus(o) ==
    IF status[o] \in {"DELIVERED", "PARTIALLY_DELIVERED"}
    THEN "OUTCOME_PENDING" ELSE status[o]

RegisterOutcome(o, i, x) ==
    LET w == order_warehouse[o]
        p == item_id[i]
    IN  /\ status[o] \in OUTCOME_STATUSES
        /\ i \in Lines(o)
        /\ OutcomeAccepted(o, i, stock[w][p], x)
        /\ stock' = [stock EXCEPT ![w][p] = CorrectedBalance(@, line[o][i], x)]
        /\ line' = [line EXCEPT ![o][i] = WithOutcome(@, x)]
        /\ SetStatus(o, OutcomeStatus(o))
        /\ UNCHANGED <<order_warehouse, dispatched_at, pending_request, entered, purchase>>

\* The delivered consumables of an order, and the outcome all of one is
\* consumed.
ConsumableLines(o) ==
    {i \in Lines(o) : item_id[i] \in Consumables /\ line[o][i].delivered > 0}

AllConsumed(l) ==
    [consumed |-> l.delivered, returned |-> 0, returned_damaged |-> 0, lost |-> 0]

\* What that outcome of the line in place i leaves of row s.
RowConsumed(o, i, s) ==
    IF i \in ConsumableLines(o)
    THEN CorrectedBalance(s, line[o][i], AllConsumed(line[o][i])) ELSE s

\* mark_all_consumables_consumed: all delivered consumables or none.
MarkAllConsumed(o) ==
    LET consumables == ConsumableLines(o)
        all(i) == AllConsumed(line[o][i])
        left(i, s) == RowConsumed(o, i, s)
        found(i) == Found(o, i, left)
    IN  /\ status[o] \in OUTCOME_STATUSES
        /\ consumables # {}
        /\ \A i \in consumables : OutcomeAccepted(o, i, found(i), all(i))
        /\ SetBalances(o, [i \in Products |-> RowConsumed(o, i, found(i))])
        /\ line' = [line EXCEPT ![o] = [i \in Products |->
                        IF i \in consumables THEN WithOutcome(@[i], all(i)) ELSE @[i]]]
        /\ SetStatus(o, OutcomeStatus(o))
        /\ UNCHANGED <<order_warehouse, dispatched_at, pending_request, entered, purchase>>

Explained(o) ==
    \A i \in Lines(o) : OutcomeTotal(line[o][i]) = line[o][i].delivered

ConfirmOutcome(o) ==
    /\ status[o] \in OUTCOME_STATUSES
    /\ Lines(o) # {}
    /\ \A i \in Lines(o) : /\ line[o][i].delivered > 0
                           /\ OutcomeTotal(line[o][i]) <= line[o][i].delivered
    /\ SetStatus(o, IF Explained(o) THEN "OUTCOME_RECORDED" ELSE "WITH_DIFFERENCES")
    /\ UNCHANGED <<order_warehouse, dispatched_at, line, pending_request,
                   stockVars, purchase>>

CloseOrder(o) ==
    /\ status[o] = "OUTCOME_RECORDED"
    /\ Lines(o) # {}
    /\ Explained(o)
    /\ SetStatus(o, "CLOSED")
    /\ UNCHANGED <<order_warehouse, dispatched_at, line, pending_request,
                   stockVars, purchase>>

-----------------------------------------------------------------------------
OrderNext ==
    \E o \in Orders :
        \/ \E w \in Warehouses, q \in Quantities : CreateOrder(o, w, q)
        \/ \E w \in Warehouses : UpdateOrder(o, w)
        \/ AssignOrder(o)
        \/ \E i \in Products, q \in 1..MaxQuantity :
              \/ AddItem(o, i, q)
              \/ UpdateItem(o, i, q)
              \/ LoadItem(o, i, q)
              \/ \E source \in Warehouses : TransferStock(o, i, source, q)
        \/ \E i \in Products : DeleteItem(o, i)
        \/ \E usable \in SUBSET Products : ReserveStock(o, usable)
        \/ UnreserveStock(o)
        \/ CancelOrder(o)
        \/ CheckStock(o)
        \/ CreatePartialDispatch(o)
        \/ \E child \in Orders : ApprovePartialDispatch(o, child)
        \/ RejectPartialDispatch(o)
        \/ StartPreparation(o)
        \/ DispatchOrder(o)
        \/ \E i \in Products, q \in 0..MaxQuantity : DeliverItem(o, i, q)
        \/ ConfirmDelivery(o)
        \/ \E i \in Products, x \in Outcomes : RegisterOutcome(o, i, x)
        \/ MarkAllConsumed(o)
        \/ ConfirmOutcome(o)
        \/ CloseOrder(o)
=============================================================================
