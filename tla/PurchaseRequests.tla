-------------------------- MODULE PurchaseRequests --------------------------
(***************************************************************************)
(* purchase_request_service: a purchase is requested, for the missing      *)
(* units of a logistics order or on its own, approved, bought, and         *)
(* received into a warehouse, possibly in several deliveries.              *)
(***************************************************************************)
EXTENDS LogisticsState

SetPurchaseStatus(p, s) == purchase' = [purchase EXCEPT ![p].status = s]

NewPurchase(o, w, to_warehouse, q) ==
    [NoPurchase EXCEPT !.status = "REQUESTED", !.order = o, !.warehouse = w,
                       !.to_warehouse = to_warehouse, !.requested = q]

\* create_purchase_request for an order: its warehouse, any of its statuses.
CreateLinkedPurchase(p, o, q) ==
    /\ purchase[p].status = "ABSENT"
    /\ status[o] # "ABSENT"
    /\ purchase' = [purchase EXCEPT ![p] = NewPurchase(o, order_warehouse[o], TRUE, q)]
    /\ UNCHANGED <<orderVars, stockVars>>

\* create_purchase_request without an order.
CreateFreePurchase(p, w, to_warehouse, q) ==
    /\ purchase[p].status = "ABSENT"
    /\ purchase' = [purchase EXCEPT ![p] = NewPurchase(NoOrder, w, to_warehouse, q)]
    /\ UNCHANGED <<orderVars, stockVars>>

\* What neither the reservation of the line nor the warehouse's stock covers.
Missing(o, i, usable) ==
    LET p         == item_id[i]
        available == IF p \in usable
                     THEN Positive(Available(stock[order_warehouse[o]][p])) ELSE 0
    IN  Positive(line[o][i].requested - line[o][i].reserved - available)

\* create_purchase_request_from_order marks the order INSUFFICIENT_STOCK,
\* whatever its status was.
CreatePurchaseFromOrder(p, o, usable) ==
    LET missing == [i \in Products |-> Missing(o, i, usable)]
    IN  /\ purchase[p].status = "ABSENT"
        /\ status[o] # "ABSENT"
        /\ ~HasActivePurchase(o)
        /\ \E i \in Lines(o) : missing[i] > 0
        /\ status' = [status EXCEPT ![o] = "INSUFFICIENT_STOCK"]
        /\ purchase' = [purchase EXCEPT
                ![p] = NewPurchase(o, order_warehouse[o], TRUE, missing)]
        /\ UNCHANGED <<order_warehouse, dispatched_at, line, pending_request, stockVars>>

UpdatePurchase(p, w) ==
    /\ purchase[p].status \in {"REQUESTED", "APPROVED"}
    /\ purchase[p].order # NoOrder => w = order_warehouse[purchase[p].order]
    /\ purchase' = [purchase EXCEPT ![p].warehouse = w]
    /\ UNCHANGED <<orderVars, stockVars>>

ApprovePurchase(p) ==
    /\ purchase[p].status = "REQUESTED"
    /\ SetPurchaseStatus(p, "APPROVED")
    /\ UNCHANGED <<orderVars, stockVars>>

RejectPurchase(p) ==
    /\ purchase[p].status \in {"REQUESTED", "APPROVED"}
    /\ SetPurchaseStatus(p, "REJECTED")
    /\ UNCHANGED <<orderVars, stockVars>>

\* mark_purchase_request_purchased: q lists what was bought of some items.
MarkPurchased(p, q) ==
    /\ purchase[p].status = "APPROVED"
    /\ \A i \in Products : q[i] <= purchase[p].requested[i]
    /\ purchase' = [purchase EXCEPT
            ![p].status = "PURCHASED",
            ![p].purchased = [i \in Products |->
                IF q[i] > 0 THEN q[i] ELSE purchase[p].purchased[i]]]
    /\ UNCHANGED <<orderVars, stockVars>>

\* Mutant: earlier deliveries of the same item are forgotten.
ReceivableEachTime(p, q) ==
    \A i \in Products :
        LET bought == purchase[p].purchased[i]
        IN  q[i] <= IF bought > 0 THEN bought ELSE purchase[p].requested[i]

\* What may still be received of an item: at most what was bought of it, or
\* what was requested when no purchase of it was recorded.
Receivable(p, q) ==
    \A i \in Products :
        LET bought == purchase[p].purchased[i]
            limit  == IF bought > 0 THEN bought ELSE purchase[p].requested[i]
        IN  q[i] > 0 => purchase[p].received[i] + q[i] <= limit

Received(p, q) == [i \in Products |-> purchase[p].received[i] + q[i]]

\* What a delivery of q brings of each product.
Brought(q) == [p \in Products |-> OfProduct(q, p)]

\* Mutant: every delivery books the total received so far.
ReceivePurchaseTotal(p, q) ==
    LET w == purchase[p].warehouse
        complete == \A i \in Products : Received(p, q)[i] >= purchase[p].requested[i]
    IN  /\ purchase[p].to_warehouse
        /\ purchase[p].status \in {"APPROVED", "PURCHASED", "PARTIALLY_RECEIVED"}
        /\ Receivable(p, q)
        /\ \A i \in Products : stock[w][i].on_hand + Brought(q)[i] <= MaxOnHand
        /\ purchase' = [purchase EXCEPT
                ![p].received = Received(p, q),
                ![p].status = IF complete THEN "RECEIVED" ELSE "PARTIALLY_RECEIVED"]
        /\ stock' = [stock EXCEPT ![w] =
                        [i \in Products |->
                            [stock[w][i] EXCEPT !.on_hand = @ + Brought(Received(p, q))[i]]]]
        /\ entered' = [entered EXCEPT ![w] = [i \in Products |-> @[i] + Brought(q)[i]]]
        /\ UNCHANGED orderVars

\* receive_purchase_request books every received unit into the warehouse.  The
\* total received reaches the total requested when every item does, because no
\* item exceeds its own limit.  MaxOnHand bounds the stock of a warehouse.
ReceivePurchase(p, q) ==
    LET w == purchase[p].warehouse
        complete == \A i \in Products : Received(p, q)[i] >= purchase[p].requested[i]
    IN  /\ purchase[p].to_warehouse
        /\ purchase[p].status \in {"APPROVED", "PURCHASED", "PARTIALLY_RECEIVED"}
        /\ Receivable(p, q)
        /\ \A i \in Products : stock[w][i].on_hand + Brought(q)[i] <= MaxOnHand
        /\ purchase' = [purchase EXCEPT
                ![p].received = Received(p, q),
                ![p].status = IF complete THEN "RECEIVED" ELSE "PARTIALLY_RECEIVED"]
        /\ stock' = [stock EXCEPT ![w] =
                        [i \in Products |->
                            [stock[w][i] EXCEPT !.on_hand = @ + Brought(q)[i]]]]
        /\ entered' = [entered EXCEPT ![w] = [i \in Products |-> @[i] + Brought(q)[i]]]
        /\ UNCHANGED orderVars

\* deliver_direct_to_event: one delivery that never enters a warehouse.
DeliverDirect(p, q) ==
    /\ purchase[p].order = NoOrder
    /\ ~purchase[p].to_warehouse
    /\ purchase[p].status \in {"APPROVED", "PURCHASED"}
    /\ Receivable(p, q)
    /\ purchase' = [purchase EXCEPT ![p].received = Received(p, q),
                                    ![p].status = "DELIVERED_DIRECT_TO_EVENT"]
    /\ UNCHANGED <<orderVars, stockVars>>

CancelPurchase(p) ==
    /\ purchase[p].status \in ACTIVE_PURCHASE_STATUSES
    /\ SetPurchaseStatus(p, "CANCELLED")
    /\ UNCHANGED <<orderVars, stockVars>>

PurchaseNext ==
    \E p \in Purchases :
        \/ \E o \in Orders, q \in Quantities : CreateLinkedPurchase(p, o, q)
        \/ \E w \in Warehouses, to \in BOOLEAN, q \in Quantities :
              CreateFreePurchase(p, w, to, q)
        \/ \E o \in Orders, usable \in SUBSET Products :
              CreatePurchaseFromOrder(p, o, usable)
        \/ \E w \in Warehouses : UpdatePurchase(p, w)
        \/ ApprovePurchase(p)
        \/ RejectPurchase(p)
        \/ \E q \in Quantities : \/ MarkPurchased(p, q)
                                 \/ ReceivePurchase(p, q)
                                 \/ DeliverDirect(p, q)
        \/ CancelPurchase(p)
=============================================================================
