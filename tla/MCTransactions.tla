--------------------------- MODULE MCTransactions ---------------------------
(* Instances of LogisticsTransactions for TLC. *)
EXTENDS LogisticsTransactions

\* The lines of an order: one of each product.
OneLine == [i \in Products |-> i]

\* Behaviours that start with `count` units of every product in stock, and the
\* orders `created` each asking for one unit of every product.
Start(count, created) ==
    /\ stock = [w \in Warehouses |-> [i \in Products |->
                   [EmptyBalance EXCEPT !.on_hand = count]]]
    /\ entered = [w \in Warehouses |-> [i \in Products |-> count]]
    /\ status = [o \in Orders |-> IF o \in created THEN "ASSIGNED" ELSE "ABSENT"]
    /\ line = [o \in Orders |-> [i \in Products |->
                  IF o \in created THEN NewLine(1) ELSE NoLine]]
    /\ order_warehouse = [o \in Orders |-> AnyWarehouse]
    /\ dispatched_at = [o \in Orders |-> FALSE]
    /\ pending_request = {}
    /\ purchase = [p \in Purchases |-> NoPurchase]
    /\ SessionsIdle

StockedInit == \E count \in 0..MaxOnHand : Start(count, {})

StockedSpec == StockedInit /\ [][TransactionsNext]_allVars

\* One unit of every product, an order for all of them, and another to come.
ScarceInit == Start(1, {CHOOSE o \in Orders : TRUE})

ScarceSpec == ScarceInit /\ [][TransactionsNext]_allVars /\ Fairness
=============================================================================
