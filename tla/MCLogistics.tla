---------------------------- MODULE MCLogistics -----------------------------
(* Instances of Logistics for TLC. *)
EXTENDS Logistics, TLC

\* Orders, and purchases, are interchangeable: nothing orders them.
Symmetry == Permutations(Orders) \cup Permutations(Purchases)

\* The lines of an order: one of each product, or two of one product.
OneLine == [i \in Products |-> i]

TwoLines == [i \in Products |-> CHOOSE p \in Products : TRUE]

CONSTANT Extras     \* products that are only asked for

\* Lines of an extra product are added to orders, one unit each, and taken off; it is
\* neither in stock nor bought.
ExtrasOnlyAsked ==
    \A i \in Extras :
        /\ \A w \in Warehouses : stock[w][i] = EmptyBalance
        /\ \A p \in Purchases : purchase[p].requested[i] = 0
        /\ \A o \in Orders : line[o][i].requested <= 1

\* The behaviours of Spec in which the balances are first entered by hand, then
\* left alone while orders and purchases work on them.
StockedInit ==
    /\ \E count \in [Warehouses -> [Products -> 0..MaxOnHand]] :
          /\ \A w \in Warehouses, i \in Products \ Items : count[w][i] = 0
          /\ stock = [w \in Warehouses |-> [i \in Products |->
                         [EmptyBalance EXCEPT !.on_hand = count[w][i]]]]
          /\ entered = count
    /\ status = [o \in Orders |-> "ABSENT"]
    /\ order_warehouse = [o \in Orders |-> AnyWarehouse]
    /\ dispatched_at = [o \in Orders |-> FALSE]
    /\ line = [o \in Orders |-> [i \in Products |-> NoLine]]
    /\ pending_request = {}
    /\ purchase = [p \in Purchases |-> NoPurchase]

StockedSpec == StockedInit /\ [][OrderNext \/ PurchaseNext]_vars
=============================================================================
