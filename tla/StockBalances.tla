--------------------------- MODULE StockBalances ----------------------------
(***************************************************************************)
(* stock_service: the balances people correct by hand, either directly or  *)
(* by recording a movement.  Every handler validates the resulting row and *)
(* writes a stock_movements row with it.                                   *)
(***************************************************************************)
EXTENDS LogisticsState

\* The kinds of create_stock_movement that add or subtract the quantity.
DeltaMovements ==
    {"ADJUSTMENT_IN", "ADJUSTMENT_OUT", "LOSS", "DAMAGE", "RECOVER_DAMAGED"}

\* The row a movement of q units makes of balance s.
Moved(kind, s, q) ==
    CASE kind = "ADJUSTMENT_IN"              -> [s EXCEPT !.on_hand = @ + q]
      [] kind \in {"ADJUSTMENT_OUT", "LOSS"} -> [s EXCEPT !.on_hand = @ - q]
      [] kind = "DAMAGE"                     -> [s EXCEPT !.damaged = @ + q]
      [] kind = "RECOVER_DAMAGED"            -> [s EXCEPT !.damaged = @ - q]

\* Mutant: the resulting row is not validated.
SaveBalanceUnvalidated(w, i, new) ==
    /\ new.on_hand <= MaxOnHand
    /\ stock' = [stock EXCEPT ![w][i] = new]
    /\ entered' = [entered EXCEPT ![w][i] = @ + new.on_hand - stock[w][i].on_hand]
    /\ UNCHANGED <<orderVars, purchase>>

\* Validate, store and record.  MaxOnHand bounds the count entered by hand.
SaveBalance(w, i, new) ==
    /\ ValidBalance(new)
    /\ new.on_hand <= MaxOnHand
    /\ stock' = [stock EXCEPT ![w][i] = new]
    /\ entered' = [entered EXCEPT ![w][i] = @ + new.on_hand - stock[w][i].on_hand]
    /\ UNCHANGED <<orderVars, purchase>>

\* _ensure_reserved_is_order_controlled: a hand-written row takes its reserved
\* count from the active orders, whatever the stored row says.
HandWritten(w, i, on_hand, damaged) ==
    [on_hand |-> on_hand, reserved |-> ReservedByActiveOrders(w, i),
     damaged |-> damaged]

\* create_stock_balance inserts the row or overwrites the existing one.
CreateStockBalance(w, i, on_hand, damaged) ==
    SaveBalance(w, i, HandWritten(w, i, on_hand, damaged))

\* update_stock_balance: a field the client leaves out keeps its value, which
\* is one of the values the client could have sent.
UpdateStockBalance(w, i, on_hand, damaged) ==
    SaveBalance(w, i, HandWritten(w, i, on_hand, damaged))

\* create_stock_movement, the kinds that move a quantity.
CreateStockMovement(kind, w, i, q) ==
    SaveBalance(w, i, Moved(kind, stock[w][i], q))

\* create_stock_movement, INITIAL_STOCK: adds to the count and recomputes the
\* reserved one.
InitialStock(w, i, q, damaged) ==
    SaveBalance(w, i, HandWritten(w, i, stock[w][i].on_hand + q, damaged))

\* create_stock_movement, CORRECTION: sets both counts.
Correction(w, i, on_hand, damaged) ==
    SaveBalance(w, i, HandWritten(w, i, on_hand, damaged))

StockNext ==
    \E w \in Warehouses, i \in Items :
        \/ \E h, d \in 0..MaxOnHand : CreateStockBalance(w, i, h, d)
        \/ \E h, d \in 0..MaxOnHand : UpdateStockBalance(w, i, h, d)
        \/ \E h, d \in 0..MaxOnHand : Correction(w, i, h, d)
        \/ \E q \in 1..MaxQuantity, d \in 0..MaxOnHand : InitialStock(w, i, q, d)
        \/ \E q \in 1..MaxQuantity, kind \in DeltaMovements :
              CreateStockMovement(kind, w, i, q)
=============================================================================
