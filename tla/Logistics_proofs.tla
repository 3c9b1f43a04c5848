-------------------------- MODULE Logistics_proofs --------------------------
(***************************************************************************)
(* Proofs about Logistics, for any number of orders, products, warehouses  *)
(* and purchases and any quantities, in six parts:                         *)
(*                                                                         *)
(*   types         TypeOK                                                  *)
(*   valid rows    BalancesValid                                           *)
(*   stages        LinesChained, StagesMatchLines, LeavesOnce,             *)
(*                 OutcomeFinal                                            *)
(*   balances      ReservedMatchesOrders, UnitsConserved, RepairIdle       *)
(*   purchases     PurchasesSettled                                        *)
(*   cancellation  CancelledWithoutPurchase                                *)
(*                                                                         *)
(* The theorems on balances assume OneLineEach, that no order has two      *)
(* lines of one product: add_logistics_order_item accepts the second line, *)
(* and then they are false (run repeated_lines).  The others hold whatever *)
(* lines an order has.                                                     *)
(***************************************************************************)
EXTENDS Logistics, FiniteSetTheorems, TLAPS

USE DEF vars, orderVars, stockVars

-----------------------------------------------------------------------------
(***************************************************************************)
(* TYPES.                                                                  *)
(***************************************************************************)

\* A line never holds more than it asks for.
ReservedWithinRequested ==
    \A o \in Orders, i \in Products : line[o][i].reserved <= line[o][i].requested

\* The strengthening that makes the type invariant inductive: a split or a
\* release subtracts what a line holds from what it asks for.
TypeInv == TypeOK /\ ReservedWithinRequested

LEMMA UnitsAreNat ==
    ASSUME NEW w, NEW i
    PROVE  Cardinality(ReservedUnits(w, i)) \in Nat
<1>1. IsFiniteSet(1..MaxQuantity)
  BY LogisticsAssumption, FS_Interval
<1>2. IsFiniteSet(Orders \X (1..MaxQuantity))
  BY <1>1, LogisticsAssumption, FS_Product
<1>3. IsFiniteSet(ReservedUnits(w, i))
  BY <1>2, FS_Subset DEF ReservedUnits
<1> QED BY <1>3, FS_CardinalityType

\* The sum over the places of a product is a count when every summand is.
LEMMA OfProductIsNat ==
    ASSUME NEW f, NEW p \in Products, \A i \in Products : f[i] \in Nat
    PROVE  OfProduct(f, p) \in Nat
<1>1. CASE SecondPlaces(p) = {} BY <1>1 DEF OfProduct
<1>2. CASE SecondPlaces(p) # {}
  <2>1. PICK j : j = CHOOSE k \in SecondPlaces(p) : TRUE OBVIOUS
  <2>2. j \in SecondPlaces(p) BY <1>2, <2>1
  <2>3. j \in Products BY <2>2 DEF SecondPlaces
  <2>4. f[p] \in Nat /\ f[j] \in Nat BY <2>3
  <2>5. OfProduct(f, p) = IF item_id[p] # p THEN 0 ELSE f[p] + f[j]
    BY <1>2, <2>1 DEF OfProduct
  <2> QED BY <2>4, <2>5
<1> QED BY <1>1, <1>2

LEMMA ReservedIsNat ==
    ASSUME NEW w, NEW p \in Products
    PROVE  ReservedByActiveOrders(w, p) \in Nat
<1> DEFINE f == [i \in Products |-> Cardinality(ReservedUnits(w, i))]
<1>1. \A i \in Products : f[i] \in Nat BY UnitsAreNat
<1>2. OfProduct(f, p) \in Nat
  <2> HIDE DEF f
  <2> QED BY <1>1, OfProductIsNat
<1> QED BY <1>2 DEF ReservedByActiveOrders

LEMMA SyncedType ==
    ASSUME NEW w, NEW p \in Products, NEW s \in Balance
    PROVE  Synced(w, p, s) \in Balance
<1>1. ReservedByActiveOrders(w, p) \in Nat
  BY ReservedIsNat
<1> QED BY <1>1 DEF Synced, Balance, Larger

LEMMA ItemType ==
    ASSUME NEW i \in Products
    PROVE  item_id[i] \in Products
BY LogisticsAssumption

LEMMA StoredType ==
    ASSUME TypeOK, NEW o \in Orders, NEW i \in Products
    PROVE  stock[order_warehouse[o]][item_id[i]] \in Balance
BY ItemType DEF TypeOK

LEMMA LockedBalanceType ==
    ASSUME NEW o, NEW i \in Products, NEW s \in Balance
    PROVE  LockedBalance(o, i, s) \in Balance
BY ItemType, SyncedType DEF LockedBalance

\* The last line of a product is one of them.
LEMMA LastLineIsLine ==
    ASSUME NEW o, NEW p \in Products, LinesOf(o, p) # {}
    PROVE  LastLine(o, p) \in LinesOf(o, p) /\ LastLine(o, p) \in Lines(o)
<1>1. CASE LinesOf(o, p) \subseteq {p} BY <1>1 DEF LastLine, LinesOf
<1>2. CASE ~(LinesOf(o, p) \subseteq {p}) BY <1>2 DEF LastLine, LinesOf
<1> QED BY <1>1, <1>2

LEMMA SetBalancesType ==
    ASSUME TypeOK, NEW o \in Orders, NEW rows, SetBalances(o, rows),
           \A i \in Products : i \in Lines(o) => rows[i] \in Balance
    PROVE  stock' \in [Warehouses -> [Products -> Balance]]
<1> DEFINE kept == [p \in Products |->
                      IF LinesOf(o, p) # {} THEN rows[LastLine(o, p)]
                      ELSE stock[order_warehouse[o]][p]]
<1>1. stock' = [stock EXCEPT ![order_warehouse[o]] = kept]
  BY DEF SetBalances, TypeOK
<1>2. \A p \in Products : kept[p] \in Balance
  <2> SUFFICES ASSUME NEW p \in Products PROVE kept[p] \in Balance
    OBVIOUS
  <2>1. CASE LinesOf(o, p) # {}
    <3>1. LastLine(o, p) \in Lines(o) BY <2>1, LastLineIsLine
    <3>2. LastLine(o, p) \in Products BY <3>1 DEF Lines
    <3> QED BY <2>1, <3>1, <3>2
  <2>2. CASE LinesOf(o, p) = {} BY <2>2 DEF TypeOK
  <2> QED BY <2>1, <2>2
<1> HIDE DEF kept
<1>3. kept \in [Products -> Balance]
  <2> USE DEF kept
  <2>1. kept = [p \in Products |-> kept[p]] OBVIOUS
  <2> HIDE DEF kept
  <2> QED BY <1>2, <2>1
<1> QED BY <1>1, <1>3 DEF TypeOK

LEMMA SetLinesType ==
    ASSUME TypeInv, NEW o \in Orders, NEW rows, SetLines(o, rows),
           \A i \in Products : i \in Lines(o) =>
              rows[i] \in Line /\ rows[i].reserved <= rows[i].requested
    PROVE  line' \in [Orders -> [Products -> Line]] /\ ReservedWithinRequested'
BY DEF TypeInv, TypeOK, SetLines, ReservedWithinRequested

LEMMA CreateOrderType ==
    ASSUME TypeInv, NEW o \in Orders, NEW w \in Warehouses,
           NEW q \in Quantities, CreateOrder(o, w, q)
    PROVE  TypeInv'
BY DEF TypeInv, TypeOK, ReservedWithinRequested, CreateOrder, SetStatus, NewLine,
       Line, Quantities, OrderStatuses

\* A reservation takes no more than the line still misses.
LEMMA QuantityToReserveBound ==
    ASSUME TypeInv, NEW o \in Orders, NEW i \in Products, NEW s \in Balance, NEW usable
    PROVE  /\ QuantityToReserve(o, i, s, usable) \in Nat
           /\ line[o][i].reserved + QuantityToReserve(o, i, s, usable)
                 <= line[o][i].requested
<1>1. line[o][i] \in Line /\ line[o][i].reserved <= line[o][i].requested
  BY DEF TypeInv, TypeOK, ReservedWithinRequested
<1> QED BY <1>1 DEF Line, Balance, QuantityToReserve, Smaller, Positive, Larger,
                    Available

\* The row a reservation works on, whatever line of its product comes before.
LEMMA RowForReserveType ==
    ASSUME TypeInv, NEW o \in Orders, NEW i \in Products, NEW usable
    PROVE  RowForReserve(o, i, usable) \in Balance
<1> DEFINE p == item_id[i]
           stored == stock[order_warehouse[o]][p]
           found == IF i # p /\ p \in Lines(o)
                    THEN RowReserved(o, p, stored, usable) ELSE stored
<1>1. p \in Products /\ stored \in Balance
  BY ItemType, StoredType DEF TypeInv
<1>2. RowReserved(o, p, stored, usable) \in Balance
  <2>1. PICK locked : locked = LockedBalance(o, p, stored) OBVIOUS
  <2>2. locked \in Balance BY <1>1, <2>1, LockedBalanceType
  <2>3. QuantityToReserve(o, p, locked, usable) \in Nat
    BY <1>1, <2>2, QuantityToReserveBound
  <2>4. RowReserved(o, p, stored, usable)
          = [locked EXCEPT !.reserved = @ + QuantityToReserve(o, p, locked, usable)]
    BY <2>1 DEF RowReserved
  <2> QED BY <2>2, <2>3, <2>4 DEF Balance
<1>3. found \in Balance BY <1>1, <1>2
<1>4. RowForReserve(o, i, usable) = LockedBalance(o, i, found)
  BY DEF RowForReserve, Found
<1> HIDE DEF found
<1> QED BY <1>3, <1>4, LockedBalanceType

LEMMA ReserveStockType ==
    ASSUME TypeInv, NEW o \in Orders, NEW usable \in SUBSET Products,
           ReserveStock(o, usable)
    PROVE  TypeInv'
<1> DEFINE row(i) == RowForReserve(o, i, usable)
           take(i) == QuantityToReserve(o, i, row(i), usable)
<1>1. \A i \in Products : row(i) \in Balance
  BY RowForReserveType
<1>2. \A i \in Products : take(i) \in Nat /\ line[o][i].reserved + take(i)
                                              <= line[o][i].requested
  BY <1>1, QuantityToReserveBound
<1>3. status' \in [Orders -> OrderStatuses]
  BY DEF TypeInv, TypeOK, ReserveStock, SetStatus, OrderStatuses
<1>4. stock' \in [Warehouses -> [Products -> Balance]]
  <2> DEFINE rows == [i \in Products |-> [row(i) EXCEPT !.reserved = @ + take(i)]]
  <2>1. SetBalances(o, rows) BY DEF ReserveStock
  <2> HIDE DEF row, take
  <2>2. \A i \in Products : rows[i] \in Balance BY <1>1, <1>2 DEF Balance
  <2> QED BY <2>1, <2>2, SetBalancesType DEF TypeInv
<1>5. line' \in [Orders -> [Products -> Line]] /\ ReservedWithinRequested'
  <2> DEFINE rows == [i \in Products |-> [line[o][i] EXCEPT !.reserved = @ + take(i)]]
  <2>1. SetLines(o, rows) BY DEF ReserveStock
  <2> HIDE DEF row, take
  <2>2. \A i \in Products : rows[i] \in Line /\ rows[i].reserved <= rows[i].requested
    <3> SUFFICES ASSUME NEW i \in Products
                 PROVE  rows[i] \in Line /\ rows[i].reserved <= rows[i].requested
      OBVIOUS
    <3>1. line[o][i] \in Line BY DEF TypeInv, TypeOK
    <3> QED BY <1>2, <3>1 DEF Line
  <2> QED BY <2>1, <2>2, SetLinesType
<1> QED BY <1>3, <1>4, <1>5 DEF TypeInv, TypeOK, ReserveStock

\* The line that _release_order_reservations leaves.
ResetLine(l) == [l EXCEPT !.reserved = 0, !.loaded = 0]

LEMMA ResetLineType ==
    ASSUME NEW l \in Line
    PROVE  /\ ResetLine(l) \in Line
           /\ ResetLine(l).reserved <= ResetLine(l).requested
<1>1. ResetLine(l) \in Line BY DEF Line, ResetLine
<1>2. ResetLine(l).reserved = 0 BY DEF Line, ResetLine
<1>3. ResetLine(l).requested \in Nat BY <1>1 DEF Line
<1> QED BY <1>1, <1>2, <1>3

\* A row is in its type when its release is not refused.
LEMMA RowFreedType ==
    ASSUME TypeInv, NEW o \in Orders, NEW i \in Products, NEW s \in Balance,
           RowFreed(o, i, s).reserved >= 0
    PROVE  RowFreed(o, i, s) \in Balance
<1>1. line[o][i] \in Line BY DEF TypeInv, TypeOK
<1>2. LockedBalance(o, i, s) \in Balance BY LockedBalanceType
<1> QED BY <1>1, <1>2 DEF RowFreed, Balance, Line

LEMMA ReleaseType ==
    ASSUME TypeInv, NEW o \in Orders, ReleaseReservations(o)
    PROVE  /\ stock' \in [Warehouses -> [Products -> Balance]]
           /\ line' \in [Orders -> [Products -> Line]]
           /\ ReservedWithinRequested'
<1> DEFINE stored(i) == stock[order_warehouse[o]][item_id[i]]
           found(i) == IF i # item_id[i] /\ item_id[i] \in Lines(o)
                       THEN RowFreed(o, item_id[i], stored(i)) ELSE stored(i)
           freed == [i \in Products |-> RowFreed(o, i, found(i))]
           reset == [i \in Products |-> [line[o][i] EXCEPT !.reserved = 0, !.loaded = 0]]
<1>1. SetBalances(o, freed) /\ SetLines(o, reset)
  BY DEF ReleaseReservations, Found
<1>2. \A i \in Lines(o) : freed[i].reserved >= 0
  BY DEF ReleaseReservations, Found, Lines
<1>3. \A i \in Products : line[o][i] \in Line BY DEF TypeInv, TypeOK
<1>4. \A i \in Products : i \in Lines(o) => freed[i] \in Balance
  <2> SUFFICES ASSUME NEW i \in Products, i \in Lines(o)
               PROVE  freed[i] \in Balance
    OBVIOUS
  <2>1. item_id[i] \in Products /\ stored(i) \in Balance
    BY ItemType, StoredType DEF TypeInv
  <2>2. found(i) \in Balance
    <3>1. CASE i # item_id[i] /\ item_id[i] \in Lines(o)
      <4>1. PICK p \in Products : p = item_id[i] BY <2>1
      <4>2. item_id[p] = p BY <4>1, LogisticsAssumption
      <4>3. found(p) = stored(i) BY <4>1, <4>2
      <4>4. freed[p].reserved >= 0 BY <1>2, <3>1, <4>1
      <4>5. freed[p] = RowFreed(o, p, stored(i)) BY <4>3
      <4>6. RowFreed(o, p, stored(i)) \in Balance
        <5> HIDE DEF stored, freed
        <5> QED BY <2>1, <4>4, <4>5, RowFreedType
      <4> QED BY <3>1, <4>1, <4>6
    <3>2. CASE ~(i # item_id[i] /\ item_id[i] \in Lines(o)) BY <2>1, <3>2
    <3> QED BY <3>1, <3>2
  <2>3. freed[i] = RowFreed(o, i, found(i)) /\ freed[i].reserved >= 0 BY <1>2
  <2> HIDE DEF freed, found, stored
  <2> QED BY <2>2, <2>3, RowFreedType
<1>5. \A i \in Products : reset[i] \in Line /\ reset[i].reserved <= reset[i].requested
  <2> SUFFICES ASSUME NEW i \in Products
               PROVE  reset[i] \in Line /\ reset[i].reserved <= reset[i].requested
    OBVIOUS
  <2>1. line[o][i] \in Line BY <1>3
  <2>2. reset[i] = ResetLine(line[o][i]) BY DEF ResetLine
  <2> HIDE DEF reset
  <2> QED BY <2>1, <2>2, ResetLineType
<1> HIDE DEF freed, reset
<1> QED BY <1>1, <1>4, <1>5, SetBalancesType, SetLinesType DEF TypeInv

\* The row a dispatch leaves, when the line's units are there.
LEMMA RowDispatchedType ==
    ASSUME TypeInv, NEW o \in Orders, NEW i \in Products, NEW s \in Balance,
           line[o][i].loaded <= RowForDispatch(o, i, s).reserved,
           line[o][i].loaded <= RowForDispatch(o, i, s).on_hand
    PROVE  RowDispatched(o, i, s) \in Balance
<1>1. PICK r : r = RowForDispatch(o, i, s) OBVIOUS
<1>2. r \in Balance
  BY <1>1, ItemType, SyncedType DEF RowForDispatch
<1>3. line[o][i].loaded \in Nat BY DEF TypeInv, TypeOK, Line
<1> DEFINE a == r.on_hand - line[o][i].loaded
           b == r.reserved - line[o][i].loaded
<1>4. a \in Nat /\ b \in Nat BY <1>1, <1>2, <1>3 DEF Balance
<1>5. RowDispatched(o, i, s) = [r EXCEPT !.on_hand = a, !.reserved = b]
  BY <1>1 DEF RowDispatched
<1> HIDE DEF a, b
<1> QED BY <1>2, <1>4, <1>5 DEF Balance

LEMMA DispatchType ==
    ASSUME TypeInv, NEW o \in Orders, DispatchOrder(o)
    PROVE  TypeInv'
<1> DEFINE stored(i) == stock[order_warehouse[o]][item_id[i]]
           found(i) == IF i # item_id[i] /\ item_id[i] \in Lines(o)
                       THEN RowDispatched(o, item_id[i], stored(i)) ELSE stored(i)
           sent == [i \in Products |-> RowDispatched(o, i, found(i))]
           gone == [i \in Products |->
                      [line[o][i] EXCEPT !.dispatched = line[o][i].loaded]]
<1>1. SetBalances(o, sent) /\ SetLines(o, gone)
  BY DEF DispatchOrder, Found, RowDispatched
<1>2. \A i \in Lines(o) : /\ line[o][i].loaded <= RowForDispatch(o, i, found(i)).reserved
                          /\ line[o][i].loaded <= RowForDispatch(o, i, found(i)).on_hand
  BY DEF DispatchOrder, Found
<1>3. \A i \in Products : line[o][i] \in Line BY DEF TypeInv, TypeOK
<1>4. \A i \in Products : i \in Lines(o) => sent[i] \in Balance
  <2> SUFFICES ASSUME NEW i \in Products, i \in Lines(o)
               PROVE  sent[i] \in Balance
    OBVIOUS
  <2>1. item_id[i] \in Products /\ stored(i) \in Balance
    BY ItemType, StoredType DEF TypeInv
  <2>2. found(i) \in Balance
    <3>1. CASE i # item_id[i] /\ item_id[i] \in Lines(o)
      <4>1. PICK p \in Products : p = item_id[i] BY <2>1
      <4>2. item_id[p] = p BY <4>1, LogisticsAssumption
      <4>3. found(p) = stored(i) BY <4>1, <4>2
      <4>4. /\ line[o][p].loaded <= RowForDispatch(o, p, stored(i)).reserved
            /\ line[o][p].loaded <= RowForDispatch(o, p, stored(i)).on_hand
        BY <1>2, <3>1, <4>1, <4>3
      <4>5. RowDispatched(o, p, stored(i)) \in Balance
        <5> HIDE DEF stored
        <5> QED BY <2>1, <4>4, RowDispatchedType
      <4> QED BY <3>1, <4>1, <4>5
    <3>2. CASE ~(i # item_id[i] /\ item_id[i] \in Lines(o)) BY <2>1, <3>2
    <3> QED BY <3>1, <3>2
  <2>3. sent[i] = RowDispatched(o, i, found(i)) OBVIOUS
  <2> HIDE DEF sent, found, stored
  <2> QED BY <1>2, <2>2, <2>3, RowDispatchedType
<1>5. \A i \in Products : gone[i] \in Line /\ gone[i].reserved <= gone[i].requested
  BY <1>3 DEF Line, TypeInv, ReservedWithinRequested
<1> HIDE DEF sent, gone
<1>6. stock' \in [Warehouses -> [Products -> Balance]]
  BY <1>1, <1>4, SetBalancesType DEF TypeInv
<1>7. line' \in [Orders -> [Products -> Line]] /\ ReservedWithinRequested'
  BY <1>1, <1>5, SetLinesType
<1> QED BY <1>6, <1>7 DEF TypeInv, TypeOK, DispatchOrder, SetStatus, OrderStatuses

LEMMA CheckStockType ==
    ASSUME TypeInv, NEW o \in Orders, CheckStock(o)
    PROVE  TypeInv'
<1> DEFINE stored(i) == stock[order_warehouse[o]][item_id[i]]
           found(i) == IF i # item_id[i] /\ item_id[i] \in Lines(o)
                       THEN LockedBalance(o, item_id[i], stored(i)) ELSE stored(i)
           rows == [i \in Products |-> LockedBalance(o, i, found(i))]
<1>1. SetBalances(o, rows) BY DEF CheckStock, Found
<1>2. \A i \in Products : rows[i] \in Balance
  <2> SUFFICES ASSUME NEW i \in Products PROVE rows[i] \in Balance
    OBVIOUS
  <2>1. item_id[i] \in Products /\ stored(i) \in Balance
    BY ItemType, StoredType DEF TypeInv
  <2>2. LockedBalance(o, item_id[i], stored(i)) \in Balance
    <3> HIDE DEF stored
    <3> QED BY <2>1, LockedBalanceType
  <2>3. found(i) \in Balance BY <2>1, <2>2
  <2> HIDE DEF found
  <2> QED BY <2>3, LockedBalanceType
<1> HIDE DEF rows
<1>3. stock' \in [Warehouses -> [Products -> Balance]]
  BY <1>1, <1>2, SetBalancesType DEF TypeInv
<1> QED BY <1>3 DEF TypeInv, TypeOK, ReservedWithinRequested, CheckStock, SetStatus,
                    OrderStatuses

LEMMA TransferType ==
    ASSUME TypeInv, NEW o \in Orders, NEW i \in Products, NEW source \in Warehouses,
           NEW q \in 1..MaxQuantity, TransferStock(o, i, source, q)
    PROVE  TypeInv'
<1> DEFINE w == order_warehouse[o]
           p == item_id[i]
<1>1. w \in Warehouses /\ source # w /\ p \in Products
  BY ItemType DEF TypeInv, TypeOK, TransferStock
<1>2. stock[source][p] \in Balance /\ stock[w][p] \in Balance
  BY <1>1 DEF TypeInv, TypeOK
<1>3. stock[source][p].on_hand - q \in Nat
  BY <1>2 DEF TransferStock, Positive, Larger, Available, Balance
<1>4. q \in Nat BY LogisticsAssumption
<1>5. stock' = [stock EXCEPT ![source][p].on_hand = @ - q, ![w][p].on_hand = @ + q]
  BY DEF TransferStock
<1>6. stock' \in [Warehouses -> [Products -> Balance]]
  <2> DEFINE taken == [stock EXCEPT ![source][p].on_hand = @ - q]
  <2>1. taken \in [Warehouses -> [Products -> Balance]]
    BY <1>2, <1>3 DEF TypeInv, TypeOK, Balance
  <2>2. stock' = [taken EXCEPT ![w][p].on_hand = @ + q]
    BY DEF TransferStock
  <2>3. taken[w][p] \in Balance BY <1>1, <2>1
  <2> HIDE DEF taken
  <2> QED BY <1>1, <1>4, <2>1, <2>2, <2>3 DEF Balance
<1>7. entered' \in [Warehouses -> [Products -> Int]]
  <2> DEFINE taken == [entered EXCEPT ![source][p] = @ - q]
  <2>1. taken \in [Warehouses -> [Products -> Int]]
    BY <1>1, <1>4 DEF TypeInv, TypeOK
  <2>2. entered' = [taken EXCEPT ![w][p] = @ + q] BY DEF TransferStock
  <2> HIDE DEF taken
  <2> QED BY <1>1, <1>4, <2>1, <2>2
<1> QED BY <1>6, <1>7 DEF TypeInv, TypeOK, ReservedWithinRequested, TransferStock

\* An outcome of any size: the ones a client reports, and whole deliveries.
ReportedOutcome ==
    [consumed : Nat, returned : Nat, returned_damaged : Nat, lost : Nat]

LEMMA CorrectedBalanceType ==
    ASSUME NEW s \in Balance, NEW l \in Line, NEW x \in ReportedOutcome,
           ReturnsChange(l, x) => /\ CorrectedBalance(s, l, x).on_hand >= 0
                                  /\ CorrectedBalance(s, l, x).damaged >= 0
    PROVE  CorrectedBalance(s, l, x) \in Balance
<1> DEFINE a == s.on_hand + (x.returned - l.returned)
                  + (x.returned_damaged - l.returned_damaged)
           b == s.damaged + (x.returned_damaged - l.returned_damaged)
<1>1. CorrectedBalance(s, l, x) = [s EXCEPT !.on_hand = a, !.damaged = b]
  BY DEF CorrectedBalance
<1>2. x.returned \in Int /\ x.returned_damaged \in Int
  BY DEF ReportedOutcome
<1>3. l.returned \in Int /\ l.returned_damaged \in Int BY DEF Line
<1>4. s.on_hand \in Nat /\ s.damaged \in Nat BY DEF Balance
<1>5. a \in Int /\ b \in Int BY <1>2, <1>3, <1>4
<1>6. CASE ReturnsChange(l, x)
  <2> HIDE DEF a, b
  <2>1. CorrectedBalance(s, l, x).on_hand = a /\ CorrectedBalance(s, l, x).damaged = b
    BY <1>1 DEF Balance
  <2>2. a \in Nat /\ b \in Nat BY <1>5, <1>6, <2>1
  <2> QED BY <1>1, <2>2 DEF Balance
<1>7. CASE ~ReturnsChange(l, x)
  <2>1. x.returned = l.returned /\ x.returned_damaged = l.returned_damaged
    BY <1>7 DEF ReturnsChange
  <2>2. a \in Nat /\ b \in Nat BY <1>2, <1>4, <2>1
  <2> HIDE DEF a, b
  <2> QED BY <1>1, <2>2 DEF Balance
<1> QED BY <1>6, <1>7

LEMMA WithOutcomeType ==
    ASSUME NEW l \in Line, NEW x \in ReportedOutcome
    PROVE  /\ WithOutcome(l, x) \in Line
           /\ WithOutcome(l, x).reserved = l.reserved
           /\ WithOutcome(l, x).requested = l.requested
<1>1. /\ x.consumed \in Nat /\ x.returned \in Nat
      /\ x.returned_damaged \in Nat /\ x.lost \in Nat
  BY DEF ReportedOutcome
<1> QED BY <1>1 DEF WithOutcome, Line

LEMMA RegisterOutcomeType ==
    ASSUME TypeInv, NEW o \in Orders, NEW i \in Products, NEW x \in Outcomes,
           RegisterOutcome(o, i, x)
    PROVE  TypeInv'
<1> DEFINE w == order_warehouse[o]
           l == line[o][i]
           p == item_id[i]
           s == stock[w][p]
<1>1. w \in Warehouses /\ l \in Line /\ s \in Balance /\ p \in Products
  BY ItemType DEF TypeInv, TypeOK
<1>0. x \in ReportedOutcome BY LogisticsAssumption DEF Outcomes, ReportedOutcome
<1>2. CorrectedBalance(s, l, x) \in Balance
  <2>1. ReturnsChange(l, x) => /\ CorrectedBalance(s, l, x).on_hand >= 0
                               /\ CorrectedBalance(s, l, x).damaged >= 0
    BY DEF RegisterOutcome, OutcomeAccepted
  <2> HIDE DEF s, l
  <2> QED BY <1>0, <1>1, <2>1, CorrectedBalanceType
<1>3. stock' = [stock EXCEPT ![w][p] = CorrectedBalance(s, l, x)]
  BY DEF RegisterOutcome
<1>4. line' = [line EXCEPT ![o][i] = WithOutcome(l, x)]
  BY DEF RegisterOutcome
<1>5. stock' \in [Warehouses -> [Products -> Balance]]
  <2> HIDE DEF s, l
  <2> QED BY <1>1, <1>2, <1>3 DEF TypeInv, TypeOK
<1>6. /\ WithOutcome(l, x) \in Line
      /\ WithOutcome(l, x).reserved <= WithOutcome(l, x).requested
  <2>1. l.reserved <= l.requested BY DEF TypeInv, ReservedWithinRequested
  <2> HIDE DEF l
  <2> QED BY <1>0, <1>1, <2>1, WithOutcomeType
<1>7. line' \in [Orders -> [Products -> Line]]
  <2> HIDE DEF l
  <2> QED BY <1>4, <1>6 DEF TypeInv, TypeOK
<1>8. ReservedWithinRequested'
  <2> HIDE DEF l
  <2> QED BY <1>4, <1>6 DEF TypeInv, TypeOK, ReservedWithinRequested
<1>9. status' \in [Orders -> OrderStatuses]
  BY DEF TypeInv, TypeOK, RegisterOutcome, SetStatus, OutcomeStatus, OrderStatuses
<1> QED BY <1>5, <1>7, <1>8, <1>9 DEF TypeInv, TypeOK, RegisterOutcome
LEMMA RowConsumedType ==
    ASSUME TypeInv, NEW o \in Orders, NEW i \in Products, NEW s \in Balance,
           i \in ConsumableLines(o)
             => OutcomeAccepted(o, i, s, AllConsumed(line[o][i]))
    PROVE  RowConsumed(o, i, s) \in Balance
<1>1. CASE i \notin ConsumableLines(o) BY <1>1 DEF RowConsumed
<1>2. CASE i \in ConsumableLines(o)
  <2> DEFINE l == line[o][i]
             x == AllConsumed(l)
  <2>1. OutcomeAccepted(o, i, s, x) BY <1>2
  <2>2. ReturnsChange(l, x)
          => /\ CorrectedBalance(s, l, x).on_hand >= 0
             /\ CorrectedBalance(s, l, x).damaged >= 0
    BY <2>1 DEF OutcomeAccepted
  <2>3. l \in Line BY DEF TypeInv, TypeOK
  <2>4. x \in ReportedOutcome BY <2>3 DEF ReportedOutcome, Line, AllConsumed
  <2>5. RowConsumed(o, i, s) = CorrectedBalance(s, l, x) BY <1>2 DEF RowConsumed
  <2> HIDE DEF l, x
  <2> QED BY <2>2, <2>3, <2>4, <2>5, CorrectedBalanceType
<1> QED BY <1>1, <1>2

LEMMA MarkAllConsumedType ==
    ASSUME TypeInv, NEW o \in Orders, MarkAllConsumed(o)
    PROVE  TypeInv'
<1> DEFINE consumables == ConsumableLines(o)
           all(i) == AllConsumed(line[o][i])
           stored(i) == stock[order_warehouse[o]][item_id[i]]
           found(i) == IF i # item_id[i] /\ item_id[i] \in Lines(o)
                       THEN RowConsumed(o, item_id[i], stored(i)) ELSE stored(i)
           rows == [i \in Products |-> RowConsumed(o, i, found(i))]
<1>1. SetBalances(o, rows) BY DEF MarkAllConsumed, Found
<1>2. \A i \in consumables : OutcomeAccepted(o, i, found(i), all(i))
  BY DEF MarkAllConsumed, Found
<1>3. \A i \in Products : i \in Lines(o) => rows[i] \in Balance
  <2> SUFFICES ASSUME NEW i \in Products, i \in Lines(o)
               PROVE  rows[i] \in Balance
    OBVIOUS
  <2>1. item_id[i] \in Products /\ stored(i) \in Balance
    BY ItemType, StoredType DEF TypeInv
  <2>2. found(i) \in Balance
    <3>1. CASE i # item_id[i] /\ item_id[i] \in Lines(o)
      <4>1. PICK p \in Products : p = item_id[i] BY <2>1
      <4>2. item_id[p] = p BY <4>1, LogisticsAssumption
      <4>3. found(p) = stored(i) BY <4>1, <4>2
      <4>4. p \in consumables => OutcomeAccepted(o, p, stored(i), all(p))
        BY <1>2, <4>3
      <4>5. RowConsumed(o, p, stored(i)) \in Balance
        <5> HIDE DEF stored
        <5> QED BY <2>1, <4>4, RowConsumedType
      <4> QED BY <3>1, <4>1, <4>5
    <3>2. CASE ~(i # item_id[i] /\ item_id[i] \in Lines(o)) BY <2>1, <3>2
    <3> QED BY <3>1, <3>2
  <2>3. rows[i] = RowConsumed(o, i, found(i)) OBVIOUS
  <2>4. i \in consumables => OutcomeAccepted(o, i, found(i), all(i)) BY <1>2
  <2> HIDE DEF rows, found, stored
  <2> QED BY <2>2, <2>3, <2>4, RowConsumedType
<1>4. \A i \in consumables :
         /\ WithOutcome(line[o][i], all(i)) \in Line
         /\ WithOutcome(line[o][i], all(i)).reserved
               <= WithOutcome(line[o][i], all(i)).requested
  <2> SUFFICES ASSUME NEW i \in consumables
               PROVE  /\ WithOutcome(line[o][i], all(i)) \in Line
                      /\ WithOutcome(line[o][i], all(i)).reserved
                            <= WithOutcome(line[o][i], all(i)).requested
    OBVIOUS
  <2>0. i \in Products BY DEF ConsumableLines, Lines
  <2>1. line[o][i] \in Line /\ line[o][i].reserved <= line[o][i].requested
    BY <2>0 DEF TypeInv, TypeOK, ReservedWithinRequested
  <2>2. all(i) \in ReportedOutcome BY <2>1 DEF ReportedOutcome, Line, AllConsumed
  <2> HIDE DEF all
  <2> QED BY <2>1, <2>2, WithOutcomeType
<1>5. line' = [line EXCEPT ![o] = [i \in Products |->
                  IF i \in consumables THEN WithOutcome(@[i], all(i)) ELSE @[i]]]
  BY DEF MarkAllConsumed
<1>6. stock' \in [Warehouses -> [Products -> Balance]]
  <2> HIDE DEF rows
  <2> QED BY <1>1, <1>3, SetBalancesType DEF TypeInv
<1>7. line' \in [Orders -> [Products -> Line]]
  <2> HIDE DEF consumables, all
  <2> QED BY <1>4, <1>5 DEF TypeInv, TypeOK
<1>8. ReservedWithinRequested'
  <2> HIDE DEF consumables, all
  <2> QED BY <1>4, <1>5 DEF TypeInv, TypeOK, ReservedWithinRequested
<1>9. status' \in [Orders -> OrderStatuses]
  BY DEF TypeInv, TypeOK, MarkAllConsumed, SetStatus, OutcomeStatus, OrderStatuses
<1> QED BY <1>6, <1>7, <1>8, <1>9 DEF TypeInv, TypeOK, MarkAllConsumed

\* The line a partial dispatch leaves in the order it splits.
KeptLine(l) ==
    IF l.reserved > 0 THEN [l EXCEPT !.requested = l.reserved] ELSE NoLine

LEMMA KeptLineType ==
    ASSUME NEW l \in Line
    PROVE  KeptLine(l) \in Line /\ KeptLine(l).reserved <= KeptLine(l).requested
<1>1. CASE l.reserved > 0
  <2>1. KeptLine(l) \in Line BY <1>1 DEF Line, KeptLine
  <2>2. KeptLine(l).requested = l.reserved /\ KeptLine(l).reserved = l.reserved
    BY <1>1 DEF Line, KeptLine
  <2> QED BY <2>1, <2>2 DEF Line
<1>2. CASE ~(l.reserved > 0)
  BY <1>2 DEF KeptLine, NoLine, NewLine, Line
<1> QED BY <1>1, <1>2

LEMMA ApprovePartialDispatchType ==
    ASSUME TypeInv, NEW o \in Orders, NEW child \in Orders,
           ApprovePartialDispatch(o, child)
    PROVE  TypeInv'
<1> DEFINE kept == [i \in Products |->
                      IF line[o][i].reserved > 0
                      THEN [line[o][i] EXCEPT !.requested = line[o][i].reserved]
                      ELSE NoLine]
           rest == [i \in Products |->
                      NewLine(line[o][i].requested - line[o][i].reserved)]
<1>1. line' = [line EXCEPT ![o] = kept, ![child] = rest]
  BY DEF ApprovePartialDispatch
<1>2. \A i \in Products : kept[i] \in Line /\ kept[i].reserved <= kept[i].requested
  <2> SUFFICES ASSUME NEW i \in Products
               PROVE  kept[i] \in Line /\ kept[i].reserved <= kept[i].requested
    OBVIOUS
  <2>1. line[o][i] \in Line BY DEF TypeInv, TypeOK
  <2>2. kept[i] = KeptLine(line[o][i]) BY DEF KeptLine
  <2> HIDE DEF kept
  <2> QED BY <2>1, <2>2, KeptLineType
<1>3. \A i \in Products : rest[i] \in Line /\ rest[i].reserved <= rest[i].requested
  BY DEF TypeInv, TypeOK, ReservedWithinRequested, Line, NewLine
<1>4. kept \in [Products -> Line] /\ rest \in [Products -> Line] BY <1>2, <1>3
<1>5. line' \in [Orders -> [Products -> Line]]
  <2> HIDE DEF kept, rest
  <2> QED BY <1>1, <1>4 DEF TypeInv, TypeOK
<1>6. ReservedWithinRequested'
  <2> HIDE DEF kept, rest
  <2> SUFFICES ASSUME NEW x \in Orders, NEW i \in Products
               PROVE  line'[x][i].reserved <= line'[x][i].requested
    BY DEF ReservedWithinRequested
  <2>1. line'[x] = IF x = child THEN rest ELSE IF x = o THEN kept ELSE line[x]
    BY <1>1 DEF TypeInv, TypeOK
  <2> QED BY <2>1, <1>2, <1>3 DEF TypeInv, ReservedWithinRequested
<1>7. status' \in [Orders -> OrderStatuses]
  BY DEF TypeInv, TypeOK, ApprovePartialDispatch, OrderStatuses
<1> QED BY <1>5, <1>6, <1>7 DEF TypeInv, TypeOK, ApprovePartialDispatch
-----------------------------------------------------------------------------
(* Balances edited by hand.                                                 *)

LEMMA SaveBalanceType ==
    ASSUME TypeInv, NEW w \in Warehouses, NEW i \in Products, NEW new,
           new \in [on_hand : Int, reserved : Int, damaged : Int],
           SaveBalance(w, i, new)
    PROVE  TypeInv'
<1>1. new \in Balance BY DEF SaveBalance, ValidBalance, Balance
<1>2. stock' \in [Warehouses -> [Products -> Balance]]
  BY <1>1 DEF TypeInv, TypeOK, SaveBalance
<1>3. stock[w][i].on_hand \in Int /\ new.on_hand \in Int
  BY <1>1 DEF TypeInv, TypeOK, Balance
<1>4. entered' \in [Warehouses -> [Products -> Int]]
  BY <1>3 DEF TypeInv, TypeOK, SaveBalance
<1> QED BY <1>2, <1>4 DEF TypeInv, TypeOK, ReservedWithinRequested, SaveBalance

LEMMA MovedType ==
    ASSUME NEW kind \in DeltaMovements, NEW s \in Balance, NEW q \in Nat
    PROVE  Moved(kind, s, q) \in [on_hand : Int, reserved : Int, damaged : Int]
BY DEF Moved, DeltaMovements, Balance

LEMMA StockNextType ==
    ASSUME TypeInv, StockNext
    PROVE  TypeInv'
<1>1. ASSUME NEW w \in Warehouses, NEW i \in Products, NEW h \in Nat, NEW d \in Nat,
             SaveBalance(w, i, HandWritten(w, i, h, d))
      PROVE  TypeInv'
  <2>1. HandWritten(w, i, h, d) \in [on_hand : Int, reserved : Int, damaged : Int]
    BY ReservedIsNat DEF HandWritten
  <2> QED BY <1>1, <2>1, SaveBalanceType
<1>2. 0..MaxOnHand \subseteq Nat /\ 1..MaxQuantity \subseteq Nat
  BY LogisticsAssumption
<1>3. PICK w \in Warehouses, i \in Items :
         \/ \E h, d \in 0..MaxOnHand : CreateStockBalance(w, i, h, d)
         \/ \E h, d \in 0..MaxOnHand : UpdateStockBalance(w, i, h, d)
         \/ \E h, d \in 0..MaxOnHand : Correction(w, i, h, d)
         \/ \E q \in 1..MaxQuantity, d \in 0..MaxOnHand : InitialStock(w, i, q, d)
         \/ \E q \in 1..MaxQuantity, kind \in DeltaMovements :
               CreateStockMovement(kind, w, i, q)
  BY DEF StockNext
<1>4. i \in Products /\ stock[w][i] \in Balance BY DEF Items, TypeInv, TypeOK
<1>5. CASE \E h, d \in 0..MaxOnHand : CreateStockBalance(w, i, h, d)
  BY <1>1, <1>2, <1>4, <1>5 DEF CreateStockBalance
<1>6. CASE \E h, d \in 0..MaxOnHand : UpdateStockBalance(w, i, h, d)
  BY <1>1, <1>2, <1>4, <1>6 DEF UpdateStockBalance
<1>7. CASE \E h, d \in 0..MaxOnHand : Correction(w, i, h, d)
  BY <1>1, <1>2, <1>4, <1>7 DEF Correction
<1>8. CASE \E q \in 1..MaxQuantity, d \in 0..MaxOnHand : InitialStock(w, i, q, d)
  <2>1. PICK q \in 1..MaxQuantity, d \in 0..MaxOnHand : InitialStock(w, i, q, d)
    BY <1>8
  <2>2. stock[w][i].on_hand + q \in Nat BY <1>2, <1>4 DEF Balance
  <2> QED BY <1>1, <1>2, <1>4, <2>1, <2>2 DEF InitialStock
<1>9. CASE \E q \in 1..MaxQuantity, kind \in DeltaMovements :
              CreateStockMovement(kind, w, i, q)
  <2>1. PICK q \in 1..MaxQuantity, kind \in DeltaMovements :
           CreateStockMovement(kind, w, i, q)
    BY <1>9
  <2>2. q \in Nat BY <1>2
  <2>3. Moved(kind, stock[w][i], q) \in [on_hand : Int, reserved : Int, damaged : Int]
    BY <1>4, <2>2, MovedType
  <2> QED BY <1>4, <2>1, <2>3, SaveBalanceType DEF CreateStockMovement
<1> QED BY <1>3, <1>5, <1>6, <1>7, <1>8, <1>9

-----------------------------------------------------------------------------
(* Purchases.                                                               *)

LEMMA QuantitiesAreNat ==
    ASSUME NEW q \in Quantities
    PROVE  q \in [Products -> Nat]
BY LogisticsAssumption DEF Quantities

LEMMA NewPurchaseType ==
    ASSUME NEW o \in Orders \cup {NoOrder}, NEW w \in Warehouses, NEW to \in BOOLEAN,
           NEW q \in [Products -> Nat]
    PROVE  NewPurchase(o, w, to, q) \in Purchase
<1>1. AnyWarehouse \in Warehouses BY LogisticsAssumption DEF AnyWarehouse
<1> QED BY <1>1 DEF NewPurchase, NoPurchase, Purchase, PurchaseStatuses

LEMMA ReceivedType ==
    ASSUME TypeInv, NEW p \in Purchases, NEW q \in Quantities
    PROVE  Received(p, q) \in [Products -> Nat]
<1>1. purchase[p].received \in [Products -> Nat] BY DEF TypeInv, TypeOK, Purchase
<1> QED BY <1>1, QuantitiesAreNat DEF Received

LEMMA SetPurchaseStatusType ==
    ASSUME TypeInv, NEW p \in Purchases, NEW s \in PurchaseStatuses,
           SetPurchaseStatus(p, s)
    PROVE  purchase' \in [Purchases -> Purchase]
BY DEF TypeInv, TypeOK, SetPurchaseStatus, Purchase

LEMMA CreatePurchaseFromOrderType ==
    ASSUME TypeInv, NEW p \in Purchases, NEW o \in Orders,
           NEW usable \in SUBSET Products, CreatePurchaseFromOrder(p, o, usable)
    PROVE  TypeInv'
<1> DEFINE missing == [i \in Products |-> Missing(o, i, usable)]
<1>1. missing \in [Products -> Nat]
  <2> SUFFICES ASSUME NEW i \in Products
               PROVE  Missing(o, i, usable) \in Nat
    OBVIOUS
  <2>1. line[o][i] \in Line /\ stock[order_warehouse[o]][item_id[i]] \in Balance
    BY StoredType DEF TypeInv, TypeOK
  <2> QED BY <2>1 DEF Missing, Positive, Larger, Available, Line, Balance
<1>2. order_warehouse[o] \in Warehouses BY DEF TypeInv, TypeOK
<1>3. NewPurchase(o, order_warehouse[o], TRUE, missing) \in Purchase
  BY <1>1, <1>2, NewPurchaseType
<1>4. purchase' = [purchase EXCEPT ![p] = NewPurchase(o, order_warehouse[o], TRUE, missing)]
  BY DEF CreatePurchaseFromOrder
<1> HIDE DEF missing
<1> QED BY <1>3, <1>4 DEF TypeInv, TypeOK, ReservedWithinRequested, OrderStatuses,
                          CreatePurchaseFromOrder

LEMMA ReceivePurchaseType ==
    ASSUME TypeInv, NEW p \in Purchases, NEW q \in Quantities, ReceivePurchase(p, q)
    PROVE  TypeInv'
<1> DEFINE w == purchase[p].warehouse
<1>1. w \in Warehouses BY DEF TypeInv, TypeOK, Purchase
<1>2. \A i \in Products : Brought(q)[i] \in Nat
  BY QuantitiesAreNat, OfProductIsNat DEF Brought
<1>3. Received(p, q) \in [Products -> Nat] BY ReceivedType
<1>4. purchase' \in [Purchases -> Purchase]
  <2> DEFINE s == IF \A i \in Products : Received(p, q)[i] >= purchase[p].requested[i]
                  THEN "RECEIVED" ELSE "PARTIALLY_RECEIVED"
  <2>1. s \in PurchaseStatuses BY DEF PurchaseStatuses
  <2>2. purchase' = [purchase EXCEPT ![p].received = Received(p, q), ![p].status = s]
    BY DEF ReceivePurchase
  <2>3. purchase \in [Purchases -> Purchase] BY DEF TypeInv, TypeOK
  <2> HIDE DEF s
  <2>4. [purchase[p] EXCEPT !.received = Received(p, q), !.status = s] \in Purchase
    <3>1. purchase[p] \in Purchase BY <2>3
    <3> QED BY <1>3, <2>1, <3>1 DEF Purchase
  <2>5. purchase' = [purchase EXCEPT ![p] =
                        [purchase[p] EXCEPT !.received = Received(p, q), !.status = s]]
    BY <2>2, <2>3
  <2> QED BY <2>3, <2>4, <2>5
<1>5. stock' \in [Warehouses -> [Products -> Balance]]
  <2> DEFINE filled == [i \in Products |-> [stock[w][i] EXCEPT !.on_hand = @ + Brought(q)[i]]]
  <2>1. stock' = [stock EXCEPT ![w] = filled] BY DEF ReceivePurchase
  <2>2. \A i \in Products : filled[i] \in Balance
    <3> SUFFICES ASSUME NEW i \in Products
                 PROVE  filled[i] \in Balance
      OBVIOUS
    <3> DEFINE s == stock[w][i]
               n == s.on_hand + Brought(q)[i]
    <3>1. s \in Balance /\ Brought(q)[i] \in Nat BY <1>1, <1>2 DEF TypeInv, TypeOK
    <3>2. n \in Nat BY <3>1 DEF Balance
    <3>3. filled[i] = [s EXCEPT !.on_hand = n] OBVIOUS
    <3> HIDE DEF s, n, filled
    <3> QED BY <3>1, <3>2, <3>3 DEF Balance
  <2>3. filled \in [Products -> Balance] BY <2>2
  <2> HIDE DEF filled, w
  <2> QED BY <1>1, <2>1, <2>3 DEF TypeInv, TypeOK
<1>6. entered' \in [Warehouses -> [Products -> Int]]
  <2> DEFINE booked == [i \in Products |-> entered[w][i] + Brought(q)[i]]
  <2>1. entered' = [entered EXCEPT ![w] = booked] BY DEF ReceivePurchase
  <2>2. booked \in [Products -> Int] BY <1>1, <1>2 DEF TypeInv, TypeOK
  <2> HIDE DEF booked, w
  <2> QED BY <1>1, <2>1, <2>2 DEF TypeInv, TypeOK
<1> QED BY <1>4, <1>5, <1>6 DEF TypeInv, TypeOK, ReservedWithinRequested, ReceivePurchase
LEMMA PurchaseNextType ==
    ASSUME TypeInv, PurchaseNext
    PROVE  TypeInv'
<1>1. PICK p \in Purchases :
         \/ \E o \in Orders, q \in Quantities : CreateLinkedPurchase(p, o, q)
         \/ \E w \in Warehouses, to \in BOOLEAN, q \in Quantities :
               CreateFreePurchase(p, w, to, q)
         \/ \E o \in Orders, usable \in SUBSET Products :
               CreatePurchaseFromOrder(p, o, usable)
         \/ \E w \in Warehouses : UpdatePurchase(p, w)
         \/ ApprovePurchase(p)
         \/ RejectPurchase(p)
         \/ \E q \in Quantities : \/ MarkPurchased(p, q)
                                  \/ ReceivePurchase(p, q)
                                  \/ DeliverDirect(p, q)
         \/ CancelPurchase(p)
  BY DEF PurchaseNext
<1>2. ASSUME purchase' \in [Purchases -> Purchase], UNCHANGED <<orderVars, stockVars>>
      PROVE  TypeInv'
  BY <1>2 DEF TypeInv, TypeOK, ReservedWithinRequested
<1>3. CASE \E o \in Orders, q \in Quantities : CreateLinkedPurchase(p, o, q)
  <2>1. PICK o \in Orders, q \in Quantities : CreateLinkedPurchase(p, o, q) BY <1>3
  <2>2. order_warehouse[o] \in Warehouses BY DEF TypeInv, TypeOK
  <2>3. NewPurchase(o, order_warehouse[o], TRUE, q) \in Purchase
    BY <2>2, QuantitiesAreNat, NewPurchaseType
  <2> QED BY <1>2, <2>1, <2>3 DEF TypeInv, TypeOK, CreateLinkedPurchase
<1>4. CASE \E w \in Warehouses, to \in BOOLEAN, q \in Quantities :
              CreateFreePurchase(p, w, to, q)
  <2>1. PICK w \in Warehouses, to \in BOOLEAN, q \in Quantities :
           CreateFreePurchase(p, w, to, q)
    BY <1>4
  <2>2. NewPurchase(NoOrder, w, to, q) \in Purchase
    BY QuantitiesAreNat, NewPurchaseType
  <2> QED BY <1>2, <2>1, <2>2 DEF TypeInv, TypeOK, CreateFreePurchase
<1>5. CASE \E o \in Orders, usable \in SUBSET Products :
              CreatePurchaseFromOrder(p, o, usable)
  BY <1>5, CreatePurchaseFromOrderType
<1>6. CASE \E w \in Warehouses : UpdatePurchase(p, w)
  <2>1. PICK w \in Warehouses : UpdatePurchase(p, w) BY <1>6
  <2>2. [purchase[p] EXCEPT !.warehouse = w] \in Purchase
    BY DEF TypeInv, TypeOK, Purchase
  <2>3. purchase' = [purchase EXCEPT ![p] = [purchase[p] EXCEPT !.warehouse = w]]
    BY <2>1 DEF UpdatePurchase, TypeInv, TypeOK
  <2>4. purchase' \in [Purchases -> Purchase]
    BY <2>2, <2>3 DEF TypeInv, TypeOK
  <2> QED BY <1>2, <2>1, <2>4 DEF UpdatePurchase
<1>7. CASE ApprovePurchase(p)
  BY <1>2, <1>7, SetPurchaseStatusType DEF ApprovePurchase, PurchaseStatuses
<1>8. CASE RejectPurchase(p)
  BY <1>2, <1>8, SetPurchaseStatusType DEF RejectPurchase, PurchaseStatuses
<1>9. CASE \E q \in Quantities : MarkPurchased(p, q)
  <2>1. PICK q \in Quantities : MarkPurchased(p, q) BY <1>9
  <2> DEFINE bought == [i \in Products |->
                          IF q[i] > 0 THEN q[i] ELSE purchase[p].purchased[i]]
  <2>2. purchase[p] \in Purchase /\ q \in [Products -> Nat]
    BY QuantitiesAreNat DEF TypeInv, TypeOK
  <2>3. bought \in [Products -> Nat] BY <2>2 DEF Purchase
  <2>4. purchase' = [purchase EXCEPT ![p].status = "PURCHASED", ![p].purchased = bought]
    BY <2>1 DEF MarkPurchased
  <2>5. purchase' \in [Purchases -> Purchase]
    <3> HIDE DEF bought
    <3> DEFINE r == [purchase[p] EXCEPT !.status = "PURCHASED", !.purchased = bought]
    <3>1. r \in Purchase BY <2>2, <2>3 DEF Purchase, PurchaseStatuses
    <3>2. purchase' = [purchase EXCEPT ![p] = r] BY <2>4 DEF TypeInv, TypeOK
    <3> HIDE DEF r
    <3> QED BY <3>1, <3>2 DEF TypeInv, TypeOK
  <2> QED BY <1>2, <2>1, <2>5 DEF MarkPurchased
<1>10. CASE \E q \in Quantities : ReceivePurchase(p, q)
  BY <1>10, ReceivePurchaseType
<1>11. CASE \E q \in Quantities : DeliverDirect(p, q)
  <2>1. PICK q \in Quantities : DeliverDirect(p, q) BY <1>11
  <2>2. Received(p, q) \in [Products -> Nat] /\ purchase[p] \in Purchase
    BY ReceivedType DEF TypeInv, TypeOK
  <2> DEFINE r == [purchase[p] EXCEPT !.received = Received(p, q),
                                      !.status = "DELIVERED_DIRECT_TO_EVENT"]
  <2>3. r \in Purchase BY <2>2 DEF Purchase, PurchaseStatuses
  <2>4. purchase' = [purchase EXCEPT ![p] = r]
    BY <2>1 DEF DeliverDirect, TypeInv, TypeOK
  <2>5. purchase' \in [Purchases -> Purchase]
    <3> HIDE DEF r
    <3> QED BY <2>3, <2>4 DEF TypeInv, TypeOK
  <2> QED BY <1>2, <2>1, <2>5 DEF DeliverDirect
<1>12. CASE CancelPurchase(p)
  BY <1>2, <1>12, SetPurchaseStatusType DEF CancelPurchase, PurchaseStatuses
<1> QED BY <1>1, <1>3, <1>4, <1>5, <1>6, <1>7, <1>8, <1>9, <1>10, <1>11, <1>12

-----------------------------------------------------------------------------
(* Handlers that write one or two fields of an order.                       *)

LEMMA EditionType ==
    ASSUME TypeInv, NEW o \in Orders, NEW i \in Products, NEW q \in 1..MaxQuantity,
           AddItem(o, i, q) \/ UpdateItem(o, i, q) \/ DeleteItem(o, i)
    PROVE  TypeInv'
<1>1. q \in Nat BY LogisticsAssumption
<1>2. line[o][i] \in Line /\ line \in [Orders -> [Products -> Line]]
  BY DEF TypeInv, TypeOK
<1>3. CASE AddItem(o, i, q)
  BY <1>1, <1>3 DEF TypeInv, TypeOK, ReservedWithinRequested, AddItem, NewLine, Line
<1>4. CASE UpdateItem(o, i, q)
  <2> DEFINE r == [line[o][i] EXCEPT !.requested = q]
  <2>1. line[o][i].reserved = 0 BY <1>4 DEF UpdateItem, Mutable
  <2>2. r \in Line /\ r.requested = q /\ r.reserved = line[o][i].reserved
    BY <1>1, <1>2 DEF Line
  <2>3. line' = [line EXCEPT ![o][i] = r] BY <1>2, <1>4 DEF UpdateItem
  <2> HIDE DEF r
  <2>4. line' \in [Orders -> [Products -> Line]] BY <1>2, <2>2, <2>3
  <2>5. ReservedWithinRequested'
    BY <1>1, <1>2, <2>1, <2>2, <2>3 DEF TypeInv, ReservedWithinRequested
  <2> QED BY <1>4, <2>4, <2>5 DEF TypeInv, TypeOK, UpdateItem
<1>5. CASE DeleteItem(o, i)
  BY <1>5 DEF TypeInv, TypeOK, ReservedWithinRequested, DeleteItem, NoLine, NewLine, Line
<1> QED BY <1>3, <1>4, <1>5

LEMMA LoadDeliverType ==
    ASSUME TypeInv, NEW o \in Orders, NEW i \in Products, NEW q \in 0..MaxQuantity,
           LoadItem(o, i, q) \/ DeliverItem(o, i, q)
    PROVE  TypeInv'
<1>1. q \in Nat BY LogisticsAssumption
<1>2. line[o][i] \in Line /\ line[o][i].reserved <= line[o][i].requested
  BY DEF TypeInv, TypeOK, ReservedWithinRequested
<1>3. ASSUME NEW r \in Line, line' = [line EXCEPT ![o][i] = r],
             r.reserved = line[o][i].reserved, r.requested = line[o][i].requested
      PROVE  line' \in [Orders -> [Products -> Line]] /\ ReservedWithinRequested'
  BY <1>2, <1>3 DEF TypeInv, TypeOK, ReservedWithinRequested
<1>4. CASE LoadItem(o, i, q)
  <2> DEFINE r == [line[o][i] EXCEPT !.loaded = q]
  <2>1. r \in Line /\ r.reserved = line[o][i].reserved /\ r.requested = line[o][i].requested
    BY <1>1, <1>2 DEF Line
  <2>2. line' = [line EXCEPT ![o][i] = r] BY <1>4 DEF LoadItem, TypeInv, TypeOK
  <2>3. status' \in [Orders -> OrderStatuses]
    BY <1>4 DEF LoadItem, SetStatus, TypeInv, TypeOK, OrderStatuses
  <2> HIDE DEF r
  <2> QED BY <1>3, <1>4, <2>1, <2>2, <2>3 DEF TypeInv, TypeOK, LoadItem
<1>5. CASE DeliverItem(o, i, q)
  <2> DEFINE r == [line[o][i] EXCEPT !.delivered = q]
  <2>1. r \in Line /\ r.reserved = line[o][i].reserved /\ r.requested = line[o][i].requested
    BY <1>1, <1>2 DEF Line
  <2>2. line' = [line EXCEPT ![o][i] = r] BY <1>5 DEF DeliverItem, TypeInv, TypeOK
  <2> HIDE DEF r
  <2> QED BY <1>3, <1>5, <2>1, <2>2 DEF TypeInv, TypeOK, DeliverItem
<1> QED BY <1>4, <1>5

LEMMA StatusChangeType ==
    ASSUME TypeInv, NEW o \in Orders, NEW w \in Warehouses,
           \/ UpdateOrder(o, w)
           \/ AssignOrder(o)
           \/ CreatePartialDispatch(o)
           \/ RejectPartialDispatch(o)
           \/ StartPreparation(o)
           \/ ConfirmDelivery(o)
           \/ ConfirmOutcome(o)
           \/ CloseOrder(o)
    PROVE  TypeInv'
BY DEF TypeInv, TypeOK, ReservedWithinRequested, SetStatus, OrderStatuses,
       UpdateOrder, AssignOrder, CreatePartialDispatch, RejectPartialDispatch,
       StartPreparation, ConfirmDelivery, ConfirmOutcome, CloseOrder

LEMMA ReleasingHandlersType ==
    ASSUME TypeInv, NEW o \in Orders, UnreserveStock(o) \/ CancelOrder(o)
    PROVE  TypeInv'
<1>1. ReleaseReservations(o) BY DEF UnreserveStock, CancelOrder
<1>2. status' \in [Orders -> OrderStatuses]
  BY DEF UnreserveStock, CancelOrder, SetStatus, TypeInv, TypeOK, OrderStatuses
<1> QED BY <1>1, <1>2, ReleaseType DEF UnreserveStock, CancelOrder, TypeInv, TypeOK
-----------------------------------------------------------------------------
(* The theorem.                                                             *)

LEMMA OrderNextType ==
    ASSUME TypeInv, OrderNext
    PROVE  TypeInv'
<1>1. PICK o \in Orders :
        \/ \E w \in Warehouses, q \in Quantities : CreateOrder(o, w, q)
        \/ \E w \in Warehouses : UpdateOrder(o, w)
        \/ AssignOrder(o)
        \/ \E i \in Products, q \in 1..MaxQuantity :
              \/ AddItem(o, i, q)
              \/ UpdateItem(o, i, q)
              \/ LoadItem(o, i, q)
              \/ \E source \in Warehouses : TransferStock(o, i, source, q)
        \/ \E i \in Products : DeleteItem(o, i)
        \/ \E usable \in SUBSET Products : ReserveStock(o, usable)
        \/ UnreserveStock(o)
        \/ CancelOrder(o)
        \/ CheckStock(o)
        \/ CreatePartialDispatch(o)
        \/ \E child \in Orders : ApprovePartialDispatch(o, child)
        \/ RejectPartialDispatch(o)
        \/ StartPreparation(o)
        \/ DispatchOrder(o)
        \/ \E i \in Products, q \in 0..MaxQuantity : DeliverItem(o, i, q)
        \/ ConfirmDelivery(o)
        \/ \E i \in Products, x \in Outcomes : RegisterOutcome(o, i, x)
        \/ MarkAllConsumed(o)
        \/ ConfirmOutcome(o)
        \/ CloseOrder(o)
  BY DEF OrderNext
<1>2. order_warehouse[o] \in Warehouses /\ 1 \in 1..MaxQuantity
      /\ 1..MaxQuantity \subseteq 0..MaxQuantity
  BY LogisticsAssumption DEF TypeInv, TypeOK
<1>3. CASE \E w \in Warehouses, q \in Quantities : CreateOrder(o, w, q)
  BY <1>3, CreateOrderType
<1>4. CASE \/ \E w \in Warehouses : UpdateOrder(o, w)
           \/ AssignOrder(o)
           \/ CreatePartialDispatch(o)
           \/ RejectPartialDispatch(o)
           \/ StartPreparation(o)
           \/ ConfirmDelivery(o)
           \/ ConfirmOutcome(o)
           \/ CloseOrder(o)
  BY <1>2, <1>4, StatusChangeType
<1>5. CASE \E i \in Products, q \in 1..MaxQuantity :
              \/ AddItem(o, i, q)
              \/ UpdateItem(o, i, q)
              \/ LoadItem(o, i, q)
              \/ \E source \in Warehouses : TransferStock(o, i, source, q)
  BY <1>2, <1>5, EditionType, LoadDeliverType, TransferType
<1>6. CASE \E i \in Products : DeleteItem(o, i)
  BY <1>2, <1>6, EditionType
<1>7. CASE \E usable \in SUBSET Products : ReserveStock(o, usable)
  BY <1>7, ReserveStockType
<1>8. CASE UnreserveStock(o) \/ CancelOrder(o)
  BY <1>8, ReleasingHandlersType
<1>9. CASE CheckStock(o)
  BY <1>9, CheckStockType
<1>10. CASE \E child \in Orders : ApprovePartialDispatch(o, child)
  BY <1>10, ApprovePartialDispatchType
<1>11. CASE DispatchOrder(o)
  BY <1>11, DispatchType
<1>12. CASE \E i \in Products, q \in 0..MaxQuantity : DeliverItem(o, i, q)
  BY <1>12, LoadDeliverType
<1>13. CASE \E i \in Products, x \in Outcomes : RegisterOutcome(o, i, x)
  BY <1>13, RegisterOutcomeType
<1>14. CASE MarkAllConsumed(o)
  BY <1>14, MarkAllConsumedType
<1> QED BY <1>1, <1>3, <1>4, <1>5, <1>6, <1>7, <1>8, <1>9, <1>10, <1>11, <1>12,
           <1>13, <1>14

LEMMA InitType == Init => TypeInv
<1>1. AnyWarehouse \in Warehouses BY LogisticsAssumption DEF AnyWarehouse
<1> QED BY <1>1 DEF Init, TypeInv, TypeOK, ReservedWithinRequested, NoLine, NewLine,
                    Line, OrderStatuses, EmptyBalance, Balance, NoPurchase, Purchase,
                    PurchaseStatuses

LEMMA NextType == TypeInv /\ [Next]_vars => TypeInv'
<1> SUFFICES ASSUME TypeInv, [Next]_vars PROVE TypeInv'
  OBVIOUS
<1>1. CASE StockNext BY <1>1, StockNextType
<1>2. CASE OrderNext BY <1>2, OrderNextType
<1>3. CASE PurchaseNext BY <1>3, PurchaseNextType
<1>4. CASE UNCHANGED vars
  BY <1>4 DEF TypeInv, TypeOK, ReservedWithinRequested
<1> QED BY <1>1, <1>2, <1>3, <1>4 DEF Next

\* The rows keep their types whatever the services do: no handler writes a
\* negative count of units on hand, reserved or damaged, nor a negative quantity
\* in an order line.
THEOREM TypeCorrect == Spec => []TypeOK
<1>1. TypeInv => TypeOK BY DEF TypeInv
<1> QED BY <1>1, InitType, NextType, PTL DEF Spec

\* A line never reserves more than it asks for.
THEOREM NeverOverReserved == Spec => []ReservedWithinRequested
<1>1. TypeInv => ReservedWithinRequested BY DEF TypeInv
<1> QED BY <1>1, InitType, NextType, PTL DEF Spec

-----------------------------------------------------------------------------
(***************************************************************************)
(* VALID ROWS.  Every row that a handler writes is one it has validated or *)
(* repaired, so that _validate_quantities and the CHECK constraints of     *)
(* stock_balances hold of what is stored, whatever lines an order has.     *)
(***************************************************************************)

GoodRow(s) == s \in Balance /\ ValidBalance(s)

LEMMA StoredGood ==
    ASSUME TypeOK, BalancesValid, NEW o \in Orders, NEW i \in Products
    PROVE  GoodRow(stock[order_warehouse[o]][item_id[i]])
<1>1. order_warehouse[o] \in Warehouses BY DEF TypeOK
<1>2. PICK w \in Warehouses, p \in Products : w = order_warehouse[o] /\ p = item_id[i]
  BY <1>1, ItemType
<1> QED BY <1>2, StoredType DEF GoodRow, BalancesValid

\* The repair raises on_hand to cover what it counts.
LEMMA SyncedGood ==
    ASSUME NEW w, NEW p \in Products, NEW s, GoodRow(s)
    PROVE  GoodRow(Synced(w, p, s))
<1>1. PICK expected \in Nat : expected = ReservedByActiveOrders(w, p) BY ReservedIsNat
<1>2. s \in Balance BY DEF GoodRow
<1>3. Synced(w, p, s) = [on_hand  |-> Larger(s.on_hand, expected + s.damaged),
                         reserved |-> expected, damaged |-> s.damaged]
  BY <1>1 DEF Synced
<1> QED BY <1>2, <1>3 DEF GoodRow, ValidBalance, Available, Balance, Larger

LEMMA LockedBalanceGood ==
    ASSUME NEW o, NEW i \in Products, NEW s, GoodRow(s)
    PROVE  GoodRow(LockedBalance(o, i, s))
BY ItemType, SyncedGood DEF LockedBalance

LEMMA SetBalancesGood ==
    ASSUME TypeOK, BalancesValid, NEW o \in Orders, NEW rows, SetBalances(o, rows),
           \A i \in Products : i \in Lines(o) => GoodRow(rows[i])
    PROVE  BalancesValid'
<1> DEFINE kept == [p \in Products |->
                      IF LinesOf(o, p) # {} THEN rows[LastLine(o, p)]
                      ELSE stock[order_warehouse[o]][p]]
<1>1. stock' = [stock EXCEPT ![order_warehouse[o]] = kept]
  BY DEF SetBalances, TypeOK
<1>2. \A p \in Products : ValidBalance(kept[p])
  <2> SUFFICES ASSUME NEW p \in Products PROVE ValidBalance(kept[p])
    OBVIOUS
  <2>1. CASE LinesOf(o, p) # {}
    <3>1. LastLine(o, p) \in Lines(o) BY <2>1, LastLineIsLine
    <3>2. LastLine(o, p) \in Products BY <3>1 DEF Lines
    <3>3. ValidBalance(rows[LastLine(o, p)]) BY <3>1, <3>2 DEF GoodRow
    <3> QED BY <2>1, <3>3
  <2>2. CASE LinesOf(o, p) = {}
    <3>1. ValidBalance(stock[order_warehouse[o]][p]) BY DEF TypeOK, BalancesValid
    <3> QED BY <2>2, <3>1
  <2> QED BY <2>1, <2>2
<1> HIDE DEF kept
<1> QED BY <1>1, <1>2 DEF TypeOK, BalancesValid

\* A reservation takes no more than the row it works on can promise.
LEMMA RowReservedGood ==
    ASSUME TypeInv, NEW o \in Orders, NEW i \in Products, NEW s, GoodRow(s), NEW usable
    PROVE  GoodRow([s EXCEPT !.reserved = @ + QuantityToReserve(o, i, s, usable)])
<1>1. s \in Balance BY DEF GoodRow
<1>2. PICK n : n = QuantityToReserve(o, i, s, usable) OBVIOUS
<1>3. line[o][i] \in Line BY DEF TypeInv, TypeOK
<1>4. n \in Nat /\ n <= Available(s)
  BY <1>1, <1>2, <1>3 DEF QuantityToReserve, Smaller, Positive, Larger, Available, GoodRow,
                          ValidBalance, Balance, Line
<1>5. [s EXCEPT !.reserved = @ + n] \in Balance BY <1>1, <1>4 DEF Balance
<1>6. ValidBalance([s EXCEPT !.reserved = @ + n])
  BY <1>1, <1>4 DEF GoodRow, ValidBalance, Available, Balance
<1> QED BY <1>2, <1>5, <1>6 DEF GoodRow

LEMMA RowForReserveGood ==
    ASSUME TypeInv, BalancesValid, NEW o \in Orders, NEW i \in Products, NEW usable
    PROVE  GoodRow(RowForReserve(o, i, usable))
<1> DEFINE p == item_id[i]
           stored == stock[order_warehouse[o]][p]
           found == IF i # p /\ p \in Lines(o)
                    THEN RowReserved(o, p, stored, usable) ELSE stored
<1>1. p \in Products /\ GoodRow(stored)
  BY ItemType, StoredGood DEF TypeInv
<1>2. GoodRow(RowReserved(o, p, stored, usable))
  <2>1. PICK locked : locked = LockedBalance(o, p, stored) OBVIOUS
  <2>2. GoodRow(locked)
    <3> HIDE DEF p, stored
    <3> QED BY <1>1, <2>1, LockedBalanceGood
  <2>3. GoodRow([locked EXCEPT !.reserved = @ + QuantityToReserve(o, p, locked, usable)])
    <3> HIDE DEF p, stored
    <3> QED BY <1>1, <2>2, RowReservedGood
  <2> QED BY <2>1, <2>3 DEF RowReserved
<1>3. GoodRow(found) BY <1>1, <1>2
<1>4. RowForReserve(o, i, usable) = LockedBalance(o, i, found)
  BY DEF RowForReserve, Found
<1> HIDE DEF found
<1> QED BY <1>3, <1>4, LockedBalanceGood

LEMMA ReserveStockGood ==
    ASSUME TypeInv, BalancesValid, NEW o \in Orders, NEW usable \in SUBSET Products,
           ReserveStock(o, usable)
    PROVE  BalancesValid'
<1> DEFINE row(i) == RowForReserve(o, i, usable)
           rows == [i \in Products |->
                      [row(i) EXCEPT !.reserved = @ + QuantityToReserve(o, i, row(i), usable)]]
<1>1. SetBalances(o, rows) BY DEF ReserveStock
<1>2. \A i \in Products : GoodRow(rows[i])
  BY RowForReserveGood, RowReservedGood
<1> HIDE DEF rows
<1> QED BY <1>1, <1>2, SetBalancesGood DEF TypeInv

LEMMA RowFreedGood ==
    ASSUME TypeInv, NEW o \in Orders, NEW i \in Products, NEW s, GoodRow(s),
           RowFreed(o, i, s).reserved >= 0
    PROVE  GoodRow(RowFreed(o, i, s))
<1>1. line[o][i] \in Line BY DEF TypeInv, TypeOK
<1>2. PICK r : r = LockedBalance(o, i, s) OBVIOUS
<1>3. GoodRow(r) BY <1>2, LockedBalanceGood
<1>4. RowFreed(o, i, s) \in Balance BY RowFreedType DEF GoodRow
<1>5. RowFreed(o, i, s) = IF line[o][i].reserved > 0
                          THEN [r EXCEPT !.reserved = @ - line[o][i].reserved] ELSE s
  BY <1>2 DEF RowFreed
<1>6. ValidBalance(RowFreed(o, i, s))
  BY <1>1, <1>3, <1>5 DEF GoodRow, ValidBalance, Available, Balance, Line
<1> QED BY <1>4, <1>6 DEF GoodRow

LEMMA ReleaseGood ==
    ASSUME TypeInv, BalancesValid, NEW o \in Orders, ReleaseReservations(o)
    PROVE  BalancesValid'
<1> DEFINE stored(i) == stock[order_warehouse[o]][item_id[i]]
           found(i) == IF i # item_id[i] /\ item_id[i] \in Lines(o)
                       THEN RowFreed(o, item_id[i], stored(i)) ELSE stored(i)
           freed == [i \in Products |-> RowFreed(o, i, found(i))]
<1>1. SetBalances(o, freed) BY DEF ReleaseReservations, Found
<1>2. \A i \in Lines(o) : freed[i].reserved >= 0
  BY DEF ReleaseReservations, Found, Lines
<1>3. \A i \in Products : i \in Lines(o) => GoodRow(freed[i])
  <2> SUFFICES ASSUME NEW i \in Products, i \in Lines(o)
               PROVE  GoodRow(freed[i])
    OBVIOUS
  <2>1. item_id[i] \in Products /\ GoodRow(stored(i))
    BY ItemType, StoredGood DEF TypeInv
  <2>2. GoodRow(found(i))
    <3>1. CASE i # item_id[i] /\ item_id[i] \in Lines(o)
      <4>1. PICK p \in Products : p = item_id[i] BY <2>1
      <4>2. item_id[p] = p BY <4>1, LogisticsAssumption
      <4>3. found(p) = stored(i) BY <4>1, <4>2
      <4>4. freed[p].reserved >= 0 BY <1>2, <3>1, <4>1
      <4>5. freed[p] = RowFreed(o, p, stored(i)) BY <4>3
      <4>6. GoodRow(RowFreed(o, p, stored(i)))
        <5> HIDE DEF stored, freed
        <5> QED BY <2>1, <4>4, <4>5, RowFreedGood
      <4> QED BY <3>1, <4>1, <4>6
    <3>2. CASE ~(i # item_id[i] /\ item_id[i] \in Lines(o)) BY <2>1, <3>2
    <3> QED BY <3>1, <3>2
  <2>3. freed[i] = RowFreed(o, i, found(i)) /\ freed[i].reserved >= 0 BY <1>2
  <2> HIDE DEF freed, found, stored
  <2> QED BY <2>2, <2>3, RowFreedGood
<1> HIDE DEF freed
<1> QED BY <1>1, <1>3, SetBalancesGood DEF TypeInv

\* A dispatch takes units from both counts, and leaves what is available.
LEMMA RowDispatchedGood ==
    ASSUME TypeInv, NEW o \in Orders, NEW i \in Products, NEW s, GoodRow(s),
           line[o][i].loaded <= RowForDispatch(o, i, s).reserved,
           line[o][i].loaded <= RowForDispatch(o, i, s).on_hand
    PROVE  GoodRow(RowDispatched(o, i, s))
<1>1. PICK r : r = RowForDispatch(o, i, s) OBVIOUS
<1>2. GoodRow(r)
  BY <1>1, ItemType, SyncedGood DEF RowForDispatch
<1>3. line[o][i].loaded \in Nat BY DEF TypeInv, TypeOK, Line
<1> DEFINE a == r.on_hand - line[o][i].loaded
           b == r.reserved - line[o][i].loaded
<1>4. r \in Balance BY <1>2 DEF GoodRow
<1>5. a \in Nat /\ b \in Nat BY <1>1, <1>3, <1>4 DEF Balance
<1>6. a - b - r.damaged >= 0 /\ r.damaged >= 0
  BY <1>2, <1>3, <1>4 DEF GoodRow, ValidBalance, Available, Balance
<1>7. RowDispatched(o, i, s) = [r EXCEPT !.on_hand = a, !.reserved = b]
  BY <1>1 DEF RowDispatched
<1> HIDE DEF a, b
<1>8. PICK t : t = [r EXCEPT !.on_hand = a, !.reserved = b] OBVIOUS
<1>9. t \in Balance /\ t.on_hand = a /\ t.reserved = b /\ t.damaged = r.damaged
  BY <1>4, <1>5, <1>8 DEF Balance
<1>10. ValidBalance(t) BY <1>5, <1>6, <1>9 DEF ValidBalance, Available
<1> QED BY <1>7, <1>8, <1>9, <1>10 DEF GoodRow

LEMMA DispatchGood ==
    ASSUME TypeInv, BalancesValid, NEW o \in Orders, DispatchOrder(o)
    PROVE  BalancesValid'
<1> DEFINE stored(i) == stock[order_warehouse[o]][item_id[i]]
           found(i) == IF i # item_id[i] /\ item_id[i] \in Lines(o)
                       THEN RowDispatched(o, item_id[i], stored(i)) ELSE stored(i)
           sent == [i \in Products |-> RowDispatched(o, i, found(i))]
<1>1. SetBalances(o, sent) BY DEF DispatchOrder, Found, RowDispatched
<1>2. \A i \in Lines(o) : /\ line[o][i].loaded <= RowForDispatch(o, i, found(i)).reserved
                          /\ line[o][i].loaded <= RowForDispatch(o, i, found(i)).on_hand
  BY DEF DispatchOrder, Found
<1>3. \A i \in Products : i \in Lines(o) => GoodRow(sent[i])
  <2> SUFFICES ASSUME NEW i \in Products, i \in Lines(o)
               PROVE  GoodRow(sent[i])
    OBVIOUS
  <2>1. item_id[i] \in Products /\ GoodRow(stored(i))
    BY ItemType, StoredGood DEF TypeInv
  <2>2. GoodRow(found(i))
    <3>1. CASE i # item_id[i] /\ item_id[i] \in Lines(o)
      <4>1. PICK p \in Products : p = item_id[i] BY <2>1
      <4>2. item_id[p] = p BY <4>1, LogisticsAssumption
      <4>3. found(p) = stored(i) BY <4>1, <4>2
      <4>4. /\ line[o][p].loaded <= RowForDispatch(o, p, stored(i)).reserved
            /\ line[o][p].loaded <= RowForDispatch(o, p, stored(i)).on_hand
        BY <1>2, <3>1, <4>1, <4>3
      <4>5. GoodRow(RowDispatched(o, p, stored(i)))
        <5> HIDE DEF stored
        <5> QED BY <2>1, <4>4, RowDispatchedGood
      <4> QED BY <3>1, <4>1, <4>5
    <3>2. CASE ~(i # item_id[i] /\ item_id[i] \in Lines(o)) BY <2>1, <3>2
    <3> QED BY <3>1, <3>2
  <2>3. sent[i] = RowDispatched(o, i, found(i)) OBVIOUS
  <2> HIDE DEF sent, found, stored
  <2> QED BY <1>2, <2>2, <2>3, RowDispatchedGood
<1> HIDE DEF sent
<1> QED BY <1>1, <1>3, SetBalancesGood DEF TypeInv

LEMMA CheckStockGood ==
    ASSUME TypeInv, BalancesValid, NEW o \in Orders, CheckStock(o)
    PROVE  BalancesValid'
<1> DEFINE stored(i) == stock[order_warehouse[o]][item_id[i]]
           found(i) == IF i # item_id[i] /\ item_id[i] \in Lines(o)
                       THEN LockedBalance(o, item_id[i], stored(i)) ELSE stored(i)
           rows == [i \in Products |-> LockedBalance(o, i, found(i))]
<1>1. SetBalances(o, rows) BY DEF CheckStock, Found
<1>2. \A i \in Products : GoodRow(rows[i])
  <2> SUFFICES ASSUME NEW i \in Products PROVE GoodRow(rows[i])
    OBVIOUS
  <2>1. item_id[i] \in Products /\ GoodRow(stored(i))
    BY ItemType, StoredGood DEF TypeInv
  <2>2. GoodRow(LockedBalance(o, item_id[i], stored(i)))
    <3> HIDE DEF stored
    <3> QED BY <2>1, LockedBalanceGood
  <2>3. GoodRow(found(i)) BY <2>1, <2>2
  <2> HIDE DEF found
  <2> QED BY <2>3, LockedBalanceGood
<1> HIDE DEF rows
<1> QED BY <1>1, <1>2, SetBalancesGood DEF TypeInv

\* A transfer takes what the source can promise.
LEMMA TransferGood ==
    ASSUME TypeInv, BalancesValid, NEW o \in Orders, NEW i \in Products,
           NEW source \in Warehouses, NEW q \in 1..MaxQuantity,
           TransferStock(o, i, source, q)
    PROVE  BalancesValid'
<1> DEFINE w == order_warehouse[o]
           p == item_id[i]
<1>1. w \in Warehouses /\ p \in Products
  BY ItemType DEF TypeInv, TypeOK
<1>2. PICK a, b : a = stock[source][p] /\ b = stock[w][p] OBVIOUS
<1>3. GoodRow(a) /\ GoodRow(b)
  BY <1>1, <1>2 DEF TypeInv, TypeOK, BalancesValid, GoodRow
<1>4. q \in Nat /\ q >= 1 BY LogisticsAssumption
<1>5. source # w /\ q <= Positive(Available(a)) BY <1>2 DEF TransferStock
<1> DEFINE taken == [stock EXCEPT ![source][p].on_hand = @ - q]
<1>6. stock' = [taken EXCEPT ![w][p].on_hand = @ + q] BY DEF TransferStock
<1>7. /\ stock'[source][p] = [a EXCEPT !.on_hand = @ - q]
      /\ stock'[w][p] = [b EXCEPT !.on_hand = @ + q]
      /\ \A v \in Warehouses, j \in Products :
            \/ (v = source \/ v = w) /\ j = p
            \/ stock'[v][j] = stock[v][j]
  <2>1. taken = [stock EXCEPT ![source] =
                    [stock[source] EXCEPT ![p] = [a EXCEPT !.on_hand = @ - q]]]
    BY <1>1, <1>2 DEF TypeInv, TypeOK
  <2> HIDE DEF taken, w, p
  <2>2. taken[w] = stock[w] BY <1>1, <1>5, <2>1 DEF TypeInv, TypeOK
  <2>3. stock' = [taken EXCEPT ![w] =
                    [stock[w] EXCEPT ![p] = [b EXCEPT !.on_hand = @ + q]]]
    BY <1>1, <1>2, <1>6, <2>1, <2>2 DEF TypeInv, TypeOK
  <2> QED BY <1>1, <1>5, <2>1, <2>3 DEF TypeInv, TypeOK
<1> HIDE DEF taken, w, p
<1>8. ValidBalance([a EXCEPT !.on_hand = @ - q])
  BY <1>3, <1>4, <1>5 DEF GoodRow, ValidBalance, Available, Balance, Positive, Larger
<1>9. ValidBalance([b EXCEPT !.on_hand = @ + q])
  BY <1>3, <1>4 DEF GoodRow, ValidBalance, Available, Balance
<1> QED BY <1>7, <1>8, <1>9 DEF BalancesValid

\* A correction that the handler accepts.
LEMMA CorrectedBalanceGood ==
    ASSUME NEW s, GoodRow(s), NEW l \in Line, NEW x \in ReportedOutcome,
           ReturnsChange(l, x) => /\ CorrectedBalance(s, l, x).on_hand >= 0
                                  /\ CorrectedBalance(s, l, x).damaged >= 0
                                  /\ Available(CorrectedBalance(s, l, x)) >= 0
    PROVE  GoodRow(CorrectedBalance(s, l, x))
<1>1. s \in Balance BY DEF GoodRow
<1>2. PICK t : t = CorrectedBalance(s, l, x) OBVIOUS
<1>3. t \in Balance BY <1>1, <1>2, CorrectedBalanceType
<1>4. CASE ReturnsChange(l, x) BY <1>2, <1>3, <1>4 DEF GoodRow, ValidBalance, Balance
<1>5. CASE ~ReturnsChange(l, x)
  <2>1. x.returned = l.returned /\ x.returned_damaged = l.returned_damaged
    BY <1>5 DEF ReturnsChange
  <2>2. l.returned \in Nat /\ l.returned_damaged \in Nat BY DEF Line
  <2> DEFINE a == s.on_hand + (x.returned - l.returned)
                    + (x.returned_damaged - l.returned_damaged)
             b == s.damaged + (x.returned_damaged - l.returned_damaged)
  <2>3. t = [s EXCEPT !.on_hand = a, !.damaged = b] BY <1>2 DEF CorrectedBalance
  <2>4. a = s.on_hand /\ b = s.damaged BY <1>1, <2>1, <2>2 DEF Balance
  <2> HIDE DEF a, b
  <2>5. t = s BY <1>1, <2>3, <2>4 DEF Balance
  <2> QED BY <1>2, <2>5
<1> QED BY <1>4, <1>5

LEMMA RegisterOutcomeGood ==
    ASSUME TypeInv, BalancesValid, NEW o \in Orders, NEW i \in Products,
           NEW x \in Outcomes, RegisterOutcome(o, i, x)
    PROVE  BalancesValid'
<1>1. PICK w \in Warehouses, p \in Products, l \in Line, s \in Balance :
         w = order_warehouse[o] /\ p = item_id[i] /\ l = line[o][i] /\ s = stock[w][p]
  BY ItemType DEF TypeInv, TypeOK
<1>2. GoodRow(s) BY <1>1 DEF TypeInv, TypeOK, BalancesValid, GoodRow
<1>3. x \in ReportedOutcome BY LogisticsAssumption DEF Outcomes, ReportedOutcome
<1>4. ReturnsChange(l, x) => /\ CorrectedBalance(s, l, x).on_hand >= 0
                             /\ CorrectedBalance(s, l, x).damaged >= 0
                             /\ Available(CorrectedBalance(s, l, x)) >= 0
  BY <1>1 DEF RegisterOutcome, OutcomeAccepted
<1>5. GoodRow(CorrectedBalance(s, l, x)) BY <1>2, <1>3, <1>4, CorrectedBalanceGood
<1>6. stock' = [stock EXCEPT ![w][p] = CorrectedBalance(s, l, x)]
  BY <1>1 DEF RegisterOutcome
<1> QED BY <1>5, <1>6 DEF GoodRow, BalancesValid, TypeInv, TypeOK

LEMMA RowConsumedGood ==
    ASSUME TypeInv, NEW o \in Orders, NEW i \in Products, NEW s, GoodRow(s),
           i \in ConsumableLines(o)
             => OutcomeAccepted(o, i, s, AllConsumed(line[o][i]))
    PROVE  GoodRow(RowConsumed(o, i, s))
<1>1. CASE i \notin ConsumableLines(o) BY <1>1 DEF RowConsumed
<1>2. CASE i \in ConsumableLines(o)
  <2> DEFINE l == line[o][i]
             x == AllConsumed(l)
  <2>1. OutcomeAccepted(o, i, s, x) BY <1>2
  <2>2. ReturnsChange(l, x)
          => /\ CorrectedBalance(s, l, x).on_hand >= 0
             /\ CorrectedBalance(s, l, x).damaged >= 0
             /\ Available(CorrectedBalance(s, l, x)) >= 0
    BY <2>1 DEF OutcomeAccepted
  <2>3. l \in Line BY DEF TypeInv, TypeOK
  <2>4. x \in ReportedOutcome BY <2>3 DEF ReportedOutcome, Line, AllConsumed
  <2>5. RowConsumed(o, i, s) = CorrectedBalance(s, l, x) BY <1>2 DEF RowConsumed
  <2> HIDE DEF l, x
  <2> QED BY <2>2, <2>3, <2>4, <2>5, CorrectedBalanceGood
<1> QED BY <1>1, <1>2

LEMMA MarkAllConsumedGood ==
    ASSUME TypeInv, BalancesValid, NEW o \in Orders, MarkAllConsumed(o)
    PROVE  BalancesValid'
<1> DEFINE consumables == ConsumableLines(o)
           all(i) == AllConsumed(line[o][i])
           stored(i) == stock[order_warehouse[o]][item_id[i]]
           found(i) == IF i # item_id[i] /\ item_id[i] \in Lines(o)
                       THEN RowConsumed(o, item_id[i], stored(i)) ELSE stored(i)
           rows == [i \in Products |-> RowConsumed(o, i, found(i))]
<1>1. SetBalances(o, rows) BY DEF MarkAllConsumed, Found
<1>2. \A i \in consumables : OutcomeAccepted(o, i, found(i), all(i))
  BY DEF MarkAllConsumed, Found
<1>3. \A i \in Products : i \in Lines(o) => GoodRow(rows[i])
  <2> SUFFICES ASSUME NEW i \in Products, i \in Lines(o)
               PROVE  GoodRow(rows[i])
    OBVIOUS
  <2>1. item_id[i] \in Products /\ GoodRow(stored(i))
    BY ItemType, StoredGood DEF TypeInv
  <2>2. GoodRow(found(i))
    <3>1. CASE i # item_id[i] /\ item_id[i] \in Lines(o)
      <4>1. PICK p \in Products : p = item_id[i] BY <2>1
      <4>2. item_id[p] = p BY <4>1, LogisticsAssumption
      <4>3. found(p) = stored(i) BY <4>1, <4>2
      <4>4. p \in consumables => OutcomeAccepted(o, p, stored(i), all(p))
        BY <1>2, <4>3
      <4>5. GoodRow(RowConsumed(o, p, stored(i)))
        <5> HIDE DEF stored
        <5> QED BY <2>1, <4>4, RowConsumedGood
      <4> QED BY <3>1, <4>1, <4>5
    <3>2. CASE ~(i # item_id[i] /\ item_id[i] \in Lines(o)) BY <2>1, <3>2
    <3> QED BY <3>1, <3>2
  <2>3. rows[i] = RowConsumed(o, i, found(i)) OBVIOUS
  <2>4. i \in consumables => OutcomeAccepted(o, i, found(i), all(i)) BY <1>2
  <2> HIDE DEF rows, found, stored
  <2> QED BY <2>2, <2>3, <2>4, RowConsumedGood
<1> HIDE DEF rows
<1> QED BY <1>1, <1>3, SetBalancesGood DEF TypeInv

LEMMA SaveBalanceGood ==
    ASSUME TypeOK, BalancesValid, NEW w \in Warehouses, NEW i \in Products, NEW new,
           SaveBalance(w, i, new)
    PROVE  BalancesValid'
<1>1. ValidBalance(new) /\ stock' = [stock EXCEPT ![w][i] = new] BY DEF SaveBalance
<1> QED BY <1>1 DEF BalancesValid, TypeOK

LEMMA StockNextGood ==
    ASSUME TypeInv, BalancesValid, StockNext
    PROVE  BalancesValid'
<1>1. PICK w \in Warehouses, i \in Items : \E new : SaveBalance(w, i, new)
  BY DEF StockNext, CreateStockBalance, UpdateStockBalance, Correction, InitialStock,
         CreateStockMovement
<1>2. PICK new : SaveBalance(w, i, new) BY <1>1
<1>3. i \in Products BY DEF Items
<1> QED BY <1>2, <1>3, SaveBalanceGood DEF TypeInv

LEMMA PurchaseNextGood ==
    ASSUME TypeInv, BalancesValid, PurchaseNext
    PROVE  BalancesValid'
<1>1. CASE UNCHANGED stock BY <1>1 DEF BalancesValid
<1>2. CASE \E p \in Purchases, q \in Quantities : ReceivePurchase(p, q)
  <2>1. PICK p \in Purchases, q \in Quantities : ReceivePurchase(p, q) BY <1>2
  <2>2. PICK w \in Warehouses : w = purchase[p].warehouse
    BY DEF TypeInv, TypeOK, Purchase
  <2>3. \A i \in Products : Brought(q)[i] \in Nat
    BY QuantitiesAreNat, OfProductIsNat DEF Brought
  <2>4. stock' = [stock EXCEPT ![w] = [i \in Products |->
                     [stock[w][i] EXCEPT !.on_hand = @ + Brought(q)[i]]]]
    BY <2>1, <2>2 DEF ReceivePurchase
  <2>5. ASSUME NEW i \in Products
        PROVE  ValidBalance([stock[w][i] EXCEPT !.on_hand = @ + Brought(q)[i]])
    <3>1. PICK n \in Nat, s \in Balance : n = Brought(q)[i] /\ s = stock[w][i]
      BY <2>3 DEF TypeInv, TypeOK
    <3>2. ValidBalance(s) BY <3>1 DEF BalancesValid
    <3>3. ValidBalance([s EXCEPT !.on_hand = @ + n])
      BY <3>2 DEF ValidBalance, Available, Balance
    <3> QED BY <3>1, <3>3
  <2> QED BY <2>4, <2>5 DEF BalancesValid, TypeInv, TypeOK
<1>3. UNCHANGED stock \/ \E p \in Purchases, q \in Quantities : ReceivePurchase(p, q)
  BY DEF PurchaseNext, CreateLinkedPurchase, CreateFreePurchase,
         CreatePurchaseFromOrder, UpdatePurchase, ApprovePurchase, RejectPurchase,
         MarkPurchased, DeliverDirect, CancelPurchase
<1> QED BY <1>1, <1>2, <1>3

LEMMA OrderNextGood ==
    ASSUME TypeInv, BalancesValid, OrderNext
    PROVE  BalancesValid'
<1>1. PICK o \in Orders :
         \/ UNCHANGED stock
         \/ \E i \in Products, q \in 1..MaxQuantity, source \in Warehouses :
               TransferStock(o, i, source, q)
         \/ \E usable \in SUBSET Products : ReserveStock(o, usable)
         \/ UnreserveStock(o)
         \/ CancelOrder(o)
         \/ CheckStock(o)
         \/ DispatchOrder(o)
         \/ \E i \in Products, x \in Outcomes : RegisterOutcome(o, i, x)
         \/ MarkAllConsumed(o)
  BY DEF OrderNext, CreateOrder, UpdateOrder, AssignOrder, AddItem, UpdateItem,
         LoadItem, DeleteItem, CreatePartialDispatch, ApprovePartialDispatch,
         RejectPartialDispatch, StartPreparation, DeliverItem, ConfirmDelivery,
         ConfirmOutcome, CloseOrder
<1>2. CASE UNCHANGED stock BY <1>2 DEF BalancesValid
<1>3. CASE \E i \in Products, q \in 1..MaxQuantity, source \in Warehouses :
              TransferStock(o, i, source, q)
  BY <1>3, TransferGood
<1>4. CASE \E usable \in SUBSET Products : ReserveStock(o, usable)
  BY <1>4, ReserveStockGood
<1>5. CASE UnreserveStock(o) \/ CancelOrder(o)
  BY <1>5, ReleaseGood DEF UnreserveStock, CancelOrder
<1>6. CASE CheckStock(o) BY <1>6, CheckStockGood
<1>7. CASE DispatchOrder(o) BY <1>7, DispatchGood
<1>8. CASE \E i \in Products, x \in Outcomes : RegisterOutcome(o, i, x)
  BY <1>8, RegisterOutcomeGood
<1>9. CASE MarkAllConsumed(o) BY <1>9, MarkAllConsumedGood
<1> QED BY <1>1, <1>2, <1>3, <1>4, <1>5, <1>6, <1>7, <1>8, <1>9

LEMMA NextGood == TypeInv /\ BalancesValid /\ [Next]_vars => BalancesValid'
<1> SUFFICES ASSUME TypeInv, BalancesValid, [Next]_vars PROVE BalancesValid'
  OBVIOUS
<1>1. CASE UNCHANGED vars BY <1>1 DEF BalancesValid
<1> QED BY <1>1, StockNextGood, OrderNextGood, PurchaseNextGood DEF Next

\* Whatever the services do, and whatever lines an order has, two of a product
\* included, what is reserved or damaged is on hand: no commit is refused by
\* the CHECK constraints of stock_balances.
THEOREM BalancesStayValid == Spec => []BalancesValid
<1>1. Init => BalancesValid
  BY DEF Init, BalancesValid, EmptyBalance, ValidBalance, Available
<1> QED BY <1>1, InitType, NextType, NextGood, PTL DEF Spec

-----------------------------------------------------------------------------
(***************************************************************************)
(* STAGES.  The status of an order and the quantities of its lines agree,  *)
(* for any number of orders and products.                                  *)
(*                                                                         *)
(* What makes this inductive is LineStage, which says of every line what   *)
(* each status has already established about it.                           *)
(***************************************************************************)
WHOLE_STATUSES == {"RESERVED", "IN_PREPARATION", "LOADED"} \cup LEFT_STATUSES

\* What status s, with d telling whether the order left, says of a line.
LineStage(s, d, l) ==
    /\ LineChained(l)
    /\ s = "ABSENT" => l.requested = 0
    /\ s \in {"ABSENT", "ASSIGNED", "CANCELLED"} => l.reserved = 0
    /\ s = "INSUFFICIENT_STOCK" => l.loaded = 0
    /\ s \in WHOLE_STATUSES => l.reserved = l.requested
    /\ s \in {"LOADED"} \cup LEFT_STATUSES => l.loaded = l.reserved
    /\ l.dispatched = IF d THEN l.loaded ELSE 0
    /\ s \in {"OUT_OF_WAREHOUSE", "DELIVERED", "PARTIALLY_DELIVERED"}
          => OutcomeTotal(l) = 0
    /\ s \in {"OUTCOME_RECORDED", "CLOSED"} => OutcomeTotal(l) = l.delivered

OrderStage(s, d, f) ==
    /\ d <=> s \in LEFT_STATUSES
    /\ \A i \in Products : LineStage(s, d, f[i])
    /\ s = "ASSIGNED" => \E i \in Products : f[i].requested > 0
    /\ s = "INSUFFICIENT_STOCK" => \E i \in Products : f[i].reserved < f[i].requested

StageInv == \A o \in Orders : OrderStage(status[o], dispatched_at[o], line[o])

\* A product the order has no line for says nothing.
LEMMA EmptyLineStage ==
    ASSUME NEW l \in Line, LineChained(l), l.requested = 0, NEW s, NEW d \in BOOLEAN
    PROVE  LineStage(s, d, l)
<1>1. /\ l.reserved = 0 /\ l.loaded = 0 /\ l.dispatched = 0 /\ l.delivered = 0
      /\ OutcomeTotal(l) = 0
  BY DEF LineChained, OutcomeTotal, Line
<1> QED BY <1>1 DEF LineStage

\* A step that touches only order o.
LEMMA OneOrderStep ==
    ASSUME StageInv, NEW o \in Orders,
           \A x \in Orders \ {o} : /\ status'[x] = status[x]
                                   /\ dispatched_at'[x] = dispatched_at[x]
                                   /\ line'[x] = line[x],
           OrderStage(status'[o], dispatched_at'[o], line'[o])
    PROVE  StageInv'
<1> SUFFICES ASSUME NEW x \in Orders
             PROVE  OrderStage(status'[x], dispatched_at'[x], line'[x])
  BY DEF StageInv
<1>1. CASE x = o BY <1>1
<1>2. CASE x # o BY <1>2 DEF StageInv
<1> QED BY <1>1, <1>2

\* A step that changes no order.
LEMMA NoOrderStep ==
    ASSUME StageInv, UNCHANGED <<status, dispatched_at, line>>
    PROVE  StageInv'
BY DEF StageInv

\* A step that moves order o to status s and keeps its lines.
LEMMA StatusStep ==
    ASSUME TypeInv, StageInv, NEW o \in Orders, NEW s,
           status' = [status EXCEPT ![o] = s], UNCHANGED <<dispatched_at, line>>,
           OrderStage(s, dispatched_at[o], line[o])
    PROVE  StageInv'
BY OneOrderStep DEF TypeInv, TypeOK

-----------------------------------------------------------------------------
(* Handlers that only move the status.                                      *)

LEMMA AssignOrderStage ==
    ASSUME TypeInv, StageInv, NEW o \in Orders, AssignOrder(o)
    PROVE  StageInv'
<1>1. \A i \in Products : line[o][i].reserved = 0 /\ status[o] \in MANAGE_STATUSES
  BY DEF AssignOrder, Mutable
<1>2. OrderStage(status[o], dispatched_at[o], line[o]) BY DEF StageInv
<1>3. \A i \in Products : line[o][i] \in Line BY DEF TypeInv, TypeOK
<1>4. OrderStage("ASSIGNED", dispatched_at[o], line[o])
  BY <1>1, <1>2, <1>3 DEF OrderStage, LineStage, LEFT_STATUSES, WHOLE_STATUSES,
     MANAGE_STATUSES, Line, AssignOrder, Mutable
<1> QED BY <1>4, StatusStep DEF AssignOrder, SetStatus
LEMMA StartPreparationStage ==
    ASSUME TypeInv, StageInv, NEW o \in Orders, StartPreparation(o)
    PROVE  StageInv'
<1>1. OrderStage("RESERVED", dispatched_at[o], line[o])
  BY DEF StageInv, StartPreparation
<1>2. OrderStage("IN_PREPARATION", dispatched_at[o], line[o])
  BY <1>1 DEF OrderStage, LineStage, LEFT_STATUSES, WHOLE_STATUSES
<1> QED BY <1>2, StatusStep DEF StartPreparation, SetStatus

LEMMA ConfirmDeliveryStage ==
    ASSUME TypeInv, StageInv, NEW o \in Orders, ConfirmDelivery(o)
    PROVE  StageInv'
<1>1. OrderStage("OUT_OF_WAREHOUSE", dispatched_at[o], line[o])
  BY DEF StageInv, ConfirmDelivery
<1>2. /\ OrderStage("DELIVERED", dispatched_at[o], line[o])
      /\ OrderStage("PARTIALLY_DELIVERED", dispatched_at[o], line[o])
  BY <1>1 DEF OrderStage, LineStage, LEFT_STATUSES, WHOLE_STATUSES
<1>3. CASE \A i \in Lines(o) : line[o][i].delivered = line[o][i].dispatched
  BY <1>2, <1>3, StatusStep DEF ConfirmDelivery, SetStatus
<1>4. CASE ~(\A i \in Lines(o) : line[o][i].delivered = line[o][i].dispatched)
  BY <1>2, <1>4, StatusStep DEF ConfirmDelivery, SetStatus
<1> QED BY <1>3, <1>4

LEMMA ConfirmOutcomeStage ==
    ASSUME TypeInv, StageInv, NEW o \in Orders, ConfirmOutcome(o)
    PROVE  StageInv'
<1>1. OrderStage(status[o], dispatched_at[o], line[o]) /\ status[o] \in OUTCOME_STATUSES
  BY DEF StageInv, ConfirmOutcome
<1>2. OrderStage("WITH_DIFFERENCES", dispatched_at[o], line[o])
  BY <1>1 DEF OrderStage, LineStage, LEFT_STATUSES, WHOLE_STATUSES, OUTCOME_STATUSES
<1>3. CASE ~Explained(o)
  BY <1>2, <1>3, StatusStep DEF ConfirmOutcome, SetStatus
<1>4. CASE Explained(o)
  <2>1. \A i \in Products : OutcomeTotal(line[o][i]) = line[o][i].delivered
    <3> SUFFICES ASSUME NEW i \in Products
                 PROVE  OutcomeTotal(line[o][i]) = line[o][i].delivered
      OBVIOUS
    <3>1. line[o][i] \in Line /\ LineChained(line[o][i])
      BY <1>1 DEF OrderStage, LineStage, TypeInv, TypeOK
    <3>2. CASE line[o][i].requested > 0
      BY <1>4, <3>2 DEF Explained, Lines
    <3>3. CASE ~(line[o][i].requested > 0)
      BY <3>1, <3>3 DEF LineChained, OutcomeTotal, Line
    <3> QED BY <3>2, <3>3
  <2>2. OrderStage("OUTCOME_RECORDED", dispatched_at[o], line[o])
    BY <1>2, <2>1 DEF OrderStage, LineStage, LEFT_STATUSES, WHOLE_STATUSES
  <2> QED BY <1>4, <2>2, StatusStep DEF ConfirmOutcome, SetStatus
<1> QED BY <1>3, <1>4

LEMMA CloseOrderStage ==
    ASSUME TypeInv, StageInv, NEW o \in Orders, CloseOrder(o)
    PROVE  StageInv'
<1>1. OrderStage("OUTCOME_RECORDED", dispatched_at[o], line[o])
  BY DEF StageInv, CloseOrder
<1>2. OrderStage("CLOSED", dispatched_at[o], line[o])
  BY <1>1 DEF OrderStage, LineStage, LEFT_STATUSES, WHOLE_STATUSES
<1> QED BY <1>2, StatusStep DEF CloseOrder, SetStatus

\* A line of an order without missing units is whole.
LEMMA CheckStockStage ==
    ASSUME TypeInv, StageInv, NEW o \in Orders, CheckStock(o)
    PROVE  StageInv'
<1> DEFINE whole == /\ status[o] = "INSUFFICIENT_STOCK"
                    /\ Lines(o) # {}
                    /\ \A i \in Lines(o) :
                          line[o][i].reserved = line[o][i].requested
<1>1. OrderStage(status[o], dispatched_at[o], line[o]) BY DEF StageInv
<1>2. ~whole
  <2> SUFFICES ASSUME whole PROVE FALSE
    OBVIOUS
  <2>1. PICK i \in Products : line[o][i].reserved < line[o][i].requested
    BY <1>1 DEF OrderStage
  <2>2. line[o][i] \in Line BY DEF TypeInv, TypeOK
  <2>3. i \in Lines(o) BY <2>1, <2>2 DEF Lines, Line
  <2> QED BY <2>1, <2>2, <2>3 DEF Line
<1>3. status' = [status EXCEPT ![o] = status[o]] /\ UNCHANGED <<dispatched_at, line>>
  BY <1>2 DEF CheckStock, SetStatus
<1> QED BY <1>1, <1>3, StatusStep

\* A purchase can only be made of an order some of whose lines miss units.
LEMMA MissingUnits ==
    ASSUME TypeInv, StageInv, NEW p, NEW o \in Orders,
           NEW usable \in SUBSET Products, CreatePurchaseFromOrder(p, o, usable)
    PROVE  /\ status[o] \in {"ASSIGNED", "CANCELLED", "INSUFFICIENT_STOCK"}
           /\ \E i \in Products : line[o][i].reserved < line[o][i].requested
<1>1. OrderStage(status[o], dispatched_at[o], line[o]) BY DEF StageInv
<1>2. PICK i \in Lines(o) : Missing(o, i, usable) > 0
  BY DEF CreatePurchaseFromOrder, Lines
<1>3. /\ i \in Products /\ line[o][i] \in Line
      /\ stock[order_warehouse[o]][item_id[i]] \in Balance
  BY StoredType DEF Lines, TypeInv, TypeOK
<1>4. line[o][i].reserved < line[o][i].requested
  BY <1>2, <1>3 DEF Missing, Positive, Larger, Available, Line, Balance
<1>5. status[o] \in {"ASSIGNED", "CANCELLED", "INSUFFICIENT_STOCK"}
  <2>1. status[o] \in OrderStatuses /\ status[o] # "ABSENT"
    BY DEF TypeInv, TypeOK, CreatePurchaseFromOrder
  <2>2. LineStage(status[o], dispatched_at[o], line[o][i])
    BY <1>1, <1>3 DEF OrderStage
  <2>3. status[o] \notin WHOLE_STATUSES BY <1>3, <1>4, <2>2 DEF LineStage, Line
  <2> QED BY <2>1, <2>3 DEF OrderStatuses, WHOLE_STATUSES, LEFT_STATUSES
<1> QED BY <1>3, <1>4, <1>5

LEMMA CreatePurchaseFromOrderStage ==
    ASSUME TypeInv, StageInv, NEW p \in Purchases, NEW o \in Orders,
           NEW usable \in SUBSET Products, CreatePurchaseFromOrder(p, o, usable)
    PROVE  StageInv'
<1>1. OrderStage(status[o], dispatched_at[o], line[o]) BY DEF StageInv
<1>2. status[o] \in {"ASSIGNED", "CANCELLED", "INSUFFICIENT_STOCK"}
  BY MissingUnits
<1>3. PICK i \in Products : line[o][i].reserved < line[o][i].requested
  BY MissingUnits
<1>4. \A k \in Products : line[o][k].loaded = 0
  <2> SUFFICES ASSUME NEW k \in Products PROVE line[o][k].loaded = 0
    OBVIOUS
  <2>1. line[o][k] \in Line /\ LineStage(status[o], dispatched_at[o], line[o][k])
    BY <1>1 DEF TypeInv, TypeOK, OrderStage
  <2> QED BY <1>2, <2>1 DEF LineStage, LineChained, Line
<1>5. OrderStage("INSUFFICIENT_STOCK", dispatched_at[o], line[o])
  BY <1>1, <1>3, <1>2, <1>4 DEF OrderStage, LineStage, LEFT_STATUSES, WHOLE_STATUSES
<1> QED BY <1>5, StatusStep DEF CreatePurchaseFromOrder

-----------------------------------------------------------------------------
(* Handlers that change no order row at all.                                *)

LEMMA StockKeepsOrders ==
    ASSUME StockNext
    PROVE  UNCHANGED orderVars
<1>1. PICK w \in Warehouses, i \in Items :
         \/ \E h, d \in 0..MaxOnHand : CreateStockBalance(w, i, h, d)
         \/ \E h, d \in 0..MaxOnHand : UpdateStockBalance(w, i, h, d)
         \/ \E h, d \in 0..MaxOnHand : Correction(w, i, h, d)
         \/ \E q \in 1..MaxQuantity, d \in 0..MaxOnHand : InitialStock(w, i, q, d)
         \/ \E q \in 1..MaxQuantity, kind \in DeltaMovements :
               CreateStockMovement(kind, w, i, q)
  BY DEF StockNext
<1>2. PICK new : SaveBalance(w, i, new)
  BY <1>1, Zenon DEF CreateStockBalance, UpdateStockBalance, Correction,
     InitialStock, CreateStockMovement
<1> QED BY <1>2 DEF SaveBalance

LEMMA PurchaseKeepsOrders ==
    ASSUME PurchaseNext,
           ~(\E p \in Purchases, o \in Orders, usable \in SUBSET Products :
                CreatePurchaseFromOrder(p, o, usable))
    PROVE  UNCHANGED orderVars
<1>1. PICK p \in Purchases :
         \/ \E o \in Orders, q \in Quantities : CreateLinkedPurchase(p, o, q)
         \/ \E w \in Warehouses, to \in BOOLEAN, q \in Quantities :
               CreateFreePurchase(p, w, to, q)
         \/ \E w \in Warehouses : UpdatePurchase(p, w)
         \/ ApprovePurchase(p)
         \/ RejectPurchase(p)
         \/ \E q \in Quantities : \/ MarkPurchased(p, q)
                                  \/ ReceivePurchase(p, q)
                                  \/ DeliverDirect(p, q)
         \/ CancelPurchase(p)
  BY DEF PurchaseNext
<1> QED BY <1>1, Zenon DEF CreateLinkedPurchase, CreateFreePurchase, UpdatePurchase,
           ApprovePurchase, RejectPurchase, MarkPurchased, ReceivePurchase, DeliverDirect,
           CancelPurchase

LEMMA PurchaseNextStage ==
    ASSUME TypeInv, StageInv, PurchaseNext
    PROVE  StageInv'
<1>1. CASE \E p \in Purchases, o \in Orders, usable \in SUBSET Products :
              CreatePurchaseFromOrder(p, o, usable)
  BY <1>1, CreatePurchaseFromOrderStage
<1>2. CASE ~(\E p \in Purchases, o \in Orders, usable \in SUBSET Products :
                CreatePurchaseFromOrder(p, o, usable))
  BY <1>2, PurchaseKeepsOrders, NoOrderStep
<1> QED BY <1>1, <1>2

LEMMA OtherRowsStage ==
    ASSUME StageInv, NEW o \in Orders,
           \/ \E w \in Warehouses : UpdateOrder(o, w)
           \/ CreatePartialDispatch(o)
           \/ RejectPartialDispatch(o)
           \/ \E i \in Products, q \in 1..MaxQuantity, source \in Warehouses :
                 TransferStock(o, i, source, q)
    PROVE  StageInv'
<1>1. CASE \E w \in Warehouses : UpdateOrder(o, w)
  BY <1>1, NoOrderStep DEF UpdateOrder
<1>2. CASE CreatePartialDispatch(o) \/ RejectPartialDispatch(o)
  BY <1>2, NoOrderStep DEF CreatePartialDispatch, RejectPartialDispatch
<1>3. CASE \E i \in Products, q \in 1..MaxQuantity, source \in Warehouses :
              TransferStock(o, i, source, q)
  <2>1. PICK i \in Products, q \in 1..MaxQuantity, source \in Warehouses :
           TransferStock(o, i, source, q)
    BY <1>3
  <2>2. UNCHANGED orderVars BY <2>1 DEF TransferStock
  <2> QED BY <2>2, NoOrderStep
<1> QED BY <1>1, <1>2, <1>3

-----------------------------------------------------------------------------
(* Creation and edition.                                                    *)

\* A line that holds nothing, in an order whose lines hold nothing.
LEMMA NewLineStage ==
    ASSUME NEW q \in Nat, NEW s \in {"ASSIGNED", "INSUFFICIENT_STOCK"}
    PROVE  /\ NewLine(q) \in Line
           /\ LineStage(s, FALSE, NewLine(q))
<1>1. NewLine(q) \in Line BY DEF NewLine, Line
<1> QED BY <1>1 DEF NewLine, LineStage, LineChained, OutcomeTotal, WHOLE_STATUSES,
                    LEFT_STATUSES

LEMMA CreateOrderStage ==
    ASSUME TypeInv, StageInv, NEW o \in Orders, NEW w \in Warehouses,
           NEW q \in Quantities, CreateOrder(o, w, q)
    PROVE  StageInv'
<1>1. OrderStage("ABSENT", dispatched_at[o], line[o]) BY DEF StageInv, CreateOrder
<1>2. dispatched_at'[o] = FALSE
  BY <1>1 DEF OrderStage, LEFT_STATUSES, CreateOrder, TypeInv, TypeOK
<1>3. status'[o] = "ASSIGNED" BY DEF CreateOrder, SetStatus, TypeInv, TypeOK
<1>4. \A i \in Products : line'[o][i] = NewLine(q[i]) /\ q[i] \in Nat
  <2>1. line'[o] = [i \in Products |-> NewLine(q[i])]
    BY DEF CreateOrder, TypeInv, TypeOK
  <2> QED BY <2>1, QuantitiesAreNat
<1>5. PICK i \in Products : q[i] > 0 BY DEF Quantities
<1>6. line'[o][i].requested > 0
  <2>1. line'[o][i] = NewLine(q[i]) BY <1>4
  <2>2. NewLine(q[i]).requested = q[i] BY DEF NewLine
  <2> QED BY <1>5, <2>1, <2>2
<1>7. \A k \in Products : LineStage("ASSIGNED", FALSE, line'[o][k])
  BY <1>4, NewLineStage
<1>8. OrderStage("ASSIGNED", FALSE, line'[o])
  BY <1>6, <1>7 DEF OrderStage, LEFT_STATUSES
<1> QED BY <1>2, <1>3, <1>8, OneOrderStep DEF CreateOrder, SetStatus, TypeInv, TypeOK

\* What an order that may be edited looks like.
LEMMA MutableStage ==
    ASSUME TypeInv, StageInv, NEW o \in Orders, Mutable(o)
    PROVE  /\ status[o] \in {"ASSIGNED", "INSUFFICIENT_STOCK"}
           /\ dispatched_at[o] = FALSE
           /\ \A i \in Products : /\ line[o][i] \in Line
                                  /\ line[o][i].reserved = 0
                                  /\ LineStage(status[o], FALSE, line[o][i])
<1>1. status[o] \in {"ASSIGNED", "INSUFFICIENT_STOCK"}
      /\ \A i \in Products : line[o][i].reserved = 0
  BY DEF Mutable, MANAGE_STATUSES
<1>2. OrderStage(status[o], dispatched_at[o], line[o]) BY DEF StageInv
<1>3. dispatched_at[o] \in BOOLEAN BY DEF TypeInv, TypeOK
<1>4. dispatched_at[o] = FALSE BY <1>1, <1>2, <1>3 DEF OrderStage, LEFT_STATUSES
<1>5. \A i \in Products : line[o][i] \in Line BY DEF TypeInv, TypeOK
<1>6. \A i \in Products : LineStage(status[o], FALSE, line[o][i])
  BY <1>2, <1>4 DEF OrderStage
<1> QED BY <1>1, <1>4, <1>5, <1>6

\* An edition leaves an order whose lines hold nothing and of which one asks
\* for something.
LEMMA EditionStage ==
    ASSUME TypeInv, StageInv, NEW o \in Orders, Mutable(o), NEW f,
           line' = [line EXCEPT ![o] = f], UNCHANGED <<status, dispatched_at>>,
           \A i \in Products : /\ f[i].reserved = 0
                               /\ LineStage(status[o], FALSE, f[i]),
           \E i \in Products : f[i].requested > 0
    PROVE  StageInv'
<1>1. /\ status[o] \in {"ASSIGNED", "INSUFFICIENT_STOCK"}
      /\ dispatched_at[o] = FALSE
  BY MutableStage
<1>2. PICK i \in Products : f[i].requested > 0 OBVIOUS
<1>3. f[i].reserved < f[i].requested BY <1>2
<1>4. OrderStage(status[o], FALSE, f)
  BY <1>1, <1>2, <1>3 DEF OrderStage, LEFT_STATUSES
<1> QED BY <1>1, <1>4, OneOrderStep DEF TypeInv, TypeOK

LEMMA AddItemStage ==
    ASSUME TypeInv, StageInv, NEW o \in Orders, NEW i \in Products,
           NEW q \in 1..MaxQuantity, AddItem(o, i, q)
    PROVE  StageInv'
<1> DEFINE f == [line[o] EXCEPT ![i] = NewLine(q)]
<1>1. Mutable(o) /\ UNCHANGED <<status, dispatched_at>> BY DEF AddItem
<1>2. line' = [line EXCEPT ![o] = f] BY DEF AddItem, TypeInv, TypeOK
<1>3. line[o] \in [Products -> Line] BY DEF TypeInv, TypeOK
<1>4. q \in Nat /\ q > 0 BY LogisticsAssumption
<1>5. /\ NewLine(q).reserved = 0 /\ NewLine(q).requested = q
      /\ LineStage(status[o], FALSE, NewLine(q))
  BY <1>1, <1>4, MutableStage, NewLineStage DEF NewLine
<1>6. f[i] = NewLine(q) /\ \A k \in Products \ {i} : f[k] = line[o][k] BY <1>3
<1> HIDE DEF f
<1>7. f[i].requested > 0 BY <1>4, <1>5, <1>6
<1>8. \A k \in Products : f[k].reserved = 0 /\ LineStage(status[o], FALSE, f[k])
  <2> SUFFICES ASSUME NEW k \in Products
               PROVE  f[k].reserved = 0 /\ LineStage(status[o], FALSE, f[k])
    OBVIOUS
  <2>1. CASE k = i BY <1>5, <1>6, <2>1
  <2>2. CASE k # i BY <1>1, <1>6, <2>2, MutableStage
  <2> QED BY <2>1, <2>2
<1> QED BY <1>1, <1>2, <1>7, <1>8, EditionStage

LEMMA RequestedStage ==
    ASSUME NEW l \in Line, l.reserved = 0, NEW q \in Nat,
           NEW s \in {"ASSIGNED", "INSUFFICIENT_STOCK"}, LineStage(s, FALSE, l)
    PROVE  LET new == [l EXCEPT !.requested = q]
           IN  new.reserved = 0 /\ new.requested = q /\ LineStage(s, FALSE, new)
<1> DEFINE new == [l EXCEPT !.requested = q]
<1>1. new \in Line BY DEF Line
<1>2. /\ new.requested = q /\ new.reserved = l.reserved /\ new.loaded = l.loaded
      /\ new.dispatched = l.dispatched /\ new.delivered = l.delivered
      /\ new.consumed = l.consumed /\ new.returned = l.returned
      /\ new.returned_damaged = l.returned_damaged /\ new.lost = l.lost
  BY DEF Line
<1> HIDE DEF new
<1>3. LineStage(s, FALSE, new)
  BY <1>1, <1>2 DEF LineStage, LineChained, OutcomeTotal, WHOLE_STATUSES,
     LEFT_STATUSES, Line
<1> QED BY <1>2, <1>3 DEF new

LEMMA UpdateItemStage ==
    ASSUME TypeInv, StageInv, NEW o \in Orders, NEW i \in Products,
           NEW q \in 1..MaxQuantity, UpdateItem(o, i, q)
    PROVE  StageInv'
<1> DEFINE new == [line[o][i] EXCEPT !.requested = q]
           f == [line[o] EXCEPT ![i] = new]
<1>1. Mutable(o) /\ UNCHANGED <<status, dispatched_at>> BY DEF UpdateItem
<1>2. line' = [line EXCEPT ![o] = f] BY DEF UpdateItem, TypeInv, TypeOK
<1>3. line[o] \in [Products -> Line] BY DEF TypeInv, TypeOK
<1>4. q \in Nat /\ q > 0 BY LogisticsAssumption
<1>5. new.reserved = 0 /\ new.requested = q /\ LineStage(status[o], FALSE, new)
  <2>1. /\ line[o][i] \in Line /\ line[o][i].reserved = 0
        /\ status[o] \in {"ASSIGNED", "INSUFFICIENT_STOCK"}
        /\ LineStage(status[o], FALSE, line[o][i])
    BY <1>1, MutableStage
  <2> QED BY <1>4, <2>1, RequestedStage
<1>6. f[i] = new /\ \A k \in Products \ {i} : f[k] = line[o][k] BY <1>3
<1> HIDE DEF new, f
<1>7. f[i].requested > 0 BY <1>4, <1>5, <1>6
<1>8. \A k \in Products : f[k].reserved = 0 /\ LineStage(status[o], FALSE, f[k])
  <2> SUFFICES ASSUME NEW k \in Products
               PROVE  f[k].reserved = 0 /\ LineStage(status[o], FALSE, f[k])
    OBVIOUS
  <2>1. CASE k = i BY <1>5, <1>6, <2>1
  <2>2. CASE k # i BY <1>1, <1>6, <2>2, MutableStage
  <2> QED BY <2>1, <2>2
<1> QED BY <1>1, <1>2, <1>7, <1>8, EditionStage

\* Deleting a line that is not the last one leaves a line.
LEMMA DeleteItemStage ==
    ASSUME TypeInv, StageInv, NEW o \in Orders, NEW i \in Products, DeleteItem(o, i)
    PROVE  StageInv'
<1> DEFINE f == [line[o] EXCEPT ![i] = NoLine]
<1>1. Mutable(o) /\ UNCHANGED <<status, dispatched_at>> BY DEF DeleteItem
<1>2. line' = [line EXCEPT ![o] = f] BY DEF DeleteItem, TypeInv, TypeOK
<1>3. line[o] \in [Products -> Line] BY DEF TypeInv, TypeOK
<1>4. NoLine.reserved = 0 /\ LineStage(status[o], FALSE, NoLine)
  BY <1>1, MutableStage, NewLineStage DEF NoLine, NewLine
<1>5. f[i] = NoLine /\ \A k \in Products \ {i} : f[k] = line[o][k] BY <1>3
<1>6. PICK k \in Lines(o) : k # i
  <2>1. SUFFICES ASSUME Lines(o) = {i} PROVE FALSE
    BY DEF DeleteItem
  <2>2. Cardinality({i}) = 1 BY FS_Singleton
  <2> QED BY <2>1, <2>2 DEF DeleteItem
<1> HIDE DEF f
<1>7. k \in Products /\ f[k].requested > 0 BY <1>5, <1>6 DEF Lines
<1>8. \A j \in Products : f[j].reserved = 0 /\ LineStage(status[o], FALSE, f[j])
  <2> SUFFICES ASSUME NEW j \in Products
               PROVE  f[j].reserved = 0 /\ LineStage(status[o], FALSE, f[j])
    OBVIOUS
  <2>1. CASE j = i BY <1>4, <1>5, <2>1
  <2>2. CASE j # i BY <1>1, <1>5, <2>2, MutableStage
  <2> QED BY <2>1, <2>2
<1> QED BY <1>1, <1>2, <1>7, <1>8, EditionStage

-----------------------------------------------------------------------------
(* Handlers that rewrite every line of an order.                            *)

\* Order o goes to status s with its lines rewritten to rows.
LEMMA SetLinesStage ==
    ASSUME TypeInv, StageInv, NEW o \in Orders, NEW rows, NEW s, NEW d \in BOOLEAN,
           SetLines(o, rows),
           status' = [status EXCEPT ![o] = s],
           dispatched_at' = [dispatched_at EXCEPT ![o] = d],
           d <=> s \in LEFT_STATUSES,
           \A i \in Lines(o) : LineStage(s, d, rows[i]),
           s = "ASSIGNED" => \E i \in Lines(o) : rows[i].requested > 0,
           s = "INSUFFICIENT_STOCK" =>
              \E i \in Lines(o) : rows[i].reserved < rows[i].requested
    PROVE  StageInv'
<1>1. /\ \A i \in Products : line'[o][i] = IF i \in Lines(o) THEN rows[i] ELSE line[o][i]
      /\ \A x \in Orders \ {o} : line'[x] = line[x]
  BY DEF SetLines, TypeInv, TypeOK
<1>2. \A i \in Products : LineStage(s, d, line'[o][i])
  <2> SUFFICES ASSUME NEW i \in Products PROVE LineStage(s, d, line'[o][i])
    OBVIOUS
  <2>1. CASE i \in Lines(o) BY <1>1, <2>1
  <2>2. CASE i \notin Lines(o)
    <3>1. line[o][i] \in Line BY DEF TypeInv, TypeOK
    <3>2. LineChained(line[o][i]) BY DEF StageInv, OrderStage, LineStage
    <3>3. line[o][i].requested = 0 BY <2>2, <3>1 DEF Lines, Line
    <3> QED BY <1>1, <2>2, <3>1, <3>2, <3>3, EmptyLineStage
  <2> QED BY <2>1, <2>2
<1>3. Lines(o) \subseteq Products BY DEF Lines
<1>4. OrderStage(s, d, line'[o]) BY <1>1, <1>2, <1>3 DEF OrderStage
<1> QED BY <1>1, <1>4, OneOrderStep DEF TypeInv, TypeOK

\* A line that holds r units and has nothing loaded.
LEMMA HeldLineStage ==
    ASSUME NEW l \in Line, l.loaded = 0, LineChained(l), NEW r \in Nat,
           r <= l.requested, l.requested > 0
    PROVE  LET new == [l EXCEPT !.reserved = r]
           IN  /\ new.reserved = r /\ new.requested = l.requested
               /\ LineStage("INSUFFICIENT_STOCK", FALSE, new)
               /\ r = l.requested => LineStage("RESERVED", FALSE, new)
<1> DEFINE new == [l EXCEPT !.reserved = r]
<1>1. new \in Line BY DEF Line
<1>2. /\ new.requested = l.requested /\ new.reserved = r /\ new.loaded = l.loaded
      /\ new.dispatched = l.dispatched /\ new.delivered = l.delivered
      /\ new.consumed = l.consumed /\ new.returned = l.returned
      /\ new.returned_damaged = l.returned_damaged /\ new.lost = l.lost
  BY DEF Line
<1> HIDE DEF new
<1>3. LineChained(new) /\ new.dispatched = 0
  BY <1>1, <1>2 DEF LineChained, OutcomeTotal, Line
<1>4. LineStage("INSUFFICIENT_STOCK", FALSE, new)
  BY <1>2, <1>3 DEF LineStage, WHOLE_STATUSES, LEFT_STATUSES
<1>5. r = l.requested => LineStage("RESERVED", FALSE, new)
  BY <1>2, <1>3 DEF LineStage, WHOLE_STATUSES, LEFT_STATUSES
<1> QED BY <1>2, <1>4, <1>5 DEF new

LEMMA ReserveStockStage ==
    ASSUME TypeInv, StageInv, NEW o \in Orders, NEW usable \in SUBSET Products,
           ReserveStock(o, usable)
    PROVE  StageInv'
<1> DEFINE row(i)  == RowForReserve(o, i, usable)
           take(i) == QuantityToReserve(o, i, row(i), usable)
           rows == [i \in Products |-> [line[o][i] EXCEPT !.reserved = @ + take(i)]]
           whole == /\ Lines(o) # {}
                    /\ \A i \in Lines(o) :
                          line[o][i].reserved + take(i) >= line[o][i].requested
           s == IF whole THEN "RESERVED" ELSE "INSUFFICIENT_STOCK"
<1>1. /\ SetLines(o, rows) /\ UNCHANGED dispatched_at
      /\ status[o] \in {"ASSIGNED", "INSUFFICIENT_STOCK"}
      /\ status' = [status EXCEPT ![o] = s]
  BY DEF ReserveStock, SetStatus
<1>2. OrderStage(status[o], dispatched_at[o], line[o]) BY DEF StageInv
<1>3. dispatched_at' = [dispatched_at EXCEPT ![o] = FALSE]
  BY <1>1, <1>2 DEF OrderStage, LEFT_STATUSES, TypeInv, TypeOK
<1>4. Lines(o) # {}
  <2>1. PICK i \in Products : \/ line[o][i].requested > 0
                              \/ line[o][i].reserved < line[o][i].requested
    BY <1>1, <1>2 DEF OrderStage
  <2>2. line[o][i] \in Line BY DEF TypeInv, TypeOK
  <2> QED BY <2>1, <2>2 DEF Lines, Line
<1>5. ASSUME NEW i \in Lines(o)
      PROVE  /\ rows[i].reserved = line[o][i].reserved + take(i)
             /\ rows[i].requested = line[o][i].requested
             /\ take(i) \in Nat /\ line[o][i] \in Line
             /\ line[o][i].reserved + take(i) <= line[o][i].requested
             /\ LineStage("INSUFFICIENT_STOCK", FALSE, rows[i])
             /\ rows[i].reserved = rows[i].requested
                  => LineStage("RESERVED", FALSE, rows[i])
  <2>1. i \in Products /\ line[o][i].requested > 0 BY DEF Lines
  <2>2. line[o][i] \in Line BY <2>1 DEF TypeInv, TypeOK
  <2>3. LineStage(status[o], dispatched_at[o], line[o][i]) BY <1>2, <2>1 DEF OrderStage
  <2>4. line[o][i].loaded = 0 /\ LineChained(line[o][i])
    BY <1>1, <2>2, <2>3 DEF LineStage, LineChained, Line
  <2>5. take(i) \in Nat /\ line[o][i].reserved + take(i) <= line[o][i].requested
    BY <2>1, RowForReserveType, QuantityToReserveBound
  <2> DEFINE r == line[o][i].reserved + take(i)
             new == [line[o][i] EXCEPT !.reserved = r]
  <2>6. r \in Nat /\ r <= line[o][i].requested BY <2>2, <2>5 DEF Line
  <2>7. rows[i] = new BY <2>1
  <2> HIDE DEF r, rows, take
  <2>8. /\ new.reserved = r /\ new.requested = line[o][i].requested
        /\ LineStage("INSUFFICIENT_STOCK", FALSE, new)
        /\ r = line[o][i].requested => LineStage("RESERVED", FALSE, new)
    BY <2>1, <2>2, <2>4, <2>6, HeldLineStage
  <2> HIDE DEF new
  <2> QED BY <2>2, <2>5, <2>7, <2>8 DEF r
<1> HIDE DEF take, rows
<1>6. CASE whole
  <2>1. s = "RESERVED" BY <1>6
  <2>2. \A i \in Lines(o) : LineStage("RESERVED", FALSE, rows[i])
    <3> SUFFICES ASSUME NEW i \in Lines(o)
                 PROVE  LineStage("RESERVED", FALSE, rows[i])
      OBVIOUS
    <3>1. /\ line[o][i].reserved + take(i) >= line[o][i].requested
          /\ line[o][i].reserved + take(i) <= line[o][i].requested
          /\ line[o][i].reserved \in Nat /\ line[o][i].requested \in Nat
          /\ take(i) \in Nat
      BY <1>5, <1>6 DEF Line
    <3>2. rows[i].reserved = rows[i].requested
      <4>1. line[o][i].reserved + take(i) = line[o][i].requested BY <3>1
      <4> QED BY <1>5, <4>1
    <3> QED BY <1>5, <3>2
  <2>3. status' = [status EXCEPT ![o] = "RESERVED"] BY <1>1, <2>1
  <2> QED BY <1>1, <1>3, <2>2, <2>3, SetLinesStage DEF LEFT_STATUSES
<1>7. CASE ~whole
  <2>1. s = "INSUFFICIENT_STOCK" BY <1>7
  <2>2. PICK i \in Lines(o) :
           ~(line[o][i].reserved + take(i) >= line[o][i].requested)
    BY <1>4, <1>7
  <2>3. rows[i].reserved < rows[i].requested
    <3>1. /\ line[o][i].reserved \in Nat /\ line[o][i].requested \in Nat
          /\ take(i) \in Nat
      BY <1>5 DEF Line
    <3>2. line[o][i].reserved + take(i) < line[o][i].requested BY <2>2, <3>1
    <3> QED BY <1>5, <3>2
  <2>4. status' = [status EXCEPT ![o] = "INSUFFICIENT_STOCK"] BY <1>1, <2>1
  <2>5. \A k \in Lines(o) : LineStage("INSUFFICIENT_STOCK", FALSE, rows[k]) BY <1>5
  <2> QED BY <1>1, <1>3, <2>3, <2>4, <2>5, SetLinesStage DEF LEFT_STATUSES
<1> QED BY <1>6, <1>7

\* An order that holds stock has not left the warehouse.
LEMMA NotLeft ==
    ASSUME TypeInv, StageInv, NEW o \in Orders, status[o] \notin LEFT_STATUSES
    PROVE  /\ dispatched_at[o] = FALSE
           /\ dispatched_at = [dispatched_at EXCEPT ![o] = FALSE]
<1>1. OrderStage(status[o], dispatched_at[o], line[o]) BY DEF StageInv
<1>2. dispatched_at[o] = FALSE BY <1>1 DEF OrderStage, TypeInv, TypeOK
<1> QED BY <1>2 DEF TypeInv, TypeOK

\* The line that a release leaves says what an unreserved line says.
LEMMA ResetLineStage ==
    ASSUME NEW l \in Line, LineChained(l), l.dispatched = 0,
           NEW s \in {"ASSIGNED", "CANCELLED"}
    PROVE  /\ ResetLine(l).requested = l.requested
           /\ LineStage(s, FALSE, ResetLine(l))
<1> DEFINE new == ResetLine(l)
<1>1. new \in Line BY ResetLineType
<1>2. /\ new.requested = l.requested /\ new.reserved = 0 /\ new.loaded = 0
      /\ new.dispatched = l.dispatched /\ new.delivered = l.delivered
      /\ new.consumed = l.consumed /\ new.returned = l.returned
      /\ new.returned_damaged = l.returned_damaged /\ new.lost = l.lost
  BY DEF Line, ResetLine
<1> HIDE DEF new
<1>3. LineChained(new) /\ new.dispatched = 0
  BY <1>1, <1>2 DEF LineChained, OutcomeTotal, Line
<1>4. LineStage(s, FALSE, new)
  BY <1>2, <1>3 DEF LineStage, WHOLE_STATUSES, LEFT_STATUSES
<1> QED BY <1>2, <1>4 DEF new

LEMMA ReleaseStage ==
    ASSUME TypeInv, StageInv, NEW o \in Orders, NEW s \in {"ASSIGNED", "CANCELLED"},
           status[o] \notin LEFT_STATUSES, ReleaseReservations(o), SetStatus(o, s),
           UNCHANGED dispatched_at, s = "ASSIGNED" => Lines(o) # {}
    PROVE  StageInv'
<1> DEFINE rows == [i \in Products |->
                       [line[o][i] EXCEPT !.reserved = 0, !.loaded = 0]]
<1>1. SetLines(o, rows) BY DEF ReleaseReservations
<1>2. OrderStage(status[o], FALSE, line[o]) BY NotLeft DEF StageInv
<1>3. ASSUME NEW i \in Lines(o)
      PROVE  rows[i].requested > 0 /\ LineStage(s, FALSE, rows[i])
  <2>1. i \in Products /\ line[o][i].requested > 0 BY DEF Lines
  <2>2. line[o][i] \in Line BY <2>1 DEF TypeInv, TypeOK
  <2>3. LineChained(line[o][i]) /\ line[o][i].dispatched = 0
    BY <1>2, <2>1 DEF OrderStage, LineStage
  <2>4. rows[i] = ResetLine(line[o][i]) BY <2>1 DEF ResetLine
  <2> HIDE DEF rows
  <2> QED BY <2>1, <2>2, <2>3, <2>4, ResetLineStage
<1>4. dispatched_at' = [dispatched_at EXCEPT ![o] = FALSE] BY NotLeft
<1> HIDE DEF rows
<1> QED BY <1>1, <1>3, <1>4, SetLinesStage DEF SetStatus, LEFT_STATUSES

LEMMA UnreserveStockStage ==
    ASSUME TypeInv, StageInv, NEW o \in Orders, UnreserveStock(o)
    PROVE  StageInv'
<1>1. status[o] \notin LEFT_STATUSES
  BY DEF UnreserveStock, ACTIVE_STOCK_RESERVATION_STATUSES, LEFT_STATUSES
<1> QED BY <1>1, ReleaseStage DEF UnreserveStock

LEMMA CancelOrderStage ==
    ASSUME TypeInv, StageInv, NEW o \in Orders, CancelOrder(o)
    PROVE  StageInv'
<1>1. status[o] \notin LEFT_STATUSES
  BY DEF CancelOrder, CANCELLABLE_STATUSES, ACTIVE_STOCK_RESERVATION_STATUSES,
     LEFT_STATUSES
<1> QED BY <1>1, ReleaseStage DEF CancelOrder

LEMMA KeptLineStage ==
    ASSUME NEW l \in Line, LineStage("INSUFFICIENT_STOCK", FALSE, l)
    PROVE  LineStage("RESERVED", FALSE, KeptLine(l))
<1>1. CASE l.reserved > 0
  <2> DEFINE new == [l EXCEPT !.requested = l.reserved]
  <2>1. new \in Line BY DEF Line
  <2>2. /\ new.requested = l.reserved /\ new.reserved = l.reserved
        /\ new.loaded = l.loaded /\ new.dispatched = l.dispatched
        /\ new.delivered = l.delivered
        /\ new.consumed = l.consumed /\ new.returned = l.returned
        /\ new.returned_damaged = l.returned_damaged /\ new.lost = l.lost
    BY DEF Line
  <2>3. KeptLine(l) = new BY <1>1 DEF KeptLine
  <2> HIDE DEF new
  <2>4. LineStage("RESERVED", FALSE, new)
    BY <2>1, <2>2 DEF LineStage, LineChained, OutcomeTotal, WHOLE_STATUSES,
       LEFT_STATUSES, Line
  <2> QED BY <2>3, <2>4
<1>2. CASE ~(l.reserved > 0)
  <2>1. KeptLine(l) = NoLine BY <1>2 DEF KeptLine
  <2>2. NoLine \in Line /\ LineStage("ASSIGNED", FALSE, NoLine)
    BY NewLineStage DEF NoLine
  <2>3. NoLine.requested = 0 BY DEF NoLine, NewLine
  <2>4. LineStage("RESERVED", FALSE, NoLine)
    BY <2>2, <2>3, EmptyLineStage DEF LineStage
  <2> QED BY <2>1, <2>4
<1> QED BY <1>1, <1>2

LEMMA ApprovePartialDispatchStage ==
    ASSUME TypeInv, StageInv, NEW o \in Orders, NEW child \in Orders,
           ApprovePartialDispatch(o, child)
    PROVE  StageInv'
<1>1. /\ status[o] = "INSUFFICIENT_STOCK" /\ status[child] = "ABSENT"
      /\ o # child
  BY DEF ApprovePartialDispatch
<1>2. /\ dispatched_at[o] = FALSE /\ dispatched_at[child] = FALSE
      /\ UNCHANGED dispatched_at
  BY <1>1, NotLeft DEF LEFT_STATUSES, ApprovePartialDispatch
<1>3. OrderStage("INSUFFICIENT_STOCK", FALSE, line[o]) BY <1>1, <1>2 DEF StageInv
<1>4. status' = [status EXCEPT ![o] = "RESERVED", ![child] = "ASSIGNED"]
  BY DEF ApprovePartialDispatch
<1> DEFINE f == [i \in Products |-> KeptLine(line[o][i])]
           g == [i \in Products |->
                    NewLine(line[o][i].requested - line[o][i].reserved)]
<1>5. line' = [line EXCEPT ![o] = f, ![child] = g]
  BY DEF ApprovePartialDispatch, KeptLine
<1>6. OrderStage("RESERVED", FALSE, f)
  <2>1. ASSUME NEW i \in Products PROVE LineStage("RESERVED", FALSE, f[i])
    <3>1. line[o][i] \in Line /\ LineStage("INSUFFICIENT_STOCK", FALSE, line[o][i])
      BY <1>3 DEF OrderStage, TypeInv, TypeOK
    <3>2. LineStage("RESERVED", FALSE, KeptLine(line[o][i])) BY <3>1, KeptLineStage
    <3> QED BY <3>2
  <2> HIDE DEF f
  <2> QED BY <2>1 DEF OrderStage, LEFT_STATUSES
<1>7. OrderStage("ASSIGNED", FALSE, g)
  <2>1. ASSUME NEW i \in Products
        PROVE  /\ line[o][i].requested - line[o][i].reserved \in Nat
               /\ LineStage("ASSIGNED", FALSE, g[i])
               /\ g[i].requested = line[o][i].requested - line[o][i].reserved
    <3>1. line[o][i] \in Line /\ line[o][i].reserved <= line[o][i].requested
      BY DEF TypeInv, TypeOK, ReservedWithinRequested
    <3> DEFINE n == line[o][i].requested - line[o][i].reserved
    <3>2. n \in Nat BY <3>1 DEF Line
    <3>3. g[i] = NewLine(n) OBVIOUS
    <3> HIDE DEF n
    <3>4. LineStage("ASSIGNED", FALSE, NewLine(n)) BY <3>2, NewLineStage
    <3>5. NewLine(n).requested = n BY DEF NewLine
    <3> QED BY <3>2, <3>3, <3>4, <3>5 DEF n
  <2>2. PICK i \in Products : line[o][i].reserved < line[o][i].requested
    BY <1>3 DEF OrderStage
  <2>3. line[o][i].reserved \in Nat /\ line[o][i].requested \in Nat
    BY DEF TypeInv, TypeOK, Line
  <2>4. line[o][i].requested - line[o][i].reserved > 0 BY <2>2, <2>3
  <2> HIDE DEF g
  <2>5. g[i].requested > 0 BY <2>1, <2>4
  <2> QED BY <2>1, <2>5 DEF OrderStage, LEFT_STATUSES
<1> HIDE DEF f, g
<1>8. /\ status'[o] = "RESERVED" /\ line'[o] = f
      /\ status'[child] = "ASSIGNED" /\ line'[child] = g
      /\ \A x \in Orders \ {o, child} : status'[x] = status[x] /\ line'[x] = line[x]
  BY <1>1, <1>4, <1>5 DEF TypeInv, TypeOK
<1> SUFFICES ASSUME NEW x \in Orders
             PROVE  OrderStage(status'[x], dispatched_at'[x], line'[x])
  BY DEF StageInv
<1>9. CASE x = o BY <1>2, <1>6, <1>8, <1>9
<1>10. CASE x = child BY <1>2, <1>7, <1>8, <1>10
<1>11. CASE x \in Orders \ {o, child} BY <1>2, <1>8, <1>11 DEF StageInv
<1> QED BY <1>9, <1>10, <1>11

-----------------------------------------------------------------------------
(* Preparation, delivery and outcomes.                                      *)

\* Order o goes to status s, past its reservation, with lines f: the products
\* it has no line for stay as they are.
LEMMA LaterStage ==
    ASSUME TypeInv, StageInv, NEW o \in Orders, NEW f, NEW s, NEW d \in BOOLEAN,
           s \notin {"ASSIGNED", "INSUFFICIENT_STOCK"}, d <=> s \in LEFT_STATUSES,
           line' = [line EXCEPT ![o] = f],
           status' = [status EXCEPT ![o] = s],
           dispatched_at' = [dispatched_at EXCEPT ![o] = d],
           \A i \in Lines(o) : LineStage(s, d, f[i]),
           \A i \in Products \ Lines(o) : f[i] = line[o][i]
    PROVE  StageInv'
<1>1. line'[o] = f /\ \A x \in Orders \ {o} : line'[x] = line[x]
  BY DEF TypeInv, TypeOK
<1>2. ASSUME NEW i \in Products PROVE LineStage(s, d, f[i])
  <2>1. CASE i \in Lines(o) BY <2>1
  <2>2. CASE i \notin Lines(o)
    <3>1. line[o][i] \in Line BY DEF TypeInv, TypeOK
    <3>2. LineChained(line[o][i]) BY DEF StageInv, OrderStage, LineStage
    <3>3. line[o][i].requested = 0 BY <2>2, <3>1 DEF Lines, Line
    <3> QED BY <2>2, <3>1, <3>2, <3>3, EmptyLineStage
  <2> QED BY <2>1, <2>2
<1>3. OrderStage(s, d, f) BY <1>2 DEF OrderStage
<1> QED BY <1>1, <1>3, OneOrderStep DEF TypeInv, TypeOK

\* Order o goes to status s with the line of product i rewritten to new.
LEMMA OneLineStage ==
    ASSUME TypeInv, StageInv, NEW o \in Orders, NEW i \in Lines(o), NEW new, NEW s,
           NEW d \in BOOLEAN,
           s \notin {"ASSIGNED", "INSUFFICIENT_STOCK"}, d <=> s \in LEFT_STATUSES,
           line' = [line EXCEPT ![o] = [line[o] EXCEPT ![i] = new]],
           status' = [status EXCEPT ![o] = s],
           dispatched_at[o] = d, UNCHANGED dispatched_at,
           LineStage(s, d, new),
           \A k \in Lines(o) \ {i} : LineStage(s, d, line[o][k])
    PROVE  StageInv'
<1> DEFINE f == [line[o] EXCEPT ![i] = new]
<1>1. i \in Products /\ line[o] \in [Products -> Line]
  BY DEF Lines, TypeInv, TypeOK
<1>2. f[i] = new /\ \A k \in Products \ {i} : f[k] = line[o][k] BY <1>1
<1>3. dispatched_at' = [dispatched_at EXCEPT ![o] = d] BY DEF TypeInv, TypeOK
<1>4. Lines(o) \subseteq Products BY DEF Lines
<1> HIDE DEF f
<1>5. \A k \in Lines(o) : LineStage(s, d, f[k])
  <2> SUFFICES ASSUME NEW k \in Lines(o) PROVE LineStage(s, d, f[k])
    OBVIOUS
  <2>1. CASE k = i BY <1>2, <2>1
  <2>2. CASE k # i BY <1>2, <1>4, <2>2
  <2> QED BY <2>1, <2>2
<1>6. \A k \in Products \ Lines(o) : f[k] = line[o][k] BY <1>2
<1>7. line' = [line EXCEPT ![o] = f] BY DEF f
<1>8. CASE d = TRUE
  <2>1. s \in LEFT_STATUSES /\ dispatched_at' = [dispatched_at EXCEPT ![o] = TRUE]
    BY <1>3, <1>8
  <2>2. \A k \in Lines(o) : LineStage(s, TRUE, f[k]) BY <1>5, <1>8
  <2> QED BY <1>6, <1>7, <2>1, <2>2, LaterStage
<1>9. CASE d = FALSE
  <2>1. s \notin LEFT_STATUSES /\ dispatched_at' = [dispatched_at EXCEPT ![o] = FALSE]
    BY <1>3, <1>9
  <2>2. \A k \in Lines(o) : LineStage(s, FALSE, f[k]) BY <1>5, <1>9
  <2> QED BY <1>6, <1>7, <2>1, <2>2, LaterStage
<1> QED BY <1>8, <1>9

\* A whole line with q of its units loaded.
LEMMA LoadedLineStage ==
    ASSUME NEW l \in Line, l.dispatched = 0, LineChained(l), l.reserved = l.requested,
           NEW q \in Nat, q <= l.reserved, l.requested > 0
    PROVE  LET new == [l EXCEPT !.loaded = q]
           IN  /\ LineStage("IN_PREPARATION", FALSE, new)
               /\ q = l.reserved => LineStage("LOADED", FALSE, new)
<1> DEFINE new == [l EXCEPT !.loaded = q]
<1>1. new \in Line BY DEF Line
<1>2. /\ new.requested = l.requested /\ new.reserved = l.reserved /\ new.loaded = q
      /\ new.dispatched = l.dispatched /\ new.delivered = l.delivered
      /\ new.consumed = l.consumed /\ new.returned = l.returned
      /\ new.returned_damaged = l.returned_damaged /\ new.lost = l.lost
  BY DEF Line
<1> HIDE DEF new
<1>3. LineChained(new) /\ new.dispatched = 0
  BY <1>1, <1>2 DEF LineChained, OutcomeTotal, Line
<1>4. LineStage("IN_PREPARATION", FALSE, new)
  BY <1>2, <1>3 DEF LineStage, WHOLE_STATUSES, LEFT_STATUSES
<1>5. q = l.reserved => LineStage("LOADED", FALSE, new)
  BY <1>2, <1>3 DEF LineStage, WHOLE_STATUSES, LEFT_STATUSES
<1> QED BY <1>4, <1>5 DEF new

LEMMA LoadItemStage ==
    ASSUME TypeInv, StageInv, NEW o \in Orders, NEW i \in Products,
           NEW q \in 1..MaxQuantity, LoadItem(o, i, q)
    PROVE  StageInv'
<1> DEFINE loaded(k) == IF k = i THEN q ELSE line[o][k].loaded
           complete == \A k \in Lines(o) : /\ loaded(k) = line[o][k].reserved
                                           /\ line[o][k].reserved > 0
           s == IF complete THEN "LOADED" ELSE "IN_PREPARATION"
           new == [line[o][i] EXCEPT !.loaded = q]
<1>1. /\ status[o] \in {"RESERVED", "IN_PREPARATION", "LOADED"}
      /\ i \in Lines(o) /\ q <= line[o][i].reserved
      /\ status' = [status EXCEPT ![o] = s]
      /\ UNCHANGED dispatched_at
  BY DEF LoadItem, SetStatus
<1>2. line' = [line EXCEPT ![o] = [line[o] EXCEPT ![i] = new]]
  BY DEF LoadItem, TypeInv, TypeOK
<1>3. dispatched_at[o] = FALSE BY <1>1, NotLeft DEF LEFT_STATUSES
<1>4. \A k \in Lines(o) : /\ k \in Products /\ line[o][k] \in Line
                          /\ line[o][k].requested > 0
                          /\ LineStage(status[o], FALSE, line[o][k])
  BY <1>3 DEF Lines, TypeInv, TypeOK, StageInv, OrderStage
<1>5. q \in Nat BY LogisticsAssumption
<1>6. /\ LineStage("IN_PREPARATION", FALSE, new)
      /\ q = line[o][i].reserved => LineStage("LOADED", FALSE, new)
  <2>1. /\ line[o][i].dispatched = 0 /\ LineChained(line[o][i])
        /\ line[o][i].reserved = line[o][i].requested
    BY <1>1, <1>4 DEF LineStage, WHOLE_STATUSES
  <2> QED BY <1>1, <1>4, <1>5, <2>1, LoadedLineStage
<1>7. \A k \in Lines(o) : LineStage("IN_PREPARATION", FALSE, line[o][k])
  BY <1>1, <1>4 DEF LineStage, WHOLE_STATUSES, LEFT_STATUSES
<1> HIDE DEF new
<1>8. CASE complete
  <2>1. status' = [status EXCEPT ![o] = "LOADED"] BY <1>1, <1>8
  <2>2. LineStage("LOADED", FALSE, new) BY <1>1, <1>6, <1>8
  <2>3. ASSUME NEW k \in Lines(o) \ {i} PROVE LineStage("LOADED", FALSE, line[o][k])
    <3>1. line[o][k].loaded = line[o][k].reserved BY <1>8, <2>3
    <3> QED BY <1>7, <3>1 DEF LineStage, WHOLE_STATUSES, LEFT_STATUSES
  <2> QED BY <1>1, <1>2, <1>3, <2>1, <2>2, <2>3, OneLineStage DEF LEFT_STATUSES
<1>9. CASE ~complete
  <2>1. status' = [status EXCEPT ![o] = "IN_PREPARATION"] BY <1>1, <1>9
  <2> QED BY <1>1, <1>2, <1>3, <1>6, <1>7, <2>1, OneLineStage DEF LEFT_STATUSES
<1> QED BY <1>8, <1>9

\* A loaded line that leaves the warehouse.
LEMMA DispatchedLineStage ==
    ASSUME NEW l \in Line, l.dispatched = 0, LineChained(l), l.reserved = l.requested,
           l.loaded = l.reserved, l.requested > 0
    PROVE  LineStage("OUT_OF_WAREHOUSE", TRUE, [l EXCEPT !.dispatched = l.loaded])
<1> DEFINE new == [l EXCEPT !.dispatched = l.loaded]
<1>1. new \in Line BY DEF Line
<1>2. /\ new.requested = l.requested /\ new.reserved = l.reserved
      /\ new.loaded = l.loaded /\ new.dispatched = l.loaded
      /\ new.delivered = l.delivered
      /\ new.consumed = l.consumed /\ new.returned = l.returned
      /\ new.returned_damaged = l.returned_damaged /\ new.lost = l.lost
  BY DEF Line
<1> HIDE DEF new
<1>3. LineChained(new) /\ OutcomeTotal(new) = 0
  BY <1>1, <1>2 DEF LineChained, OutcomeTotal, Line
<1>4. LineStage("OUT_OF_WAREHOUSE", TRUE, new)
  BY <1>2, <1>3 DEF LineStage, WHOLE_STATUSES, LEFT_STATUSES
<1> QED BY <1>4 DEF new

LEMMA DispatchOrderStage ==
    ASSUME TypeInv, StageInv, NEW o \in Orders, DispatchOrder(o)
    PROVE  StageInv'
<1> DEFINE rows == [i \in Products |->
                       [line[o][i] EXCEPT !.dispatched = line[o][i].loaded]]
<1>1. /\ status[o] \in {"IN_PREPARATION", "LOADED"}
      /\ \A i \in Lines(o) : line[o][i].loaded = line[o][i].reserved
      /\ SetLines(o, rows)
      /\ status' = [status EXCEPT ![o] = "OUT_OF_WAREHOUSE"]
      /\ dispatched_at' = [dispatched_at EXCEPT ![o] = TRUE]
  BY DEF DispatchOrder, SetStatus
<1>2. dispatched_at[o] = FALSE BY <1>1, NotLeft DEF LEFT_STATUSES
<1>3. ASSUME NEW i \in Lines(o) PROVE LineStage("OUT_OF_WAREHOUSE", TRUE, rows[i])
  <2>1. i \in Products /\ line[o][i].requested > 0 BY DEF Lines
  <2>2. line[o][i] \in Line /\ LineStage(status[o], FALSE, line[o][i])
    BY <1>2, <2>1 DEF TypeInv, TypeOK, StageInv, OrderStage
  <2>3. /\ line[o][i].dispatched = 0 /\ LineChained(line[o][i])
        /\ line[o][i].reserved = line[o][i].requested
    BY <1>1, <2>2 DEF LineStage, WHOLE_STATUSES
  <2>4. LineStage("OUT_OF_WAREHOUSE", TRUE,
                  [line[o][i] EXCEPT !.dispatched = line[o][i].loaded])
    BY <1>1, <2>1, <2>2, <2>3, DispatchedLineStage
  <2> QED BY <2>1, <2>4
<1> HIDE DEF rows
<1> QED BY <1>1, <1>3, SetLinesStage DEF LEFT_STATUSES

\* A line of an order that left with q of its units delivered.
LEMMA DeliveredLineStage ==
    ASSUME NEW l \in Line, NEW s \in {"OUT_OF_WAREHOUSE", "PARTIALLY_DELIVERED"},
           LineStage(s, TRUE, l), NEW q \in Nat, q <= l.dispatched
    PROVE  LineStage(s, TRUE, [l EXCEPT !.delivered = q])
<1> DEFINE new == [l EXCEPT !.delivered = q]
<1>1. new \in Line BY DEF Line
<1>2. /\ new.requested = l.requested /\ new.reserved = l.reserved
      /\ new.loaded = l.loaded /\ new.dispatched = l.dispatched /\ new.delivered = q
      /\ new.consumed = l.consumed /\ new.returned = l.returned
      /\ new.returned_damaged = l.returned_damaged /\ new.lost = l.lost
  BY DEF Line
<1> HIDE DEF new
<1>3. LineChained(new) /\ OutcomeTotal(new) = 0
  BY <1>1, <1>2 DEF LineStage, LineChained, OutcomeTotal, Line
<1>4. LineStage(s, TRUE, new)
  BY <1>2, <1>3 DEF LineStage, WHOLE_STATUSES, LEFT_STATUSES
<1> QED BY <1>4 DEF new

LEMMA Left ==
    ASSUME TypeInv, StageInv, NEW o \in Orders, status[o] \in LEFT_STATUSES
    PROVE  dispatched_at[o] = TRUE
<1>1. OrderStage(status[o], dispatched_at[o], line[o]) BY DEF StageInv
<1> QED BY <1>1 DEF OrderStage, TypeInv, TypeOK

LEMMA DeliverItemStage ==
    ASSUME TypeInv, StageInv, NEW o \in Orders, NEW i \in Products,
           NEW q \in 0..MaxQuantity, DeliverItem(o, i, q)
    PROVE  StageInv'
<1> DEFINE new == [line[o][i] EXCEPT !.delivered = q]
<1>1. /\ status[o] \in {"OUT_OF_WAREHOUSE", "PARTIALLY_DELIVERED"}
      /\ i \in Lines(o) /\ q <= line[o][i].dispatched
      /\ UNCHANGED <<status, dispatched_at>>
  BY DEF DeliverItem
<1>2. line' = [line EXCEPT ![o] = [line[o] EXCEPT ![i] = new]]
  BY DEF DeliverItem, TypeInv, TypeOK
<1>3. dispatched_at[o] = TRUE BY <1>1, Left DEF LEFT_STATUSES
<1>4. \A k \in Lines(o) : line[o][k] \in Line /\ LineStage(status[o], TRUE, line[o][k])
  BY <1>3 DEF Lines, TypeInv, TypeOK, StageInv, OrderStage
<1>5. q \in Nat BY LogisticsAssumption
<1>6. LineStage(status[o], TRUE, new) BY <1>1, <1>4, <1>5, DeliveredLineStage
<1>7. status' = [status EXCEPT ![o] = status[o]] BY <1>1 DEF TypeInv, TypeOK
<1> HIDE DEF new
<1> QED BY <1>1, <1>2, <1>3, <1>4, <1>6, <1>7, OneLineStage DEF LEFT_STATUSES

\* A line whose outcome is reported, within what was delivered.
LEMMA OutcomeLineStage ==
    ASSUME NEW l \in Line, NEW s \in OUTCOME_STATUSES, LineStage(s, TRUE, l),
           NEW x \in ReportedOutcome, OutcomeTotal(x) <= l.delivered,
           NEW t \in {"OUTCOME_PENDING", "WITH_DIFFERENCES"}
    PROVE  LineStage(t, TRUE, WithOutcome(l, x))
<1> DEFINE new == WithOutcome(l, x)
<1>1. /\ new.requested = l.requested /\ new.reserved = l.reserved
      /\ new.loaded = l.loaded /\ new.dispatched = l.dispatched
      /\ new.delivered = l.delivered
      /\ new.consumed = x.consumed /\ new.returned = x.returned
      /\ new.returned_damaged = x.returned_damaged /\ new.lost = x.lost
  BY DEF Line, WithOutcome
<1> HIDE DEF new
<1>2. OutcomeTotal(new) = OutcomeTotal(x) BY <1>1 DEF OutcomeTotal
<1>3. LineChained(new) BY <1>1, <1>2 DEF LineStage, LineChained
<1>4. LineStage(t, TRUE, new)
  BY <1>1, <1>3 DEF LineStage, WHOLE_STATUSES, LEFT_STATUSES, OUTCOME_STATUSES
<1> QED BY <1>4 DEF new

\* What an order accepts outcomes in, and where it goes.
LEMMA OutcomeOrder ==
    ASSUME TypeInv, StageInv, NEW o \in Orders, status[o] \in OUTCOME_STATUSES
    PROVE  /\ dispatched_at[o] = TRUE
           /\ OutcomeStatus(o) \in {"OUTCOME_PENDING", "WITH_DIFFERENCES"}
           /\ \A k \in Lines(o) : /\ line[o][k] \in Line
                                  /\ LineStage(status[o], TRUE, line[o][k])
                                  /\ LineStage(OutcomeStatus(o), TRUE, line[o][k])
<1>1. dispatched_at[o] = TRUE BY Left DEF LEFT_STATUSES, OUTCOME_STATUSES
<1>2. OutcomeStatus(o) \in {"OUTCOME_PENDING", "WITH_DIFFERENCES"}
  BY DEF OutcomeStatus, OUTCOME_STATUSES
<1>3. \A k \in Lines(o) : line[o][k] \in Line /\ LineStage(status[o], TRUE, line[o][k])
  BY <1>1 DEF Lines, TypeInv, TypeOK, StageInv, OrderStage
<1>4. \A k \in Lines(o) : LineStage(OutcomeStatus(o), TRUE, line[o][k])
  BY <1>2, <1>3 DEF LineStage, WHOLE_STATUSES, LEFT_STATUSES, OUTCOME_STATUSES
<1> QED BY <1>1, <1>2, <1>3, <1>4

LEMMA RegisterOutcomeStage ==
    ASSUME TypeInv, StageInv, NEW o \in Orders, NEW i \in Products,
           NEW x \in Outcomes, RegisterOutcome(o, i, x)
    PROVE  StageInv'
<1> DEFINE new == WithOutcome(line[o][i], x)
<1>1. /\ status[o] \in OUTCOME_STATUSES /\ i \in Lines(o)
      /\ OutcomeTotal(x) <= line[o][i].delivered
      /\ status' = [status EXCEPT ![o] = OutcomeStatus(o)]
      /\ UNCHANGED dispatched_at
  BY DEF RegisterOutcome, OutcomeAccepted, SetStatus
<1>2. line' = [line EXCEPT ![o] = [line[o] EXCEPT ![i] = new]]
  BY DEF RegisterOutcome, TypeInv, TypeOK
<1>3. x \in ReportedOutcome
  BY LogisticsAssumption DEF Outcomes, ReportedOutcome
<1>4. LineStage(OutcomeStatus(o), TRUE, new)
  BY <1>1, <1>3, OutcomeOrder, OutcomeLineStage
<1> HIDE DEF new
<1>5. OutcomeStatus(o) \in LEFT_STATUSES \ {"ASSIGNED", "INSUFFICIENT_STOCK"}
  BY <1>1, OutcomeOrder DEF LEFT_STATUSES
<1> QED BY <1>1, <1>2, <1>4, <1>5, OutcomeOrder, OneLineStage

LEMMA MarkAllConsumedStage ==
    ASSUME TypeInv, StageInv, NEW o \in Orders, MarkAllConsumed(o)
    PROVE  StageInv'
<1> DEFINE consumables == ConsumableLines(o)
           all(i) == AllConsumed(line[o][i])
           f == [i \in Products |-> IF i \in consumables
                                    THEN WithOutcome(line[o][i], all(i))
                                    ELSE line[o][i]]
<1>1. /\ status[o] \in OUTCOME_STATUSES
      /\ status' = [status EXCEPT ![o] = OutcomeStatus(o)]
      /\ UNCHANGED dispatched_at
  BY DEF MarkAllConsumed, SetStatus
<1>2. line' = [line EXCEPT ![o] = f] BY DEF MarkAllConsumed, TypeInv, TypeOK
<1>3. /\ dispatched_at' = [dispatched_at EXCEPT ![o] = TRUE]
      /\ OutcomeStatus(o) \in LEFT_STATUSES \ {"ASSIGNED", "INSUFFICIENT_STOCK"}
  BY <1>1, OutcomeOrder DEF LEFT_STATUSES, TypeInv, TypeOK
<1>4. ASSUME NEW i \in Lines(o) PROVE LineStage(OutcomeStatus(o), TRUE, f[i])
  <2>1. i \in Products BY DEF Lines
  <2>2. CASE i \in consumables
    <3>1. line[o][i] \in Line BY <1>1, OutcomeOrder
    <3>2. all(i) \in ReportedOutcome /\ OutcomeTotal(all(i)) = line[o][i].delivered
      BY <3>1 DEF ReportedOutcome, Line, OutcomeTotal, AllConsumed
    <3>3. OutcomeTotal(all(i)) <= line[o][i].delivered BY <3>1, <3>2 DEF Line
    <3> DEFINE x == all(i)
    <3>4. f[i] = WithOutcome(line[o][i], x) BY <2>1, <2>2
    <3> HIDE DEF x, f, consumables
    <3>5. LineStage(OutcomeStatus(o), TRUE, WithOutcome(line[o][i], x))
      BY <1>1, <3>2, <3>3, OutcomeOrder, OutcomeLineStage DEF x
    <3> QED BY <3>4, <3>5
  <2>3. CASE i \notin consumables BY <1>1, <2>1, <2>3, OutcomeOrder
  <2> QED BY <2>2, <2>3
<1>5. \A i \in Products \ Lines(o) : f[i] = line[o][i] BY DEF ConsumableLines
<1> HIDE DEF f, all, consumables
<1> QED BY <1>1, <1>2, <1>3, <1>4, <1>5, LaterStage

-----------------------------------------------------------------------------
(* The stage invariant, and what follows from it.                           *)

LEMMA InitStage == Init => StageInv
<1> SUFFICES ASSUME Init PROVE StageInv
  OBVIOUS
<1> SUFFICES ASSUME NEW o \in Orders
             PROVE  OrderStage(status[o], dispatched_at[o], line[o])
  BY DEF StageInv
<1>1. /\ status[o] = "ABSENT" /\ dispatched_at[o] = FALSE
      /\ \A i \in Products : line[o][i] = NoLine
  BY DEF Init
<1>2. NoLine \in Line /\ LineStage("ASSIGNED", FALSE, NoLine)
  BY NewLineStage DEF NoLine
<1>3. NoLine.requested = 0 BY DEF NoLine, NewLine
<1>4. LineStage("ABSENT", FALSE, NoLine)
  BY <1>2, <1>3, EmptyLineStage DEF LineStage
<1> QED BY <1>1, <1>4 DEF OrderStage, LEFT_STATUSES

LEMMA OrderNextStage ==
    ASSUME TypeInv, StageInv, OrderNext
    PROVE  StageInv'
<1>1. PICK o \in Orders :
        \/ \E w \in Warehouses, q \in Quantities : CreateOrder(o, w, q)
        \/ \E w \in Warehouses : UpdateOrder(o, w)
        \/ AssignOrder(o)
        \/ \E i \in Products, q \in 1..MaxQuantity :
              \/ AddItem(o, i, q)
              \/ UpdateItem(o, i, q)
              \/ LoadItem(o, i, q)
              \/ \E source \in Warehouses : TransferStock(o, i, source, q)
        \/ \E i \in Products : DeleteItem(o, i)
        \/ \E usable \in SUBSET Products : ReserveStock(o, usable)
        \/ UnreserveStock(o)
        \/ CancelOrder(o)
        \/ CheckStock(o)
        \/ CreatePartialDispatch(o)
        \/ \E child \in Orders : ApprovePartialDispatch(o, child)
        \/ RejectPartialDispatch(o)
        \/ StartPreparation(o)
        \/ DispatchOrder(o)
        \/ \E i \in Products, q \in 0..MaxQuantity : DeliverItem(o, i, q)
        \/ ConfirmDelivery(o)
        \/ \E i \in Products, x \in Outcomes : RegisterOutcome(o, i, x)
        \/ MarkAllConsumed(o)
        \/ ConfirmOutcome(o)
        \/ CloseOrder(o)
  BY DEF OrderNext
<1>2. CASE \E w \in Warehouses, q \in Quantities : CreateOrder(o, w, q)
  BY <1>2, CreateOrderStage
<1>3. CASE \/ \E w \in Warehouses : UpdateOrder(o, w)
           \/ CreatePartialDispatch(o)
           \/ RejectPartialDispatch(o)
           \/ \E i \in Products, q \in 1..MaxQuantity, source \in Warehouses :
                 TransferStock(o, i, source, q)
  BY <1>3, OtherRowsStage
<1>4. CASE AssignOrder(o) BY <1>4, AssignOrderStage
<1>5. CASE \E i \in Products, q \in 1..MaxQuantity :
              AddItem(o, i, q) \/ UpdateItem(o, i, q) \/ LoadItem(o, i, q)
  BY <1>5, AddItemStage, UpdateItemStage, LoadItemStage
<1>6. CASE \E i \in Products : DeleteItem(o, i) BY <1>6, DeleteItemStage
<1>7. CASE \E usable \in SUBSET Products : ReserveStock(o, usable)
  BY <1>7, ReserveStockStage
<1>8. CASE UnreserveStock(o) \/ CancelOrder(o)
  BY <1>8, UnreserveStockStage, CancelOrderStage
<1>9. CASE CheckStock(o) BY <1>9, CheckStockStage
<1>10. CASE \E child \in Orders : ApprovePartialDispatch(o, child)
  BY <1>10, ApprovePartialDispatchStage
<1>11. CASE StartPreparation(o) \/ DispatchOrder(o)
  BY <1>11, StartPreparationStage, DispatchOrderStage
<1>12. CASE \E i \in Products, q \in 0..MaxQuantity : DeliverItem(o, i, q)
  BY <1>12, DeliverItemStage
<1>13. CASE ConfirmDelivery(o) BY <1>13, ConfirmDeliveryStage
<1>14. CASE \E i \in Products, x \in Outcomes : RegisterOutcome(o, i, x)
  BY <1>14, RegisterOutcomeStage
<1>15. CASE MarkAllConsumed(o) BY <1>15, MarkAllConsumedStage
<1>16. CASE ConfirmOutcome(o) \/ CloseOrder(o)
  BY <1>16, ConfirmOutcomeStage, CloseOrderStage
<1> QED BY <1>1, <1>2, <1>3, <1>4, <1>5, <1>6, <1>7, <1>8, <1>9, <1>10, <1>11, <1>12,
           <1>13, <1>14, <1>15, <1>16

LEMMA NextStage == TypeInv /\ StageInv /\ [Next]_vars => StageInv'
<1> SUFFICES ASSUME TypeInv, StageInv, [Next]_vars PROVE StageInv'
  OBVIOUS
<1>1. CASE StockNext BY <1>1, StockKeepsOrders, NoOrderStep
<1>2. CASE OrderNext BY <1>2, OrderNextStage
<1>3. CASE PurchaseNext BY <1>3, PurchaseNextStage
<1>4. CASE UNCHANGED vars BY <1>4, NoOrderStep
<1> QED BY <1>1, <1>2, <1>3, <1>4 DEF Next

\* The quantities of a line always form the chain that the CHECK constraints of
\* logistics_order_items demand, so none of them ever refuses a commit.
THEOREM ChainKept == Spec => []LinesChained
<1>1. StageInv => LinesChained BY DEF StageInv, OrderStage, LineStage, LinesChained
<1> QED BY <1>1, InitType, NextType, InitStage, NextStage, PTL DEF Spec

LEMMA StageOfOrder ==
    ASSUME TypeInv, NEW o \in Orders, OrderStage(status[o], dispatched_at[o], line[o])
    PROVE  StageMatchesLines(o)
<1>1. \A i \in Products : /\ line[o][i] \in Line
                          /\ LineStage(status[o], dispatched_at[o], line[o][i])
  BY DEF TypeInv, TypeOK, OrderStage
<1>2. \A i \in Lines(o) : i \in Products /\ line[o][i].requested > 0 BY DEF Lines
<1>3. status[o] = "ABSENT" => Lines(o) = {}
  BY <1>1, <1>2 DEF LineStage, Line
<1>4. status[o] \in {"ABSENT", "ASSIGNED", "CANCELLED"}
        => \A i \in Products : line[o][i].reserved = 0
  BY <1>1 DEF LineStage
<1>5. status[o] = "INSUFFICIENT_STOCK"
        => /\ \E i \in Lines(o) : line[o][i].reserved < line[o][i].requested
           /\ \A i \in Products : line[o][i].loaded = 0
  <2> SUFFICES ASSUME status[o] = "INSUFFICIENT_STOCK"
               PROVE  /\ \E i \in Lines(o) : line[o][i].reserved < line[o][i].requested
                      /\ \A i \in Products : line[o][i].loaded = 0
    OBVIOUS
  <2>1. PICK i \in Products : line[o][i].reserved < line[o][i].requested
    BY DEF OrderStage
  <2>2. i \in Lines(o) BY <1>1, <2>1 DEF Lines, Line
  <2> QED BY <1>1, <2>1, <2>2 DEF LineStage
<1>6. status[o] \in {"RESERVED", "IN_PREPARATION", "LOADED"} \cup LEFT_STATUSES
        => \A i \in Lines(o) : line[o][i].reserved = line[o][i].requested
  BY <1>1, <1>2 DEF LineStage, WHOLE_STATUSES
<1>7. status[o] \in {"LOADED"} \cup LEFT_STATUSES
        => \A i \in Lines(o) : line[o][i].loaded = line[o][i].reserved
  BY <1>1, <1>2 DEF LineStage
<1>8. dispatched_at[o] <=> status[o] \in LEFT_STATUSES BY DEF OrderStage
<1>9. \A i \in Products :
         line[o][i].dispatched = IF dispatched_at[o] THEN line[o][i].loaded ELSE 0
  BY <1>1 DEF LineStage
<1>10. status[o] \in {"OUTCOME_RECORDED", "CLOSED"} => Explained(o)
  BY <1>1, <1>2 DEF LineStage, Explained
<1> QED BY <1>3, <1>4, <1>5, <1>6, <1>7, <1>8, <1>9, <1>10 DEF StageMatchesLines

\* The status of an order always tells the truth about its lines.
THEOREM StageCorrect == Spec => []StagesMatchLines
<1>1. TypeInv /\ StageInv => StagesMatchLines
  BY StageOfOrder DEF StageInv, StagesMatchLines
<1> QED BY <1>1, InitType, NextType, InitStage, NextStage, PTL DEF Spec

-----------------------------------------------------------------------------
(* What a step may never do to an order that left the warehouse.            *)

Untouched(x) ==
    /\ status'[x] = status[x]
    /\ order_warehouse'[x] = order_warehouse[x]
    /\ dispatched_at'[x] = dispatched_at[x]
    /\ line'[x] = line[x]

\* What a step may do to order x once it left.
LeftStep(x) ==
    /\ status'[x] \in LEFT_STATUSES
    /\ order_warehouse'[x] = order_warehouse[x]
    /\ dispatched_at'[x] = dispatched_at[x]
    /\ \A i \in Products : /\ line'[x][i].dispatched = line[x][i].dispatched
                           /\ line'[x][i].reserved = line[x][i].reserved
    /\ status[x] \in {"OUTCOME_RECORDED", "CLOSED"}
          => line'[x] = line[x] /\ status'[x] \in {status[x], "CLOSED"}

LEMMA UntouchedLeftStep ==
    ASSUME NEW x, status[x] \in LEFT_STATUSES, Untouched(x)
    PROVE  LeftStep(x)
BY DEF Untouched, LeftStep

\* Before the dispatch: the handlers of order o do not apply to x.
LEMMA EarlyHandlers ==
    ASSUME TypeInv, NEW o \in Orders, NEW x \in Orders, status[x] \in LEFT_STATUSES,
           \/ \E w \in Warehouses, q \in Quantities : CreateOrder(o, w, q)
           \/ \E w \in Warehouses : UpdateOrder(o, w)
           \/ AssignOrder(o)
           \/ \E i \in Products, q \in 1..MaxQuantity :
                 AddItem(o, i, q) \/ UpdateItem(o, i, q) \/ LoadItem(o, i, q)
           \/ \E i \in Products : DeleteItem(o, i)
           \/ \E usable \in SUBSET Products : ReserveStock(o, usable)
           \/ UnreserveStock(o)
           \/ CancelOrder(o)
           \/ StartPreparation(o)
           \/ DispatchOrder(o)
    PROVE  Untouched(x)
<1>1. CASE \/ \E w \in Warehouses, q \in Quantities : CreateOrder(o, w, q)
           \/ \E w \in Warehouses : UpdateOrder(o, w)
           \/ AssignOrder(o)
           \/ StartPreparation(o)
  BY <1>1 DEF CreateOrder, UpdateOrder, AssignOrder, StartPreparation, Mutable,
     MANAGE_STATUSES, LEFT_STATUSES, SetStatus, Untouched, TypeInv, TypeOK
<1>2. CASE \/ \E i \in Products, q \in 1..MaxQuantity :
                 AddItem(o, i, q) \/ UpdateItem(o, i, q) \/ LoadItem(o, i, q)
           \/ \E i \in Products : DeleteItem(o, i)
  <2>1. o # x /\ \A y \in Orders \ {o} : line'[y] = line[y]
    BY <1>2 DEF AddItem, UpdateItem, LoadItem, DeleteItem, Mutable, MANAGE_STATUSES,
       LEFT_STATUSES, TypeInv, TypeOK
  <2>2. /\ UNCHANGED <<order_warehouse, dispatched_at>>
        /\ \A y \in Orders \ {o} : status'[y] = status[y]
    BY <1>2 DEF AddItem, UpdateItem, LoadItem, DeleteItem, SetStatus, TypeInv, TypeOK
  <2> QED BY <2>1, <2>2 DEF Untouched
<1>3. CASE \/ \E usable \in SUBSET Products : ReserveStock(o, usable)
           \/ UnreserveStock(o)
           \/ CancelOrder(o)
           \/ DispatchOrder(o)
  <2>1. /\ o # x
        /\ \E rows : SetLines(o, rows)
        /\ \E s : SetStatus(o, s)
        /\ dispatched_at'[x] = dispatched_at[x]
        /\ UNCHANGED order_warehouse
    <3>1. CASE \E usable \in SUBSET Products : ReserveStock(o, usable)
      <4>1. PICK usable \in SUBSET Products : ReserveStock(o, usable) BY <3>1
      <4> QED BY <4>1 DEF ReserveStock, LEFT_STATUSES
    <3>2. CASE UnreserveStock(o)
      BY <3>2 DEF UnreserveStock, ReleaseReservations, LEFT_STATUSES,
         ACTIVE_STOCK_RESERVATION_STATUSES
    <3>3. CASE CancelOrder(o)
      BY <3>3 DEF CancelOrder, ReleaseReservations, LEFT_STATUSES,
         CANCELLABLE_STATUSES, ACTIVE_STOCK_RESERVATION_STATUSES
    <3>4. CASE DispatchOrder(o)
      BY <3>4 DEF DispatchOrder, LEFT_STATUSES, TypeInv, TypeOK
    <3> QED BY <1>3, <3>1, <3>2, <3>3, <3>4
  <2> QED BY <2>1 DEF SetLines, SetStatus, Untouched, TypeInv, TypeOK
<1> QED BY <1>1, <1>2, <1>3

LEMMA ApproveLeftStep ==
    ASSUME TypeInv, NEW o \in Orders, NEW child \in Orders, NEW x \in Orders,
           status[x] \in LEFT_STATUSES, ApprovePartialDispatch(o, child)
    PROVE  Untouched(x)
<1>1. o # x /\ child # x BY DEF ApprovePartialDispatch, LEFT_STATUSES
<1>2. line'[x] = line[x] BY <1>1 DEF ApprovePartialDispatch, TypeInv, TypeOK
<1>3. status'[x] = status[x] /\ order_warehouse'[x] = order_warehouse[x]
      /\ dispatched_at'[x] = dispatched_at[x]
  BY <1>1 DEF ApprovePartialDispatch, TypeInv, TypeOK
<1> QED BY <1>2, <1>3 DEF Untouched

\* After the dispatch: deliveries and outcomes.
LEMMA LateHandlers ==
    ASSUME TypeInv, NEW o \in Orders, NEW x \in Orders, status[x] \in LEFT_STATUSES,
           \/ \E i \in Products, q \in 0..MaxQuantity : DeliverItem(o, i, q)
           \/ \E i \in Products, y \in Outcomes : RegisterOutcome(o, i, y)
           \/ MarkAllConsumed(o)
    PROVE  LeftStep(x)
<1>1. o = x => status[o] \notin {"OUTCOME_RECORDED", "CLOSED"}
  BY DEF DeliverItem, RegisterOutcome, MarkAllConsumed, OUTCOME_STATUSES
<1>2. /\ UNCHANGED <<order_warehouse, dispatched_at>>
      /\ status'[x] = status[x] \/ status'[x] = "OUTCOME_PENDING"
      /\ x # o => status'[x] = status[x] /\ line'[x] = line[x]
  <2>1. CASE \E i \in Products, q \in 0..MaxQuantity : DeliverItem(o, i, q)
    BY <2>1 DEF DeliverItem, TypeInv, TypeOK
  <2>2. CASE \E i \in Products, y \in Outcomes : RegisterOutcome(o, i, y)
    BY <2>2 DEF RegisterOutcome, SetStatus, OutcomeStatus, TypeInv, TypeOK
  <2>3. CASE MarkAllConsumed(o)
    BY <2>3 DEF MarkAllConsumed, SetStatus, OutcomeStatus, TypeInv, TypeOK
  <2> QED BY <2>1, <2>2, <2>3
<1>3. \A i \in Products : /\ line'[x][i].dispatched = line[x][i].dispatched
                          /\ line'[x][i].reserved = line[x][i].reserved
  <2>1. CASE x # o BY <1>2, <2>1
  <2>2. CASE x = o
    <3> SUFFICES ASSUME NEW i \in Products
                 PROVE  /\ line'[o][i].dispatched = line[o][i].dispatched
                        /\ line'[o][i].reserved = line[o][i].reserved
      BY <2>2
    <3>1. line[o][i] \in Line BY DEF TypeInv, TypeOK
    <3>2. \/ line'[o][i] = line[o][i]
          \/ \E q \in Nat : line'[o][i] = [line[o][i] EXCEPT !.delivered = q]
          \/ \E y : line'[o][i] = WithOutcome(line[o][i], y)
      <4>1. CASE \E k \in Products, q \in 0..MaxQuantity : DeliverItem(o, k, q)
        <5>1. PICK k \in Products, q \in 0..MaxQuantity : DeliverItem(o, k, q) BY <4>1
        <5>2. line' = [line EXCEPT ![o][k].delivered = q] BY <5>1 DEF DeliverItem
        <5>3. q \in Nat BY LogisticsAssumption
        <5> QED BY <5>2, <5>3 DEF TypeInv, TypeOK
      <4>2. CASE \E k \in Products, y \in Outcomes : RegisterOutcome(o, k, y)
        <5>1. PICK k \in Products, y \in Outcomes : RegisterOutcome(o, k, y) BY <4>2
        <5>2. line' = [line EXCEPT ![o][k] = WithOutcome(line[o][k], y)]
          BY <5>1 DEF RegisterOutcome
        <5> QED BY <5>2 DEF TypeInv, TypeOK
      <4>3. CASE MarkAllConsumed(o)
        BY <4>3 DEF MarkAllConsumed, TypeInv, TypeOK
      <4> QED BY <4>1, <4>2, <4>3
    <3>3. CASE line'[o][i] = line[o][i] BY <3>3
    <3>4. CASE \E q \in Nat : line'[o][i] = [line[o][i] EXCEPT !.delivered = q]
      BY <3>1, <3>4 DEF Line
    <3>5. CASE \E y : line'[o][i] = WithOutcome(line[o][i], y)
      BY <3>1, <3>5 DEF Line, WithOutcome
    <3> QED BY <3>2, <3>3, <3>4, <3>5
  <2> QED BY <2>1, <2>2
<1> QED BY <1>1, <1>2, <1>3 DEF LeftStep, LEFT_STATUSES

\* Confirmations, and the handlers that keep the order's rows.
LEMMA ConfirmingHandlers ==
    ASSUME TypeInv, NEW o \in Orders, NEW x \in Orders, status[x] \in LEFT_STATUSES,
           \/ CheckStock(o)
           \/ CreatePartialDispatch(o)
           \/ RejectPartialDispatch(o)
           \/ ConfirmDelivery(o)
           \/ ConfirmOutcome(o)
           \/ CloseOrder(o)
           \/ \E i \in Products, q \in 1..MaxQuantity, source \in Warehouses :
                 TransferStock(o, i, source, q)
    PROVE  LeftStep(x)
<1>1. UNCHANGED <<order_warehouse, dispatched_at, line>>
  <2>1. CASE CheckStock(o) BY <2>1 DEF CheckStock
  <2>2. CASE CreatePartialDispatch(o) BY <2>2 DEF CreatePartialDispatch
  <2>3. CASE RejectPartialDispatch(o) BY <2>3 DEF RejectPartialDispatch
  <2>4. CASE ConfirmDelivery(o) BY <2>4 DEF ConfirmDelivery
  <2>5. CASE ConfirmOutcome(o) BY <2>5 DEF ConfirmOutcome
  <2>6. CASE CloseOrder(o) BY <2>6 DEF CloseOrder
  <2>7. CASE \E i \in Products, q \in 1..MaxQuantity, source \in Warehouses :
                TransferStock(o, i, source, q)
    <3>1. PICK i \in Products, q \in 1..MaxQuantity, source \in Warehouses :
             TransferStock(o, i, source, q)
      BY <2>7
    <3>2. UNCHANGED orderVars BY <3>1, Zenon DEF TransferStock
    <3> QED BY <3>2
  <2> QED BY <2>1, <2>2, <2>3, <2>4, <2>5, <2>6, <2>7
<1>2. /\ status'[x] \in LEFT_STATUSES
      /\ status[x] \in {"OUTCOME_RECORDED", "CLOSED"}
            => status'[x] \in {status[x], "CLOSED"}
  <2>1. CASE CheckStock(o)
    BY <2>1 DEF CheckStock, SetStatus, LEFT_STATUSES, TypeInv, TypeOK
  <2>2. CASE ConfirmDelivery(o)
    BY <2>2 DEF ConfirmDelivery, SetStatus, LEFT_STATUSES, TypeInv, TypeOK
  <2>3. CASE ConfirmOutcome(o)
    BY <2>3 DEF ConfirmOutcome, SetStatus, LEFT_STATUSES, OUTCOME_STATUSES,
       TypeInv, TypeOK
  <2>4. CASE CloseOrder(o)
    BY <2>4 DEF CloseOrder, SetStatus, LEFT_STATUSES, TypeInv, TypeOK
  <2>5. CASE status' = status
    BY <2>5
  <2>6. CreatePartialDispatch(o) => status' = status
    BY DEF CreatePartialDispatch
  <2>7. RejectPartialDispatch(o) => status' = status
    BY DEF RejectPartialDispatch
  <2>8. ASSUME NEW i \in Products, NEW q \in 1..MaxQuantity,
               NEW source \in Warehouses, TransferStock(o, i, source, q)
        PROVE  status' = status
    <3>1. UNCHANGED orderVars BY <2>8, Zenon DEF TransferStock
    <3> QED BY <3>1
  <2> QED BY <2>1, <2>2, <2>3, <2>4, <2>5, <2>6, <2>7, <2>8
<1> QED BY <1>1, <1>2 DEF LeftStep

LEMMA NextLeftStep ==
    ASSUME TypeInv, StageInv, [Next]_vars, NEW x \in Orders, status[x] \in LEFT_STATUSES
    PROVE  LeftStep(x)
<1>1. CASE StockNext \/ UNCHANGED vars
  BY <1>1, StockKeepsOrders, UntouchedLeftStep DEF Untouched
<1>2. CASE PurchaseNext
  <2>1. CASE \E p \in Purchases, o \in Orders, usable \in SUBSET Products :
                CreatePurchaseFromOrder(p, o, usable)
    <3>1. PICK p \in Purchases, o \in Orders, usable \in SUBSET Products :
             CreatePurchaseFromOrder(p, o, usable)
      BY <2>1
    <3>2. o # x BY <3>1, MissingUnits DEF LEFT_STATUSES
    <3>3. Untouched(x)
      BY <3>1, <3>2 DEF CreatePurchaseFromOrder, Untouched, TypeInv, TypeOK
    <3> QED BY <3>3, UntouchedLeftStep
  <2>2. CASE ~(\E p \in Purchases, o \in Orders, usable \in SUBSET Products :
                  CreatePurchaseFromOrder(p, o, usable))
    BY <1>2, <2>2, PurchaseKeepsOrders, UntouchedLeftStep DEF Untouched
  <2> QED BY <2>1, <2>2
<1>3. CASE OrderNext
  <2>1. PICK o \in Orders :
          \/ \E w \in Warehouses, q \in Quantities : CreateOrder(o, w, q)
          \/ \E w \in Warehouses : UpdateOrder(o, w)
          \/ AssignOrder(o)
          \/ \E i \in Products, q \in 1..MaxQuantity :
                \/ AddItem(o, i, q)
                \/ UpdateItem(o, i, q)
                \/ LoadItem(o, i, q)
                \/ \E source \in Warehouses : TransferStock(o, i, source, q)
          \/ \E i \in Products : DeleteItem(o, i)
          \/ \E usable \in SUBSET Products : ReserveStock(o, usable)
          \/ UnreserveStock(o)
          \/ CancelOrder(o)
          \/ CheckStock(o)
          \/ CreatePartialDispatch(o)
          \/ \E child \in Orders : ApprovePartialDispatch(o, child)
          \/ RejectPartialDispatch(o)
          \/ StartPreparation(o)
          \/ DispatchOrder(o)
          \/ \E i \in Products, q \in 0..MaxQuantity : DeliverItem(o, i, q)
          \/ ConfirmDelivery(o)
          \/ \E i \in Products, y \in Outcomes : RegisterOutcome(o, i, y)
          \/ MarkAllConsumed(o)
          \/ ConfirmOutcome(o)
          \/ CloseOrder(o)
    BY <1>3 DEF OrderNext
  <2>2. CASE \/ \E w \in Warehouses, q \in Quantities : CreateOrder(o, w, q)
             \/ \E w \in Warehouses : UpdateOrder(o, w)
             \/ AssignOrder(o)
             \/ \E i \in Products, q \in 1..MaxQuantity :
                   AddItem(o, i, q) \/ UpdateItem(o, i, q) \/ LoadItem(o, i, q)
             \/ \E i \in Products : DeleteItem(o, i)
             \/ \E usable \in SUBSET Products : ReserveStock(o, usable)
             \/ UnreserveStock(o)
             \/ CancelOrder(o)
             \/ StartPreparation(o)
             \/ DispatchOrder(o)
    BY <2>2, EarlyHandlers, UntouchedLeftStep
  <2>3. CASE \E child \in Orders : ApprovePartialDispatch(o, child)
    BY <2>3, ApproveLeftStep, UntouchedLeftStep
  <2>4. CASE \/ \E i \in Products, q \in 0..MaxQuantity : DeliverItem(o, i, q)
             \/ \E i \in Products, y \in Outcomes : RegisterOutcome(o, i, y)
             \/ MarkAllConsumed(o)
    BY <2>4, LateHandlers
  <2>5. CASE \/ CheckStock(o)
             \/ CreatePartialDispatch(o)
             \/ RejectPartialDispatch(o)
             \/ ConfirmDelivery(o)
             \/ ConfirmOutcome(o)
             \/ CloseOrder(o)
             \/ \E i \in Products, q \in 1..MaxQuantity, source \in Warehouses :
                   TransferStock(o, i, source, q)
    BY <2>5, ConfirmingHandlers
  <2> QED BY <2>1, <2>2, <2>3, <2>4, <2>5
<1> QED BY <1>1, <1>2, <1>3 DEF Next

LEMMA LeftWhenDispatched ==
    ASSUME StageInv, NEW o \in Orders
    PROVE  dispatched_at[o] <=> status[o] \in LEFT_STATUSES
BY DEF StageInv, OrderStage

\* An order leaves the warehouse once, for good, with what it had reserved.
THEOREM LeavesForGood == Spec => LeavesOnce
<1>1. TypeInv /\ StageInv /\ [Next]_vars
        => \A o \in Orders : dispatched_at[o] =>
              /\ dispatched_at'[o]
              /\ status'[o] \in LEFT_STATUSES
              /\ order_warehouse'[o] = order_warehouse[o]
              /\ \A i \in Products :
                    /\ line'[o][i].dispatched = line[o][i].dispatched
                    /\ line'[o][i].reserved = line[o][i].reserved
  BY NextLeftStep, LeftWhenDispatched DEF LeftStep
<1> QED BY <1>1, InitType, NextType, InitStage, NextStage, PTL DEF Spec, LeavesOnce

\* A recorded outcome is final, the order can only be closed after it.
THEOREM OutcomeIsFinal == Spec => OutcomeFinal
<1>1. TypeInv /\ StageInv /\ [Next]_vars
        => \A o \in Orders : status[o] \in {"OUTCOME_RECORDED", "CLOSED"} =>
              /\ line'[o] = line[o]
              /\ status'[o] \in {status[o], "CLOSED"}
  BY NextLeftStep DEF LeftStep, LEFT_STATUSES
<1> QED BY <1>1, InitType, NextType, InitStage, NextStage, PTL DEF Spec, OutcomeFinal

-----------------------------------------------------------------------------
(***************************************************************************)
(* BALANCES.  The balances and the orders agree, for any number of orders, *)
(* products and warehouses.                                                *)
(*                                                                         *)
(* A balance is compared with a count over all orders.  The first section  *)
(* says how such a count changes when one order's share of it does; every  *)
(* handler then only has to account for the order it works on.  All of it  *)
(* takes OneLineEach, which the invariant carries.                         *)
(***************************************************************************)
-----------------------------------------------------------------------------
(* Counting units over the orders.                                          *)

Shares == [Orders -> 0..MaxQuantity]

Units(f) == {u \in Orders \X (1..MaxQuantity) : u[2] <= f[u[1]]}

Total(f) == Cardinality(Units(f))

LEMMA UnitsFinite ==
    ASSUME NEW f
    PROVE  IsFiniteSet(Units(f)) /\ Total(f) \in Nat
<1>1. IsFiniteSet(1..MaxQuantity)
  BY LogisticsAssumption, FS_Interval
<1>2. IsFiniteSet(Orders \X (1..MaxQuantity))
  BY <1>1, LogisticsAssumption, FS_Product
<1>3. IsFiniteSet(Units(f))
  BY <1>2, FS_Subset DEF Units
<1> QED BY <1>3, FS_CardinalityType DEF Total

LEMMA TotalNothing ==
    ASSUME NEW f \in Shares, \A o \in Orders : f[o] = 0
    PROVE  Total(f) = 0
<1>1. Units(f) = {} BY DEF Units
<1> QED BY <1>1, FS_EmptySet DEF Total

LEMMA TotalGrows ==
    ASSUME NEW f \in Shares, NEW g \in Shares, NEW o \in Orders,
           \A x \in Orders \ {o} : g[x] = f[x],
           f[o] <= g[o]
    PROVE  Total(g) = Total(f) + (g[o] - f[o])
<1> DEFINE a == f[o]
           b == g[o]
           more == {o} \X ((a + 1)..b)
<1>1. a \in 0..MaxQuantity /\ b \in 0..MaxQuantity /\ a <= b /\ MaxQuantity \in Nat
  BY LogisticsAssumption DEF Shares
<1>2. IsFiniteSet((a + 1)..b) /\ Cardinality((a + 1)..b) = b - a
  <2>1. a + 1 \in Int /\ b \in Int BY <1>1
  <2>2. /\ IsFiniteSet((a + 1)..b)
        /\ Cardinality((a + 1)..b) = IF a + 1 > b THEN 0 ELSE b - (a + 1) + 1
    <3> HIDE DEF a, b
    <3> QED BY <2>1, FS_Interval
  <2> QED BY <1>1, <2>2
<1>3. IsFiniteSet({o}) /\ Cardinality({o}) = 1 BY FS_Singleton
<1>4. IsFiniteSet(more) /\ Cardinality(more) = b - a
  <2>1. /\ IsFiniteSet({o} \X ((a + 1)..b))
        /\ Cardinality({o} \X ((a + 1)..b)) = Cardinality({o}) * Cardinality((a + 1)..b)
    BY <1>2, <1>3, FS_Product
  <2> QED BY <1>1, <1>2, <1>3, <2>1
<1>5. Units(g) = Units(f) \cup more
  <2>1. ASSUME NEW u \in Units(g) PROVE u \in Units(f) \cup more
    <3>1. u \in Orders \X (1..MaxQuantity) /\ u[2] <= g[u[1]] BY DEF Units
    <3>2. CASE u[1] # o BY <3>1, <3>2 DEF Units
    <3>3. CASE u[1] = o /\ u[2] <= a BY <3>1, <3>3 DEF Units
    <3>4. CASE u[1] = o /\ u[2] > a
      <4>1. u[2] \in (a + 1)..b BY <1>1, <3>1, <3>4
      <4> QED BY <3>1, <3>4, <4>1
    <3> QED BY <1>1, <3>1, <3>2, <3>3, <3>4
  <2>2. ASSUME NEW u \in Units(f) PROVE u \in Units(g)
    <3>1. u \in Orders \X (1..MaxQuantity) /\ u[2] <= f[u[1]] BY DEF Units
    <3>2. CASE u[1] # o BY <3>1, <3>2 DEF Units
    <3>3. CASE u[1] = o BY <1>1, <3>1, <3>3 DEF Units
    <3> QED BY <3>2, <3>3
  <2>3. ASSUME NEW u \in more PROVE u \in Units(g)
    <3>1. u \in {o} \X ((a + 1)..b) BY <2>3
    <3>2. u[1] = o /\ u[2] \in (a + 1)..b /\ u = <<u[1], u[2]>> BY <3>1
    <3>3. u[2] \in 1..MaxQuantity /\ u[2] <= b BY <1>1, <3>2
    <3> QED BY <3>2, <3>3 DEF Units
  <2> QED BY <2>1, <2>2, <2>3
<1>6. Units(f) \cap more = {}
  <2> SUFFICES ASSUME NEW u, u \in Units(f), u \in more PROVE FALSE
    OBVIOUS
  <2>1. u[1] = o /\ u[2] \in (a + 1)..b BY DEF Units
  <2>2. u[2] <= f[u[1]] BY DEF Units
  <2> QED BY <1>1, <2>1, <2>2
<1>7. Cardinality(Units(f) \cap more) = 0 BY <1>6, FS_EmptySet
<1>8. Cardinality(Units(f) \cup more)
        = Cardinality(Units(f)) + Cardinality(more) - Cardinality(Units(f) \cap more)
  <2> HIDE DEF more
  <2> QED BY <1>4, UnitsFinite, FS_Union
<1>9. Total(f) \in Nat BY UnitsFinite
<1> QED BY <1>1, <1>4, <1>5, <1>7, <1>8, <1>9 DEF Total

\* When one order's share changes, the total changes by as much.
LEMMA TotalChange ==
    ASSUME NEW f \in Shares, NEW g \in Shares, NEW o \in Orders,
           \A x \in Orders \ {o} : g[x] = f[x]
    PROVE  Total(g) = Total(f) + g[o] - f[o]
<1>1. f[o] \in Int /\ g[o] \in Int /\ Total(f) \in Int /\ Total(g) \in Int
  BY UnitsFinite, LogisticsAssumption DEF Shares
<1>2. CASE f[o] <= g[o] BY <1>1, <1>2, TotalGrows
<1>3. CASE g[o] <= f[o]
  <2>1. \A x \in Orders \ {o} : f[x] = g[x] OBVIOUS
  <2>2. Total(f) = Total(g) + (f[o] - g[o]) BY <1>3, <2>1, TotalGrows
  <2> QED BY <1>1, <2>2
<1> QED BY <1>1, <1>2, <1>3

-----------------------------------------------------------------------------
(* The shares of an order in a balance.                                     *)

\* What an order in status s of warehouse v holds of warehouse w by a line.
HeldIn(s, v, w, l) ==
    IF s \in ACTIVE_STOCK_RESERVATION_STATUSES /\ v = w THEN l.reserved ELSE 0

\* What it took out of it, and what it brought back.
OutIn(v, w, l) == IF v = w THEN l.dispatched ELSE 0

BackIn(v, w, l) == IF v = w THEN l.returned + l.returned_damaged ELSE 0

Held(w, i) ==
    [o \in Orders |-> HeldIn(status[o], order_warehouse[o], w, line[o][i])]

Out(w, i) == [o \in Orders |-> OutIn(order_warehouse[o], w, line[o][i])]

Back(w, i) == [o \in Orders |-> BackIn(order_warehouse[o], w, line[o][i])]

\* No line asks for more than a client may: the counts are taken up to there.
RequestsBounded ==
    \A o \in Orders, i \in Products : line[o][i].requested <= MaxQuantity

\* Both states of a step need the shares to be in range: the first lemma is
\* about a line, the others about a state.
LEMMA ShareTyped ==
    ASSUME NEW l \in Line, LineChained(l), l.requested <= MaxQuantity,
           NEW s, NEW v, NEW w
    PROVE  /\ HeldIn(s, v, w, l) \in 0..MaxQuantity
           /\ OutIn(v, w, l) \in 0..MaxQuantity
           /\ BackIn(v, w, l) \in 0..MaxQuantity
<1>1. /\ 0 \in 0..MaxQuantity
      /\ l.reserved \in 0..MaxQuantity
      /\ l.dispatched \in 0..MaxQuantity
      /\ l.returned + l.returned_damaged \in 0..MaxQuantity
  BY LogisticsAssumption DEF Line, LineChained, OutcomeTotal
<1> QED BY <1>1 DEF HeldIn, OutIn, BackIn

LEMMA SharesTyped ==
    ASSUME TypeInv, StageInv, RequestsBounded, NEW w, NEW i \in Products
    PROVE  Held(w, i) \in Shares /\ Out(w, i) \in Shares /\ Back(w, i) \in Shares
<1>1. \A o \in Orders : /\ line[o][i] \in Line /\ LineChained(line[o][i])
                       /\ line[o][i].requested <= MaxQuantity
  BY DEF TypeInv, TypeOK, RequestsBounded, StageInv, OrderStage, LineStage
<1> QED BY <1>1, ShareTyped DEF Shares, Held, Out, Back

LEMMA SharesTypedNext ==
    ASSUME TypeInv', StageInv', RequestsBounded', NEW w, NEW i \in Products
    PROVE  Held(w, i)' \in Shares /\ Out(w, i)' \in Shares /\ Back(w, i)' \in Shares
<1>1. \A o \in Orders : /\ line'[o][i] \in Line /\ LineChained(line'[o][i])
                       /\ line'[o][i].requested <= MaxQuantity
  BY DEF TypeInv, TypeOK, RequestsBounded, StageInv, OrderStage, LineStage
<1> QED BY <1>1, ShareTyped DEF Shares, Held, Out, Back

-----------------------------------------------------------------------------
(* When no order has two lines of one product, a line stands in the place   *)
(* of its product, and a loop over the lines meets every balance once, as   *)
(* it is stored.                                                            *)

LEMMA OneLineSum ==
    ASSUME OneLineEach, NEW f, NEW p \in Products
    PROVE  OfProduct(f, p) = f[p]
BY DEF OneLineEach, OfProduct, SecondPlaces

LEMMA OneLineRows ==
    ASSUME OneLineEach, NEW o \in Orders, NEW rows
    PROVE  SetBalances(o, rows) <=>
              stock' = [stock EXCEPT ![order_warehouse[o]] =
                           [p \in Products |->
                              IF p \in Lines(o) THEN rows[p] ELSE @[p]]]
<1>1. ASSUME NEW p \in Products
      PROVE  (LinesOf(o, p) # {} <=> p \in Lines(o)) /\ LastLine(o, p) = p
  <2>1. LinesOf(o, p) = {p} \cap Lines(o) BY DEF OneLineEach, LinesOf, Lines
  <2> QED BY <2>1 DEF LastLine
<1>2. \A f : [p \in Products |-> IF LinesOf(o, p) # {} THEN rows[LastLine(o, p)]
                                                       ELSE f[p]]
               = [p \in Products |-> IF p \in Lines(o) THEN rows[p] ELSE f[p]]
  BY <1>1
<1>3. (stock' = [stock EXCEPT ![order_warehouse[o]] =
                    [p \in Products |-> IF LinesOf(o, p) # {}
                                        THEN rows[LastLine(o, p)] ELSE @[p]]])
        <=> SetBalances(o, rows)
  BY DEF SetBalances
<1> QED BY <1>2, <1>3

LEMMA OneLineReserve ==
    ASSUME OneLineEach, NEW o, NEW i \in Products, NEW usable
    PROVE  RowForReserve(o, i, usable) = LockedBalance(o, i, stock[order_warehouse[o]][i])
BY DEF OneLineEach, RowForReserve, Found

LEMMA OneLineRelease ==
    ASSUME OneLineEach, NEW o
    PROVE  ReleaseReservations(o) <=>
              /\ \A i \in Lines(o) :
                    RowFreed(o, i, stock[order_warehouse[o]][i]).reserved >= 0
              /\ SetBalances(o, [i \in Products |->
                                   RowFreed(o, i, stock[order_warehouse[o]][i])])
              /\ SetLines(o, [i \in Products |->
                                [line[o][i] EXCEPT !.reserved = 0, !.loaded = 0]])
<1> DEFINE stored(i) == stock[order_warehouse[o]][item_id[i]]
           found(i) == IF i # item_id[i] /\ item_id[i] \in Lines(o)
                       THEN RowFreed(o, item_id[i], stored(i)) ELSE stored(i)
           freed(i) == RowFreed(o, i, found(i))
           simple(i) == RowFreed(o, i, stock[order_warehouse[o]][i])
<1>1. ReleaseReservations(o) <=>
         /\ \A i \in Lines(o) : freed(i).reserved >= 0
         /\ SetBalances(o, [i \in Products |-> freed(i)])
         /\ SetLines(o, [i \in Products |->
                           [line[o][i] EXCEPT !.reserved = 0, !.loaded = 0]])
  BY DEF ReleaseReservations, Found
<1>2. \A i \in Products : freed(i) = simple(i) BY DEF OneLineEach
<1>3. \A i \in Lines(o) : i \in Products BY DEF Lines
<1> HIDE DEF freed, simple
<1>4. [i \in Products |-> freed(i)] = [i \in Products |-> simple(i)] BY <1>2
<1>5. (\A i \in Lines(o) : freed(i).reserved >= 0)
         <=> (\A i \in Lines(o) : simple(i).reserved >= 0)
  BY <1>2, <1>3
<1>6. ReleaseReservations(o) <=>
         /\ \A i \in Lines(o) : simple(i).reserved >= 0
         /\ SetBalances(o, [i \in Products |-> simple(i)])
         /\ SetLines(o, [i \in Products |->
                           [line[o][i] EXCEPT !.reserved = 0, !.loaded = 0]])
  BY <1>1, <1>4, <1>5
<1> QED BY <1>6 DEF simple

LEMMA OneLineDispatch ==
    ASSUME OneLineEach, NEW o
    PROVE  DispatchOrder(o) <=>
              LET w == order_warehouse[o]
                  row(i) == Synced(w, i, stock[w][i])
                  loaded(i) == line[o][i].loaded
              IN  /\ status[o] \in {"IN_PREPARATION", "LOADED"}
                  /\ ~dispatched_at[o]
                  /\ Lines(o) # {}
                  /\ \A i \in Lines(o) : /\ loaded(i) > 0
                                         /\ loaded(i) = line[o][i].reserved
                                         /\ loaded(i) <= row(i).reserved
                                         /\ loaded(i) <= row(i).on_hand
                  /\ SetBalances(o, [i \in Products |->
                                       [row(i) EXCEPT !.on_hand  = @ - loaded(i),
                                                      !.reserved = @ - loaded(i)]])
                  /\ SetLines(o, [i \in Products |->
                                    [line[o][i] EXCEPT !.dispatched = loaded(i)]])
                  /\ SetStatus(o, "OUT_OF_WAREHOUSE")
                  /\ dispatched_at' = [dispatched_at EXCEPT ![o] = TRUE]
                  /\ UNCHANGED <<order_warehouse, pending_request, entered, purchase>>
<1> DEFINE w == order_warehouse[o]
           stored(i) == stock[w][item_id[i]]
           found(i) == IF i # item_id[i] /\ item_id[i] \in Lines(o)
                       THEN RowDispatched(o, item_id[i], stored(i)) ELSE stored(i)
           row(i) == RowForDispatch(o, i, found(i))
           simple(i) == Synced(w, i, stock[w][i])
           loaded(i) == line[o][i].loaded
           fits(r, i) == /\ loaded(i) > 0
                         /\ loaded(i) = line[o][i].reserved
                         /\ loaded(i) <= r.reserved
                         /\ loaded(i) <= r.on_hand
           sent(r, i) == [r EXCEPT !.on_hand  = @ - loaded(i), !.reserved = @ - loaded(i)]
           rest == /\ SetLines(o, [i \in Products |->
                                     [line[o][i] EXCEPT !.dispatched = loaded(i)]])
                   /\ SetStatus(o, "OUT_OF_WAREHOUSE")
                   /\ dispatched_at' = [dispatched_at EXCEPT ![o] = TRUE]
                   /\ UNCHANGED <<order_warehouse, pending_request, entered, purchase>>
           checked == /\ status[o] \in {"IN_PREPARATION", "LOADED"}
                      /\ ~dispatched_at[o]
                      /\ Lines(o) # {}
<1>1. DispatchOrder(o) <=> /\ checked
                           /\ \A i \in Lines(o) : fits(row(i), i)
                           /\ SetBalances(o, [i \in Products |-> sent(row(i), i)])
                           /\ rest
  BY DEF DispatchOrder, Found
<1>2. \A i \in Products : row(i) = simple(i) BY DEF OneLineEach, RowForDispatch
<1>3. \A i \in Lines(o) : i \in Products BY DEF Lines
<1>4. [i \in Products |-> sent(row(i), i)] = [i \in Products |-> sent(simple(i), i)]
  <2> HIDE DEF sent, row, simple
  <2> QED BY <1>2
<1>5. (\A i \in Lines(o) : fits(row(i), i)) <=> (\A i \in Lines(o) : fits(simple(i), i))
  <2> HIDE DEF fits, row, simple
  <2> QED BY <1>2, <1>3
<1>6. DispatchOrder(o) <=> /\ checked
                           /\ \A i \in Lines(o) : fits(simple(i), i)
                           /\ SetBalances(o, [i \in Products |-> sent(simple(i), i)])
                           /\ rest
  <2> HIDE DEF checked, fits, sent, row, simple, rest
  <2> QED BY <1>1, <1>4, <1>5
<1> QED BY <1>6, Zenon

LEMMA ReservedIsTotal ==
    ASSUME OneLineEach, NEW w, NEW i \in Products
    PROVE  ReservedByActiveOrders(w, i) = Total(Held(w, i))
<1>1. ReservedUnits(w, i) = Units(Held(w, i))
  <2>1. ASSUME NEW u \in Orders \X (1..MaxQuantity)
        PROVE  (/\ status[u[1]] \in ACTIVE_STOCK_RESERVATION_STATUSES
                /\ order_warehouse[u[1]] = w
                /\ u[2] <= line[u[1]][i].reserved)
               <=> u[2] <= Held(w, i)[u[1]]
    <3>1. u[1] \in Orders /\ u[2] >= 1 /\ u[2] \in Int
      BY LogisticsAssumption
    <3>2. Held(w, i)[u[1]] = HeldIn(status[u[1]], order_warehouse[u[1]], w, line[u[1]][i])
      BY <3>1 DEF Held
    <3> QED BY <3>1, <3>2 DEF HeldIn
  <2> QED BY <2>1 DEF ReservedUnits, Units
<1> DEFINE f == [k \in Products |-> Cardinality(ReservedUnits(w, k))]
<1>2. ReservedByActiveOrders(w, i) = OfProduct(f, i) BY DEF ReservedByActiveOrders
<1>3. f[i] = Cardinality(ReservedUnits(w, i)) OBVIOUS
<1> HIDE DEF f
<1>4. OfProduct(f, i) = f[i] BY OneLineSum
<1> QED BY <1>1, <1>2, <1>3, <1>4 DEF Total

\* UnitsConserved in terms of the totals.
BookedExactly(w, i) ==
    stock[w][i].on_hand = entered[w][i] - Total(Out(w, i)) + Total(Back(w, i))

LEMMA ConservedIsBooked ==
    ASSUME OneLineEach
    PROVE  UnitsConserved <=> \A w \in Warehouses, i \in Products : BookedExactly(w, i)
<1>1. ASSUME NEW w \in Warehouses, NEW i \in Products
      PROVE  {u \in Orders \X (1..MaxQuantity) :
                 order_warehouse[u[1]] = w /\ u[2] <= line[u[1]][i].dispatched}
               = Units(Out(w, i))
  <2>1. ASSUME NEW u \in Orders \X (1..MaxQuantity)
        PROVE  (order_warehouse[u[1]] = w /\ u[2] <= line[u[1]][i].dispatched)
               <=> u[2] <= Out(w, i)[u[1]]
    <3>1. u[1] \in Orders /\ u[2] >= 1 /\ u[2] \in Int
      BY LogisticsAssumption
    <3> QED BY <3>1 DEF Out, OutIn
  <2> QED BY <2>1 DEF Units
<1>2. ASSUME NEW w \in Warehouses, NEW i \in Products
      PROVE  {u \in Orders \X (1..MaxQuantity) :
                 /\ order_warehouse[u[1]] = w
                 /\ u[2] <= line[u[1]][i].returned + line[u[1]][i].returned_damaged}
               = Units(Back(w, i))
  <2>1. ASSUME NEW u \in Orders \X (1..MaxQuantity)
        PROVE  (/\ order_warehouse[u[1]] = w
                /\ u[2] <= line[u[1]][i].returned + line[u[1]][i].returned_damaged)
               <=> u[2] <= Back(w, i)[u[1]]
    <3>1. u[1] \in Orders /\ u[2] >= 1 /\ u[2] \in Int
      BY LogisticsAssumption
    <3> QED BY <3>1 DEF Back, BackIn
  <2> QED BY <2>1 DEF Units
<1>3. ASSUME NEW w \in Warehouses, NEW i \in Products
      PROVE  UnitsOut(w, i) = Total(Out(w, i)) /\ UnitsBack(w, i) = Total(Back(w, i))
  <2>1. UnitsOut(w, i)
          = Cardinality({u \in Orders \X (1..MaxQuantity) :
               order_warehouse[u[1]] = w /\ u[2] <= line[u[1]][i].dispatched})
    BY DEF UnitsOut, OrderUnits
  <2>2. UnitsBack(w, i)
          = Cardinality({u \in Orders \X (1..MaxQuantity) :
               /\ order_warehouse[u[1]] = w
               /\ u[2] <= line[u[1]][i].returned + line[u[1]][i].returned_damaged})
    BY DEF UnitsBack, OrderUnits
  <2> QED BY <1>1, <1>2, <2>1, <2>2 DEF Total
<1> DEFINE took(w) == [k \in Products |-> UnitsOut(w, k)]
           brought(w) == [k \in Products |-> UnitsBack(w, k)]
<1>4. \A w \in Warehouses, i \in Products :
         took(w)[i] = UnitsOut(w, i) /\ brought(w)[i] = UnitsBack(w, i)
  OBVIOUS
<1>5. UnitsConserved <=>
        \A w \in Warehouses, i \in Products :
            stock[w][i].on_hand = entered[w][i] - OfProduct(took(w), i)
                                    + OfProduct(brought(w), i)
  BY DEF UnitsConserved
<1> HIDE DEF took, brought
<1>6. \A w \in Warehouses, i \in Products :
         OfProduct(took(w), i) = took(w)[i] /\ OfProduct(brought(w), i) = brought(w)[i]
  BY OneLineSum
<1>7. \A w \in Warehouses, i \in Products :
         /\ OfProduct(took(w), i) = Total(Out(w, i))
         /\ OfProduct(brought(w), i) = Total(Back(w, i))
  BY <1>3, <1>4, <1>6
<1> QED BY <1>5, <1>7 DEF BookedExactly

-----------------------------------------------------------------------------
(* The invariant, and the two kinds of step.                                *)

BalanceKept(w, i) ==
    /\ ValidBalance(stock[w][i])
    /\ stock[w][i].reserved = Total(Held(w, i))
    /\ BookedExactly(w, i)

BalanceInv ==
    /\ OneLineEach
    /\ RequestsBounded
    /\ \A w \in Warehouses, i \in Products : BalanceKept(w, i)

\* What a step that works on order o owes a balance.
Settled(o, w, i) ==
    /\ ValidBalance(stock'[w][i])
    /\ stock'[w][i].reserved =
          stock[w][i].reserved
            + HeldIn(status'[o], order_warehouse'[o], w, line'[o][i])
            - HeldIn(status[o], order_warehouse[o], w, line[o][i])
    /\ stock'[w][i].on_hand - entered'[w][i] =
          stock[w][i].on_hand - entered[w][i]
            - OutIn(order_warehouse'[o], w, line'[o][i])
            + OutIn(order_warehouse[o], w, line[o][i])
            + BackIn(order_warehouse'[o], w, line'[o][i])
            - BackIn(order_warehouse[o], w, line[o][i])

LEMMA OneOrderBalances ==
    ASSUME TypeInv, TypeInv', StageInv, StageInv', BalanceInv, RequestsBounded',
           NEW o \in Orders,
           \A x \in Orders \ {o} : /\ status'[x] = status[x]
                                   /\ order_warehouse'[x] = order_warehouse[x]
                                   /\ line'[x] = line[x],
           \A w \in Warehouses, i \in Products : Settled(o, w, i)
    PROVE  BalanceInv'
<1> SUFFICES ASSUME NEW w \in Warehouses, NEW i \in Products
             PROVE  BalanceKept(w, i)'
  BY DEF BalanceInv, OneLineEach
<1>1. Held(w, i) \in Shares /\ Out(w, i) \in Shares /\ Back(w, i) \in Shares
  BY SharesTyped DEF BalanceInv
<1>2. Held(w, i)' \in Shares /\ Out(w, i)' \in Shares /\ Back(w, i)' \in Shares
  BY SharesTypedNext
<1>3. \A x \in Orders \ {o} : /\ Held(w, i)'[x] = Held(w, i)[x]
                              /\ Out(w, i)'[x] = Out(w, i)[x]
                              /\ Back(w, i)'[x] = Back(w, i)[x]
  BY DEF Held, Out, Back
<1>4. /\ Total(Held(w, i)') = Total(Held(w, i)) + Held(w, i)'[o] - Held(w, i)[o]
      /\ Total(Out(w, i)') = Total(Out(w, i)) + Out(w, i)'[o] - Out(w, i)[o]
      /\ Total(Back(w, i)') = Total(Back(w, i)) + Back(w, i)'[o] - Back(w, i)[o]
  BY <1>1, <1>2, <1>3, TotalChange
<1>5. /\ Held(w, i)[o] = HeldIn(status[o], order_warehouse[o], w, line[o][i])
      /\ Held(w, i)'[o] = HeldIn(status'[o], order_warehouse'[o], w, line'[o][i])
      /\ Out(w, i)[o] = OutIn(order_warehouse[o], w, line[o][i])
      /\ Out(w, i)'[o] = OutIn(order_warehouse'[o], w, line'[o][i])
      /\ Back(w, i)[o] = BackIn(order_warehouse[o], w, line[o][i])
      /\ Back(w, i)'[o] = BackIn(order_warehouse'[o], w, line'[o][i])
  BY DEF Held, Out, Back
<1>6. /\ stock[w][i] \in Balance /\ stock'[w][i] \in Balance
      /\ entered[w][i] \in Int /\ entered'[w][i] \in Int
  BY DEF TypeInv, TypeOK
<1>7. /\ Total(Held(w, i)) \in Int /\ Total(Out(w, i)) \in Int /\ Total(Back(w, i)) \in Int
      /\ Held(w, i)[o] \in Int /\ Out(w, i)[o] \in Int /\ Back(w, i)[o] \in Int
      /\ Held(w, i)'[o] \in Int /\ Out(w, i)'[o] \in Int /\ Back(w, i)'[o] \in Int
  BY <1>1, <1>2, UnitsFinite, LogisticsAssumption DEF Shares
<1>8. BalanceKept(w, i) /\ Settled(o, w, i) BY DEF BalanceInv
<1>9. stock'[w][i].reserved = Total(Held(w, i)')
  BY <1>4, <1>5, <1>7, <1>8 DEF BalanceKept, Settled
<1>10. stock'[w][i].on_hand = entered'[w][i] - Total(Out(w, i)') + Total(Back(w, i)')
  <2>1. stock[w][i].on_hand = entered[w][i] - Total(Out(w, i)) + Total(Back(w, i))
    BY <1>8 DEF BalanceKept, BookedExactly
  <2>2. stock'[w][i].on_hand - entered'[w][i] =
          stock[w][i].on_hand - entered[w][i] - Out(w, i)'[o] + Out(w, i)[o]
            + Back(w, i)'[o] - Back(w, i)[o]
    BY <1>5, <1>8 DEF Settled
  <2>3. stock[w][i].on_hand \in Int /\ stock'[w][i].on_hand \in Int
    BY <1>6 DEF Balance
  <2>4. Total(Out(w, i)') = Total(Out(w, i)) + Out(w, i)'[o] - Out(w, i)[o]
    BY <1>4
  <2>5. Total(Back(w, i)') = Total(Back(w, i)) + Back(w, i)'[o] - Back(w, i)[o]
    BY <1>4
  <2>6. PICK x \in Int, xx \in Int, y \in Int, yy \in Int :
           /\ x = Out(w, i)[o] /\ xx = Out(w, i)'[o]
           /\ y = Back(w, i)[o] /\ yy = Back(w, i)'[o]
    BY <1>7
  <2>7. PICK out \in Int, back \in Int : out = Total(Out(w, i)) /\ back = Total(Back(w, i))
    BY <1>7
  <2>8. PICK h \in Int, hh \in Int, e \in Int, ee \in Int :
           /\ h = stock[w][i].on_hand /\ hh = stock'[w][i].on_hand
           /\ e = entered[w][i] /\ ee = entered'[w][i]
    BY <1>6, <2>3
  <2>9. h = e - out + back BY <2>1, <2>7, <2>8
  <2>10. hh - ee = h - e - xx + x + yy - y BY <2>2, <2>6, <2>8
  <2>11. hh = ee - (out + xx - x) + (back + yy - y) BY <2>9, <2>10
  <2>12. Total(Out(w, i)') = out + xx - x BY <2>4, <2>6, <2>7
  <2>13. Total(Back(w, i)') = back + yy - y BY <2>5, <2>6, <2>7
  <2> QED BY <2>8, <2>11, <2>12, <2>13
<1> QED BY <1>8, <1>9, <1>10 DEF BalanceKept, BookedExactly, Settled

\* Order o's shares stay as they are.
SameShare(o) ==
    \A w \in Warehouses, i \in Products :
        /\ HeldIn(status'[o], order_warehouse'[o], w, line'[o][i])
             = HeldIn(status[o], order_warehouse[o], w, line[o][i])
        /\ OutIn(order_warehouse'[o], w, line'[o][i])
             = OutIn(order_warehouse[o], w, line[o][i])
        /\ BackIn(order_warehouse'[o], w, line'[o][i])
             = BackIn(order_warehouse[o], w, line[o][i])

\* A step that changes no order's share.
LEMMA SharesKept ==
    ASSUME TypeInv, TypeInv', BalanceInv, RequestsBounded',
           \A o \in Orders : SameShare(o),
           \A w \in Warehouses, i \in Products :
              /\ ValidBalance(stock'[w][i])
              /\ stock'[w][i].reserved = stock[w][i].reserved
              /\ stock'[w][i].on_hand - entered'[w][i]
                    = stock[w][i].on_hand - entered[w][i]
    PROVE  BalanceInv'
<1> SUFFICES ASSUME NEW w \in Warehouses, NEW i \in Products
             PROVE  BalanceKept(w, i)'
  BY DEF BalanceInv, OneLineEach
<1>2. /\ Held(w, i)' = Held(w, i) /\ Out(w, i)' = Out(w, i)
      /\ Back(w, i)' = Back(w, i)
  BY DEF Held, Out, Back, SameShare
<1>3. /\ stock[w][i] \in Balance /\ stock'[w][i] \in Balance
      /\ entered[w][i] \in Int /\ entered'[w][i] \in Int
      /\ Total(Out(w, i)) \in Int /\ Total(Back(w, i)) \in Int
  BY UnitsFinite DEF TypeInv, TypeOK
<1>4. BalanceKept(w, i) BY DEF BalanceInv
<1>5. stock'[w][i].on_hand = entered'[w][i] - Total(Out(w, i)) + Total(Back(w, i))
  BY <1>3, <1>4 DEF BalanceKept, BookedExactly, Balance
<1> QED BY <1>2, <1>4, <1>5 DEF BalanceKept, BookedExactly

\* A step that touches no order.
LEMMA NoOrderBalances ==
    ASSUME TypeInv, TypeInv', BalanceInv, UNCHANGED orderVars,
           \A w \in Warehouses, i \in Products :
              /\ ValidBalance(stock'[w][i])
              /\ stock'[w][i].reserved = stock[w][i].reserved
              /\ stock'[w][i].on_hand - entered'[w][i]
                    = stock[w][i].on_hand - entered[w][i]
    PROVE  BalanceInv'
<1>1. RequestsBounded' BY DEF BalanceInv, RequestsBounded
<1>2. \A o \in Orders : SameShare(o) BY DEF SameShare
<1> QED BY <1>1, <1>2, SharesKept

\* A step that writes order o and no balance.
LEMMA QuietOrder ==
    ASSUME TypeInv, TypeInv', BalanceInv, RequestsBounded', NEW o \in Orders,
           \A x \in Orders \ {o} : /\ status'[x] = status[x]
                                   /\ order_warehouse'[x] = order_warehouse[x]
                                   /\ line'[x] = line[x],
           SameShare(o), UNCHANGED stockVars
    PROVE  BalanceInv'
<1>1. \A x \in Orders : SameShare(x) BY DEF SameShare
<1>2. \A w \in Warehouses, i \in Products :
         /\ ValidBalance(stock'[w][i])
         /\ stock'[w][i].reserved = stock[w][i].reserved
         /\ stock'[w][i].on_hand - entered'[w][i] = stock[w][i].on_hand - entered[w][i]
  BY DEF BalanceInv, BalanceKept
<1> QED BY <1>1, <1>2, SharesKept

LEMMA NothingHeld ==
    ASSUME NEW l \in Line, LineChained(l), l.reserved = 0, NEW s, NEW v, NEW w
    PROVE  HeldIn(s, v, w, l) = 0 /\ OutIn(v, w, l) = 0 /\ BackIn(v, w, l) = 0
<1>1. /\ l.loaded \in Nat /\ l.dispatched \in Nat /\ l.delivered \in Nat
      /\ l.consumed \in Nat /\ l.returned \in Nat /\ l.returned_damaged \in Nat
      /\ l.lost \in Nat
  BY DEF Line
<1>2. l.dispatched = 0 /\ l.delivered = 0
  BY <1>1 DEF LineChained
<1>3. l.consumed + l.returned + l.returned_damaged + l.lost <= 0
  BY <1>2 DEF LineChained, OutcomeTotal
<1>4. l.returned = 0 /\ l.returned_damaged = 0
  BY <1>1, <1>3
<1> QED BY <1>2, <1>4 DEF HeldIn, OutIn, BackIn

\* An order that holds nothing before and after has no share in anything.
LEMMA IdleShare ==
    ASSUME TypeInv, TypeInv', StageInv, StageInv', NEW o \in Orders,
           \A i \in Products : line[o][i].reserved = 0 /\ line'[o][i].reserved = 0
    PROVE  SameShare(o)
<1>1. \A i \in Products : line[o][i] \in Line /\ LineChained(line[o][i])
  BY DEF TypeInv, TypeOK, StageInv, OrderStage, LineStage
<1>2. \A i \in Products : line'[o][i] \in Line /\ LineChained(line'[o][i])
  BY DEF TypeInv, TypeOK, StageInv, OrderStage, LineStage
<1> QED BY <1>1, <1>2, NothingHeld DEF SameShare

\* So has one that keeps what counts, whatever it does with the rest.
LEMMA KeptShare ==
    ASSUME NEW o \in Orders, order_warehouse'[o] = order_warehouse[o],
           status'[o] \in ACTIVE_STOCK_RESERVATION_STATUSES
              <=> status[o] \in ACTIVE_STOCK_RESERVATION_STATUSES,
           \A i \in Products :
              /\ line'[o][i].reserved = line[o][i].reserved
              /\ line'[o][i].dispatched = line[o][i].dispatched
              /\ line'[o][i].returned = line[o][i].returned
              /\ line'[o][i].returned_damaged = line[o][i].returned_damaged
    PROVE  SameShare(o)
BY DEF SameShare, HeldIn, OutIn, BackIn

LEMMA OneOrderRequests ==
    ASSUME BalanceInv, NEW o \in Orders, \A x \in Orders \ {o} : line'[x] = line[x],
           \A i \in Products : line'[o][i].requested <= MaxQuantity
    PROVE  RequestsBounded'
BY DEF BalanceInv, RequestsBounded

\* The repair inside the handlers never has work to do.
LEMMA SyncedIsStored ==
    ASSUME TypeInv, BalanceInv, NEW w \in Warehouses, NEW i \in Products
    PROVE  Synced(w, i, stock[w][i]) = stock[w][i]
<1>1. ValidBalance(stock[w][i]) /\ stock[w][i].reserved = ReservedByActiveOrders(w, i)
  BY ReservedIsTotal DEF BalanceInv, BalanceKept
<1>2. stock[w][i] \in Balance BY DEF TypeInv, TypeOK
<1>3. Larger(stock[w][i].on_hand, stock[w][i].reserved + stock[w][i].damaged)
        = stock[w][i].on_hand
  BY <1>1, <1>2 DEF ValidBalance, Available, Balance, Larger
<1> QED BY <1>1, <1>2, <1>3 DEF Synced, Balance

LEMMA LockedIsStored ==
    ASSUME TypeInv, BalanceInv, NEW o \in Orders, NEW i \in Products
    PROVE  LockedBalance(o, i, stock[order_warehouse[o]][i]) = stock[order_warehouse[o]][i]
<1>1. item_id[i] = i BY DEF BalanceInv, OneLineEach
<1>2. order_warehouse[o] \in Warehouses BY DEF TypeInv, TypeOK
<1>3. Synced(order_warehouse[o], i, stock[order_warehouse[o]][i])
        = stock[order_warehouse[o]][i]
  BY <1>2, SyncedIsStored
<1> QED BY <1>1, <1>3 DEF LockedBalance

LEMMA ReserveIsStored ==
    ASSUME TypeInv, BalanceInv, NEW o \in Orders, NEW i \in Products, NEW usable
    PROVE  RowForReserve(o, i, usable) = stock[order_warehouse[o]][i]
BY LockedIsStored, OneLineReserve DEF BalanceInv

-----------------------------------------------------------------------------
(* Balances written by hand, and purchases.                                 *)

LEMMA SaveBalanceBalances ==
    ASSUME TypeInv, TypeInv', BalanceInv, NEW w \in Warehouses, NEW i \in Products,
           NEW new, SaveBalance(w, i, new), new.reserved = stock[w][i].reserved
    PROVE  BalanceInv'
<1>1. stock' = [stock EXCEPT ![w][i] = new] /\ UNCHANGED orderVars
      /\ entered' = [entered EXCEPT ![w][i] = @ + new.on_hand - stock[w][i].on_hand]
      /\ ValidBalance(new)
  BY DEF SaveBalance
<1>2. stock \in [Warehouses -> [Products -> Balance]]
      /\ entered \in [Warehouses -> [Products -> Int]]
  BY DEF TypeInv, TypeOK
<1> SUFFICES ASSUME NEW v \in Warehouses, NEW k \in Products
             PROVE  /\ ValidBalance(stock'[v][k])
                    /\ stock'[v][k].reserved = stock[v][k].reserved
                    /\ stock'[v][k].on_hand - entered'[v][k]
                          = stock[v][k].on_hand - entered[v][k]
  BY <1>1, NoOrderBalances
<1>3. CASE v = w /\ k = i
  <2>1. stock'[v][k] = new /\ entered'[v][k] = entered[w][i] + new.on_hand - stock[w][i].on_hand
    BY <1>1, <1>2, <1>3
  <2>2. new \in Balance BY <2>1 DEF TypeInv, TypeOK
  <2>3. new.on_hand \in Int /\ stock[w][i].on_hand \in Int /\ entered[w][i] \in Int
    BY <1>2, <2>2 DEF Balance
  <2> QED BY <1>1, <1>3, <2>1, <2>3
<1>4. CASE ~(v = w /\ k = i)
  <2>1. stock'[v][k] = stock[v][k] /\ entered'[v][k] = entered[v][k]
    BY <1>1, <1>2, <1>4
  <2> QED BY <2>1 DEF BalanceInv, BalanceKept
<1> QED BY <1>3, <1>4

LEMMA HandWrittenKeepsReserved ==
    ASSUME TypeInv, BalanceInv, NEW w \in Warehouses, NEW i \in Products, NEW h, NEW d
    PROVE  HandWritten(w, i, h, d).reserved = stock[w][i].reserved
BY ReservedIsTotal DEF HandWritten, BalanceInv, BalanceKept

LEMMA MovedKeepsReserved ==
    ASSUME NEW s \in Balance, NEW kind \in DeltaMovements, NEW q
    PROVE  Moved(kind, s, q).reserved = s.reserved
BY DEF Moved, DeltaMovements, Balance

LEMMA StockNextBalances ==
    ASSUME TypeInv, TypeInv', BalanceInv, StockNext
    PROVE  BalanceInv'
<1>1. PICK w \in Warehouses, i \in Items :
         \/ \E h, d \in 0..MaxOnHand : CreateStockBalance(w, i, h, d)
         \/ \E h, d \in 0..MaxOnHand : UpdateStockBalance(w, i, h, d)
         \/ \E h, d \in 0..MaxOnHand : Correction(w, i, h, d)
         \/ \E q \in 1..MaxQuantity, d \in 0..MaxOnHand : InitialStock(w, i, q, d)
         \/ \E q \in 1..MaxQuantity, kind \in DeltaMovements :
               CreateStockMovement(kind, w, i, q)
  BY DEF StockNext
<1>5. i \in Products BY DEF Items
<1>2. CASE \E h, d : SaveBalance(w, i, HandWritten(w, i, h, d))
  BY <1>2, <1>5, HandWrittenKeepsReserved, SaveBalanceBalances
<1>3. CASE \E q \in 1..MaxQuantity, kind \in DeltaMovements :
               CreateStockMovement(kind, w, i, q)
  <2>1. PICK q \in 1..MaxQuantity, kind \in DeltaMovements :
           SaveBalance(w, i, Moved(kind, stock[w][i], q))
    BY <1>3 DEF CreateStockMovement
  <2>2. stock[w][i] \in Balance BY <1>5 DEF TypeInv, TypeOK
  <2>3. Moved(kind, stock[w][i], q).reserved = stock[w][i].reserved
    BY <2>2, MovedKeepsReserved
  <2> QED BY <1>5, <2>1, <2>3, SaveBalanceBalances
<1>4. CASE \/ \E h, d \in 0..MaxOnHand : CreateStockBalance(w, i, h, d)
           \/ \E h, d \in 0..MaxOnHand : UpdateStockBalance(w, i, h, d)
           \/ \E h, d \in 0..MaxOnHand : Correction(w, i, h, d)
           \/ \E q \in 1..MaxQuantity, d \in 0..MaxOnHand : InitialStock(w, i, q, d)
  BY <1>2, <1>4, Zenon DEF CreateStockBalance, UpdateStockBalance, Correction, InitialStock
<1> QED BY <1>1, <1>3, <1>4

\* What is received is entered.
LEMMA ReceivePurchaseBalances ==
    ASSUME TypeInv, TypeInv', BalanceInv, NEW p \in Purchases, NEW q \in Quantities,
           ReceivePurchase(p, q)
    PROVE  BalanceInv'
<1> DEFINE w == purchase[p].warehouse
<1>1. w \in Warehouses BY DEF TypeInv, TypeOK, Purchase
<1>2. \A k \in Products : Brought(q)[k] = OfProduct(q, k) /\ Brought(q)[k] \in Nat
  BY QuantitiesAreNat, OfProductIsNat DEF Brought
<1>3. UNCHANGED orderVars BY DEF ReceivePurchase
<1> SUFFICES ASSUME NEW v \in Warehouses, NEW k \in Products
             PROVE  /\ ValidBalance(stock'[v][k])
                    /\ stock'[v][k].reserved = stock[v][k].reserved
                    /\ stock'[v][k].on_hand - entered'[v][k]
                          = stock[v][k].on_hand - entered[v][k]
  BY <1>3, NoOrderBalances
<1>4. ValidBalance(stock[v][k]) /\ stock[v][k] \in Balance /\ entered[v][k] \in Int
  BY DEF BalanceInv, BalanceKept, TypeInv, TypeOK
<1>5. CASE v # w
  BY <1>1, <1>4, <1>5 DEF ReceivePurchase, TypeInv, TypeOK
<1>6. CASE v = w
  <2> PICK n : n = Brought(q)[k] OBVIOUS
  <2>1. stock'[v][k] = [stock[v][k] EXCEPT !.on_hand = @ + n]
    BY <1>1, <1>6 DEF ReceivePurchase, TypeInv, TypeOK
  <2>2. entered'[v][k] = entered[v][k] + n
    BY <1>1, <1>6 DEF ReceivePurchase, TypeInv, TypeOK
  <2>3. n \in Nat BY <1>2
  <2>4. /\ stock'[v][k].on_hand = stock[v][k].on_hand + n
        /\ stock'[v][k].reserved = stock[v][k].reserved
        /\ stock'[v][k].damaged = stock[v][k].damaged
    BY <1>4, <2>1 DEF Balance
  <2>5. /\ stock[v][k].on_hand \in Nat /\ stock[v][k].reserved \in Nat
        /\ stock[v][k].damaged \in Nat
    BY <1>4 DEF Balance
  <2> QED BY <1>4, <2>2, <2>3, <2>4, <2>5 DEF ValidBalance, Available
<1> QED BY <1>5, <1>6

LEMMA CreatePurchaseFromOrderBalances ==
    ASSUME TypeInv, TypeInv', StageInv, StageInv', BalanceInv, NEW p \in Purchases,
           NEW o \in Orders, NEW usable \in SUBSET Products,
           CreatePurchaseFromOrder(p, o, usable)
    PROVE  BalanceInv'
<1>1. /\ status' = [status EXCEPT ![o] = "INSUFFICIENT_STOCK"]
      /\ UNCHANGED <<order_warehouse, line, stockVars>>
  BY DEF CreatePurchaseFromOrder
<1>2. status[o] \in {"ASSIGNED", "CANCELLED", "INSUFFICIENT_STOCK"} BY MissingUnits
<1>3. RequestsBounded' BY <1>1 DEF BalanceInv, RequestsBounded
<1>4. status'[o] = "INSUFFICIENT_STOCK" BY <1>1 DEF TypeInv, TypeOK
<1>5. SameShare(o)
  <2>1. CASE status[o] = "INSUFFICIENT_STOCK"
    BY <1>1, <1>4, <2>1, KeptShare
  <2>2. CASE status[o] \in {"ASSIGNED", "CANCELLED"}
    <3>1. \A i \in Products : line[o][i].reserved = 0
      BY <2>2 DEF StageInv, OrderStage, LineStage
    <3> QED BY <1>1, <3>1, IdleShare
  <2> QED BY <1>2, <2>1, <2>2
<1>6. \A x \in Orders \ {o} : status'[x] = status[x]
  BY <1>1 DEF TypeInv, TypeOK
<1> QED BY <1>1, <1>3, <1>5, <1>6, QuietOrder

LEMMA PurchaseNextBalances ==
    ASSUME TypeInv, TypeInv', StageInv, StageInv', BalanceInv, PurchaseNext
    PROVE  BalanceInv'
<1>1. CASE \E p \in Purchases, o \in Orders, usable \in SUBSET Products :
              CreatePurchaseFromOrder(p, o, usable)
  BY <1>1, CreatePurchaseFromOrderBalances
<1>2. CASE \E p \in Purchases, q \in Quantities : ReceivePurchase(p, q)
  BY <1>2, ReceivePurchaseBalances
<1>3. CASE /\ ~(\E p \in Purchases, o \in Orders, usable \in SUBSET Products :
                   CreatePurchaseFromOrder(p, o, usable))
           /\ ~(\E p \in Purchases, q \in Quantities : ReceivePurchase(p, q))
  <2>1. UNCHANGED orderVars BY <1>3, PurchaseKeepsOrders
  <2>2. UNCHANGED stockVars
    <3>1. PICK p \in Purchases :
             \/ \E o \in Orders, q \in Quantities : CreateLinkedPurchase(p, o, q)
             \/ \E w \in Warehouses, to \in BOOLEAN, q \in Quantities :
                   CreateFreePurchase(p, w, to, q)
             \/ \E w \in Warehouses : UpdatePurchase(p, w)
             \/ ApprovePurchase(p)
             \/ RejectPurchase(p)
             \/ \E q \in Quantities : MarkPurchased(p, q) \/ DeliverDirect(p, q)
             \/ CancelPurchase(p)
      BY <1>3 DEF PurchaseNext
    <3> QED BY <3>1, Zenon DEF CreateLinkedPurchase, CreateFreePurchase, UpdatePurchase,
               ApprovePurchase, RejectPurchase, MarkPurchased, DeliverDirect,
               CancelPurchase
  <2>3. \A w \in Warehouses, i \in Products :
           /\ ValidBalance(stock'[w][i])
           /\ stock'[w][i].reserved = stock[w][i].reserved
           /\ stock'[w][i].on_hand - entered'[w][i]
                 = stock[w][i].on_hand - entered[w][i]
    BY <2>2 DEF BalanceInv, BalanceKept
  <2> QED BY <2>1, <2>3, NoOrderBalances
<1> QED BY <1>1, <1>2, <1>3

-----------------------------------------------------------------------------
(* Handlers of orders that leave the balances alone.                        *)

\* Moving the status among the active ones, or among the others.
LEMMA StatusBalances ==
    ASSUME TypeInv, TypeInv', BalanceInv, NEW o \in Orders, NEW s,
           status' = [status EXCEPT ![o] = s],
           UNCHANGED <<order_warehouse, line, stockVars>>,
           s \in ACTIVE_STOCK_RESERVATION_STATUSES
              <=> status[o] \in ACTIVE_STOCK_RESERVATION_STATUSES
    PROVE  BalanceInv'
<1>1. status'[o] = s /\ \A x \in Orders \ {o} : status'[x] = status[x]
  BY DEF TypeInv, TypeOK
<1>2. RequestsBounded' BY DEF BalanceInv, RequestsBounded
<1>3. SameShare(o) BY <1>1, KeptShare
<1> QED BY <1>1, <1>2, <1>3, QuietOrder

\* The repair writes what is there already.
LEMMA CheckStockKeepsStock ==
    ASSUME TypeInv, BalanceInv, NEW o \in Orders, CheckStock(o)
    PROVE  UNCHANGED stockVars
<1> DEFINE v == order_warehouse[o]
           stored(i) == stock[v][item_id[i]]
           found(i) == IF i # item_id[i] /\ item_id[i] \in Lines(o)
                       THEN LockedBalance(o, item_id[i], stored(i)) ELSE stored(i)
           rows == [i \in Products |-> LockedBalance(o, i, found(i))]
<1>1. \A i \in Products : rows[i] = stock[v][i]
  <2>1. \A i \in Products : found(i) = stock[v][i] BY DEF BalanceInv, OneLineEach
  <2>2. \A i \in Products : LockedBalance(o, i, stock[v][i]) = stock[v][i]
    BY LockedIsStored
  <2> HIDE DEF found
  <2> QED BY <2>1, <2>2
<1>2. stock \in [Warehouses -> [Products -> Balance]] /\ v \in Warehouses
  BY DEF TypeInv, TypeOK
<1>3. SetBalances(o, rows) BY DEF CheckStock, Found
<1> HIDE DEF rows
<1>4. stock' = [stock EXCEPT ![v] = [i \in Products |->
                   IF i \in Lines(o) THEN rows[i] ELSE @[i]]]
  BY <1>3, OneLineRows DEF BalanceInv
<1>5. stock' = [stock EXCEPT ![v] = [i \in Products |-> stock[v][i]]]
  BY <1>1, <1>4
<1>6. stock' = stock BY <1>2, <1>5
<1> QED BY <1>6 DEF CheckStock

LEMMA StatusHandlersBalances ==
    ASSUME TypeInv, TypeInv', BalanceInv, NEW o \in Orders,
           \/ CheckStock(o)
           \/ CreatePartialDispatch(o)
           \/ RejectPartialDispatch(o)
           \/ StartPreparation(o)
           \/ ConfirmDelivery(o)
           \/ ConfirmOutcome(o)
           \/ CloseOrder(o)
    PROVE  BalanceInv'
<1>1. UNCHANGED <<order_warehouse, line, stockVars>>
  <2>1. CASE CheckStock(o) BY <2>1, CheckStockKeepsStock DEF CheckStock
  <2>2. CASE ~CheckStock(o)
    BY <2>2 DEF CreatePartialDispatch, RejectPartialDispatch, StartPreparation,
       ConfirmDelivery, ConfirmOutcome, CloseOrder
  <2> QED BY <2>1, <2>2
<1>2. status = [status EXCEPT ![o] = status[o]] BY DEF TypeInv, TypeOK
<1>3. \E s : /\ status' = [status EXCEPT ![o] = s]
             /\ s \in ACTIVE_STOCK_RESERVATION_STATUSES
                   <=> status[o] \in ACTIVE_STOCK_RESERVATION_STATUSES
  <2>1. CASE CheckStock(o)
    BY <2>1 DEF CheckStock, SetStatus, ACTIVE_STOCK_RESERVATION_STATUSES
  <2>2. CASE CreatePartialDispatch(o) \/ RejectPartialDispatch(o)
    BY <1>2, <2>2 DEF CreatePartialDispatch, RejectPartialDispatch
  <2>3. CASE StartPreparation(o)
    BY <2>3 DEF StartPreparation, SetStatus, ACTIVE_STOCK_RESERVATION_STATUSES
  <2>4. CASE ConfirmDelivery(o)
    <3>1. \/ status' = [status EXCEPT ![o] = "DELIVERED"]
          \/ status' = [status EXCEPT ![o] = "PARTIALLY_DELIVERED"]
      BY <2>4 DEF ConfirmDelivery, SetStatus
    <3>2. status[o] \notin ACTIVE_STOCK_RESERVATION_STATUSES
      BY <2>4 DEF ConfirmDelivery, ACTIVE_STOCK_RESERVATION_STATUSES
    <3> QED BY <3>1, <3>2 DEF ACTIVE_STOCK_RESERVATION_STATUSES
  <2>5. CASE ConfirmOutcome(o)
    <3>1. \/ status' = [status EXCEPT ![o] = "OUTCOME_RECORDED"]
          \/ status' = [status EXCEPT ![o] = "WITH_DIFFERENCES"]
      BY <2>5 DEF ConfirmOutcome, SetStatus
    <3>2. status[o] \notin ACTIVE_STOCK_RESERVATION_STATUSES
      BY <2>5 DEF ConfirmOutcome, ACTIVE_STOCK_RESERVATION_STATUSES, OUTCOME_STATUSES
    <3> QED BY <3>1, <3>2 DEF ACTIVE_STOCK_RESERVATION_STATUSES
  <2>6. CASE CloseOrder(o)
    <3>1. status' = [status EXCEPT ![o] = "CLOSED"] BY <2>6 DEF CloseOrder, SetStatus
    <3>2. status[o] \notin ACTIVE_STOCK_RESERVATION_STATUSES
      BY <2>6 DEF CloseOrder, ACTIVE_STOCK_RESERVATION_STATUSES
    <3>3. "CLOSED" \notin ACTIVE_STOCK_RESERVATION_STATUSES
      BY DEF ACTIVE_STOCK_RESERVATION_STATUSES
    <3> QED BY <3>1, <3>2, <3>3
  <2> QED BY <2>1, <2>2, <2>3, <2>4, <2>5, <2>6
<1> QED BY <1>1, <1>3, StatusBalances

\* Orders that hold nothing: they may change their warehouse and their lines.
LEMMA IdleOrderBalances ==
    ASSUME TypeInv, TypeInv', StageInv, StageInv', BalanceInv, NEW o \in Orders,
           \A x \in Orders \ {o} : /\ status'[x] = status[x]
                                   /\ order_warehouse'[x] = order_warehouse[x]
                                   /\ line'[x] = line[x],
           \A i \in Products : /\ line[o][i].reserved = 0
                               /\ line'[o][i].reserved = 0
                               /\ line'[o][i].requested <= MaxQuantity,
           UNCHANGED stockVars
    PROVE  BalanceInv'
<1>1. RequestsBounded' BY OneOrderRequests
<1>2. SameShare(o) BY IdleShare
<1> QED BY <1>1, <1>2, QuietOrder

LEMMA CreateOrderBalances ==
    ASSUME TypeInv, TypeInv', StageInv, StageInv', BalanceInv, NEW o \in Orders,
           NEW w \in Warehouses, NEW q \in Quantities, CreateOrder(o, w, q)
    PROVE  BalanceInv'
<1>1. \A i \in Products : line[o][i].reserved = 0
  BY DEF CreateOrder, StageInv, OrderStage, LineStage
<1>2. \A i \in Products : line'[o][i] = NewLine(q[i])
  BY DEF CreateOrder, TypeInv, TypeOK
<1>3. \A i \in Products : q[i] <= MaxQuantity
  BY LogisticsAssumption DEF Quantities
<1>4. \A i \in Products : line'[o][i].reserved = 0 /\ line'[o][i].requested <= MaxQuantity
  <2>1. \A n : NewLine(n).reserved = 0 /\ NewLine(n).requested = n BY DEF NewLine
  <2> QED BY <1>2, <1>3, <2>1
<1>5. \A x \in Orders \ {o} : /\ status'[x] = status[x]
                              /\ order_warehouse'[x] = order_warehouse[x]
                              /\ line'[x] = line[x]
  BY DEF CreateOrder, SetStatus, TypeInv, TypeOK
<1>6. UNCHANGED stockVars BY DEF CreateOrder
<1> QED BY <1>1, <1>4, <1>5, <1>6, IdleOrderBalances

LEMMA MutableHandlersBalances ==
    ASSUME TypeInv, TypeInv', StageInv, StageInv', BalanceInv, NEW o \in Orders,
           NEW w \in Warehouses, NEW i \in Products, NEW q \in 1..MaxQuantity,
           \/ UpdateOrder(o, w)
           \/ AssignOrder(o)
           \/ AddItem(o, i, q)
           \/ UpdateItem(o, i, q)
           \/ DeleteItem(o, i)
    PROVE  BalanceInv'
<1>1. \A k \in Products : line[o][k].reserved = 0
  BY DEF UpdateOrder, AssignOrder, AddItem, UpdateItem, DeleteItem, Mutable
<1>2. \A x \in Orders \ {o} : /\ status'[x] = status[x]
                              /\ order_warehouse'[x] = order_warehouse[x]
                              /\ line'[x] = line[x]
  BY DEF UpdateOrder, AssignOrder, AddItem, UpdateItem, DeleteItem, SetStatus,
         TypeInv, TypeOK
<1>3. UNCHANGED stockVars
  BY DEF UpdateOrder, AssignOrder, AddItem, UpdateItem, DeleteItem
<1>4. \A k \in Products : line[o][k] \in Line /\ line[o][k].requested <= MaxQuantity
  BY DEF TypeInv, TypeOK, BalanceInv, RequestsBounded
<1>5. q <= MaxQuantity /\ 0 <= MaxQuantity BY LogisticsAssumption
<1>6. \A k \in Products : line'[o][k].reserved = 0 /\ line'[o][k].requested <= MaxQuantity
  <2> SUFFICES ASSUME NEW k \in Products
               PROVE  line'[o][k].reserved = 0 /\ line'[o][k].requested <= MaxQuantity
    OBVIOUS
  <2>1. CASE line'[o][k] = line[o][k] BY <1>1, <1>4, <2>1
  <2>2. CASE line'[o][k] = NewLine(q) BY <1>5, <2>2 DEF NewLine
  <2>3. CASE line'[o][k] = NoLine BY <1>5, <2>3 DEF NoLine, NewLine
  <2>4. CASE line'[o][k] = [line[o][k] EXCEPT !.requested = q]
    BY <1>1, <1>4, <1>5, <2>4 DEF Line
  <2>5. \/ line'[o][k] = line[o][k] \/ line'[o][k] = NewLine(q) \/ line'[o][k] = NoLine
        \/ line'[o][k] = [line[o][k] EXCEPT !.requested = q]
    <3>1. CASE UpdateOrder(o, w) \/ AssignOrder(o)
      BY <3>1 DEF UpdateOrder, AssignOrder
    <3>2. CASE AddItem(o, i, q) BY <3>2 DEF AddItem, TypeInv, TypeOK
    <3>3. CASE UpdateItem(o, i, q) BY <3>3 DEF UpdateItem, TypeInv, TypeOK
    <3>4. CASE DeleteItem(o, i) BY <3>4 DEF DeleteItem, TypeInv, TypeOK
    <3> QED BY <3>1, <3>2, <3>3, <3>4
  <2> QED BY <2>1, <2>2, <2>3, <2>4, <2>5
<1> QED BY <1>1, <1>2, <1>3, <1>6, IdleOrderBalances

LEMMA LoadDeliverBalances ==
    ASSUME TypeInv, TypeInv', BalanceInv, NEW o \in Orders, NEW i \in Products,
           NEW q \in 0..MaxQuantity, LoadItem(o, i, q) \/ DeliverItem(o, i, q)
    PROVE  BalanceInv'
<1>1. \A x \in Orders \ {o} : /\ status'[x] = status[x]
                              /\ order_warehouse'[x] = order_warehouse[x]
                              /\ line'[x] = line[x]
  BY DEF LoadItem, DeliverItem, SetStatus, TypeInv, TypeOK
<1>2. UNCHANGED stockVars /\ order_warehouse'[o] = order_warehouse[o]
  BY DEF LoadItem, DeliverItem
<1>3. status'[o] \in ACTIVE_STOCK_RESERVATION_STATUSES
         <=> status[o] \in ACTIVE_STOCK_RESERVATION_STATUSES
  BY DEF LoadItem, DeliverItem, SetStatus, TypeInv, TypeOK,
         ACTIVE_STOCK_RESERVATION_STATUSES
<1>4. \A k \in Products : line[o][k] \in Line /\ line[o][k].requested <= MaxQuantity
  BY DEF TypeInv, TypeOK, BalanceInv, RequestsBounded
<1>5. \A k \in Products : /\ line'[o][k].reserved = line[o][k].reserved
                          /\ line'[o][k].dispatched = line[o][k].dispatched
                          /\ line'[o][k].returned = line[o][k].returned
                          /\ line'[o][k].returned_damaged = line[o][k].returned_damaged
                          /\ line'[o][k].requested = line[o][k].requested
  <2> SUFFICES ASSUME NEW k \in Products
               PROVE  /\ line'[o][k].reserved = line[o][k].reserved
                      /\ line'[o][k].dispatched = line[o][k].dispatched
                      /\ line'[o][k].returned = line[o][k].returned
                      /\ line'[o][k].returned_damaged = line[o][k].returned_damaged
                      /\ line'[o][k].requested = line[o][k].requested
    OBVIOUS
  <2>1. \/ line'[o][k] = line[o][k]
        \/ line'[o][k] = [line[o][k] EXCEPT !.loaded = q]
        \/ line'[o][k] = [line[o][k] EXCEPT !.delivered = q]
    <3>1. CASE LoadItem(o, i, q) BY <3>1 DEF LoadItem, TypeInv, TypeOK
    <3>2. CASE DeliverItem(o, i, q) BY <3>2 DEF DeliverItem, TypeInv, TypeOK
    <3> QED BY <3>1, <3>2
  <2> QED BY <1>4, <2>1 DEF Line
<1>6. RequestsBounded' BY <1>1, <1>4, <1>5, OneOrderRequests
<1>7. SameShare(o) BY <1>2, <1>3, <1>5, KeptShare
<1> QED BY <1>1, <1>2, <1>6, <1>7, QuietOrder

\* A split: what the order holds stays with it, the child holds nothing.
LEMMA ApprovePartialDispatchBalances ==
    ASSUME TypeInv, TypeInv', StageInv, StageInv', BalanceInv, NEW o \in Orders,
           NEW child \in Orders, ApprovePartialDispatch(o, child)
    PROVE  BalanceInv'
<1> DEFINE kept == [i \in Products |->
                      IF line[o][i].reserved > 0
                      THEN [line[o][i] EXCEPT !.requested = line[o][i].reserved]
                      ELSE NoLine]
           rest == [i \in Products |-> NewLine(line[o][i].requested - line[o][i].reserved)]
<1>1. /\ status[o] = "INSUFFICIENT_STOCK" /\ status[child] = "ABSENT" /\ o # child
      /\ status' = [status EXCEPT ![o] = "RESERVED", ![child] = "ASSIGNED"]
      /\ order_warehouse' = [order_warehouse EXCEPT ![child] = order_warehouse[o]]
      /\ line' = [line EXCEPT ![o] = kept, ![child] = rest]
      /\ UNCHANGED stockVars
  BY DEF ApprovePartialDispatch
<1>2. /\ line'[o] = kept /\ line'[child] = rest
      /\ status'[o] = "RESERVED" /\ order_warehouse'[o] = order_warehouse[o]
      /\ \A x \in Orders \ {o, child} : /\ status'[x] = status[x]
                                        /\ order_warehouse'[x] = order_warehouse[x]
                                        /\ line'[x] = line[x]
  <2> HIDE DEF kept, rest
  <2> QED BY <1>1 DEF TypeInv, TypeOK
<1>3. \A i \in Products : /\ line[o][i] \in Line /\ LineChained(line[o][i])
                          /\ line[o][i].requested <= MaxQuantity
  BY DEF TypeInv, TypeOK, BalanceInv, RequestsBounded, StageInv, OrderStage, LineStage
<1>4. SameShare(o)
  <2>1. \A i \in Products : /\ kept[i].reserved = line[o][i].reserved
                            /\ kept[i].dispatched = line[o][i].dispatched
                            /\ kept[i].returned = line[o][i].returned
                            /\ kept[i].returned_damaged = line[o][i].returned_damaged
    <3> SUFFICES ASSUME NEW i \in Products
                 PROVE  /\ kept[i].reserved = line[o][i].reserved
                        /\ kept[i].dispatched = line[o][i].dispatched
                        /\ kept[i].returned = line[o][i].returned
                        /\ kept[i].returned_damaged = line[o][i].returned_damaged
      OBVIOUS
    <3>1. CASE line[o][i].reserved > 0
      <4>1. kept[i] = [line[o][i] EXCEPT !.requested = line[o][i].reserved]
        BY <3>1
      <4> HIDE DEF kept
      <4> QED BY <1>3, <4>1 DEF Line
    <3>2. CASE ~(line[o][i].reserved > 0)
      <4>1. kept[i] = NoLine BY <3>2
      <4> HIDE DEF kept
      <4>2. line[o][i].reserved = 0 BY <1>3, <3>2 DEF Line
      <4>3. line[o][i].dispatched = 0 BY <1>3, <4>2 DEF Line, LineChained
      <4>4. BackIn(1, 1, line[o][i]) = 0 BY <1>3, <4>2, NothingHeld
      <4>5. line[o][i].returned = 0 /\ line[o][i].returned_damaged = 0
        BY <1>3, <4>4 DEF BackIn, Line
      <4> QED BY <4>1, <4>2, <4>3, <4>5 DEF NoLine, NewLine
    <3> QED BY <3>1, <3>2
  <2> HIDE DEF kept, rest
  <2>2. status'[o] \in ACTIVE_STOCK_RESERVATION_STATUSES
          <=> status[o] \in ACTIVE_STOCK_RESERVATION_STATUSES
    BY <1>1, <1>2 DEF ACTIVE_STOCK_RESERVATION_STATUSES
  <2>3. order_warehouse'[o] = order_warehouse[o] BY <1>2
  <2>4. \A i \in Products : /\ line'[o][i].reserved = line[o][i].reserved
                            /\ line'[o][i].dispatched = line[o][i].dispatched
                            /\ line'[o][i].returned = line[o][i].returned
                            /\ line'[o][i].returned_damaged = line[o][i].returned_damaged
    BY <1>2, <2>1
  <2> QED BY <2>2, <2>3, <2>4, KeptShare
<1>5. SameShare(child)
  <2>1. \A i \in Products : line[child][i].reserved = 0
    BY <1>1 DEF StageInv, OrderStage, LineStage
  <2>2. \A i \in Products : line'[child][i].reserved = 0
    BY <1>2 DEF NewLine
  <2> QED BY <2>1, <2>2, IdleShare
<1>6. \A x \in Orders : SameShare(x)
  <2>1. \A x \in Orders \ {o, child} : SameShare(x)
    <3> HIDE DEF kept, rest
    <3> QED BY <1>2 DEF SameShare
  <2> QED BY <1>4, <1>5, <2>1
<1>7. RequestsBounded'
  <2>1. \A i \in Products : kept[i].requested <= MaxQuantity
    <3> SUFFICES ASSUME NEW i \in Products PROVE kept[i].requested <= MaxQuantity
      OBVIOUS
    <3>1. line[o][i].reserved <= MaxQuantity
      BY <1>3, LogisticsAssumption DEF Line, LineChained
    <3>2. kept[i].requested = line[o][i].reserved \/ kept[i].requested = 0
      BY <1>3 DEF Line, NoLine, NewLine
    <3> HIDE DEF kept
    <3> QED BY <3>1, <3>2, LogisticsAssumption
  <2>2. \A i \in Products : rest[i].requested <= MaxQuantity
    BY <1>3, LogisticsAssumption DEF Line, LineChained, NewLine
  <2> HIDE DEF kept, rest
  <2> QED BY <1>2, <2>1, <2>2 DEF BalanceInv, RequestsBounded
<1>8. \A w \in Warehouses, i \in Products :
         /\ ValidBalance(stock'[w][i])
         /\ stock'[w][i].reserved = stock[w][i].reserved
         /\ stock'[w][i].on_hand - entered'[w][i] = stock[w][i].on_hand - entered[w][i]
  BY <1>1 DEF BalanceInv, BalanceKept
<1> QED BY <1>6, <1>7, <1>8, SharesKept

-----------------------------------------------------------------------------
(* Handlers that move units between an order and its warehouse.             *)

\* Order o's line goes from l to m while the balance of its warehouse goes
\* from s to t, and what the order holds of it from h to k.
RowSettled(s, t, h, k, l, m) ==
    /\ ValidBalance(t)
    /\ t.reserved = s.reserved + k - h
    /\ t.on_hand = s.on_hand - m.dispatched + l.dispatched
                     + (m.returned + m.returned_damaged)
                     - (l.returned + l.returned_damaged)
    /\ m.requested = l.requested

LEMMA MovingBalances ==
    ASSUME TypeInv, TypeInv', StageInv, StageInv', BalanceInv, NEW o \in Orders,
           \A x \in Orders \ {o} : status'[x] = status[x] /\ line'[x] = line[x],
           UNCHANGED <<order_warehouse, entered>>,
           \A w \in Warehouses : w # order_warehouse[o] => stock'[w] = stock[w],
           \A i \in Products :
              RowSettled(stock[order_warehouse[o]][i], stock'[order_warehouse[o]][i],
                         HeldIn(status[o], 0, 0, line[o][i]),
                         HeldIn(status'[o], 0, 0, line'[o][i]),
                         line[o][i], line'[o][i])
    PROVE  BalanceInv'
<1> DEFINE v == order_warehouse[o]
<1>1. RequestsBounded'
  <2>1. \A i \in Products : line'[o][i].requested <= MaxQuantity
    BY DEF RowSettled, BalanceInv, RequestsBounded
  <2> QED BY <2>1, OneOrderRequests
<1>2. ASSUME NEW w \in Warehouses, NEW i \in Products
      PROVE  Settled(o, w, i)
  <2>1. CASE w # v
    <3>1. stock'[w][i] = stock[w][i] /\ order_warehouse'[o] # w BY <2>1
    <3>2. ValidBalance(stock[w][i]) BY DEF BalanceInv, BalanceKept
    <3>3. stock[w][i].reserved \in Int /\ stock[w][i].on_hand \in Int /\ entered[w][i] \in Int
      BY DEF TypeInv, TypeOK, Balance
    <3> QED BY <2>1, <3>1, <3>2, <3>3 DEF Settled, HeldIn, OutIn, BackIn
  <2>2. CASE w = v
    <3> DEFINE s == stock[v][i]
               t == stock'[v][i]
               l == line[o][i]
               m == line'[o][i]
    <3>1. RowSettled(s, t, HeldIn(status[o], 0, 0, l), HeldIn(status'[o], 0, 0, m), l, m)
      OBVIOUS
    <3>2. /\ s \in Balance /\ t \in Balance /\ l \in Line /\ m \in Line
          /\ entered[v][i] \in Int
      BY <2>2 DEF TypeInv, TypeOK
    <3>3. /\ HeldIn(status[o], v, v, l) = HeldIn(status[o], 0, 0, l)
          /\ HeldIn(status'[o], v, v, m) = HeldIn(status'[o], 0, 0, m)
          /\ OutIn(v, v, l) = l.dispatched /\ OutIn(v, v, m) = m.dispatched
          /\ BackIn(v, v, l) = l.returned + l.returned_damaged
          /\ BackIn(v, v, m) = m.returned + m.returned_damaged
      BY DEF HeldIn, OutIn, BackIn
    <3>4. /\ s.on_hand \in Int /\ t.on_hand \in Int
          /\ l.dispatched \in Int /\ m.dispatched \in Int
          /\ l.returned + l.returned_damaged \in Int
          /\ m.returned + m.returned_damaged \in Int
      BY <3>2 DEF Balance, Line
    <3>5. t.on_hand - entered[v][i]
            = s.on_hand - entered[v][i] - m.dispatched + l.dispatched
                + (m.returned + m.returned_damaged) - (l.returned + l.returned_damaged)
      <4>1. PICK a \in Int, b \in Int, c \in Int, d \in Int, e \in Int, h \in Int, k \in Int :
               /\ a = s.on_hand /\ b = t.on_hand /\ c = l.dispatched /\ d = m.dispatched
               /\ e = entered[v][i]
               /\ h = l.returned + l.returned_damaged /\ k = m.returned + m.returned_damaged
        BY <3>2, <3>4
      <4>2. b = a - d + c + k - h BY <3>1, <4>1 DEF RowSettled
      <4>3. b - e = a - e - d + c + k - h BY <4>2
      <4> QED BY <4>1, <4>3
    <3>6. ValidBalance(t) /\ t.reserved = s.reserved + HeldIn(status'[o], v, v, m)
                                            - HeldIn(status[o], v, v, l)
      BY <3>1, <3>3 DEF RowSettled
    <3>7. order_warehouse'[o] = v /\ entered' = entered OBVIOUS
    <3>8. t.on_hand - entered[v][i]
            = s.on_hand - entered[v][i] - OutIn(v, v, m) + OutIn(v, v, l)
                + BackIn(v, v, m) - BackIn(v, v, l)
      BY <3>3, <3>5
    <3> QED BY <2>2, <3>6, <3>7, <3>8 DEF Settled
  <2> QED BY <2>1, <2>2
<1>3. \A x \in Orders \ {o} : order_warehouse'[x] = order_warehouse[x]
  OBVIOUS
<1> QED BY <1>1, <1>2, <1>3, OneOrderBalances

\* A product without a line, or a line the handler skips.
LEMMA RowKept ==
    ASSUME NEW s \in Balance, ValidBalance(s), NEW l \in Line, NEW h \in Int
    PROVE  RowSettled(s, s, h, h, l, l)
BY DEF RowSettled, Balance, Line

\* What is stored for order o's lines, balance by balance and line by line.
LEMMA StoredRows ==
    ASSUME TypeInv, OneLineEach, NEW o \in Orders, NEW rows, NEW lines,
           SetBalances(o, rows), SetLines(o, lines)
    PROVE  /\ \A x \in Orders \ {o} : line'[x] = line[x]
           /\ \A w \in Warehouses : w # order_warehouse[o] => stock'[w] = stock[w]
           /\ \A i \in Products :
                 /\ i \in Lines(o) => /\ stock'[order_warehouse[o]][i] = rows[i]
                                      /\ line'[o][i] = lines[i]
                 /\ i \notin Lines(o) =>
                       /\ stock'[order_warehouse[o]][i] = stock[order_warehouse[o]][i]
                       /\ line'[o][i] = line[o][i]
<1>1. stock' = [stock EXCEPT ![order_warehouse[o]] =
                   [p \in Products |-> IF p \in Lines(o) THEN rows[p] ELSE @[p]]]
  BY OneLineRows
<1> QED BY <1>1 DEF SetLines, TypeInv, TypeOK

\* A product without a line holds nothing.
LEMMA NoLineHolds ==
    ASSUME TypeInv, NEW o \in Orders, NEW i \in Products, i \notin Lines(o)
    PROVE  line[o][i].reserved = 0
BY DEF TypeInv, TypeOK, ReservedWithinRequested, Lines, Line

\* Up to the dispatch an order holds what its lines say.
LEMMA HeldByLine ==
    ASSUME StageInv, NEW o \in Orders, NEW i \in Products,
           status[o] \in {"ABSENT", "ASSIGNED", "CANCELLED"}
                            \cup ACTIVE_STOCK_RESERVATION_STATUSES
    PROVE  HeldIn(status[o], 0, 0, line[o][i]) = line[o][i].reserved
<1>1. status[o] \in {"ABSENT", "ASSIGNED", "CANCELLED"} => line[o][i].reserved = 0
  BY DEF StageInv, OrderStage, LineStage
<1> QED BY <1>1 DEF HeldIn

\* A reservation of q more units.
LEMMA TakenRow ==
    ASSUME NEW s \in Balance, ValidBalance(s), NEW l \in Line, NEW q \in Nat,
           q <= Positive(Available(s))
    PROVE  RowSettled(s, [s EXCEPT !.reserved = @ + q], l.reserved, l.reserved + q,
                      l, [l EXCEPT !.reserved = @ + q])
<1> DEFINE t == [s EXCEPT !.reserved = @ + q]
           m == [l EXCEPT !.reserved = @ + q]
<1>1. /\ t.on_hand = s.on_hand /\ t.damaged = s.damaged /\ t.reserved = s.reserved + q
      /\ m.dispatched = l.dispatched /\ m.returned = l.returned
      /\ m.returned_damaged = l.returned_damaged /\ m.requested = l.requested
  BY DEF Balance, Line
<1>2. /\ s.on_hand \in Nat /\ s.reserved \in Nat /\ s.damaged \in Nat
      /\ l.reserved \in Nat /\ l.dispatched \in Nat /\ l.returned \in Nat
      /\ l.returned_damaged \in Nat
  BY DEF Balance, Line
<1> HIDE DEF t, m
<1>3. ValidBalance(t)
  BY <1>1, <1>2 DEF ValidBalance, Available, Positive, Larger
<1>4. RowSettled(s, t, l.reserved, l.reserved + q, l, m)
  BY <1>1, <1>2, <1>3 DEF RowSettled
<1> QED BY <1>4 DEF t, m

LEMMA ReserveStockBalances ==
    ASSUME TypeInv, TypeInv', StageInv, StageInv', BalanceInv, NEW o \in Orders,
           NEW usable \in SUBSET Products, ReserveStock(o, usable)
    PROVE  BalanceInv'
<1> DEFINE v == order_warehouse[o]
           take(i) == QuantityToReserve(o, i, RowForReserve(o, i, usable), usable)
           rows == [i \in Products |->
                      [RowForReserve(o, i, usable) EXCEPT !.reserved = @ + take(i)]]
           lines == [i \in Products |-> [line[o][i] EXCEPT !.reserved = @ + take(i)]]
<1>1. /\ SetBalances(o, rows) /\ SetLines(o, lines)
      /\ UNCHANGED <<order_warehouse, entered>>
      /\ status[o] \in {"ASSIGNED", "INSUFFICIENT_STOCK"}
  BY DEF ReserveStock
<1>2. \A x \in Orders \ {o} : status'[x] = status[x]
  BY DEF ReserveStock, SetStatus, TypeInv, TypeOK
<1>3. status'[o] \in {"RESERVED", "INSUFFICIENT_STOCK"}
  BY DEF ReserveStock, SetStatus, TypeInv, TypeOK
<1>4. ASSUME NEW i \in Products
      PROVE  RowSettled(stock[v][i], stock'[v][i], HeldIn(status[o], 0, 0, line[o][i]),
                        HeldIn(status'[o], 0, 0, line'[o][i]), line[o][i], line'[o][i])
  <2>1. /\ stock[v][i] \in Balance /\ ValidBalance(stock[v][i]) /\ line[o][i] \in Line
        /\ RowForReserve(o, i, usable) = stock[v][i]
    BY ReserveIsStored DEF TypeInv, TypeOK, BalanceInv, BalanceKept
  <2>2. HeldIn(status[o], 0, 0, line[o][i]) = line[o][i].reserved
    BY <1>1, HeldByLine DEF ACTIVE_STOCK_RESERVATION_STATUSES
  <2>3. HeldIn(status'[o], 0, 0, line'[o][i]) = line'[o][i].reserved
    BY <1>3 DEF HeldIn, ACTIVE_STOCK_RESERVATION_STATUSES
  <2>4. CASE i \in Lines(o)
    <3>1. stock'[v][i] = rows[i] /\ line'[o][i] = lines[i]
      <4> HIDE DEF rows, lines
      <4> QED BY <1>1, <2>4, StoredRows DEF BalanceInv
    <3>2. /\ rows[i] = [stock[v][i] EXCEPT !.reserved = @ + take(i)]
          /\ lines[i] = [line[o][i] EXCEPT !.reserved = @ + take(i)]
      BY <2>1
    <3>3. take(i) \in Nat /\ take(i) <= Positive(Available(stock[v][i]))
      <4>1. take(i) \in Nat BY <2>1, QuantityToReserveBound
      <4>2. Available(stock[v][i]) \in Int BY <2>1 DEF Available, Balance
      <4>3. take(i) <= Positive(Available(RowForReserve(o, i, usable)))
        BY <2>1, <4>2, LogisticsAssumption DEF QuantityToReserve, Smaller, Positive, Larger,
           Line
      <4> QED BY <2>1, <4>1, <4>3
    <3>4. line'[o][i].reserved = line[o][i].reserved + take(i)
      BY <2>1, <3>1, <3>2 DEF Line
    <3> HIDE DEF take, rows, lines
    <3>5. RowSettled(stock[v][i], [stock[v][i] EXCEPT !.reserved = @ + take(i)],
                     line[o][i].reserved, line[o][i].reserved + take(i),
                     line[o][i], [line[o][i] EXCEPT !.reserved = @ + take(i)])
      BY <2>1, <3>3, TakenRow
    <3> QED BY <2>2, <2>3, <3>1, <3>2, <3>4, <3>5
  <2>5. CASE i \notin Lines(o)
    <3>1. stock'[v][i] = stock[v][i] /\ line'[o][i] = line[o][i]
      <4> HIDE DEF rows, lines
      <4> QED BY <1>1, <2>5, StoredRows DEF BalanceInv
    <3>2. line[o][i].reserved \in Int BY <2>1 DEF Line
    <3>3. RowSettled(stock[v][i], stock[v][i], line[o][i].reserved, line[o][i].reserved,
                     line[o][i], line[o][i])
      BY <2>1, <3>2, RowKept
    <3> QED BY <2>2, <2>3, <3>1, <3>3
  <2> QED BY <2>4, <2>5
<1>5. /\ \A x \in Orders \ {o} : line'[x] = line[x]
      /\ \A w \in Warehouses : w # order_warehouse[o] => stock'[w] = stock[w]
  <2> HIDE DEF rows, lines
  <2> QED BY <1>1, StoredRows DEF BalanceInv
<1> QED BY <1>1, <1>2, <1>4, <1>5, MovingBalances

\* A release gives back what the line holds.
LEMMA FreedRow ==
    ASSUME NEW s \in Balance, ValidBalance(s), NEW l \in Line, l.reserved <= s.reserved
    PROVE  RowSettled(s, [s EXCEPT !.reserved = @ - l.reserved], l.reserved, 0,
                      l, ResetLine(l))
<1> DEFINE t == [s EXCEPT !.reserved = @ - l.reserved]
           m == ResetLine(l)
<1>1. /\ t.on_hand = s.on_hand /\ t.damaged = s.damaged
      /\ t.reserved = s.reserved - l.reserved
      /\ m.dispatched = l.dispatched /\ m.returned = l.returned
      /\ m.returned_damaged = l.returned_damaged /\ m.requested = l.requested
  BY DEF Balance, Line, ResetLine
<1>2. /\ s.on_hand \in Nat /\ s.reserved \in Nat /\ s.damaged \in Nat
      /\ l.reserved \in Nat /\ l.dispatched \in Nat /\ l.returned \in Nat
      /\ l.returned_damaged \in Nat
  BY DEF Balance, Line
<1> HIDE DEF t, m
<1>3. ValidBalance(t)
  BY <1>1, <1>2 DEF ValidBalance, Available
<1>4. RowSettled(s, t, l.reserved, 0, l, m)
  BY <1>1, <1>2, <1>3 DEF RowSettled
<1> QED BY <1>4 DEF t, m

LEMMA ReleasingBalances ==
    ASSUME TypeInv, TypeInv', StageInv, StageInv', BalanceInv, NEW o \in Orders,
           UnreserveStock(o) \/ CancelOrder(o)
    PROVE  BalanceInv'
<1> DEFINE v == order_warehouse[o]
           freed == [i \in Products |-> RowFreed(o, i, stock[v][i])]
           reset == [i \in Products |-> [line[o][i] EXCEPT !.reserved = 0, !.loaded = 0]]
<1>1. /\ SetBalances(o, freed) /\ SetLines(o, reset)
      /\ \A i \in Lines(o) : freed[i].reserved >= 0
      /\ UNCHANGED <<order_warehouse, entered>>
  <2>1. ReleaseReservations(o) BY DEF UnreserveStock, CancelOrder
  <2>2. \A i \in Lines(o) : i \in Products BY DEF Lines
  <2> QED BY <2>1, <2>2, OneLineRelease DEF BalanceInv, UnreserveStock, CancelOrder
<1>2. status[o] \in {"ASSIGNED"} \cup ACTIVE_STOCK_RESERVATION_STATUSES
  BY DEF UnreserveStock, CancelOrder, CANCELLABLE_STATUSES
<1>3. /\ \A x \in Orders \ {o} : status'[x] = status[x]
      /\ status'[o] \in {"ASSIGNED", "CANCELLED"}
  BY DEF UnreserveStock, CancelOrder, SetStatus, TypeInv, TypeOK
<1>4. ASSUME NEW i \in Products
      PROVE  RowSettled(stock[v][i], stock'[v][i], HeldIn(status[o], 0, 0, line[o][i]),
                        HeldIn(status'[o], 0, 0, line'[o][i]), line[o][i], line'[o][i])
  <2>1. /\ stock[v][i] \in Balance /\ ValidBalance(stock[v][i]) /\ line[o][i] \in Line
        /\ LockedBalance(o, i, stock[v][i]) = stock[v][i]
    BY LockedIsStored DEF TypeInv, TypeOK, BalanceInv, BalanceKept
  <2>2. HeldIn(status[o], 0, 0, line[o][i]) = line[o][i].reserved
    BY <1>2, HeldByLine
  <2>3. HeldIn(status'[o], 0, 0, line'[o][i]) = 0
    BY <1>3 DEF HeldIn, ACTIVE_STOCK_RESERVATION_STATUSES
  <2>4. CASE i \in Lines(o)
    <3>1. stock'[v][i] = freed[i] /\ line'[o][i] = reset[i]
      <4> HIDE DEF freed, reset
      <4> QED BY <1>1, <2>4, StoredRows DEF BalanceInv
    <3>2. reset[i] = ResetLine(line[o][i]) BY DEF ResetLine
    <3>3. freed[i] = [stock[v][i] EXCEPT !.reserved = @ - line[o][i].reserved]
      <4>1. CASE line[o][i].reserved > 0 BY <2>1, <4>1 DEF RowFreed
      <4>2. CASE ~(line[o][i].reserved > 0)
        <5>1. line[o][i].reserved = 0 BY <2>1, <4>2 DEF Line
        <5>2. freed[i] = stock[v][i] BY <4>2 DEF RowFreed
        <5> HIDE DEF freed
        <5> QED BY <2>1, <5>1, <5>2 DEF Balance
      <4> QED BY <4>1, <4>2
    <3>4. line[o][i].reserved <= stock[v][i].reserved
      <4>1. freed[i].reserved >= 0 BY <1>1, <2>4
      <4>2. freed[i].reserved = stock[v][i].reserved - line[o][i].reserved
        <5> HIDE DEF freed
        <5> QED BY <2>1, <3>3 DEF Balance
      <4>3. stock[v][i].reserved \in Int /\ line[o][i].reserved \in Int
        BY <2>1 DEF Balance, Line
      <4> HIDE DEF freed
      <4> QED BY <4>1, <4>2, <4>3
    <3> HIDE DEF freed, reset
    <3>5. RowSettled(stock[v][i], [stock[v][i] EXCEPT !.reserved = @ - line[o][i].reserved],
                     line[o][i].reserved, 0, line[o][i], ResetLine(line[o][i]))
      BY <2>1, <3>4, FreedRow
    <3> QED BY <2>2, <2>3, <3>1, <3>2, <3>3, <3>5
  <2>5. CASE i \notin Lines(o)
    <3>1. stock'[v][i] = stock[v][i] /\ line'[o][i] = line[o][i]
      <4> HIDE DEF freed, reset
      <4> QED BY <1>1, <2>5, StoredRows DEF BalanceInv
    <3>2. line[o][i].reserved = 0 BY <2>5, NoLineHolds
    <3>3. RowSettled(stock[v][i], stock[v][i], 0, 0, line[o][i], line[o][i])
      BY <2>1, RowKept
    <3> QED BY <2>2, <2>3, <3>1, <3>2, <3>3
  <2> QED BY <2>4, <2>5
<1>5. /\ \A x \in Orders \ {o} : line'[x] = line[x]
      /\ \A w \in Warehouses : w # order_warehouse[o] => stock'[w] = stock[w]
  <2> HIDE DEF freed, reset
  <2> QED BY <1>1, StoredRows DEF BalanceInv
<1> QED BY <1>1, <1>3, <1>4, <1>5, MovingBalances

\* A dispatch of n units that the line had reserved.
LEMMA DispatchedRow ==
    ASSUME NEW s \in Balance, ValidBalance(s), NEW l \in Line, NEW n \in Nat,
           l.reserved = n, l.dispatched = 0, n <= s.reserved
    PROVE  RowSettled(s, [s EXCEPT !.on_hand = @ - n, !.reserved = @ - n], l.reserved, 0,
                      l, [l EXCEPT !.dispatched = n])
<1> DEFINE t == [s EXCEPT !.on_hand = @ - n, !.reserved = @ - n]
           m == [l EXCEPT !.dispatched = n]
<1>1. /\ t.on_hand = s.on_hand - n /\ t.damaged = s.damaged
      /\ t.reserved = s.reserved - n
      /\ m.dispatched = n /\ m.returned = l.returned
      /\ m.returned_damaged = l.returned_damaged /\ m.requested = l.requested
  BY DEF Balance, Line
<1>2. /\ s.on_hand \in Nat /\ s.reserved \in Nat /\ s.damaged \in Nat
      /\ l.returned \in Nat /\ l.returned_damaged \in Nat
  BY DEF Balance, Line
<1> HIDE DEF t, m
<1>3. ValidBalance(t)
  BY <1>1, <1>2 DEF ValidBalance, Available
<1>4. RowSettled(s, t, l.reserved, 0, l, m)
  BY <1>1, <1>2, <1>3 DEF RowSettled
<1> QED BY <1>4 DEF t, m

LEMMA DispatchOrderBalances ==
    ASSUME TypeInv, TypeInv', StageInv, StageInv', BalanceInv, NEW o \in Orders,
           DispatchOrder(o)
    PROVE  BalanceInv'
<1> DEFINE v == order_warehouse[o]
           sent == [i \in Products |->
                      [Synced(v, i, stock[v][i]) EXCEPT !.on_hand  = @ - line[o][i].loaded,
                                           !.reserved = @ - line[o][i].loaded]]
           gone == [i \in Products |->
                      [line[o][i] EXCEPT !.dispatched = line[o][i].loaded]]
<1>1. /\ SetBalances(o, sent) /\ SetLines(o, gone)
      /\ UNCHANGED <<order_warehouse, entered>>
      /\ status[o] \in {"IN_PREPARATION", "LOADED"} /\ ~dispatched_at[o]
  BY OneLineDispatch DEF BalanceInv
<1>2. status'[o] = "OUT_OF_WAREHOUSE" /\ \A x \in Orders \ {o} : status'[x] = status[x]
  BY DEF DispatchOrder, SetStatus, TypeInv, TypeOK
<1>3. v \in Warehouses BY DEF TypeInv, TypeOK
<1>4. ASSUME NEW i \in Products
      PROVE  RowSettled(stock[v][i], stock'[v][i], HeldIn(status[o], 0, 0, line[o][i]),
                        HeldIn(status'[o], 0, 0, line'[o][i]), line[o][i], line'[o][i])
  <2>1. /\ stock[v][i] \in Balance /\ ValidBalance(stock[v][i]) /\ line[o][i] \in Line
        /\ Synced(v, i, stock[v][i]) = stock[v][i]
    BY <1>3, SyncedIsStored DEF TypeInv, TypeOK, BalanceInv, BalanceKept
  <2>2. HeldIn(status[o], 0, 0, line[o][i]) = line[o][i].reserved
    BY <1>1, HeldByLine DEF ACTIVE_STOCK_RESERVATION_STATUSES
  <2>3. HeldIn(status'[o], 0, 0, line'[o][i]) = 0
    BY <1>2 DEF HeldIn, ACTIVE_STOCK_RESERVATION_STATUSES
  <2>4. CASE i \in Lines(o)
    <3>1. stock'[v][i] = sent[i] /\ line'[o][i] = gone[i]
      <4> HIDE DEF sent, gone
      <4> QED BY <1>1, <2>4, StoredRows DEF BalanceInv
    <3>2. /\ line[o][i].loaded = line[o][i].reserved
          /\ line[o][i].loaded <= stock[v][i].reserved
      BY <2>1, <2>4, OneLineDispatch DEF BalanceInv
    <3>3. line[o][i].loaded \in Nat BY <2>1 DEF Line
    <3>4. line[o][i].dispatched = 0
      BY <1>1 DEF StageInv, OrderStage, LineStage
    <3>5. /\ sent[i] = [stock[v][i] EXCEPT !.on_hand  = @ - line[o][i].loaded,
                                           !.reserved = @ - line[o][i].loaded]
          /\ gone[i] = [line[o][i] EXCEPT !.dispatched = line[o][i].loaded]
      BY <2>1
    <3> HIDE DEF sent, gone
    <3>6. RowSettled(stock[v][i], [stock[v][i] EXCEPT !.on_hand  = @ - line[o][i].loaded,
                                                      !.reserved = @ - line[o][i].loaded],
                     line[o][i].reserved, 0,
                     line[o][i], [line[o][i] EXCEPT !.dispatched = line[o][i].loaded])
      BY <2>1, <3>2, <3>3, <3>4, DispatchedRow
    <3> QED BY <2>2, <2>3, <3>1, <3>5, <3>6
  <2>5. CASE i \notin Lines(o)
    <3>1. stock'[v][i] = stock[v][i] /\ line'[o][i] = line[o][i]
      <4> HIDE DEF sent, gone
      <4> QED BY <1>1, <2>5, StoredRows DEF BalanceInv
    <3>2. line[o][i].reserved = 0 BY <2>5, NoLineHolds
    <3>3. RowSettled(stock[v][i], stock[v][i], 0, 0, line[o][i], line[o][i])
      BY <2>1, RowKept
    <3> QED BY <2>2, <2>3, <3>1, <3>2, <3>3
  <2> QED BY <2>4, <2>5
<1>5. /\ \A x \in Orders \ {o} : line'[x] = line[x]
      /\ \A w \in Warehouses : w # order_warehouse[o] => stock'[w] = stock[w]
  <2> HIDE DEF sent, gone
  <2> QED BY <1>1, StoredRows DEF BalanceInv
<1> QED BY <1>1, <1>2, <1>4, <1>5, MovingBalances

\* A corrected outcome books the difference of what came back.
LEMMA CorrectedRow ==
    ASSUME NEW s \in Balance, ValidBalance(s), NEW l \in Line, NEW x \in Outcomes,
           ReturnsChange(l, x) => LET c == CorrectedBalance(s, l, x)
                                  IN  c.on_hand >= 0 /\ c.damaged >= 0 /\ Available(c) >= 0
    PROVE  RowSettled(s, CorrectedBalance(s, l, x), 0, 0, l, WithOutcome(l, x))
<1> DEFINE t == CorrectedBalance(s, l, x)
           m == WithOutcome(l, x)
           a == x.returned - l.returned
           b == x.returned_damaged - l.returned_damaged
<1>1. /\ s.on_hand \in Nat /\ s.reserved \in Nat /\ s.damaged \in Nat
      /\ l.returned \in Nat /\ l.returned_damaged \in Nat /\ l.dispatched \in Nat
      /\ x.returned \in Nat /\ x.returned_damaged \in Nat
  BY LogisticsAssumption DEF Balance, Line, Outcomes
<1>2. /\ t.on_hand = s.on_hand + a + b /\ t.damaged = s.damaged + b
      /\ t.reserved = s.reserved
  BY DEF CorrectedBalance, Balance
<1>3. /\ m.dispatched = l.dispatched /\ m.returned = x.returned
      /\ m.returned_damaged = x.returned_damaged /\ m.requested = l.requested
  BY DEF WithOutcome, Line
<1>4. ReturnsChange(l, x) => t.on_hand >= 0 /\ t.damaged >= 0 /\ Available(t) >= 0
  OBVIOUS
<1>5. a \in Int /\ b \in Int BY <1>1
<1>6. ValidBalance(t)
  <2>1. CASE ReturnsChange(l, x)
    <3> HIDE DEF t, a, b
    <3> QED BY <1>1, <1>2, <1>4, <2>1 DEF ValidBalance
  <2>2. CASE ~ReturnsChange(l, x)
    <3>1. a = 0 /\ b = 0 BY <1>1, <2>2 DEF ReturnsChange
    <3>2. t.on_hand = s.on_hand /\ t.damaged = s.damaged BY <1>1, <1>2, <3>1
    <3> HIDE DEF t, a, b
    <3> QED BY <1>2, <3>2 DEF ValidBalance, Available
  <2> QED BY <2>1, <2>2
<1>7. t.on_hand = s.on_hand - m.dispatched + l.dispatched
                    + (m.returned + m.returned_damaged)
                    - (l.returned + l.returned_damaged)
  <2> HIDE DEF t, m
  <2> QED BY <1>1, <1>2, <1>3
<1> HIDE DEF t, m, a, b
<1>8. t.reserved = s.reserved + 0 - 0 BY <1>1, <1>2
<1>9. RowSettled(s, t, 0, 0, l, m)
  BY <1>3, <1>6, <1>7, <1>8 DEF RowSettled
<1> QED BY <1>9 DEF t, m

LEMMA OutcomeHoldsNothing ==
    ASSUME TypeInv, NEW o \in Orders, status[o] \in OUTCOME_STATUSES,
           status' = [status EXCEPT ![o] = OutcomeStatus(o)]
    PROVE  /\ \A l : HeldIn(status[o], 0, 0, l) = 0 /\ HeldIn(status'[o], 0, 0, l) = 0
           /\ \A x \in Orders \ {o} : status'[x] = status[x]
<1>1. status'[o] \in OUTCOME_STATUSES
  BY DEF OutcomeStatus, OUTCOME_STATUSES, TypeInv, TypeOK
<1> QED BY <1>1 DEF HeldIn, OUTCOME_STATUSES, ACTIVE_STOCK_RESERVATION_STATUSES,
                    TypeInv, TypeOK

LEMMA RegisterOutcomeBalances ==
    ASSUME TypeInv, TypeInv', StageInv, StageInv', BalanceInv, NEW o \in Orders,
           NEW i \in Products, NEW x \in Outcomes, RegisterOutcome(o, i, x)
    PROVE  BalanceInv'
<1> DEFINE v == order_warehouse[o]
<1>1. /\ status[o] \in OUTCOME_STATUSES
      /\ status' = [status EXCEPT ![o] = OutcomeStatus(o)]
      /\ OutcomeAccepted(o, i, stock[v][i], x)
      /\ UNCHANGED <<order_warehouse, entered>>
      /\ v \in Warehouses /\ item_id[i] = i
  BY DEF BalanceInv, OneLineEach, RegisterOutcome, SetStatus, TypeInv, TypeOK
<1>2. /\ stock'[v][i] = CorrectedBalance(stock[v][i], line[o][i], x)
      /\ line'[o][i] = WithOutcome(line[o][i], x)
      /\ \A k \in Products \ {i} : stock'[v][k] = stock[v][k] /\ line'[o][k] = line[o][k]
      /\ \A y \in Orders \ {o} : line'[y] = line[y]
      /\ \A w \in Warehouses : w # v => stock'[w] = stock[w]
  BY <1>1 DEF RegisterOutcome, TypeInv, TypeOK
<1>3. ASSUME NEW k \in Products
      PROVE  RowSettled(stock[v][k], stock'[v][k], 0, 0, line[o][k], line'[o][k])
  <2>1. stock[v][k] \in Balance /\ ValidBalance(stock[v][k]) /\ line[o][k] \in Line
    BY <1>1 DEF TypeInv, TypeOK, BalanceInv, BalanceKept
  <2>2. CASE k = i
    <3>1. RowSettled(stock[v][i], CorrectedBalance(stock[v][i], line[o][i], x), 0, 0,
                     line[o][i], WithOutcome(line[o][i], x))
      BY <1>1, <2>1, <2>2, CorrectedRow DEF OutcomeAccepted
    <3> QED BY <1>2, <2>2, <3>1
  <2>3. CASE k # i
    <3>1. stock'[v][k] = stock[v][k] /\ line'[o][k] = line[o][k] BY <1>2, <2>3
    <3> QED BY <2>1, <3>1, RowKept
  <2> QED BY <2>2, <2>3
<1>4. /\ \A l : HeldIn(status[o], 0, 0, l) = 0 /\ HeldIn(status'[o], 0, 0, l) = 0
      /\ \A y \in Orders \ {o} : status'[y] = status[y]
  BY <1>1, OutcomeHoldsNothing
<1> QED BY <1>1, <1>2, <1>3, <1>4, MovingBalances

LEMMA MarkAllConsumedBalances ==
    ASSUME TypeInv, TypeInv', StageInv, StageInv', BalanceInv, NEW o \in Orders,
           MarkAllConsumed(o)
    PROVE  BalanceInv'
<1> DEFINE v == order_warehouse[o]
           used == ConsumableLines(o)
           all(i) == AllConsumed(line[o][i])
           stored(i) == stock[v][item_id[i]]
           found(i) == IF i # item_id[i] /\ item_id[i] \in Lines(o)
                       THEN RowConsumed(o, item_id[i], stored(i)) ELSE stored(i)
           rows == [i \in Products |-> RowConsumed(o, i, found(i))]
<1>1. /\ status[o] \in OUTCOME_STATUSES
      /\ status' = [status EXCEPT ![o] = OutcomeStatus(o)]
      /\ \A i \in used : OutcomeAccepted(o, i, found(i), all(i))
      /\ UNCHANGED <<order_warehouse, entered>>
      /\ v \in Warehouses
      /\ SetBalances(o, rows)
      /\ line' = [line EXCEPT ![o] = [i \in Products |->
                    IF i \in used THEN WithOutcome(@[i], all(i)) ELSE @[i]]]
  BY DEF MarkAllConsumed, Found, SetStatus, TypeInv, TypeOK
<1>5. \A i \in Products : found(i) = stock[v][i] BY DEF BalanceInv, OneLineEach
<1>6. used \subseteq Lines(o) /\ Lines(o) \subseteq Products
  BY DEF ConsumableLines, Lines
<1>7. \A i \in Products :
         rows[i] = IF i \in used THEN CorrectedBalance(stock[v][i], line[o][i], all(i))
                                 ELSE stock[v][i]
  <2> HIDE DEF found
  <2> QED BY <1>5 DEF RowConsumed
<1>8. stock' = [stock EXCEPT ![v] = [i \in Products |->
                   IF i \in Lines(o) THEN rows[i] ELSE @[i]]]
  <2> HIDE DEF rows
  <2> QED BY <1>1, OneLineRows DEF BalanceInv
<1>2. /\ \A i \in Products :
            /\ i \in used => /\ stock'[v][i] = CorrectedBalance(stock[v][i], line[o][i], all(i))
                             /\ line'[o][i] = WithOutcome(line[o][i], all(i))
            /\ i \notin used => stock'[v][i] = stock[v][i] /\ line'[o][i] = line[o][i]
      /\ \A y \in Orders \ {o} : line'[y] = line[y]
      /\ \A w \in Warehouses : w # v => stock'[w] = stock[w]
  <2> HIDE DEF rows, used, all
  <2>1. \A i \in Products : stock'[v][i] = IF i \in used
                        THEN CorrectedBalance(stock[v][i], line[o][i], all(i))
                        ELSE stock[v][i]
    BY <1>1, <1>6, <1>7, <1>8 DEF TypeInv, TypeOK
  <2>2. \A i \in Products : line'[o][i] = IF i \in used
                        THEN WithOutcome(line[o][i], all(i)) ELSE line[o][i]
    BY <1>1 DEF TypeInv, TypeOK
  <2>3. \A y \in Orders \ {o} : line'[y] = line[y] BY <1>1 DEF TypeInv, TypeOK
  <2>4. \A w \in Warehouses : w # v => stock'[w] = stock[w]
    BY <1>8 DEF TypeInv, TypeOK
  <2> QED BY <2>1, <2>2, <2>3, <2>4
<1>3. ASSUME NEW k \in Products
      PROVE  RowSettled(stock[v][k], stock'[v][k], 0, 0, line[o][k], line'[o][k])
  <2>1. stock[v][k] \in Balance /\ ValidBalance(stock[v][k]) /\ line[o][k] \in Line
    BY <1>1 DEF TypeInv, TypeOK, BalanceInv, BalanceKept
  <2>2. CASE k \in used
    <3>1. OutcomeAccepted(o, k, stock[v][k], all(k)) BY <1>1, <1>5, <2>2
    <3>2. all(k) \in Outcomes
      <4>1. LineChained(line[o][k]) /\ line[o][k].requested <= MaxQuantity
        BY DEF StageInv, OrderStage, LineStage, BalanceInv, RequestsBounded
      <4>2. line[o][k].delivered \in 0..MaxQuantity
        BY <2>1, <4>1, LogisticsAssumption DEF LineChained, Line
      <4> QED BY <4>2, LogisticsAssumption DEF Outcomes, AllConsumed
    <3> HIDE DEF all, used
    <3>3. RowSettled(stock[v][k], CorrectedBalance(stock[v][k], line[o][k], all(k)), 0, 0,
                     line[o][k], WithOutcome(line[o][k], all(k)))
      BY <2>1, <3>1, <3>2, CorrectedRow DEF OutcomeAccepted
    <3> QED BY <1>2, <2>2, <3>3
  <2>3. CASE k \notin used
    <3>1. stock'[v][k] = stock[v][k] /\ line'[o][k] = line[o][k] BY <1>2, <2>3
    <3> QED BY <2>1, <3>1, RowKept
  <2> QED BY <2>2, <2>3
<1>4. /\ \A l : HeldIn(status[o], 0, 0, l) = 0 /\ HeldIn(status'[o], 0, 0, l) = 0
      /\ \A y \in Orders \ {o} : status'[y] = status[y]
  BY <1>1, OutcomeHoldsNothing
<1> QED BY <1>1, <1>2, <1>3, <1>4, MovingBalances

\* A transfer takes what the source has available, and is entered on both sides.
LEMMA TransferStockBalances ==
    ASSUME TypeInv, TypeInv', BalanceInv, NEW o \in Orders, NEW i \in Products,
           NEW source \in Warehouses, NEW q \in 1..MaxQuantity,
           TransferStock(o, i, source, q)
    PROVE  BalanceInv'
<1> DEFINE v == order_warehouse[o]
<1>1. /\ v \in Warehouses /\ source # v /\ UNCHANGED orderVars
      /\ q <= Positive(Available(stock[source][i])) /\ item_id[i] = i
  BY DEF BalanceInv, OneLineEach, TransferStock, TypeInv, TypeOK
<1>2. stock \in [Warehouses -> [Products -> Balance]]
      /\ entered \in [Warehouses -> [Products -> Int]]
  BY DEF TypeInv, TypeOK
<1>3. q \in Nat /\ q >= 1 BY LogisticsAssumption
<1> SUFFICES ASSUME NEW w \in Warehouses, NEW k \in Products
             PROVE  /\ ValidBalance(stock'[w][k])
                    /\ stock'[w][k].reserved = stock[w][k].reserved
                    /\ stock'[w][k].on_hand - entered'[w][k]
                          = stock[w][k].on_hand - entered[w][k]
  BY <1>1, NoOrderBalances
<1>4. /\ ValidBalance(stock[w][k]) /\ stock[w][k] \in Balance /\ entered[w][k] \in Int
      /\ stock[w][k].on_hand \in Nat /\ stock[w][k].reserved \in Nat
      /\ stock[w][k].damaged \in Nat
  BY <1>2 DEF BalanceInv, BalanceKept, Balance
<1>5. CASE w = source /\ k = i
  <2>1. /\ stock'[w][k] = [stock[w][k] EXCEPT !.on_hand = @ - q]
        /\ entered'[w][k] = entered[w][k] - q
    BY <1>1, <1>2, <1>5 DEF TransferStock
  <2>2. /\ stock'[w][k].on_hand = stock[w][k].on_hand - q
        /\ stock'[w][k].reserved = stock[w][k].reserved
        /\ stock'[w][k].damaged = stock[w][k].damaged
    BY <1>4, <2>1 DEF Balance
  <2>3. q <= Available(stock[w][k])
    BY <1>1, <1>3, <1>4, <1>5 DEF Positive, Larger, Available
  <2> QED BY <1>3, <1>4, <2>1, <2>2, <2>3 DEF ValidBalance, Available
<1>6. CASE w = v /\ k = i
  <2>1. /\ stock'[w][k] = [stock[w][k] EXCEPT !.on_hand = @ + q]
        /\ entered'[w][k] = entered[w][k] + q
    BY <1>1, <1>2, <1>6 DEF TransferStock
  <2>2. /\ stock'[w][k].on_hand = stock[w][k].on_hand + q
        /\ stock'[w][k].reserved = stock[w][k].reserved
        /\ stock'[w][k].damaged = stock[w][k].damaged
    BY <1>4, <2>1 DEF Balance
  <2> QED BY <1>3, <1>4, <2>1, <2>2 DEF ValidBalance, Available
<1>7. CASE ~(w = source /\ k = i) /\ ~(w = v /\ k = i)
  <2>1. stock'[w][k] = stock[w][k] /\ entered'[w][k] = entered[w][k]
    BY <1>1, <1>2, <1>7 DEF TransferStock
  <2> QED BY <1>4, <2>1
<1> QED BY <1>5, <1>6, <1>7

-----------------------------------------------------------------------------
(* The theorems.                                                            *)

LEMMA OrderNextBalances ==
    ASSUME TypeInv, TypeInv', StageInv, StageInv', BalanceInv, OrderNext
    PROVE  BalanceInv'
<1>1. PICK o \in Orders :
        \/ \E w \in Warehouses, q \in Quantities : CreateOrder(o, w, q)
        \/ \E w \in Warehouses : UpdateOrder(o, w)
        \/ AssignOrder(o)
        \/ \E i \in Products, q \in 1..MaxQuantity :
              \/ AddItem(o, i, q)
              \/ UpdateItem(o, i, q)
              \/ LoadItem(o, i, q)
              \/ \E source \in Warehouses : TransferStock(o, i, source, q)
        \/ \E i \in Products : DeleteItem(o, i)
        \/ \E usable \in SUBSET Products : ReserveStock(o, usable)
        \/ UnreserveStock(o)
        \/ CancelOrder(o)
        \/ CheckStock(o)
        \/ CreatePartialDispatch(o)
        \/ \E child \in Orders : ApprovePartialDispatch(o, child)
        \/ RejectPartialDispatch(o)
        \/ StartPreparation(o)
        \/ DispatchOrder(o)
        \/ \E i \in Products, q \in 0..MaxQuantity : DeliverItem(o, i, q)
        \/ ConfirmDelivery(o)
        \/ \E i \in Products, x \in Outcomes : RegisterOutcome(o, i, x)
        \/ MarkAllConsumed(o)
        \/ ConfirmOutcome(o)
        \/ CloseOrder(o)
  BY DEF OrderNext
<1>2. order_warehouse[o] \in Warehouses /\ 1 \in 1..MaxQuantity
      /\ 1..MaxQuantity \subseteq 0..MaxQuantity
  BY LogisticsAssumption DEF TypeInv, TypeOK
<1>3. CASE \E w \in Warehouses, q \in Quantities : CreateOrder(o, w, q)
  BY <1>3, CreateOrderBalances
<1>4. CASE \/ CheckStock(o)
           \/ CreatePartialDispatch(o)
           \/ RejectPartialDispatch(o)
           \/ StartPreparation(o)
           \/ ConfirmDelivery(o)
           \/ ConfirmOutcome(o)
           \/ CloseOrder(o)
  BY <1>4, StatusHandlersBalances
<1>5. CASE \E i \in Products, q \in 1..MaxQuantity :
              \/ AddItem(o, i, q)
              \/ UpdateItem(o, i, q)
              \/ LoadItem(o, i, q)
              \/ \E source \in Warehouses : TransferStock(o, i, source, q)
  BY <1>2, <1>5, MutableHandlersBalances, LoadDeliverBalances, TransferStockBalances
<1>6. CASE \E w \in Warehouses : UpdateOrder(o, w)
  <2>1. PICK w \in Warehouses : UpdateOrder(o, w) BY <1>6
  <2>2. CASE Products = {}
    BY <2>1, <2>2 DEF UpdateOrder, BalanceInv, OneLineEach, RequestsBounded
  <2>3. CASE Products # {}
    BY <1>2, <2>1, <2>3, MutableHandlersBalances
  <2> QED BY <2>2, <2>3
<1>7. CASE AssignOrder(o)
  <2>1. CASE Products = {}
    BY <1>7, <2>1 DEF AssignOrder, BalanceInv, OneLineEach, RequestsBounded
  <2>2. CASE Products # {}
    BY <1>2, <1>7, <2>2, MutableHandlersBalances
  <2> QED BY <2>1, <2>2
<1>8. CASE \E i \in Products : DeleteItem(o, i)
  BY <1>2, <1>8, MutableHandlersBalances
<1>9. CASE \E usable \in SUBSET Products : ReserveStock(o, usable)
  BY <1>9, ReserveStockBalances
<1>10. CASE UnreserveStock(o) \/ CancelOrder(o)
  BY <1>10, ReleasingBalances
<1>11. CASE \E child \in Orders : ApprovePartialDispatch(o, child)
  BY <1>11, ApprovePartialDispatchBalances
<1>12. CASE DispatchOrder(o)
  BY <1>12, DispatchOrderBalances
<1>13. CASE \E i \in Products, q \in 0..MaxQuantity : DeliverItem(o, i, q)
  BY <1>13, LoadDeliverBalances
<1>14. CASE \E i \in Products, x \in Outcomes : RegisterOutcome(o, i, x)
  BY <1>14, RegisterOutcomeBalances
<1>15. CASE MarkAllConsumed(o)
  BY <1>15, MarkAllConsumedBalances
<1> QED BY <1>1, <1>3, <1>4, <1>5, <1>6, <1>7, <1>8, <1>9, <1>10, <1>11, <1>12,
           <1>13, <1>14, <1>15

LEMMA InitBalances ==
    ASSUME OneLineEach, Init
    PROVE  BalanceInv
<1>1. \A o \in Orders, i \in Products : line[o][i] = NoLine
  BY DEF Init
<1>2. RequestsBounded BY <1>1, LogisticsAssumption DEF RequestsBounded, NoLine, NewLine
<1>3. ASSUME NEW w \in Warehouses, NEW i \in Products
      PROVE  BalanceKept(w, i)
  <2>1. \A o \in Orders : Held(w, i)[o] = 0 /\ Out(w, i)[o] = 0 /\ Back(w, i)[o] = 0
    BY <1>1 DEF Held, Out, Back, HeldIn, OutIn, BackIn, NoLine, NewLine
  <2>2. 0 \in 0..MaxQuantity BY LogisticsAssumption
  <2>3. Held(w, i) \in Shares /\ Out(w, i) \in Shares /\ Back(w, i) \in Shares
    BY <2>1, <2>2 DEF Held, Out, Back, Shares
  <2>4. Total(Held(w, i)) = 0 /\ Total(Out(w, i)) = 0 /\ Total(Back(w, i)) = 0
    BY <2>1, <2>3, TotalNothing
  <2>5. stock[w][i] = EmptyBalance /\ entered[w][i] = 0 BY DEF Init
  <2>6. ValidBalance(stock[w][i]) BY <2>5 DEF EmptyBalance, ValidBalance, Available
  <2> QED BY <2>4, <2>5, <2>6 DEF BalanceKept, BookedExactly, EmptyBalance
<1> QED BY <1>2, <1>3 DEF BalanceInv

LEMMA NextBalances == TypeInv /\ StageInv /\ BalanceInv /\ [Next]_vars => BalanceInv'
<1> SUFFICES ASSUME TypeInv, StageInv, BalanceInv, [Next]_vars PROVE BalanceInv'
  OBVIOUS
<1>1. TypeInv' /\ StageInv' BY NextType, NextStage
<1>2. CASE StockNext BY <1>1, <1>2, StockNextBalances
<1>3. CASE OrderNext BY <1>1, <1>3, OrderNextBalances
<1>4. CASE PurchaseNext BY <1>1, <1>4, PurchaseNextBalances
<1>5. CASE UNCHANGED vars
  BY <1>5 DEF BalanceInv, OneLineEach, RequestsBounded, BalanceKept, BookedExactly, Held, Out, Back
<1> QED BY <1>2, <1>3, <1>4, <1>5 DEF Next

\* As long as no order has two lines of one product, the reserved count of every
\* balance is what the active orders hold, after any number of reservations,
\* releases, splits, cancellations and dispatches.
THEOREM NoReservationLeaks ==
    ASSUME OneLineEach
    PROVE  Spec => []ReservedMatchesOrders
<1>1. BalanceInv => ReservedMatchesOrders
  BY ReservedIsTotal DEF BalanceInv, BalanceKept, ReservedMatchesOrders
<1>2. Init => BalanceInv BY InitBalances
<1> QED BY <1>1, InitType, NextType, InitStage, NextStage, <1>2, NextBalances,
        PTL DEF Spec

\* As long as no order has two lines of one product, no handler makes a unit or
\* loses one: what is on hand is what was entered, less what the orders took out,
\* plus what they brought back.
THEOREM UnitsAreConserved ==
    ASSUME OneLineEach
    PROVE  Spec => []UnitsConserved
<1>1. BalanceInv => UnitsConserved
  BY ConservedIsBooked DEF BalanceInv, BalanceKept
<1>2. Init => BalanceInv BY InitBalances
<1> QED BY <1>1, InitType, NextType, InitStage, NextStage, <1>2, NextBalances,
        PTL DEF Spec

\* The repair that the handlers run on a balance finds nothing to repair.
RepairIdle ==
    \A w \in Warehouses, i \in Products : Synced(w, i, stock[w][i]) = stock[w][i]

\* As long as no order has two lines of one product, in every reachable state
\* _sync_stock_reservation_from_orders would write the row that is stored already.
THEOREM RepairNeverNeeded ==
    ASSUME OneLineEach
    PROVE  Spec => []RepairIdle
<1>1. TypeInv /\ BalanceInv => RepairIdle BY SyncedIsStored DEF RepairIdle
<1>2. Init => BalanceInv BY InitBalances
<1> QED BY <1>1, InitType, NextType, InitStage, NextStage, <1>2, NextBalances,
        PTL DEF Spec

-----------------------------------------------------------------------------
(***************************************************************************)
(* PURCHASES that are received, refused or cancelled.                      *)
(***************************************************************************)

\* What is bought and what is received stay within what was requested.
WithinRequest(r) ==
    \A i \in Products : /\ r.purchased[i] <= r.requested[i]
                        /\ r.received[i] <= r.requested[i]

PurchaseInv == \A p \in Purchases : WithinRequest(purchase[p])

SETTLED_STATUSES ==
    {"REJECTED", "RECEIVED", "DELIVERED_DIRECT_TO_EVENT", "CANCELLED"}

LEMMA SettledStatuses ==
    ASSUME TypeInv, NEW p \in Purchases
    PROVE  purchase[p].status \notin ACTIVE_PURCHASE_STATUSES \cup {"ABSENT"}
              <=> purchase[p].status \in SETTLED_STATUSES
BY DEF TypeInv, TypeOK, Purchase, PurchaseStatuses, ACTIVE_PURCHASE_STATUSES,
       SETTLED_STATUSES

\* What a step may do to purchase p: nothing, or anything within the request
\* when it is not settled.
PurchaseStep(p) ==
    \/ purchase' = purchase
    \/ /\ purchase[p].status \notin SETTLED_STATUSES
       /\ WithinRequest(purchase'[p])
       /\ \A x \in Purchases \ {p} : purchase'[x] = purchase[x]

LEMMA NewPurchaseWithin ==
    ASSUME TypeInv, PurchaseInv, NEW p \in Purchases, NEW o, NEW w, NEW to,
           NEW q \in [Products -> Nat], purchase[p].status = "ABSENT",
           purchase' = [purchase EXCEPT ![p] = NewPurchase(o, w, to, q)]
    PROVE  PurchaseStep(p)
<1> DEFINE r == NewPurchase(o, w, to, q)
<1>1. /\ r.requested = q
      /\ r.purchased = [i \in Products |-> 0]
      /\ r.received = [i \in Products |-> 0]
  BY DEF NewPurchase, NoPurchase
<1> HIDE DEF r
<1>2. \A i \in Products : q[i] \in Nat /\ r.purchased[i] = 0 /\ r.received[i] = 0
  BY <1>1
<1>3. WithinRequest(r) BY <1>1, <1>2 DEF WithinRequest
<1>4. purchase'[p] = r /\ \A x \in Purchases \ {p} : purchase'[x] = purchase[x]
  BY DEF TypeInv, TypeOK, r
<1> QED BY <1>3, <1>4 DEF PurchaseStep, SETTLED_STATUSES

\* A step that keeps the three quantities.
LEMMA QuantitiesKept ==
    ASSUME TypeInv, PurchaseInv, NEW p \in Purchases, NEW r \in Purchase,
           purchase[p].status \notin SETTLED_STATUSES,
           purchase' = [purchase EXCEPT ![p] = r],
           r.requested = purchase[p].requested, r.purchased = purchase[p].purchased,
           r.received = purchase[p].received
    PROVE  PurchaseStep(p)
<1>1. purchase'[p] = r /\ \A x \in Purchases \ {p} : purchase'[x] = purchase[x]
  BY DEF TypeInv, TypeOK
<1>2. WithinRequest(r) BY DEF PurchaseInv, WithinRequest
<1> QED BY <1>1, <1>2 DEF PurchaseStep

\* Receiving up to the limit keeps within the request.
LEMMA ReceivingWithin ==
    ASSUME TypeInv, PurchaseInv, NEW p \in Purchases, NEW q \in Quantities,
           Receivable(p, q), NEW i \in Products
    PROVE  Received(p, q)[i] <= purchase[p].requested[i]
<1>1. purchase[p] \in Purchase BY DEF TypeInv, TypeOK
<1>2. /\ purchase[p].requested[i] \in Nat /\ purchase[p].purchased[i] \in Nat
      /\ purchase[p].received[i] \in Nat /\ q[i] \in Nat
  BY <1>1, QuantitiesAreNat DEF Purchase
<1>3. /\ purchase[p].purchased[i] <= purchase[p].requested[i]
      /\ purchase[p].received[i] <= purchase[p].requested[i]
  BY DEF PurchaseInv, WithinRequest
<1>4. Received(p, q)[i] = purchase[p].received[i] + q[i] BY DEF Received
<1>5. q[i] > 0 => purchase[p].received[i] + q[i]
                    <= IF purchase[p].purchased[i] > 0 THEN purchase[p].purchased[i]
                       ELSE purchase[p].requested[i]
  BY DEF Receivable
<1> QED BY <1>2, <1>3, <1>4, <1>5

LEMMA MarkPurchasedStep ==
    ASSUME TypeInv, PurchaseInv, NEW p \in Purchases, NEW q \in Quantities,
           MarkPurchased(p, q)
    PROVE  PurchaseStep(p)
<1> DEFINE bought == [i \in Products |->
                        IF q[i] > 0 THEN q[i] ELSE purchase[p].purchased[i]]
           r == [purchase[p] EXCEPT !.status = "PURCHASED", !.purchased = bought]
<1>1. purchase[p] \in Purchase BY DEF TypeInv, TypeOK
<1>2. purchase[p].status = "APPROVED" /\ \A i \in Products : q[i] <= purchase[p].requested[i]
  BY DEF MarkPurchased
<1>3. purchase' = [purchase EXCEPT ![p].status = "PURCHASED", ![p].purchased = bought]
  BY DEF MarkPurchased
<1>4. \A i \in Products : bought[i] <= purchase[p].requested[i]
  BY <1>2 DEF PurchaseInv, WithinRequest
<1> HIDE DEF bought
<1>5. purchase'[p] = r /\ \A x \in Purchases \ {p} : purchase'[x] = purchase[x]
  BY <1>3 DEF TypeInv, TypeOK
<1>6. /\ r.requested = purchase[p].requested /\ r.purchased = bought
      /\ r.received = purchase[p].received
  BY <1>1 DEF Purchase
<1> HIDE DEF r
<1>7. WithinRequest(r) BY <1>4, <1>6 DEF PurchaseInv, WithinRequest
<1> QED BY <1>2, <1>5, <1>7 DEF PurchaseStep, SETTLED_STATUSES

LEMMA ReceivingStep ==
    ASSUME TypeInv, PurchaseInv, NEW p \in Purchases, NEW q \in Quantities,
           ReceivePurchase(p, q) \/ DeliverDirect(p, q)
    PROVE  PurchaseStep(p)
<1> DEFINE n == Received(p, q)
<1>1. PICK s : purchase' = [purchase EXCEPT ![p].received = n, ![p].status = s]
  BY DEF ReceivePurchase, DeliverDirect
<1>2. /\ Receivable(p, q)
      /\ purchase[p].status \in {"APPROVED", "PURCHASED", "PARTIALLY_RECEIVED"}
  BY DEF ReceivePurchase, DeliverDirect
<1>3. \A i \in Products : n[i] <= purchase[p].requested[i]
  BY <1>2, ReceivingWithin
<1> HIDE DEF n
<1> DEFINE r == [purchase[p] EXCEPT !.received = n, !.status = s]
<1>4. purchase'[p] = r /\ \A x \in Purchases \ {p} : purchase'[x] = purchase[x]
  BY <1>1 DEF TypeInv, TypeOK
<1>5. /\ r.requested = purchase[p].requested /\ r.purchased = purchase[p].purchased
      /\ r.received = n
  BY DEF TypeInv, TypeOK, Purchase
<1> HIDE DEF r
<1>6. WithinRequest(r) BY <1>3, <1>5 DEF PurchaseInv, WithinRequest
<1> QED BY <1>2, <1>4, <1>6 DEF PurchaseStep, SETTLED_STATUSES

LEMMA StatusOrWarehouseStep ==
    ASSUME TypeInv, TypeInv', PurchaseInv, NEW p \in Purchases,
           \/ \E w \in Warehouses : UpdatePurchase(p, w)
           \/ ApprovePurchase(p)
           \/ RejectPurchase(p)
           \/ CancelPurchase(p)
    PROVE  PurchaseStep(p)
<1>1. purchase[p] \in Purchase /\ purchase'[p] \in Purchase BY DEF TypeInv, TypeOK
<1>2. \/ \E w \in Warehouses : purchase' = [purchase EXCEPT ![p].warehouse = w]
      \/ \E s : purchase' = [purchase EXCEPT ![p].status = s]
  BY DEF UpdatePurchase, ApprovePurchase, RejectPurchase, CancelPurchase, SetPurchaseStatus
<1>3. purchase[p].status \notin SETTLED_STATUSES
  BY DEF UpdatePurchase, ApprovePurchase, RejectPurchase, CancelPurchase,
         ACTIVE_PURCHASE_STATUSES, SETTLED_STATUSES
<1>4. /\ purchase' = [purchase EXCEPT ![p] = purchase'[p]]
      /\ purchase'[p].requested = purchase[p].requested
      /\ purchase'[p].purchased = purchase[p].purchased
      /\ purchase'[p].received = purchase[p].received
  <2>1. CASE \E w \in Warehouses : purchase' = [purchase EXCEPT ![p].warehouse = w]
    BY <1>1, <2>1 DEF TypeInv, TypeOK, Purchase
  <2>2. CASE \E s : purchase' = [purchase EXCEPT ![p].status = s]
    BY <1>1, <2>2 DEF TypeInv, TypeOK, Purchase
  <2> QED BY <1>2, <2>1, <2>2
<1> QED BY <1>1, <1>3, <1>4, QuantitiesKept

LEMMA PurchaseNextStep ==
    ASSUME TypeInv, TypeInv', PurchaseInv, PurchaseNext
    PROVE  \E p \in Purchases : PurchaseStep(p)
<1>1. PICK p \in Purchases :
         \/ \E o \in Orders, q \in Quantities : CreateLinkedPurchase(p, o, q)
         \/ \E w \in Warehouses, to \in BOOLEAN, q \in Quantities :
               CreateFreePurchase(p, w, to, q)
         \/ \E o \in Orders, usable \in SUBSET Products :
               CreatePurchaseFromOrder(p, o, usable)
         \/ \E w \in Warehouses : UpdatePurchase(p, w)
         \/ ApprovePurchase(p)
         \/ RejectPurchase(p)
         \/ \E q \in Quantities : \/ MarkPurchased(p, q)
                                  \/ ReceivePurchase(p, q)
                                  \/ DeliverDirect(p, q)
         \/ CancelPurchase(p)
  BY DEF PurchaseNext
<1>2. CASE \E o \in Orders, q \in Quantities : CreateLinkedPurchase(p, o, q)
  BY <1>2, QuantitiesAreNat, NewPurchaseWithin DEF CreateLinkedPurchase
<1>3. CASE \E w \in Warehouses, to \in BOOLEAN, q \in Quantities :
              CreateFreePurchase(p, w, to, q)
  BY <1>3, QuantitiesAreNat, NewPurchaseWithin DEF CreateFreePurchase
<1>4. CASE \E o \in Orders, usable \in SUBSET Products :
              CreatePurchaseFromOrder(p, o, usable)
  <2>1. PICK o \in Orders, usable \in SUBSET Products :
           CreatePurchaseFromOrder(p, o, usable)
    BY <1>4
  <2> DEFINE missing == [i \in Products |-> Missing(o, i, usable)]
  <2>2. /\ purchase[p].status = "ABSENT"
        /\ purchase' = [purchase EXCEPT
              ![p] = NewPurchase(o, order_warehouse[o], TRUE, missing)]
    BY <2>1 DEF CreatePurchaseFromOrder
  <2>3. missing \in [Products -> Nat]
    <3> SUFFICES ASSUME NEW i \in Products PROVE Missing(o, i, usable) \in Nat
      OBVIOUS
    <3>1. line[o][i] \in Line /\ stock[order_warehouse[o]][item_id[i]] \in Balance
      BY StoredType DEF TypeInv, TypeOK
    <3> QED BY <3>1 DEF Missing, Positive, Larger, Available, Line, Balance
  <2> HIDE DEF missing
  <2> QED BY <2>2, <2>3, NewPurchaseWithin
<1>5. CASE \/ \E w \in Warehouses : UpdatePurchase(p, w)
           \/ ApprovePurchase(p)
           \/ RejectPurchase(p)
           \/ CancelPurchase(p)
  BY <1>5, StatusOrWarehouseStep
<1>6. CASE \E q \in Quantities : MarkPurchased(p, q)
  BY <1>6, MarkPurchasedStep
<1>7. CASE \E q \in Quantities : ReceivePurchase(p, q) \/ DeliverDirect(p, q)
  BY <1>7, ReceivingStep
<1> QED BY <1>1, <1>2, <1>3, <1>4, <1>5, <1>6, <1>7

LEMMA OthersKeepPurchases ==
    ASSUME StockNext \/ OrderNext \/ UNCHANGED vars
    PROVE  purchase' = purchase
<1>1. CASE StockNext
  <2>1. PICK w \in Warehouses, i \in Items : \E s : SaveBalance(w, i, s)
    BY <1>1, Zenon DEF StockNext, CreateStockBalance, UpdateStockBalance, Correction,
       InitialStock, CreateStockMovement
  <2> QED BY <2>1 DEF SaveBalance
<1>2. CASE OrderNext
  <2>1. PICK o \in Orders :
          \/ \E w \in Warehouses, q \in Quantities : CreateOrder(o, w, q)
          \/ \E w \in Warehouses : UpdateOrder(o, w)
          \/ AssignOrder(o)
          \/ \E i \in Products, q \in 1..MaxQuantity :
                \/ AddItem(o, i, q)
                \/ UpdateItem(o, i, q)
                \/ LoadItem(o, i, q)
                \/ \E source \in Warehouses : TransferStock(o, i, source, q)
          \/ \E i \in Products : DeleteItem(o, i)
          \/ \E usable \in SUBSET Products : ReserveStock(o, usable)
          \/ UnreserveStock(o)
          \/ CancelOrder(o)
          \/ CheckStock(o)
          \/ CreatePartialDispatch(o)
          \/ \E child \in Orders : ApprovePartialDispatch(o, child)
          \/ RejectPartialDispatch(o)
          \/ StartPreparation(o)
          \/ DispatchOrder(o)
          \/ \E i \in Products, q \in 0..MaxQuantity : DeliverItem(o, i, q)
          \/ ConfirmDelivery(o)
          \/ \E i \in Products, x \in Outcomes : RegisterOutcome(o, i, x)
          \/ MarkAllConsumed(o)
          \/ ConfirmOutcome(o)
          \/ CloseOrder(o)
    BY <1>2 DEF OrderNext
  <2>2. CASE \/ \E w \in Warehouses, q \in Quantities : CreateOrder(o, w, q)
             \/ \E w \in Warehouses : UpdateOrder(o, w)
             \/ AssignOrder(o)
             \/ \E i \in Products : DeleteItem(o, i)
    BY <2>2, Zenon DEF CreateOrder, UpdateOrder, AssignOrder, DeleteItem
  <2>3. CASE \/ \E usable \in SUBSET Products : ReserveStock(o, usable)
             \/ UnreserveStock(o)
             \/ CancelOrder(o)
             \/ CheckStock(o)
             \/ CreatePartialDispatch(o)
             \/ \E child \in Orders : ApprovePartialDispatch(o, child)
             \/ RejectPartialDispatch(o)
             \/ StartPreparation(o)
             \/ DispatchOrder(o)
    BY <2>3, Zenon DEF ReserveStock, UnreserveStock, CancelOrder, CheckStock,
       CreatePartialDispatch, ApprovePartialDispatch, RejectPartialDispatch,
       StartPreparation, DispatchOrder
  <2>4. CASE \/ \E i \in Products, q \in 0..MaxQuantity : DeliverItem(o, i, q)
             \/ ConfirmDelivery(o)
             \/ \E i \in Products, x \in Outcomes : RegisterOutcome(o, i, x)
             \/ MarkAllConsumed(o)
             \/ ConfirmOutcome(o)
             \/ CloseOrder(o)
    BY <2>4, Zenon DEF DeliverItem, ConfirmDelivery, RegisterOutcome, MarkAllConsumed,
       ConfirmOutcome, CloseOrder
  <2>5. CASE \E i \in Products, q \in 1..MaxQuantity :
                \/ AddItem(o, i, q)
                \/ UpdateItem(o, i, q)
                \/ LoadItem(o, i, q)
                \/ \E source \in Warehouses : TransferStock(o, i, source, q)
    <3>1. PICK i \in Products, q \in 1..MaxQuantity :
             \/ AddItem(o, i, q)
             \/ UpdateItem(o, i, q)
             \/ LoadItem(o, i, q)
             \/ \E source \in Warehouses : TransferStock(o, i, source, q)
      BY <2>5
    <3> QED BY <3>1, Zenon DEF AddItem, UpdateItem, LoadItem, TransferStock
  <2> QED BY <2>1, <2>2, <2>3, <2>4, <2>5
<1> QED BY <1>1, <1>2

LEMMA NextPurchases == TypeInv /\ PurchaseInv /\ [Next]_vars => PurchaseInv'
<1> SUFFICES ASSUME TypeInv, PurchaseInv, [Next]_vars PROVE PurchaseInv'
  OBVIOUS
<1>1. CASE PurchaseNext
  <2>1. PICK p \in Purchases : PurchaseStep(p)
    BY <1>1, NextType, PurchaseNextStep
  <2> QED BY <2>1 DEF PurchaseStep, PurchaseInv
<1>2. CASE StockNext \/ OrderNext \/ UNCHANGED vars
  BY <1>2, OthersKeepPurchases DEF PurchaseInv
<1> QED BY <1>1, <1>2 DEF Next

LEMMA InitPurchases == Init => PurchaseInv
BY DEF Init, PurchaseInv, WithinRequest, NoPurchase

\* A purchase that was refused, cancelled or completed stays as it is, and none
\* ever receives more of a product than was requested, in however many
\* deliveries.
THEOREM PurchasesStaySettled == Spec => PurchasesSettled
<1>1. TypeInv /\ PurchaseInv /\ [Next]_vars
        => \A p \in Purchases :
              /\ purchase[p].status \notin ACTIVE_PURCHASE_STATUSES \cup {"ABSENT"}
                    => purchase'[p] = purchase[p]
              /\ \A i \in Products :
                    purchase'[p].received[i] <= purchase'[p].requested[i]
  <2> SUFFICES ASSUME TypeInv, PurchaseInv, [Next]_vars, NEW p \in Purchases
               PROVE  /\ purchase[p].status \in SETTLED_STATUSES
                            => purchase'[p] = purchase[p]
                      /\ \A i \in Products :
                            purchase'[p].received[i] <= purchase'[p].requested[i]
    BY SettledStatuses
  <2>1. PurchaseInv' BY NextPurchases
  <2>2. purchase[p].status \in SETTLED_STATUSES => purchase'[p] = purchase[p]
    <3>1. CASE PurchaseNext
      <4>1. PICK x \in Purchases : PurchaseStep(x)
        BY <3>1, NextType, PurchaseNextStep
      <4> QED BY <4>1 DEF PurchaseStep
    <3>2. CASE StockNext \/ OrderNext \/ UNCHANGED vars
      BY <3>2, OthersKeepPurchases
    <3> QED BY <3>1, <3>2 DEF Next
  <2> QED BY <2>1, <2>2 DEF PurchaseInv, WithinRequest
<1> QED BY <1>1, InitType, NextType, InitPurchases, NextPurchases,
        PTL DEF Spec, PurchasesSettled

-----------------------------------------------------------------------------
(***************************************************************************)
(* CANCELLATION.                                                           *)
(***************************************************************************)

\* No handler of orders but cancel_logistics_order makes an order CANCELLED.
LEMMA OnlyCancelOrderCancels ==
    ASSUME TypeInv, OrderNext, NEW x \in Orders,
           status[x] # "CANCELLED", status'[x] = "CANCELLED"
    PROVE  CancelOrder(x)
<1>1. PICK o \in Orders :
        \/ \E w \in Warehouses, q \in Quantities : CreateOrder(o, w, q)
        \/ \E w \in Warehouses : UpdateOrder(o, w)
        \/ AssignOrder(o)
        \/ \E i \in Products, q \in 1..MaxQuantity :
              \/ AddItem(o, i, q)
              \/ UpdateItem(o, i, q)
              \/ LoadItem(o, i, q)
              \/ \E source \in Warehouses : TransferStock(o, i, source, q)
        \/ \E i \in Products : DeleteItem(o, i)
        \/ \E usable \in SUBSET Products : ReserveStock(o, usable)
        \/ UnreserveStock(o)
        \/ CancelOrder(o)
        \/ CheckStock(o)
        \/ CreatePartialDispatch(o)
        \/ \E child \in Orders : ApprovePartialDispatch(o, child)
        \/ RejectPartialDispatch(o)
        \/ StartPreparation(o)
        \/ DispatchOrder(o)
        \/ \E i \in Products, q \in 0..MaxQuantity : DeliverItem(o, i, q)
        \/ ConfirmDelivery(o)
        \/ \E i \in Products, y \in Outcomes : RegisterOutcome(o, i, y)
        \/ MarkAllConsumed(o)
        \/ ConfirmOutcome(o)
        \/ CloseOrder(o)
  BY DEF OrderNext
<1>2. status \in [Orders -> OrderStatuses] BY DEF TypeInv, TypeOK
<1>3. ASSUME NEW s, status' = [status EXCEPT ![o] = s]
      PROVE  x = o /\ s = "CANCELLED"
  BY <1>2, <1>3
<1>4. CASE \/ \E w \in Warehouses, q \in Quantities : CreateOrder(o, w, q)
           \/ AssignOrder(o)
           \/ \E i \in Products, q \in 1..MaxQuantity : LoadItem(o, i, q)
           \/ \E usable \in SUBSET Products : ReserveStock(o, usable)
           \/ UnreserveStock(o)
           \/ StartPreparation(o)
           \/ DispatchOrder(o)
           \/ ConfirmDelivery(o)
           \/ ConfirmOutcome(o)
           \/ CloseOrder(o)
  <2>1. PICK s \in OrderStatuses \ {"CANCELLED"} : status' = [status EXCEPT ![o] = s]
    <3>1. CASE \E w \in Warehouses, q \in Quantities : CreateOrder(o, w, q)
      BY <3>1 DEF CreateOrder, SetStatus, OrderStatuses
    <3>2. CASE AssignOrder(o) BY <3>2 DEF AssignOrder, SetStatus, OrderStatuses
    <3>3. CASE \E i \in Products, q \in 1..MaxQuantity : LoadItem(o, i, q)
      <4>1. \/ status' = [status EXCEPT ![o] = "LOADED"]
            \/ status' = [status EXCEPT ![o] = "IN_PREPARATION"]
        BY <3>3 DEF LoadItem, SetStatus
      <4> QED BY <4>1 DEF OrderStatuses
    <3>4. CASE \E usable \in SUBSET Products : ReserveStock(o, usable)
      <4>1. \/ status' = [status EXCEPT ![o] = "RESERVED"]
            \/ status' = [status EXCEPT ![o] = "INSUFFICIENT_STOCK"]
        BY <3>4 DEF ReserveStock, SetStatus
      <4> QED BY <4>1 DEF OrderStatuses
    <3>5. CASE UnreserveStock(o) BY <3>5 DEF UnreserveStock, SetStatus, OrderStatuses
    <3>6. CASE StartPreparation(o) BY <3>6 DEF StartPreparation, SetStatus, OrderStatuses
    <3>7. CASE DispatchOrder(o) BY <3>7 DEF DispatchOrder, SetStatus, OrderStatuses
    <3>8. CASE ConfirmDelivery(o)
      <4>1. \/ status' = [status EXCEPT ![o] = "DELIVERED"]
            \/ status' = [status EXCEPT ![o] = "PARTIALLY_DELIVERED"]
        BY <3>8 DEF ConfirmDelivery, SetStatus
      <4> QED BY <4>1 DEF OrderStatuses
    <3>9. CASE ConfirmOutcome(o)
      <4>1. \/ status' = [status EXCEPT ![o] = "OUTCOME_RECORDED"]
            \/ status' = [status EXCEPT ![o] = "WITH_DIFFERENCES"]
        BY <3>9 DEF ConfirmOutcome, SetStatus
      <4> QED BY <4>1 DEF OrderStatuses
    <3>10. CASE CloseOrder(o) BY <3>10 DEF CloseOrder, SetStatus, OrderStatuses
    <3> QED BY <1>4, <3>1, <3>2, <3>3, <3>4, <3>5, <3>6, <3>7, <3>8, <3>9, <3>10
  <2> QED BY <1>3, <2>1
<1>5. CASE \/ CheckStock(o)
           \/ \E i \in Products, y \in Outcomes : RegisterOutcome(o, i, y)
           \/ MarkAllConsumed(o)
  <2>1. \/ status' = [status EXCEPT ![o] = status[o]]
        \/ status' = [status EXCEPT ![o] = "RESERVED"]
        \/ status' = [status EXCEPT ![o] = "OUTCOME_PENDING"]
    <3>1. CASE CheckStock(o) BY <3>1 DEF CheckStock, SetStatus
    <3>2. CASE \E i \in Products, y \in Outcomes : RegisterOutcome(o, i, y)
      BY <3>2 DEF RegisterOutcome, SetStatus, OutcomeStatus
    <3>3. CASE MarkAllConsumed(o)
      BY <3>3 DEF MarkAllConsumed, SetStatus, OutcomeStatus
    <3> QED BY <1>5, <3>1, <3>2, <3>3
  <2> QED BY <1>2, <2>1
<1>6. CASE \E child \in Orders : ApprovePartialDispatch(o, child)
  BY <1>2, <1>6 DEF ApprovePartialDispatch
<1>7. CASE CancelOrder(o)
  <2>1. status' = [status EXCEPT ![o] = "CANCELLED"] BY <1>7 DEF CancelOrder, SetStatus
  <2> QED BY <1>3, <1>7, <2>1
<1>8. CASE \/ \E w \in Warehouses : UpdateOrder(o, w)
           \/ \E i \in Products, q \in 1..MaxQuantity :
                 AddItem(o, i, q) \/ UpdateItem(o, i, q)
           \/ \E i \in Products, q \in 1..MaxQuantity, source \in Warehouses :
                 TransferStock(o, i, source, q)
           \/ \E i \in Products : DeleteItem(o, i)
           \/ CreatePartialDispatch(o)
           \/ RejectPartialDispatch(o)
           \/ \E i \in Products, q \in 0..MaxQuantity : DeliverItem(o, i, q)
  <2>1. status' = status
    <3>1. CASE \E i \in Products, q \in 1..MaxQuantity, source \in Warehouses :
                  TransferStock(o, i, source, q)
      <4>1. PICK i \in Products, q \in 1..MaxQuantity, source \in Warehouses :
               TransferStock(o, i, source, q)
        BY <3>1
      <4>2. UNCHANGED orderVars BY <4>1 DEF TransferStock
      <4> QED BY <4>2
    <3>2. CASE \E i \in Products, q \in 1..MaxQuantity :
                  AddItem(o, i, q) \/ UpdateItem(o, i, q)
      BY <3>2, Zenon DEF AddItem, UpdateItem
    <3>3. CASE \/ \E w \in Warehouses : UpdateOrder(o, w)
               \/ \E i \in Products : DeleteItem(o, i)
               \/ CreatePartialDispatch(o)
               \/ RejectPartialDispatch(o)
               \/ \E i \in Products, q \in 0..MaxQuantity : DeliverItem(o, i, q)
      BY <3>3, Zenon DEF UpdateOrder, DeleteItem, CreatePartialDispatch,
         RejectPartialDispatch, DeliverItem
    <3> QED BY <1>8, <3>1, <3>2, <3>3
  <2> QED BY <2>1
<1> QED BY <1>1, <1>4, <1>5, <1>6, <1>7, <1>8

\* An order is only cancelled when no purchase for it is active, so that no
\* bought unit is on its way to an order that no longer wants it.
THEOREM CancelledOnlyWithoutPurchase == Spec => CancelledWithoutPurchase
<1>1. TypeInv /\ [Next]_vars
        => \A o \in Orders : status[o] # "CANCELLED" /\ status'[o] = "CANCELLED"
              => ~HasActivePurchase(o)
  <2> SUFFICES ASSUME TypeInv, [Next]_vars, NEW o \in Orders,
                      status[o] # "CANCELLED", status'[o] = "CANCELLED"
               PROVE  ~HasActivePurchase(o)
    OBVIOUS
  <2>1. CASE OrderNext
    BY <2>1, OnlyCancelOrderCancels DEF CancelOrder
  <2>2. CASE StockNext BY <2>2, StockKeepsOrders
  <2>3. CASE PurchaseNext
    <3>1. CASE \E p \in Purchases, x \in Orders, usable \in SUBSET Products :
                  CreatePurchaseFromOrder(p, x, usable)
      BY <3>1 DEF CreatePurchaseFromOrder, TypeInv, TypeOK
    <3>2. CASE ~(\E p \in Purchases, x \in Orders, usable \in SUBSET Products :
                    CreatePurchaseFromOrder(p, x, usable))
      BY <2>3, <3>2, PurchaseKeepsOrders
    <3> QED BY <3>1, <3>2
  <2>4. CASE UNCHANGED vars BY <2>4
  <2> QED BY <2>1, <2>2, <2>3, <2>4 DEF Next
<1> QED BY <1>1, InitType, NextType, PTL DEF Spec, CancelledWithoutPurchase
=============================================================================
