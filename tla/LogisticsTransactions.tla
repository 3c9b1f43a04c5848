----------------------- MODULE LogisticsTransactions ------------------------
(***************************************************************************)
(* Handlers that overlap.  A request is one database session at READ       *)
(* COMMITTED: it reads the order and its lines without a lock and checks   *)
(* them, then locks the balances of the lines it works on one after the    *)
(* other (SELECT ... FOR UPDATE), computes, and commits everything at once *)
(* or is rolled back.  Here the five handlers that lock balances for an    *)
(* order are such sessions.  The handlers in between them lock nothing;    *)
(* they stay single steps, taken while nobody else works on their order.   *)
(*                                                                         *)
(* The order's row and its lines are read by two SELECTs that follow each  *)
(* other: one step here.  Catalogue items are active and balances exist.   *)
(* No order has two lines of one product (OneLineEach), so that a session  *)
(* meets every row once.                                                   *)
(***************************************************************************)
EXTENDS Logistics, Sequences

CONSTANTS
    Sessions,   \* the database sessions that serve requests
    SameOrder   \* whether two sessions may work on one order at a time

\* An order has finitely many lines, so that its rows can be locked one by one.
ASSUME SessionsAssumption ==
    /\ SameOrder \in BOOLEAN
    /\ IsFiniteSet(Products)
    /\ OneLineEach

VARIABLE session   \* what each session has read, and what it still has to lock

allVars == <<vars, session>>

Handlers == {"reserve", "unreserve", "cancel", "dispatch", "outcome"}

Idle == [handler |-> "none"]

Live(t) == session[t].handler # "none"

\* The orders in which the lines of an order may be returned: the relationship
\* LogisticsOrder.items states none.
Orderings(S) ==
    {f \in [1..Cardinality(S) -> S] :
        \A a, b \in 1..Cardinality(S) : f[a] = f[b] => a = b}

-----------------------------------------------------------------------------
(* Reading and checking.                                                    *)

\* Session t reads order o for a handler that will lock the balances of the
\* products locks.  report is what the client reports of products.
Read(t, o, handler, locks, report) ==
    /\ ~Live(t)
    /\ SameOrder \/ \A u \in Sessions : Live(u) => session[u].order # o
    /\ \E todo \in Orderings(locks) :
          session' = [session EXCEPT ![t] =
              [handler |-> handler, order |-> o, status |-> status[o],
               warehouse |-> order_warehouse[o], lines |-> line[o],
               report |-> report, todo |-> todo, held |-> <<>>]]
    /\ UNCHANGED vars

NoReport == <<>>

\* Mutant: a release visits only the lines that were loaded.
ReservedLinesLoaded(o) == {i \in Lines(o) : line[o][i].loaded > 0}

ReservedLines(o) == {i \in Lines(o) : line[o][i].reserved > 0}

BeginReserve(t, o) ==
    /\ status[o] \in {"ASSIGNED", "INSUFFICIENT_STOCK"}
    /\ Read(t, o, "reserve", Lines(o), NoReport)

BeginUnreserve(t, o) ==
    /\ status[o] \in ACTIVE_STOCK_RESERVATION_STATUSES
    /\ ReservedLines(o) # {}
    /\ Read(t, o, "unreserve", ReservedLines(o), NoReport)

BeginCancel(t, o) ==
    /\ status[o] \in CANCELLABLE_STATUSES
    /\ ~HasActivePurchase(o)
    /\ Read(t, o, "cancel", ReservedLines(o), NoReport)

BeginDispatch(t, o) ==
    /\ status[o] \in {"IN_PREPARATION", "LOADED"}
    /\ ~dispatched_at[o]
    /\ Lines(o) # {}
    /\ \A i \in Lines(o) : /\ line[o][i].loaded > 0
                           /\ line[o][i].loaded = line[o][i].reserved
    /\ Read(t, o, "dispatch", Lines(o), NoReport)

\* The outcome of one line: its balance is needed when the returns change.
BeginOutcome(t, o, i, x) ==
    /\ status[o] \in OUTCOME_STATUSES
    /\ i \in Lines(o)
    /\ line[o][i].delivered > 0
    /\ OutcomeTotal(x) <= line[o][i].delivered
    /\ i \notin Consumables => x.consumed = 0
    /\ Read(t, o, "outcome", IF ReturnsChange(line[o][i], x) THEN {i} ELSE {},
            [j \in {i} |-> x])

-----------------------------------------------------------------------------
(* Locking.                                                                 *)

Holds(t, w, i) ==
    /\ Live(t)
    /\ session[t].warehouse = w
    /\ i \in DOMAIN session[t].held

Locked(w, i) == \E u \in Sessions : Holds(u, w, i)

\* t waits for a row that u has locked.
WaitsFor(t, u) ==
    /\ Live(t)
    /\ session[t].todo # <<>>
    /\ u # t
    /\ Holds(u, session[t].warehouse, Head(session[t].todo))

\* The row as the session works on it: a reservation or release of an order
\* that was read active, and every dispatch, first repairs the reserved count
\* from what is committed now.
RowRead(s, i) ==
    IF \/ s.handler = "dispatch"
       \/ /\ s.handler # "outcome"
          /\ s.status \in ACTIVE_STOCK_RESERVATION_STATUSES
    THEN Synced(s.warehouse, i, stock[s.warehouse][i])
    ELSE stock[s.warehouse][i]

TakeRow(t) ==
    LET s == session[t]
        i == Head(s.todo)
        held == [j \in DOMAIN s.held \cup {i} |->
                    IF j = i THEN RowRead(s, i) ELSE s.held[j]]
    IN  session' = [session EXCEPT ![t].todo = Tail(@), ![t].held = held]

\* Mutant: the row is read without FOR UPDATE.
LockBalanceUnlocked(t) ==
    /\ Live(t)
    /\ session[t].todo # <<>>
    /\ TakeRow(t)
    /\ UNCHANGED vars

\* _get_stock_balance(lock=True): waits until no other session has the row.
LockBalance(t) ==
    /\ Live(t)
    /\ session[t].todo # <<>>
    /\ \A u \in Sessions : ~WaitsFor(t, u)
    /\ TakeRow(t)
    /\ UNCHANGED vars

-----------------------------------------------------------------------------
(* Computing.  The rows and the status a handler leaves, from what it read. *)

ReserveEffect(s) ==
    LET wanted(i) == Positive(s.lines[i].requested - s.lines[i].reserved)
        take(i)   == Smaller(wanted(i), Positive(Available(s.held[i])))
        whole     == \A i \in DOMAIN s.held : take(i) = wanted(i)
    IN  [balances |-> [i \in DOMAIN s.held |->
                          [s.held[i] EXCEPT !.reserved = @ + take(i)]],
         lines    |-> [i \in Products |-> IF i \in DOMAIN s.held
                          THEN [s.lines[i] EXCEPT !.reserved = @ + take(i)]
                          ELSE s.lines[i]],
         status   |-> IF whole /\ s.held # <<>> THEN "RESERVED"
                                                ELSE "INSUFFICIENT_STOCK"]

ReleaseEffect(s, new_status) ==
    [balances |-> [i \in DOMAIN s.held |->
                      [s.held[i] EXCEPT !.reserved = @ - s.lines[i].reserved]],
     lines    |-> [i \in Products |->
                      [s.lines[i] EXCEPT !.reserved = 0, !.loaded = 0]],
     status   |-> new_status]

DispatchEffect(s) ==
    [balances |-> [i \in DOMAIN s.held |->
                      [s.held[i] EXCEPT !.on_hand  = @ - s.lines[i].loaded,
                                        !.reserved = @ - s.lines[i].loaded]],
     lines    |-> [i \in Products |->
                      [s.lines[i] EXCEPT !.dispatched = s.lines[i].loaded]],
     status   |-> "OUT_OF_WAREHOUSE"]

OutcomeEffect(s) ==
    [balances |-> [i \in DOMAIN s.held |->
                      CorrectedBalance(s.held[i], s.lines[i], s.report[i])],
     lines    |-> [i \in Products |-> IF i \in DOMAIN s.report
                      THEN WithOutcome(s.lines[i], s.report[i])
                      ELSE s.lines[i]],
     status   |-> IF s.status \in {"DELIVERED", "PARTIALLY_DELIVERED"}
                  THEN "OUTCOME_PENDING" ELSE s.status]

Effect(s) ==
    CASE s.handler = "reserve"   -> ReserveEffect(s)
      [] s.handler = "unreserve" -> ReleaseEffect(s, "ASSIGNED")
      [] s.handler = "cancel"    -> ReleaseEffect(s, "CANCELLED")
      [] s.handler = "dispatch"  -> DispatchEffect(s)
      [] s.handler = "outcome"   -> OutcomeEffect(s)

-----------------------------------------------------------------------------
(* Ending.                                                                  *)

\* An UPDATE names the columns whose value is not the one that was read; the
\* others keep what is committed.
Written(current, read, new) ==
    [f \in DOMAIN current |-> IF new[f] = read[f] THEN current[f] ELSE new[f]]

LinesWritten(s) ==
    LET new == Effect(s).lines
    IN  [i \in Products |-> Written(line[s.order][i], s.lines[i], new[i])]

\* Mutant: the computed rows are written unchecked.
AcceptedUnchecked(s) == TRUE

\* The handler's own checks of a computed balance, which the CHECK constraints
\* of stock_balances repeat, and those of logistics_order_items.
Accepted(s) ==
    LET balances == Effect(s).balances
        lines    == LinesWritten(s)
    IN  /\ \A i \in DOMAIN balances : ValidBalance(balances[i])
        /\ \A i \in Products : LineChained(lines[i])

Computed(t) == Live(t) /\ session[t].todo = <<>>

Commit(t) ==
    LET s   == session[t]
        new == Effect(s)
    IN  /\ Computed(t)
        /\ Accepted(s)
        /\ stock' = [stock EXCEPT ![s.warehouse] = [i \in Products |->
                        IF i \in DOMAIN s.held THEN new.balances[i] ELSE @[i]]]
        /\ line' = [line EXCEPT ![s.order] = LinesWritten(s)]
        /\ status' = [status EXCEPT ![s.order] =
                        IF new.status = s.status THEN @ ELSE new.status]
        /\ dispatched_at' = [dispatched_at EXCEPT ![s.order] =
                                @ \/ s.handler = "dispatch"]
        /\ session' = [session EXCEPT ![t] = Idle]
        /\ UNCHANGED <<order_warehouse, pending_request, entered, purchase>>

\* The transaction ends with nothing written and its locks released: get_db
\* closes the session whatever became of the request.  It can happen at any
\* time, because the server process can stop.
Rollback(t) ==
    /\ Live(t)
    /\ session' = [session EXCEPT ![t] = Idle]
    /\ UNCHANGED vars

\* t is on a circle of sessions that wait for each other.
Deadlocked(t) ==
    \E circle \in SUBSET Sessions :
        /\ t \in circle
        /\ \A u \in circle : /\ \E v \in circle : WaitsFor(u, v)
                             /\ \E v \in circle : WaitsFor(v, u)

\* Mutant: only a request that succeeds closes its session.
EndOnCommit(t) == Commit(t)

\* What must end, by a commit or a rollback: a session that has computed its
\* result, which the handler or a constraint may refuse, and one in a deadlock,
\* which PostgreSQL breaks by failing a statement.
End(t) ==
    /\ Computed(t) \/ Deadlocked(t)
    /\ session' = [session EXCEPT ![t] = Idle]

-----------------------------------------------------------------------------
\* The handlers that bring an order from one session's work to the next.
Between(o) ==
    /\ \A t \in Sessions : Live(t) => session[t].order # o
    /\ \/ \E w \in Warehouses, q \in Quantities : CreateOrder(o, w, q)
       \/ StartPreparation(o)
       \/ \E i \in Products, q \in 1..MaxQuantity : LoadItem(o, i, q)
       \/ \E i \in Products, q \in 0..MaxQuantity : DeliverItem(o, i, q)
       \/ ConfirmDelivery(o)
    /\ UNCHANGED session

SessionNext(t) ==
    \/ \E o \in Orders :
          \/ BeginReserve(t, o)
          \/ BeginUnreserve(t, o)
          \/ BeginCancel(t, o)
          \/ BeginDispatch(t, o)
          \/ \E i \in Products, x \in Outcomes : BeginOutcome(t, o, i, x)
    \/ LockBalance(t)
    \/ Commit(t)
    \/ Rollback(t)

TransactionsNext ==
    \/ \E t \in Sessions : SessionNext(t)
    \/ \E o \in Orders : Between(o)

\* PostgreSQL serves the waiters of a row in the order they came, so a session
\* that waits for a row that is released again and again gets it.
Fairness ==
    \A t \in Sessions : SF_session(LockBalance(t)) /\ WF_session(End(t))

SessionsIdle == session = [t \in Sessions |-> Idle]

TransactionsSpec == Init /\ SessionsIdle /\ [][TransactionsNext]_allVars

FairSpec == TransactionsSpec /\ Fairness

-----------------------------------------------------------------------------
(* Properties.                                                              *)

SessionsTyped ==
    \A t \in Sessions : Live(t) =>
        LET s == session[t]
        IN  /\ s.handler \in Handlers
            /\ s.order \in Orders /\ s.warehouse \in Warehouses
            /\ s.lines \in [Products -> Line]
            /\ DOMAIN s.held \subseteq Products
            /\ \A i \in DOMAIN s.held : s.held[i] \in Balance

\* What a session read of a locked row stays true until it ends, the reserved
\* count that it recomputed from the lines of all orders included, although
\* those lines are not locked.
HeldRowsFresh ==
    \A t \in Sessions : Live(t) =>
        \A i \in DOMAIN session[t].held :
            session[t].held[i] = RowRead(session[t], i)

\* Sessions that work on different orders do what Logistics does one handler
\* at a time: a commit, whatever was read before it and whatever happened in
\* between, is a step of one of the handlers on the rows as they are then.
OneAtATime == [][Next]_vars

\* Every request is answered: it commits or fails, even when sessions lock the
\* rows of two orders in opposite orders.
EveryRequestEnds == \A t \in Sessions : Live(t) ~> ~Live(t)
=============================================================================
