-------------------- MODULE LogisticsTransactions_proofs --------------------
(***************************************************************************)
(* Sessions that overlap, each on an order of its own, do what Logistics   *)
(* does one handler at a time, for any number of sessions, orders and      *)
(* products and any quantities: SessionsTyped, HeldRowsFresh, OneAtATime,  *)
(* and with them every invariant of Logistics.                             *)
(*                                                                         *)
(* The argument is in SessionInv: what a session has read of its order is  *)
(* what is stored, because nobody else works on that order, and a balance  *)
(* it has locked is what is stored, because the lock is its own and the    *)
(* repair of the reserved count finds nothing to repair (SyncedIsStored).  *)
(* So a commit computes with the rows as they are then.                    *)
(***************************************************************************)
EXTENDS LogisticsTransactions, Logistics_proofs, SequenceTheorems

USE DEF vars, orderVars, stockVars

-----------------------------------------------------------------------------
(* The invariant.                                                           *)

SessionFields ==
    {"handler", "order", "status", "warehouse", "lines", "report", "todo", "held"}

\* What session s read of its order is what is stored.
ReadCurrent(s) ==
    /\ s.order \in Orders
    /\ s.status = status[s.order]
    /\ s.warehouse = order_warehouse[s.order]
    /\ s.lines = line[s.order]

\* What s reports of product i, if it is a report of i's outcome.
Reports(s, i) ==
    /\ i \in Lines(s.order)
    /\ \E x \in Outcomes : s.report = [j \in {i} |-> x]
    /\ line[s.order][i].delivered > 0
    /\ OutcomeTotal(s.report[i]) <= line[s.order][i].delivered
    /\ i \notin Consumables => s.report[i].consumed = 0

\* The checks that the handler of s made still succeed.
ChecksHold(s) ==
    /\ s.handler = "reserve" => status[s.order] \in {"ASSIGNED", "INSUFFICIENT_STOCK"}
    /\ s.handler = "unreserve" => /\ status[s.order] \in ACTIVE_STOCK_RESERVATION_STATUSES
                                  /\ ReservedLines(s.order) # {}
    /\ s.handler = "cancel" => /\ status[s.order] \in CANCELLABLE_STATUSES
                               /\ ~HasActivePurchase(s.order)
    /\ s.handler = "dispatch" => /\ status[s.order] \in {"IN_PREPARATION", "LOADED"}
                                 /\ ~dispatched_at[s.order]
                                 /\ Lines(s.order) # {}
                                 /\ \A i \in Lines(s.order) :
                                       /\ line[s.order][i].loaded > 0
                                       /\ line[s.order][i].loaded
                                            = line[s.order][i].reserved
    /\ s.handler = "outcome" => /\ status[s.order] \in OUTCOME_STATUSES
                                /\ \E i \in Products : Reports(s, i)

\* The products whose balances the handler of s locks.
Locks(s) ==
    {i \in Products :
        \/ s.handler \in {"reserve", "dispatch"} /\ i \in Lines(s.order)
        \/ s.handler \in {"unreserve", "cancel"} /\ i \in ReservedLines(s.order)
        \/ /\ s.handler = "outcome"
           /\ i \in DOMAIN s.report
           /\ ReturnsChange(line[s.order][i], s.report[i])}

\* The rows s still has to lock and those it holds are those it locks, and
\* what it holds of a row is what is stored.
RowsCurrent(s) ==
    /\ s.todo \in Seq(Products)
    /\ DOMAIN s.held \cup {s.todo[k] : k \in 1..Len(s.todo)} = Locks(s)
    /\ s.held # <<>> => DOMAIN s.held # {}
    /\ \A i \in DOMAIN s.held : s.held[i] = stock[s.warehouse][i]

SessionFine(s) ==
    /\ DOMAIN s = SessionFields
    /\ s.handler \in Handlers
    /\ ReadCurrent(s)
    /\ ChecksHold(s)
    /\ RowsCurrent(s)

\* Two sessions have neither an order nor a locked row in common.
Apart(r, s) ==
    /\ r.order # s.order
    /\ r.warehouse = s.warehouse => DOMAIN r.held \cap DOMAIN s.held = {}

SessionInv ==
    /\ DOMAIN session = Sessions
    /\ \A t \in Sessions : Live(t) => SessionFine(session[t])
    /\ \A t, u \in Sessions : Live(t) /\ Live(u) /\ t # u
                                 => Apart(session[t], session[u])

\* What Logistics keeps, one handler at a time.
OrdersInv == TypeInv /\ StageInv /\ BalanceInv

-----------------------------------------------------------------------------
(* Sessions whose order nobody touches.                                     *)

\* The rows that s depends on are the same after the step.
RowsUntouched(s) ==
    /\ status'[s.order] = status[s.order]
    /\ order_warehouse'[s.order] = order_warehouse[s.order]
    /\ dispatched_at'[s.order] = dispatched_at[s.order]
    /\ line'[s.order] = line[s.order]
    /\ purchase' = purchase
    /\ \A i \in DOMAIN s.held : stock'[s.warehouse][i] = stock[s.warehouse][i]

LEMMA FineKept ==
    ASSUME NEW s, SessionFine(s), RowsUntouched(s)
    PROVE  SessionFine(s)'
<1>1. ReadCurrent(s)' BY DEF SessionFine, ReadCurrent, RowsUntouched
<1>2. Lines(s.order)' = Lines(s.order) /\ ReservedLines(s.order)' = ReservedLines(s.order)
  BY DEF RowsUntouched, Lines, ReservedLines
<1>3. HasActivePurchase(s.order)' <=> HasActivePurchase(s.order)
  BY DEF RowsUntouched, HasActivePurchase
<1>4. \A i \in Products : Reports(s, i)' <=> Reports(s, i)
  BY <1>2 DEF RowsUntouched, Reports
<1>5. ChecksHold(s)'
  BY <1>2, <1>3, <1>4 DEF SessionFine, ChecksHold, RowsUntouched
<1>6. Locks(s)' = Locks(s)
  BY <1>2 DEF RowsUntouched, Locks
<1>7. RowsCurrent(s)' BY <1>6 DEF SessionFine, RowsCurrent, RowsUntouched
<1> QED BY <1>1, <1>5, <1>7 DEF SessionFine

\* A step of one session that leaves the tables alone.
LEMMA OneSessionStep ==
    ASSUME SessionInv, NEW t \in Sessions, DOMAIN session' = Sessions,
           \A u \in Sessions \ {t} : session'[u] = session[u],
           \A u \in Sessions \ {t} : Live(u) => RowsUntouched(session[u]),
           Live(t)' => /\ SessionFine(session[t])'
                       /\ \A u \in Sessions \ {t} : Live(u)
                             => Apart(session'[t], session[u]) /\ Apart(session[u], session'[t])
    PROVE  SessionInv'
<1>1. \A u \in Sessions \ {t} : Live(u)' <=> Live(u) BY DEF Live
<1>2. ASSUME NEW u \in Sessions, Live(u)' PROVE SessionFine(session[u])'
  <2>1. CASE u = t BY <1>2, <2>1
  <2>2. CASE u # t
    <3>1. PICK s : s = session[u] OBVIOUS
    <3>2. SessionFine(s) /\ RowsUntouched(s) BY <1>1, <1>2, <2>2, <3>1 DEF SessionInv
    <3>3. SessionFine(s)' BY <3>2, FineKept
    <3>4. session'[u] = s BY <2>2, <3>1
    <3> QED BY <3>3, <3>4
  <2> QED BY <2>1, <2>2
<1>3. ASSUME NEW u \in Sessions, NEW v \in Sessions, Live(u)', Live(v)', u # v
      PROVE  Apart(session'[u], session'[v])
  <2>1. CASE u = t BY <1>1, <1>3, <2>1
  <2>2. CASE v = t BY <1>1, <1>3, <2>2
  <2>3. CASE u # t /\ v # t
    <3>1. Live(u) /\ Live(v) BY <1>1, <1>3, <2>3
    <3> QED BY <1>3, <2>3, <3>1 DEF SessionInv
  <2> QED BY <2>1, <2>2, <2>3
<1>4. (\A u \in Sessions : Live(u) => SessionFine(session[u]))' BY <1>2
<1>5. (\A u, v \in Sessions : Live(u) /\ Live(v) /\ u # v
                                 => Apart(session[u], session[v]))'
  BY <1>3
<1> QED BY <1>4, <1>5 DEF SessionInv

-----------------------------------------------------------------------------
(* A session begins.                                                        *)

\* An ordering of the rows of S visits every row of S and no other.
LEMMA OrderingVisitsAll ==
    ASSUME NEW S \in SUBSET Products, NEW f \in Orderings(S)
    PROVE  /\ f \in Seq(Products)
           /\ {f[k] : k \in 1..Len(f)} = S
<1> DEFINE n == Cardinality(S)
<1>1. IsFiniteSet(S) BY SessionsAssumption, FS_Subset
<1>2. n \in Nat BY <1>1, FS_CardinalityType
<1>3. f \in [1..n -> S] BY DEF Orderings
<1>4. IsFiniteSet(1..n) /\ Cardinality(1..n) = n
  <2>1. IsFiniteSet(1..n) BY <1>2, FS_Interval
  <2>2. Cardinality(1..n) = IF 1 > n THEN 0 ELSE n - 1 + 1 BY <1>2, FS_Interval
  <2> HIDE DEF n
  <2> QED BY <1>2, <2>1, <2>2
<1>5. f \in Injection(1..n, S)
  BY <1>3 DEF Injection, IsInjective, Orderings
<1>6. f \in Surjection(1..n, S)
  BY <1>1, <1>4, <1>5, FS_Injection
<1>7. \A i \in S : \E k \in 1..n : f[k] = i BY <1>6 DEF Surjection
<1> HIDE DEF n
<1>8. f \in Seq(S) BY <1>2, <1>3, SeqDef
<1>9. f \in Seq(Products) BY <1>8, SeqMonotonic
<1>10. Len(f) = n BY <1>2, <1>3, <1>8, LenProperties
<1> QED BY <1>3, <1>7, <1>9, <1>10

\* Nobody works on the order that a session reads.
LEMMA BeginStep ==
    ASSUME ~SameOrder, TypeInv, SessionInv, NEW t \in Sessions, NEW o \in Orders,
           NEW h \in Handlers, NEW S \in SUBSET Products, NEW r, Read(t, o, h, S, r),
           \A s : s.handler = h /\ s.order = o /\ s.report = r
                     => ChecksHold(s) /\ Locks(s) = S
    PROVE  SessionInv'
<1>1. PICK todo \in Orderings(S) :
        session' = [session EXCEPT ![t] =
            [handler |-> h, order |-> o, status |-> status[o],
             warehouse |-> order_warehouse[o], lines |-> line[o],
             report |-> r, todo |-> todo, held |-> <<>>]]
  BY DEF Read
<1>2. PICK s : s = [handler |-> h, order |-> o, status |-> status[o],
                    warehouse |-> order_warehouse[o], lines |-> line[o],
                    report |-> r, todo |-> todo, held |-> <<>>]
  OBVIOUS
<1>3. DOMAIN session' = Sessions /\ session'[t] = s
      /\ \A u \in Sessions \ {t} : session'[u] = session[u]
  BY <1>1, <1>2 DEF SessionInv
<1>4. DOMAIN s.held = {} /\ s.held = <<>>
  BY <1>2
<1>5. SessionFine(s)
  <2>1. DOMAIN s = SessionFields BY <1>2 DEF SessionFields
  <2>2. s.handler = h /\ s.order = o /\ s.report = r /\ s.todo = todo BY <1>2
  <2>3. ReadCurrent(s) BY <1>2 DEF ReadCurrent
  <2>4. ChecksHold(s) /\ Locks(s) = S BY <2>2
  <2>5. todo \in Seq(Products) /\ {todo[k] : k \in 1..Len(todo)} = S
    BY OrderingVisitsAll
  <2>6. RowsCurrent(s) BY <1>4, <2>2, <2>4, <2>5 DEF RowsCurrent
  <2> QED BY <2>1, <2>2, <2>3, <2>4, <2>6 DEF SessionFine
<1>6. UNCHANGED vars BY DEF Read
<1>7. RowsUntouched(s) /\ \A u \in Sessions : RowsUntouched(session[u])
  BY <1>6 DEF RowsUntouched
<1>8. SessionFine(s)' BY <1>5, <1>7, FineKept
<1>9. \A u \in Sessions \ {t} : Live(u) => session[u].order # o
  BY DEF Read
<1>10. s.order = o BY <1>2
<1>11. \A u \in Sessions \ {t} : Live(u)
          => Apart(session'[t], session[u]) /\ Apart(session[u], session'[t])
  BY <1>3, <1>4, <1>9, <1>10 DEF Apart
<1>12. SessionFine(session[t])' BY <1>3, <1>8
<1> QED BY <1>3, <1>7, <1>11, <1>12, OneSessionStep

LEMMA BeginReserveStep ==
    ASSUME ~SameOrder, TypeInv, SessionInv, NEW t \in Sessions, NEW o \in Orders,
           BeginReserve(t, o)
    PROVE  SessionInv'
<1>1. "reserve" \in Handlers BY DEF Handlers
<1>2. Lines(o) \in SUBSET Products BY DEF Lines
<1>3. Read(t, o, "reserve", Lines(o), NoReport) BY DEF BeginReserve
<1>4. ASSUME NEW s, s.handler = "reserve", s.order = o, s.report = NoReport
      PROVE  ChecksHold(s) /\ Locks(s) = Lines(o)
  <2>1. ChecksHold(s) BY <1>4 DEF ChecksHold, BeginReserve
  <2>2. Locks(s) = Lines(o) BY <1>2, <1>4 DEF Locks
  <2> QED BY <2>1, <2>2
<1> QED BY <1>1, <1>2, <1>3, <1>4, BeginStep

LEMMA BeginUnreserveStep ==
    ASSUME ~SameOrder, TypeInv, SessionInv, NEW t \in Sessions, NEW o \in Orders,
           BeginUnreserve(t, o)
    PROVE  SessionInv'
<1>1. "unreserve" \in Handlers BY DEF Handlers
<1>2. ReservedLines(o) \in SUBSET Products BY DEF ReservedLines, Lines
<1>3. Read(t, o, "unreserve", ReservedLines(o), NoReport) BY DEF BeginUnreserve
<1>4. ASSUME NEW s, s.handler = "unreserve", s.order = o, s.report = NoReport
      PROVE  ChecksHold(s) /\ Locks(s) = ReservedLines(o)
  <2>1. ChecksHold(s) BY <1>4 DEF ChecksHold, BeginUnreserve
  <2>2. Locks(s) = ReservedLines(o) BY <1>2, <1>4 DEF Locks
  <2> QED BY <2>1, <2>2
<1> QED BY <1>1, <1>2, <1>3, <1>4, BeginStep

LEMMA BeginCancelStep ==
    ASSUME ~SameOrder, TypeInv, SessionInv, NEW t \in Sessions, NEW o \in Orders,
           BeginCancel(t, o)
    PROVE  SessionInv'
<1>1. "cancel" \in Handlers BY DEF Handlers
<1>2. ReservedLines(o) \in SUBSET Products BY DEF ReservedLines, Lines
<1>3. Read(t, o, "cancel", ReservedLines(o), NoReport) BY DEF BeginCancel
<1>4. ASSUME NEW s, s.handler = "cancel", s.order = o, s.report = NoReport
      PROVE  ChecksHold(s) /\ Locks(s) = ReservedLines(o)
  <2>1. ChecksHold(s) BY <1>4 DEF ChecksHold, BeginCancel
  <2>2. Locks(s) = ReservedLines(o) BY <1>2, <1>4 DEF Locks
  <2> QED BY <2>1, <2>2
<1> QED BY <1>1, <1>2, <1>3, <1>4, BeginStep

LEMMA BeginDispatchStep ==
    ASSUME ~SameOrder, TypeInv, SessionInv, NEW t \in Sessions, NEW o \in Orders,
           BeginDispatch(t, o)
    PROVE  SessionInv'
<1>1. "dispatch" \in Handlers BY DEF Handlers
<1>2. Lines(o) \in SUBSET Products BY DEF Lines
<1>3. Read(t, o, "dispatch", Lines(o), NoReport) BY DEF BeginDispatch
<1>4. ASSUME NEW s, s.handler = "dispatch", s.order = o, s.report = NoReport
      PROVE  ChecksHold(s) /\ Locks(s) = Lines(o)
  <2>1. ChecksHold(s) BY <1>4 DEF ChecksHold, BeginDispatch
  <2>2. Locks(s) = Lines(o) BY <1>2, <1>4 DEF Locks
  <2> QED BY <2>1, <2>2
<1> QED BY <1>1, <1>2, <1>3, <1>4, BeginStep

LEMMA BeginOutcomeStep ==
    ASSUME ~SameOrder, TypeInv, SessionInv, NEW t \in Sessions, NEW o \in Orders,
           NEW i \in Products, NEW x \in Outcomes, BeginOutcome(t, o, i, x)
    PROVE  SessionInv'
<1> DEFINE rows == IF ReturnsChange(line[o][i], x) THEN {i} ELSE {}
           report == [j \in {i} |-> x]
<1>1. "outcome" \in Handlers BY DEF Handlers
<1>2. rows \in SUBSET Products OBVIOUS
<1>3. Read(t, o, "outcome", rows, report) BY DEF BeginOutcome
<1>4. DOMAIN report = {i} /\ report[i] = x OBVIOUS
<1>5. ASSUME NEW s, s.handler = "outcome", s.order = o, s.report = report
      PROVE  ChecksHold(s) /\ Locks(s) = rows
  <2>1. Reports(s, i) BY <1>4, <1>5 DEF Reports, BeginOutcome
  <2>2. status[o] \in OUTCOME_STATUSES BY DEF BeginOutcome
  <2> HIDE DEF report
  <2>3. ChecksHold(s) BY <1>5, <2>1, <2>2 DEF ChecksHold
  <2>4. Locks(s) = rows BY <1>4, <1>5 DEF Locks
  <2> QED BY <2>3, <2>4
<1> HIDE DEF rows, report
<1> QED BY <1>1, <1>2, <1>3, <1>5, BeginStep

-----------------------------------------------------------------------------
(* A session locks a row, or ends with nothing written.                     *)

\* The repair finds nothing to repair, so that what a session reads of a row
\* it locks is what is stored.
LEMMA RowReadIsStored ==
    ASSUME OrdersInv, NEW s, s.warehouse \in Warehouses, NEW i \in Products
    PROVE  RowRead(s, i) = stock[s.warehouse][i]
BY SyncedIsStored DEF OrdersInv, RowRead

LEMMA LockBalanceStep ==
    ASSUME OrdersInv, SessionInv, NEW t \in Sessions, LockBalance(t)
    PROVE  SessionInv'
<1>1. PICK s : s = session[t] OBVIOUS
<1>2. Live(t) /\ SessionFine(s) /\ s.todo # <<>> BY <1>1 DEF LockBalance, SessionInv
<1>3. s.todo \in Seq(Products) /\ s.order \in Orders BY <1>2 DEF SessionFine, RowsCurrent, ReadCurrent
<1>4. PICK i \in Products : i = Head(s.todo) BY <1>2, <1>3, HeadTailProperties
<1>5. s.warehouse \in Warehouses
  BY <1>2 DEF SessionFine, ReadCurrent, OrdersInv, TypeInv, TypeOK
<1>6. PICK held : held = [j \in DOMAIN s.held \cup {i} |->
                            IF j = i THEN RowRead(s, i) ELSE s.held[j]]
  OBVIOUS
<1>7. PICK n : n = [s EXCEPT !.todo = Tail(s.todo), !.held = held]
  OBVIOUS
<1>8. session' = [session EXCEPT ![t] = n]
  BY <1>1, <1>4, <1>6, <1>7 DEF LockBalance, TakeRow
<1>9. DOMAIN session' = Sessions /\ session'[t] = n
      /\ \A u \in Sessions \ {t} : session'[u] = session[u]
  BY <1>8 DEF SessionInv
<1>10. /\ DOMAIN n = SessionFields
       /\ n.handler = s.handler /\ n.order = s.order /\ n.status = s.status
       /\ n.warehouse = s.warehouse /\ n.lines = s.lines /\ n.report = s.report
       /\ n.todo = Tail(s.todo) /\ n.held = held
  BY <1>2, <1>7 DEF SessionFine, SessionFields
<1>11. DOMAIN held = DOMAIN s.held \cup {i} BY <1>6
<1>12. RowsCurrent(n)
  <2>1. PICK rest : rest = Tail(s.todo) OBVIOUS
  <2>2. rest \in Seq(Products) /\ n.todo = rest
    BY <1>2, <1>3, <1>10, <2>1, HeadTailProperties
  <2>3. {s.todo[k] : k \in 1..Len(s.todo)}
          = {i} \cup {rest[k] : k \in 1..Len(rest)}
    <3>1. s.todo[1] = i BY <1>2, <1>3, <1>4
    <3>2. Len(s.todo) \in Nat \ {0} BY <1>2, <1>3, EmptySeq
    <3>3. Len(rest) = Len(s.todo) - 1
          /\ \A k \in 1..Len(rest) : rest[k] = s.todo[k + 1]
      BY <1>2, <1>3, <2>1, HeadTailProperties
    <3>4. ASSUME NEW k \in 1..Len(s.todo), k # 1
          PROVE  k - 1 \in 1..Len(rest) /\ s.todo[k] = rest[k - 1]
      <4>1. k - 1 \in 1..Len(rest) BY <3>2, <3>3, <3>4
      <4>2. rest[k - 1] = s.todo[(k - 1) + 1] BY <3>3, <4>1
      <4>3. (k - 1) + 1 = k OBVIOUS
      <4> QED BY <4>1, <4>2, <4>3
    <3>5. ASSUME NEW k \in 1..Len(rest)
          PROVE  k + 1 \in 1..Len(s.todo) /\ s.todo[k + 1] = rest[k]
      BY <3>2, <3>3
    <3>6. ASSUME NEW j \in {s.todo[k] : k \in 1..Len(s.todo)}
          PROVE  j \in {i} \cup {rest[k] : k \in 1..Len(rest)}
      <4>1. PICK k \in 1..Len(s.todo) : j = s.todo[k] BY <3>6
      <4> QED BY <3>1, <3>4, <4>1
    <3>7. ASSUME NEW j \in {rest[k] : k \in 1..Len(rest)}
          PROVE  j \in {s.todo[k] : k \in 1..Len(s.todo)}
      <4>1. PICK k \in 1..Len(rest) : j = rest[k] BY <3>7
      <4> QED BY <3>5, <4>1
    <3>8. i \in {s.todo[k] : k \in 1..Len(s.todo)}
      <4>1. 1 \in 1..Len(s.todo) BY <3>2
      <4> QED BY <3>1, <4>1
    <3> QED BY <3>6, <3>7, <3>8
  <2>4. Locks(n) = Locks(s) BY <1>10 DEF Locks
  <2>5. DOMAIN s.held \cup {s.todo[k] : k \in 1..Len(s.todo)} = Locks(s)
        /\ \A j \in DOMAIN s.held : s.held[j] = stock[s.warehouse][j]
    BY <1>2 DEF SessionFine, RowsCurrent
  <2>6. RowRead(s, i) = stock[s.warehouse][i] BY <1>5, RowReadIsStored
  <2>7. \A j \in DOMAIN held : held[j] = stock[s.warehouse][j]
    BY <1>6, <2>5, <2>6
  <2>8. DOMAIN held \cup {rest[k] : k \in 1..Len(rest)} = Locks(s)
    BY <1>11, <2>3, <2>5
  <2>9. n.held = held /\ n.warehouse = s.warehouse BY <1>10
  <2> QED BY <1>11, <2>2, <2>4, <2>7, <2>8, <2>9 DEF RowsCurrent
<1>13. SessionFine(n)
  <2>1. ReadCurrent(n) BY <1>2, <1>10 DEF SessionFine, ReadCurrent
  <2>2. ChecksHold(n) BY <1>2, <1>10 DEF SessionFine, ChecksHold, Reports
  <2> QED BY <1>2, <1>10, <1>12, <2>1, <2>2 DEF SessionFine
<1>14. UNCHANGED vars BY DEF LockBalance
<1>15. RowsUntouched(n) /\ \A u \in Sessions : RowsUntouched(session[u])
  BY <1>14 DEF RowsUntouched
<1>16. SessionFine(session[t])' BY <1>9, <1>13, <1>15, FineKept
<1>17. ASSUME NEW u \in Sessions \ {t}, Live(u)
       PROVE  Apart(n, session[u]) /\ Apart(session[u], n)
  <2>1. Apart(s, session[u]) BY <1>1, <1>2, <1>17 DEF SessionInv
  <2>2. s.warehouse = session[u].warehouse => i \notin DOMAIN session[u].held
    BY <1>1, <1>2, <1>4, <1>17 DEF LockBalance, WaitsFor, Holds
  <2> QED BY <1>10, <1>11, <2>1, <2>2 DEF Apart
<1> QED BY <1>9, <1>15, <1>16, <1>17, OneSessionStep

LEMMA RollbackStep ==
    ASSUME SessionInv, NEW t \in Sessions, Rollback(t)
    PROVE  SessionInv'
<1>1. DOMAIN session' = Sessions /\ session'[t] = Idle
      /\ \A u \in Sessions \ {t} : session'[u] = session[u]
  BY DEF Rollback, SessionInv
<1>2. ~Live(t)' BY <1>1 DEF Live, Idle
<1>3. \A u \in Sessions : RowsUntouched(session[u])
  BY DEF Rollback, RowsUntouched
<1> QED BY <1>1, <1>2, <1>3, OneSessionStep

-----------------------------------------------------------------------------
(* The handlers in between.                                                 *)

LEMMA BetweenRows ==
    ASSUME TypeInv, NEW o \in Orders, Between(o)
    PROVE  /\ OrderNext
           /\ UNCHANGED <<stock, purchase, session>>
           /\ \A x \in Orders \ {o} : /\ status'[x] = status[x]
                                      /\ order_warehouse'[x] = order_warehouse[x]
                                      /\ dispatched_at'[x] = dispatched_at[x]
                                      /\ line'[x] = line[x]
<1>1. session' = session BY DEF Between
<1>2. CASE \E w \in Warehouses, q \in Quantities : CreateOrder(o, w, q)
  <2>1. PICK w \in Warehouses, q \in Quantities : CreateOrder(o, w, q) BY <1>2
  <2>2. OrderNext BY <1>2, Zenon DEF OrderNext
  <2> QED BY <1>1, <2>1, <2>2 DEF CreateOrder, SetStatus, TypeInv, TypeOK
<1>3. CASE StartPreparation(o)
  <2>1. OrderNext BY <1>3, Zenon DEF OrderNext
  <2> QED BY <1>1, <1>3, <2>1 DEF StartPreparation, SetStatus, TypeInv, TypeOK
<1>4. CASE \E i \in Products, q \in 1..MaxQuantity : LoadItem(o, i, q)
  <2>1. PICK i \in Products, q \in 1..MaxQuantity : LoadItem(o, i, q) BY <1>4
  <2>2. OrderNext BY <1>4, Zenon DEF OrderNext
  <2> QED BY <1>1, <2>1, <2>2 DEF LoadItem, SetStatus, TypeInv, TypeOK
<1>5. CASE \E i \in Products, q \in 0..MaxQuantity : DeliverItem(o, i, q)
  <2>1. PICK i \in Products, q \in 0..MaxQuantity : DeliverItem(o, i, q) BY <1>5
  <2>2. OrderNext BY <1>5, Zenon DEF OrderNext
  <2> QED BY <1>1, <2>1, <2>2 DEF DeliverItem, TypeInv, TypeOK
<1>6. CASE ConfirmDelivery(o)
  <2>1. OrderNext BY <1>6, Zenon DEF OrderNext
  <2> QED BY <1>1, <1>6, <2>1 DEF ConfirmDelivery, SetStatus, TypeInv, TypeOK
<1> QED BY <1>2, <1>3, <1>4, <1>5, <1>6 DEF Between

LEMMA BetweenStep ==
    ASSUME TypeInv, SessionInv, NEW o \in Orders, Between(o)
    PROVE  OrderNext /\ SessionInv'
<1>1. session' = session /\ OrderNext BY BetweenRows
<1>2. ASSUME NEW u \in Sessions, Live(u) PROVE SessionFine(session[u])'
  <2>1. PICK s : s = session[u] OBVIOUS
  <2>2. SessionFine(s) /\ s.order \in Orders
    BY <1>2, <2>1 DEF SessionInv, SessionFine, ReadCurrent
  <2>3. s.order # o BY <1>2, <2>1 DEF Between
  <2>4. RowsUntouched(s) BY <2>2, <2>3, BetweenRows DEF RowsUntouched
  <2>5. SessionFine(s)' BY <2>2, <2>4, FineKept
  <2>6. session'[u] = s BY <1>1, <2>1
  <2> QED BY <2>5, <2>6
<1>3. \A u \in Sessions : Live(u)' <=> Live(u) BY <1>1 DEF Live
<1>4. (\A u \in Sessions : Live(u) => SessionFine(session[u]))' BY <1>2, <1>3
<1>5. (\A u, v \in Sessions : Live(u) /\ Live(v) /\ u # v
                                 => Apart(session[u], session[v]))'
  BY <1>1, <1>3 DEF SessionInv
<1> QED BY <1>1, <1>4, <1>5 DEF SessionInv

-----------------------------------------------------------------------------
(* A commit writes what the handler computed.                               *)

\* Every column of the row is written: the others keep the value that was read,
\* and what was read is what is stored.
LEMMA WrittenFresh ==
    ASSUME NEW c \in Line, NEW n \in Line
    PROVE  Written(c, c, n) = n
<1> DEFINE F == {"requested", "reserved", "loaded", "dispatched", "delivered",
                 "consumed", "returned", "returned_damaged", "lost"}
<1>1. DOMAIN c = F /\ DOMAIN n = F BY DEF Line
<1>2. n = [f \in F |-> n[f]] BY DEF Line
<1>3. Written(c, c, n) = [f \in F |-> n[f]]
  <2>1. \A f \in F : (IF n[f] = c[f] THEN c[f] ELSE n[f]) = n[f] OBVIOUS
  <2> HIDE DEF F
  <2> QED BY <1>1, <2>1 DEF Written
<1> QED BY <1>2, <1>3

\* A commit touches the order of its session and the rows it holds, and so no
\* other session's.
LEMMA CommitStep ==
    ASSUME TypeInv, SessionInv, NEW t \in Sessions, Commit(t)
    PROVE  SessionInv'
<1>1. PICK s : s = session[t] OBVIOUS
<1>2. PICK new : new = Effect(s) OBVIOUS
<1>3. Live(t) /\ SessionFine(s) BY <1>1 DEF Commit, Computed, SessionInv
<1>4. s.order \in Orders /\ s.warehouse \in Warehouses
  BY <1>3 DEF SessionFine, ReadCurrent, TypeInv, TypeOK
<1>5. /\ stock' = [stock EXCEPT ![s.warehouse] = [i \in Products |->
                     IF i \in DOMAIN s.held THEN new.balances[i] ELSE @[i]]]
      /\ line' = [line EXCEPT ![s.order] = LinesWritten(s)]
      /\ status' = [status EXCEPT ![s.order] =
                      IF new.status = s.status THEN @ ELSE new.status]
      /\ dispatched_at' = [dispatched_at EXCEPT ![s.order] =
                             @ \/ s.handler = "dispatch"]
      /\ session' = [session EXCEPT ![t] = Idle]
      /\ order_warehouse' = order_warehouse /\ purchase' = purchase
  BY <1>1, <1>2 DEF Commit
<1>6. DOMAIN session' = Sessions /\ session'[t] = Idle
      /\ \A u \in Sessions \ {t} : session'[u] = session[u]
  BY <1>5 DEF SessionInv
<1>7. ~Live(t)' BY <1>6 DEF Live, Idle
<1>8. ASSUME NEW u \in Sessions \ {t}, Live(u) PROVE RowsUntouched(session[u])
  <2>1. PICK r : r = session[u] OBVIOUS
  <2>2. SessionFine(r) /\ Apart(s, r) BY <1>1, <1>3, <1>8, <2>1 DEF SessionInv
  <2>3. r.order \in Orders /\ r.order # s.order /\ r.warehouse \in Warehouses
    BY <2>2 DEF SessionFine, ReadCurrent, Apart, TypeInv, TypeOK
  <2>4. /\ status'[r.order] = status[r.order]
        /\ dispatched_at'[r.order] = dispatched_at[r.order]
        /\ line'[r.order] = line[r.order]
    BY <1>5, <2>3 DEF TypeInv, TypeOK
  <2>5. ASSUME NEW i \in DOMAIN r.held
        PROVE  stock'[r.warehouse][i] = stock[r.warehouse][i]
    <3>1. i \in Products BY <2>2, <2>5 DEF SessionFine, RowsCurrent, Locks
    <3>2. CASE r.warehouse # s.warehouse
      BY <1>4, <1>5, <2>3, <3>2 DEF TypeInv, TypeOK
    <3>3. CASE r.warehouse = s.warehouse
      <4>1. i \notin DOMAIN s.held BY <2>2, <2>5, <3>3 DEF Apart
      <4> QED BY <1>4, <1>5, <3>1, <3>3, <4>1 DEF TypeInv, TypeOK
    <3> QED BY <3>2, <3>3
  <2> QED BY <1>5, <2>1, <2>4, <2>5 DEF RowsUntouched
<1> QED BY <1>6, <1>7, <1>8, OneSessionStep

\* What a session that commits knows of its order and its rows.
LEMMA CommitFacts ==
    ASSUME OrdersInv, SessionInv, NEW t \in Sessions, Commit(t),
           NEW s, s = session[t], NEW o, o = s.order
    PROVE  /\ o \in Orders /\ s.handler \in Handlers
           /\ s.status = status[o] /\ s.warehouse = order_warehouse[o]
           /\ s.lines = line[o] /\ order_warehouse[o] \in Warehouses
           /\ ChecksHold(s)
           /\ DOMAIN s.held = Locks(s)
           /\ s.held # <<>> => DOMAIN s.held # {}
           /\ \A i \in DOMAIN s.held : s.held[i] = stock[order_warehouse[o]][i]
           /\ \A i \in Products : /\ line[o][i] \in Line
                                  /\ LineChained(line[o][i])
                                  /\ stock[order_warehouse[o]][i] \in Balance
                                  /\ RowForReserve(o, i, Products) = stock[order_warehouse[o]][i]
           /\ \A i \in DOMAIN s.held : ValidBalance(Effect(s).balances[i])
<1>1. Live(t) /\ s.todo = <<>> /\ SessionFine(s)
  BY DEF Commit, Computed, SessionInv
<1>2. /\ o \in Orders /\ s.handler \in Handlers
      /\ s.status = status[o] /\ s.warehouse = order_warehouse[o]
      /\ s.lines = line[o] /\ ChecksHold(s)
  BY <1>1 DEF SessionFine, ReadCurrent
<1>3. order_warehouse[o] \in Warehouses BY <1>2 DEF OrdersInv, TypeInv, TypeOK
<1>4. {s.todo[k] : k \in 1..Len(s.todo)} = {}
  <2>1. Len(s.todo) = 0 BY <1>1, EmptySeq
  <2> QED BY <2>1
<1>5. /\ DOMAIN s.held = Locks(s)
      /\ s.held # <<>> => DOMAIN s.held # {}
      /\ \A i \in DOMAIN s.held : s.held[i] = stock[order_warehouse[o]][i]
  BY <1>1, <1>2, <1>4 DEF SessionFine, RowsCurrent
<1>6. \A i \in Products : /\ line[o][i] \in Line
                          /\ LineChained(line[o][i])
                          /\ stock[order_warehouse[o]][i] \in Balance
  BY <1>2, <1>3 DEF OrdersInv, TypeInv, TypeOK, StageInv, OrderStage, LineStage
<1>7. \A i \in Products : RowForReserve(o, i, Products) = stock[order_warehouse[o]][i]
  BY <1>2, ReserveIsStored DEF OrdersInv
<1>8. DOMAIN Effect(s).balances = DOMAIN s.held
  <2>1. DOMAIN ReserveEffect(s).balances = DOMAIN s.held BY DEF ReserveEffect
  <2>2. DOMAIN ReleaseEffect(s, "ASSIGNED").balances = DOMAIN s.held BY DEF ReleaseEffect
  <2>3. DOMAIN ReleaseEffect(s, "CANCELLED").balances = DOMAIN s.held BY DEF ReleaseEffect
  <2>4. DOMAIN DispatchEffect(s).balances = DOMAIN s.held BY DEF DispatchEffect
  <2>5. DOMAIN OutcomeEffect(s).balances = DOMAIN s.held BY DEF OutcomeEffect
  <2> QED BY <1>2, <2>1, <2>2, <2>3, <2>4, <2>5 DEF Effect, Handlers
<1>9. \A i \in DOMAIN s.held : ValidBalance(Effect(s).balances[i])
  BY <1>8 DEF Commit, Accepted
<1> QED BY <1>2, <1>3, <1>5, <1>6, <1>7, <1>9

\* The lines that are stored are the lines that were computed.
LEMMA LinesFresh ==
    ASSUME NEW s, s.lines = line[s.order], NEW rows, rows = Effect(s).lines,
           \A i \in Products : line[s.order][i] \in Line /\ rows[i] \in Line
    PROVE  LinesWritten(s) = [i \in Products |-> rows[i]]
<1>1. ASSUME NEW i \in Products
      PROVE  Written(line[s.order][i], s.lines[i], rows[i]) = rows[i]
  BY WrittenFresh
<1> QED BY <1>1, Zenon DEF LinesWritten

\* A commit, in the words of the handlers of LogisticsOrders: rows are the
\* balances of the products, new_lines the lines, s the status.
Stores(o, rows, new_lines, s) ==
    /\ stock' = [stock EXCEPT ![order_warehouse[o]] = [i \in Products |-> rows[i]]]
    /\ line' = [line EXCEPT ![o] = [i \in Products |-> new_lines[i]]]
    /\ status' = [status EXCEPT ![o] = s]
    /\ UNCHANGED <<order_warehouse, pending_request, entered, purchase>>

LEMMA CommitStores ==
    ASSUME OrdersInv, SessionInv, NEW t \in Sessions, Commit(t),
           NEW s, s = session[t], NEW o, o = s.order,
           NEW new, new = Effect(s),
           \A i \in Products : new.lines[i] \in Line
    PROVE  /\ Stores(o, [i \in Products |-> IF i \in DOMAIN s.held
                                            THEN new.balances[i]
                                            ELSE stock[order_warehouse[o]][i]],
                     new.lines, new.status)
           /\ dispatched_at' = IF s.handler = "dispatch"
                               THEN [dispatched_at EXCEPT ![o] = TRUE]
                               ELSE dispatched_at
<1>1. /\ o \in Orders /\ s.status = status[o] /\ s.warehouse = order_warehouse[o]
      /\ s.lines = line[o] /\ order_warehouse[o] \in Warehouses
      /\ \A i \in Products : line[o][i] \in Line
  BY CommitFacts
<1>2. LinesWritten(s) = [i \in Products |-> new.lines[i]]
  <2>1. PICK rows : rows = new.lines OBVIOUS
  <2> QED BY <1>1, <2>1, LinesFresh
<1>3. /\ stock' = [stock EXCEPT ![s.warehouse] = [i \in Products |->
                     IF i \in DOMAIN s.held THEN new.balances[i] ELSE @[i]]]
      /\ line' = [line EXCEPT ![s.order] = LinesWritten(s)]
      /\ status' = [status EXCEPT ![s.order] =
                      IF new.status = s.status THEN @ ELSE new.status]
      /\ dispatched_at' = [dispatched_at EXCEPT ![s.order] =
                             @ \/ s.handler = "dispatch"]
      /\ UNCHANGED <<order_warehouse, pending_request, entered, purchase>>
  BY DEF Commit
<1>4. (IF new.status = s.status THEN status[o] ELSE new.status) = new.status
  BY <1>1
<1>5. dispatched_at' = IF s.handler = "dispatch"
                       THEN [dispatched_at EXCEPT ![o] = TRUE] ELSE dispatched_at
  <2>1. dispatched_at \in [Orders -> BOOLEAN] BY DEF OrdersInv, TypeInv, TypeOK
  <2>2. dispatched_at' = [dispatched_at EXCEPT ![o] =
                            dispatched_at[o] \/ s.handler = "dispatch"]
    BY <1>3
  <2>3. CASE s.handler = "dispatch"
    <3>1. (dispatched_at[o] \/ s.handler = "dispatch") = TRUE BY <2>3
    <3> QED BY <2>2, <2>3, <3>1
  <2>4. CASE s.handler # "dispatch"
    <3>1. dispatched_at[o] = TRUE \/ dispatched_at[o] = FALSE BY <1>1, <2>1
    <3>2. (dispatched_at[o] \/ s.handler = "dispatch") = dispatched_at[o]
      BY <2>4, <3>1
    <3>3. dispatched_at' = [dispatched_at EXCEPT ![o] = dispatched_at[o]]
      BY <2>2, <3>2
    <3> QED BY <2>1, <2>4, <3>3
  <2> QED BY <2>3, <2>4
<1> QED BY <1>1, <1>2, <1>3, <1>4, <1>5 DEF Stores

LEMMA StoredAsSet ==
    ASSUME OneLineEach, NEW o \in Orders, NEW rows, NEW new_lines, NEW s,
           Stores(o, rows, new_lines, s),
           NEW balances, NEW order_lines,
           \A i \in Products :
              /\ rows[i] = IF i \in Lines(o) THEN balances[i]
                                             ELSE stock[order_warehouse[o]][i]
              /\ new_lines[i] = IF i \in Lines(o) THEN order_lines[i] ELSE line[o][i]
    PROVE  SetBalances(o, balances) /\ SetLines(o, order_lines) /\ SetStatus(o, s)
<1>1. [i \in Products |-> rows[i]]
        = [i \in Products |-> IF i \in Lines(o) THEN balances[i]
                              ELSE stock[order_warehouse[o]][i]]
  OBVIOUS
<1>2. [i \in Products |-> new_lines[i]]
        = [i \in Products |-> IF i \in Lines(o) THEN order_lines[i] ELSE line[o][i]]
  OBVIOUS
<1>3. SetBalances(o, balances) BY <1>1, OneLineRows DEF Stores
<1>4. SetLines(o, order_lines) BY <1>2 DEF Stores, SetLines
<1> QED BY <1>3, <1>4 DEF Stores, SetStatus

LEMMA CommitReserve ==
    ASSUME OrdersInv, SessionInv, NEW t \in Sessions, Commit(t),
           NEW s, s = session[t], NEW o, o = s.order, s.handler = "reserve"
    PROVE  ReserveStock(o, Products)
<1>1. /\ o \in Orders /\ s.status = status[o] /\ s.warehouse = order_warehouse[o]
      /\ s.lines = line[o] /\ order_warehouse[o] \in Warehouses /\ ChecksHold(s)
      /\ DOMAIN s.held = Locks(s)
      /\ s.held # <<>> => DOMAIN s.held # {}
      /\ \A i \in DOMAIN s.held : s.held[i] = stock[order_warehouse[o]][i]
      /\ \A i \in Products : /\ line[o][i] \in Line
                             /\ LineChained(line[o][i])
                             /\ stock[order_warehouse[o]][i] \in Balance
                             /\ RowForReserve(o, i, Products) = stock[order_warehouse[o]][i]
  BY CommitFacts
<1>2. DOMAIN s.held = Lines(o) BY <1>1 DEF Locks, Lines
<1> DEFINE take(i) == QuantityToReserve(o, i, RowForReserve(o, i, Products), Products)
           balances == [i \in Products |->
                          [RowForReserve(o, i, Products) EXCEPT !.reserved = @ + take(i)]]
           order_lines == [i \in Products |->
                             [line[o][i] EXCEPT !.reserved = @ + take(i)]]
           whole == /\ Lines(o) # {}
                    /\ \A i \in Lines(o) :
                          line[o][i].reserved + take(i) >= line[o][i].requested
<1>3. ASSUME NEW i \in Products
      PROVE  /\ take(i) = Smaller(Positive(line[o][i].requested - line[o][i].reserved),
                                  Positive(Available(stock[order_warehouse[o]][i])))
             /\ take(i) \in Nat
             /\ take(i) <= Positive(line[o][i].requested - line[o][i].reserved)
             /\ Positive(line[o][i].requested - line[o][i].reserved)
                  = line[o][i].requested - line[o][i].reserved
  <2>1. take(i) = Smaller(Positive(line[o][i].requested - line[o][i].reserved),
                          Positive(Available(stock[order_warehouse[o]][i])))
    BY <1>1, ItemType DEF QuantityToReserve
  <2>2. PICK a \in Int : a = Available(stock[order_warehouse[o]][i])
    BY <1>1 DEF Available, Balance
  <2>3. PICK p \in Nat, q \in Nat : /\ p = line[o][i].requested
                                    /\ q = line[o][i].reserved /\ q <= p
    BY <1>1 DEF Line, LineChained
  <2> QED BY <2>1, <2>2, <2>3 DEF Smaller, Positive, Larger
<1> DEFINE wanted(i) == Positive(s.lines[i].requested - s.lines[i].reserved)
           taken(i)  == Smaller(wanted(i), Positive(Available(s.held[i])))
<1>4. \A i \in Lines(o) : /\ taken(i) = take(i)
                          /\ s.held[i] = RowForReserve(o, i, Products)
                          /\ wanted(i) = line[o][i].requested - line[o][i].reserved
  BY <1>1, <1>2, <1>3 DEF Lines
<1>5. PICK new : new = Effect(s) OBVIOUS
<1>6. new = [balances |-> [i \in DOMAIN s.held |->
                              [s.held[i] EXCEPT !.reserved = @ + taken(i)]],
             lines    |-> [i \in Products |-> IF i \in DOMAIN s.held
                              THEN [s.lines[i] EXCEPT !.reserved = @ + taken(i)]
                              ELSE s.lines[i]],
             status   |-> IF (\A i \in DOMAIN s.held : taken(i) = wanted(i))
                             /\ s.held # <<>>
                          THEN "RESERVED" ELSE "INSUFFICIENT_STOCK"]
  BY <1>5 DEF Effect, ReserveEffect
<1>7. /\ \A i \in Lines(o) : new.balances[i] = balances[i]
      /\ \A i \in Products : new.lines[i] = IF i \in Lines(o) THEN order_lines[i]
                                                              ELSE line[o][i]
  <2>1. ASSUME NEW i \in Lines(o)
        PROVE  new.balances[i] = balances[i] /\ new.lines[i] = order_lines[i]
    <3>1. i \in Products BY DEF Lines
    <3>2. new.balances[i] = [s.held[i] EXCEPT !.reserved = @ + taken(i)]
      BY <1>2, <1>6
    <3>3. new.lines[i] = [s.lines[i] EXCEPT !.reserved = @ + taken(i)]
      BY <1>2, <1>6, <3>1
    <3> QED BY <1>1, <1>4, <3>1, <3>2, <3>3
  <2>2. ASSUME NEW i \in Products, i \notin Lines(o)
        PROVE  new.lines[i] = line[o][i]
    BY <1>1, <1>2, <1>6, <2>2
  <2> QED BY <2>1, <2>2
<1>8. new.status = IF whole THEN "RESERVED" ELSE "INSUFFICIENT_STOCK"
  <2>1. \A i \in Lines(o) : taken(i) = wanted(i)
           <=> line[o][i].reserved + take(i) >= line[o][i].requested
    <3> SUFFICES ASSUME NEW i \in Lines(o)
                 PROVE  taken(i) = wanted(i)
                          <=> line[o][i].reserved + take(i) >= line[o][i].requested
      OBVIOUS
    <3>1. i \in Products BY DEF Lines
    <3>2. PICK p \in Nat, q \in Nat : /\ p = line[o][i].requested
                                      /\ q = line[o][i].reserved /\ q <= p
      BY <1>1, <3>1 DEF Line, LineChained
    <3>3. PICK k \in Nat : k = take(i) /\ k <= p - q BY <1>3, <3>1, <3>2
    <3>4. taken(i) = k /\ wanted(i) = p - q BY <1>4, <3>2, <3>3
    <3> HIDE DEF taken, wanted, take
    <3>5. k = p - q <=> q + k >= p BY <3>3, <3>2
    <3> QED BY <3>2, <3>3, <3>4, <3>5
  <2>2. s.held # <<>> <=> Lines(o) # {}
    <3>1. s.held = <<>> => DOMAIN s.held = {} OBVIOUS
    <3> QED BY <1>1, <1>2, <3>1
  <2>3. new.status = IF (\A i \in DOMAIN s.held : taken(i) = wanted(i))
                             /\ s.held # <<>>
                          THEN "RESERVED" ELSE "INSUFFICIENT_STOCK"
    BY <1>6
  <2> HIDE DEF taken, wanted, take
  <2> QED BY <1>2, <2>1, <2>2, <2>3
<1>9. \A i \in Products : new.lines[i] \in Line
  <2>1. \A i \in Products : order_lines[i] \in Line
    <3> SUFFICES ASSUME NEW i \in Products PROVE order_lines[i] \in Line OBVIOUS
    <3>1. take(i) \in Nat /\ line[o][i] \in Line BY <1>1, <1>3
    <3>2. order_lines[i] = [line[o][i] EXCEPT !.reserved = @ + take(i)] OBVIOUS
    <3> HIDE DEF take, order_lines
    <3> QED BY <3>1, <3>2 DEF Line
  <2> HIDE DEF order_lines
  <2> QED BY <1>1, <1>7, <2>1
<1> DEFINE rows == [i \in Products |-> IF i \in DOMAIN s.held THEN new.balances[i]
                                       ELSE stock[order_warehouse[o]][i]]
<1>10. Stores(o, rows, new.lines, new.status) /\ dispatched_at' = dispatched_at
  BY <1>5, <1>9, CommitStores
<1>11. \A i \in Products : rows[i] = IF i \in Lines(o) THEN balances[i]
                                     ELSE stock[order_warehouse[o]][i]
  BY <1>2, <1>7
<1> HIDE DEF rows, balances, order_lines
<1>12. SetBalances(o, balances) /\ SetLines(o, order_lines) /\ SetStatus(o, new.status)
  <2>1. PICK new_lines : new_lines = new.lines OBVIOUS
  <2>2. PICK s1 : s1 = new.status OBVIOUS
  <2>3. PICK r, b, l : r = rows /\ b = balances /\ l = order_lines OBVIOUS
  <2>4. Stores(o, r, new_lines, s1) BY <1>10, <2>1, <2>2, <2>3
  <2>5. \A i \in Products :
           /\ r[i] = IF i \in Lines(o) THEN b[i] ELSE stock[order_warehouse[o]][i]
           /\ new_lines[i] = IF i \in Lines(o) THEN l[i] ELSE line[o][i]
    BY <1>7, <1>11, <2>1, <2>3
  <2>6. o \in Orders /\ OneLineEach BY <1>1 DEF OrdersInv, BalanceInv
  <2>7. SetBalances(o, b) /\ SetLines(o, l) /\ SetStatus(o, s1)
    BY <2>4, <2>5, <2>6, StoredAsSet
  <2> QED BY <2>2, <2>3, <2>7
<1>13. UNCHANGED <<order_warehouse, dispatched_at, pending_request, entered, purchase>>
  BY <1>10 DEF Stores
<1>14. status[o] \in {"ASSIGNED", "INSUFFICIENT_STOCK"} BY <1>1 DEF ChecksHold
<1> QED BY <1>8, <1>12, <1>13, <1>14 DEF ReserveStock, balances, order_lines

\* A line that holds and loads nothing is reset already.
LEMMA ResetNothing ==
    ASSUME NEW l \in Line, l.reserved = 0, l.loaded = 0
    PROVE  [l EXCEPT !.reserved = 0, !.loaded = 0] = l
BY DEF Line

LEMMA CommitRelease ==
    ASSUME OrdersInv, SessionInv, NEW t \in Sessions, Commit(t),
           NEW s, s = session[t], NEW o, o = s.order,
           s.handler \in {"unreserve", "cancel"}
    PROVE  /\ ReleaseReservations(o)
           /\ SetStatus(o, IF s.handler = "unreserve" THEN "ASSIGNED" ELSE "CANCELLED")
           /\ UNCHANGED <<order_warehouse, dispatched_at, pending_request, entered, purchase>>
<1>1. /\ o \in Orders /\ s.warehouse = order_warehouse[o]
      /\ s.lines = line[o] /\ order_warehouse[o] \in Warehouses
      /\ DOMAIN s.held = Locks(s)
      /\ \A i \in DOMAIN s.held : s.held[i] = stock[order_warehouse[o]][i]
      /\ \A i \in Products : /\ line[o][i] \in Line
                             /\ LineChained(line[o][i])
                             /\ stock[order_warehouse[o]][i] \in Balance
                             /\ RowForReserve(o, i, Products) = stock[order_warehouse[o]][i]
  BY CommitFacts
<1>2. \A i \in DOMAIN s.held : ValidBalance(Effect(s).balances[i])
  BY CommitFacts
<1>3. DOMAIN s.held = ReservedLines(o) BY <1>1 DEF Locks, ReservedLines, Lines
<1> DEFINE freed(i) == RowFreed(o, i, stock[order_warehouse[o]][i])
           balances == [i \in Products |-> freed(i)]
           order_lines == [i \in Products |->
                             [line[o][i] EXCEPT !.reserved = 0, !.loaded = 0]]
<1>4. PICK new : new = Effect(s) OBVIOUS
<1>5. new = [balances |-> [i \in DOMAIN s.held |->
                              [s.held[i] EXCEPT !.reserved = @ - s.lines[i].reserved]],
             lines    |-> [i \in Products |->
                              [s.lines[i] EXCEPT !.reserved = 0, !.loaded = 0]],
             status   |-> IF s.handler = "unreserve" THEN "ASSIGNED" ELSE "CANCELLED"]
  <2>1. CASE s.handler = "unreserve" BY <1>4, <2>1 DEF Effect, ReleaseEffect
  <2>2. CASE s.handler = "cancel" BY <1>4, <2>2 DEF Effect, ReleaseEffect
  <2> QED BY <2>1, <2>2
<1>16. \A i \in Products :
          freed(i) = IF line[o][i].reserved > 0
                     THEN [stock[order_warehouse[o]][i] EXCEPT !.reserved = @ - line[o][i].reserved]
                     ELSE stock[order_warehouse[o]][i]
  BY <1>1, LockedIsStored DEF OrdersInv, RowFreed
<1> HIDE DEF freed
<1>6. \A i \in Products : line[o][i].reserved > 0 => new.balances[i] = balances[i]
  <2> SUFFICES ASSUME NEW i \in Products, line[o][i].reserved > 0
               PROVE  new.balances[i] = balances[i]
    OBVIOUS
  <2>1. i \in DOMAIN s.held
    <3>1. i \in Lines(o) BY <1>1 DEF Lines, Line, LineChained
    <3> QED BY <1>3, <3>1 DEF ReservedLines
  <2>2. new.balances[i] = [s.held[i] EXCEPT !.reserved = @ - s.lines[i].reserved]
    BY <1>5, <2>1
  <2>3. balances[i] = freed(i) OBVIOUS
  <2> QED BY <1>1, <1>16, <2>1, <2>2, <2>3
<1>7. \A i \in Products : new.lines[i] = order_lines[i]
  BY <1>1, <1>5
<1>8. \A i \in Products \ Lines(o) : order_lines[i] = line[o][i]
  <2> SUFFICES ASSUME NEW i \in Products, i \notin Lines(o)
               PROVE  order_lines[i] = line[o][i]
    OBVIOUS
  <2>1. line[o][i].requested = 0 BY <1>1 DEF Lines, Line
  <2>2. line[o][i].reserved = 0 /\ line[o][i].loaded = 0
    <3>1. PICK l \in Line : l = line[o][i] /\ LineChained(l) BY <1>1
    <3>2. l.reserved = 0 /\ l.loaded = 0
      BY <2>1, <3>1 DEF Line, LineChained, OutcomeTotal
    <3> QED BY <3>1, <3>2
  <2> QED BY <1>1, <2>2, ResetNothing
<1>9. \A i \in Products : new.lines[i] \in Line
  <2> SUFFICES ASSUME NEW i \in Products PROVE new.lines[i] \in Line
    OBVIOUS
  <2>1. line[o][i] \in Line BY <1>1
  <2>2. new.lines[i] = ResetLine(line[o][i]) BY <1>7 DEF ResetLine
  <2> QED BY <2>1, <2>2, ResetLineType
<1> DEFINE rows == [i \in Products |-> IF i \in DOMAIN s.held THEN new.balances[i]
                                       ELSE stock[order_warehouse[o]][i]]
<1>10. Stores(o, rows, new.lines, new.status) /\ dispatched_at' = dispatched_at
  <2>1. s.handler # "dispatch" OBVIOUS
  <2> HIDE DEF rows
  <2> QED BY <1>4, <1>9, <2>1, CommitStores DEF rows
<1>11. \A i \in Products : rows[i] = IF i \in Lines(o) THEN balances[i]
                                     ELSE stock[order_warehouse[o]][i]
  <2> SUFFICES ASSUME NEW i \in Products
               PROVE  rows[i] = IF i \in Lines(o) THEN balances[i]
                                ELSE stock[order_warehouse[o]][i]
    OBVIOUS
  <2>1. CASE line[o][i].reserved > 0
    <3>1. i \in Lines(o) /\ i \in DOMAIN s.held
      <4>1. i \in Lines(o) BY <1>1, <2>1 DEF Lines, Line, LineChained
      <4> QED BY <1>3, <2>1, <4>1 DEF ReservedLines
    <3> QED BY <1>6, <2>1, <3>1
  <2>2. CASE ~(line[o][i].reserved > 0)
    <3>1. i \notin DOMAIN s.held BY <1>3, <2>2 DEF ReservedLines
    <3>2. balances[i] = stock[order_warehouse[o]][i] BY <1>16, <2>2
    <3> HIDE DEF balances
    <3> QED BY <3>1, <3>2
  <2> QED BY <2>1, <2>2
<1>12. \A i \in Lines(o) : freed(i).reserved >= 0
  <2> SUFFICES ASSUME NEW i \in Lines(o) PROVE freed(i).reserved >= 0
    OBVIOUS
  <2>1. i \in Products BY DEF Lines
  <2>2. CASE line[o][i].reserved > 0
    <3>1. i \in DOMAIN s.held BY <1>3, <2>2 DEF ReservedLines
    <3>2. ValidBalance(new.balances[i]) BY <1>2, <1>4, <3>1
    <3>3. new.balances[i] = freed(i) BY <1>6, <2>1, <2>2
    <3> QED BY <3>2, <3>3 DEF ValidBalance
  <2>3. CASE ~(line[o][i].reserved > 0)
    <3>1. freed(i) = stock[order_warehouse[o]][i] BY <1>16, <2>1, <2>3
    <3> QED BY <1>1, <2>1, <3>1 DEF Balance
  <2> QED BY <2>2, <2>3
<1> HIDE DEF rows, order_lines
<1>13. SetBalances(o, balances) /\ SetLines(o, order_lines) /\ SetStatus(o, new.status)
  <2> HIDE DEF balances
  <2>1. PICK new_lines : new_lines = new.lines OBVIOUS
  <2>2. PICK s1 : s1 = new.status OBVIOUS
  <2>3. PICK r, b, l : r = rows /\ b = balances /\ l = order_lines OBVIOUS
  <2>4. Stores(o, r, new_lines, s1) BY <1>10, <2>1, <2>2, <2>3
  <2>5. \A i \in Products :
           /\ r[i] = IF i \in Lines(o) THEN b[i] ELSE stock[order_warehouse[o]][i]
           /\ new_lines[i] = IF i \in Lines(o) THEN l[i] ELSE line[o][i]
    BY <1>7, <1>8, <1>11, <2>1, <2>3
  <2>6. o \in Orders /\ OneLineEach BY <1>1 DEF OrdersInv, BalanceInv
  <2>7. SetBalances(o, b) /\ SetLines(o, l) /\ SetStatus(o, s1)
    BY <2>4, <2>5, <2>6, StoredAsSet
  <2> QED BY <2>2, <2>3, <2>7
<1>14. UNCHANGED <<order_warehouse, dispatched_at, pending_request, entered, purchase>>
  BY <1>10 DEF Stores
<1>15. new.status = IF s.handler = "unreserve" THEN "ASSIGNED" ELSE "CANCELLED"
  BY <1>5
<1>17. OneLineEach BY DEF OrdersInv, BalanceInv
<1>18. ReleaseReservations(o)
  BY <1>12, <1>13, <1>17, OneLineRelease DEF freed, order_lines
<1> QED BY <1>13, <1>14, <1>15, <1>18

LEMMA CommitUnreserve ==
    ASSUME OrdersInv, SessionInv, NEW t \in Sessions, Commit(t),
           NEW s, s = session[t], NEW o, o = s.order, s.handler = "unreserve"
    PROVE  UnreserveStock(o)
<1>1. /\ ReleaseReservations(o) /\ SetStatus(o, "ASSIGNED")
      /\ UNCHANGED <<order_warehouse, dispatched_at, pending_request, entered, purchase>>
  BY CommitRelease
<1>2. ChecksHold(s) BY CommitFacts
<1> QED BY <1>1, <1>2 DEF UnreserveStock, ChecksHold, ReservedLines

LEMMA CommitCancel ==
    ASSUME OrdersInv, SessionInv, NEW t \in Sessions, Commit(t),
           NEW s, s = session[t], NEW o, o = s.order, s.handler = "cancel"
    PROVE  CancelOrder(o)
<1>1. /\ ReleaseReservations(o) /\ SetStatus(o, "CANCELLED")
      /\ UNCHANGED <<order_warehouse, dispatched_at, pending_request, entered, purchase>>
  BY CommitRelease
<1>2. ChecksHold(s) BY CommitFacts
<1> QED BY <1>1, <1>2 DEF CancelOrder, ChecksHold

LEMMA DispatchedNothing ==
    ASSUME NEW l \in Line, l.dispatched = l.loaded
    PROVE  [l EXCEPT !.dispatched = l.loaded] = l
BY DEF Line

LEMMA CommitDispatch ==
    ASSUME OrdersInv, SessionInv, NEW t \in Sessions, Commit(t),
           NEW s, s = session[t], NEW o, o = s.order, s.handler = "dispatch"
    PROVE  DispatchOrder(o)
<1>1. /\ o \in Orders /\ s.warehouse = order_warehouse[o]
      /\ s.lines = line[o] /\ order_warehouse[o] \in Warehouses /\ ChecksHold(s)
      /\ DOMAIN s.held = Locks(s)
      /\ \A i \in DOMAIN s.held : s.held[i] = stock[order_warehouse[o]][i]
      /\ \A i \in Products : /\ line[o][i] \in Line
                             /\ LineChained(line[o][i])
                             /\ stock[order_warehouse[o]][i] \in Balance
  BY CommitFacts
<1>2. \A i \in DOMAIN s.held : ValidBalance(Effect(s).balances[i])
  BY CommitFacts
<1>3. DOMAIN s.held = Lines(o) BY <1>1 DEF Locks, Lines
<1>4. \A i \in Products :
         Synced(order_warehouse[o], i, stock[order_warehouse[o]][i]) = stock[order_warehouse[o]][i]
  BY <1>1, SyncedIsStored DEF OrdersInv
<1> DEFINE w == order_warehouse[o]
           loaded(i) == line[o][i].loaded
           balances == [i \in Products |->
                          [Synced(w, i, stock[w][i]) EXCEPT !.on_hand  = @ - loaded(i),
                                                            !.reserved = @ - loaded(i)]]
           order_lines == [i \in Products |->
                             [line[o][i] EXCEPT !.dispatched = loaded(i)]]
<1>5. PICK new : new = Effect(s) OBVIOUS
<1>6. new = [balances |-> [i \in DOMAIN s.held |->
                              [s.held[i] EXCEPT !.on_hand  = @ - s.lines[i].loaded,
                                                !.reserved = @ - s.lines[i].loaded]],
             lines    |-> [i \in Products |->
                              [s.lines[i] EXCEPT !.dispatched = s.lines[i].loaded]],
             status   |-> "OUT_OF_WAREHOUSE"]
  BY <1>5 DEF Effect, DispatchEffect
<1>7. \A i \in Lines(o) : new.balances[i] = balances[i]
  <2> SUFFICES ASSUME NEW i \in Lines(o) PROVE new.balances[i] = balances[i]
    OBVIOUS
  <2>1. i \in Products BY DEF Lines
  <2>2. new.balances[i] = [s.held[i] EXCEPT !.on_hand  = @ - s.lines[i].loaded,
                                            !.reserved = @ - s.lines[i].loaded]
    BY <1>3, <1>6
  <2>3. PICK b : b = Synced(w, i, stock[w][i]) OBVIOUS
  <2>4. s.held[i] = b BY <1>1, <1>3, <1>4, <2>1, <2>3
  <2>5. PICK n : n = loaded(i) /\ n = s.lines[i].loaded BY <1>1
  <2>6. new.balances[i] = [b EXCEPT !.on_hand  = @ - n, !.reserved = @ - n]
    BY <2>2, <2>4, <2>5
  <2>7. balances[i] = [b EXCEPT !.on_hand  = @ - n, !.reserved = @ - n]
    BY <2>1, <2>3, <2>5
  <2> QED BY <2>6, <2>7
<1>8. \A i \in Products : new.lines[i] = order_lines[i]
  BY <1>1, <1>6
<1>9. \A i \in Products \ Lines(o) : order_lines[i] = line[o][i]
  <2> SUFFICES ASSUME NEW i \in Products, i \notin Lines(o)
               PROVE  order_lines[i] = line[o][i]
    OBVIOUS
  <2>1. line[o][i].requested = 0 BY <1>1 DEF Lines, Line
  <2>2. PICK l \in Line : l = line[o][i] /\ LineChained(l) BY <1>1
  <2>3. l.dispatched = l.loaded
    BY <2>1, <2>2 DEF Line, LineChained, OutcomeTotal
  <2> QED BY <2>2, <2>3, DispatchedNothing
<1>10. \A i \in Products : new.lines[i] \in Line
  <2> SUFFICES ASSUME NEW i \in Products PROVE new.lines[i] \in Line
    OBVIOUS
  <2>1. PICK l \in Line : l = line[o][i] BY <1>1
  <2>2. new.lines[i] = [l EXCEPT !.dispatched = l.loaded] BY <1>8, <2>1
  <2> QED BY <2>2 DEF Line
<1>11. \A i \in Lines(o) : /\ loaded(i) <= Synced(w, i, stock[w][i]).reserved
                           /\ loaded(i) <= Synced(w, i, stock[w][i]).on_hand
  <2> SUFFICES ASSUME NEW i \in Lines(o)
               PROVE  /\ loaded(i) <= Synced(w, i, stock[w][i]).reserved
                      /\ loaded(i) <= Synced(w, i, stock[w][i]).on_hand
    OBVIOUS
  <2>1. i \in Products BY DEF Lines
  <2>2. PICK b \in Balance : b = Synced(w, i, stock[w][i]) BY <1>1, <1>4, <2>1
  <2>3. PICK n \in Nat : n = loaded(i) BY <1>1, <2>1 DEF Line
  <2>4. ValidBalance([b EXCEPT !.on_hand = @ - n, !.reserved = @ - n])
    <3>1. new.balances[i] = [b EXCEPT !.on_hand = @ - n, !.reserved = @ - n]
      BY <1>7, <2>1, <2>2, <2>3
    <3> QED BY <1>2, <1>3, <1>5, <3>1
  <2>5. b.on_hand - n >= 0 /\ b.reserved - n >= 0 BY <2>4 DEF ValidBalance, Balance
  <2> QED BY <2>2, <2>3, <2>5 DEF Balance
<1> DEFINE rows == [i \in Products |-> IF i \in DOMAIN s.held THEN new.balances[i]
                                       ELSE stock[order_warehouse[o]][i]]
<1>12. /\ Stores(o, rows, new.lines, new.status)
       /\ dispatched_at' = [dispatched_at EXCEPT ![o] = TRUE]
  <2> HIDE DEF rows
  <2> QED BY <1>5, <1>10, CommitStores DEF rows
<1>13. \A i \in Products : rows[i] = IF i \in Lines(o) THEN balances[i]
                                     ELSE stock[order_warehouse[o]][i]
  <2> HIDE DEF balances
  <2> QED BY <1>3, <1>7
<1> HIDE DEF rows, order_lines, balances
<1>14. SetBalances(o, balances) /\ SetLines(o, order_lines) /\ SetStatus(o, new.status)
  <2>1. PICK new_lines : new_lines = new.lines OBVIOUS
  <2>2. PICK s1 : s1 = new.status OBVIOUS
  <2>3. PICK r, b, l : r = rows /\ b = balances /\ l = order_lines OBVIOUS
  <2>4. Stores(o, r, new_lines, s1) BY <1>12, <2>1, <2>2, <2>3
  <2>5. \A i \in Products :
           /\ r[i] = IF i \in Lines(o) THEN b[i] ELSE stock[order_warehouse[o]][i]
           /\ new_lines[i] = IF i \in Lines(o) THEN l[i] ELSE line[o][i]
    BY <1>8, <1>9, <1>13, <2>1, <2>3
  <2>6. o \in Orders /\ OneLineEach BY <1>1 DEF OrdersInv, BalanceInv
  <2>7. SetBalances(o, b) /\ SetLines(o, l) /\ SetStatus(o, s1)
    BY <2>4, <2>5, <2>6, StoredAsSet
  <2> QED BY <2>2, <2>3, <2>7
<1>15. UNCHANGED <<order_warehouse, pending_request, entered, purchase>>
  BY <1>12 DEF Stores
<1>16. new.status = "OUT_OF_WAREHOUSE" BY <1>6
<1>17. /\ status[o] \in {"IN_PREPARATION", "LOADED"}
       /\ ~dispatched_at[o]
       /\ Lines(o) # {}
       /\ \A i \in Lines(o) : loaded(i) > 0 /\ loaded(i) = line[o][i].reserved
  BY <1>1 DEF ChecksHold
<1>18. OneLineEach BY DEF OrdersInv, BalanceInv
<1> QED BY <1>11, <1>12, <1>14, <1>15, <1>16, <1>17, <1>18, OneLineDispatch
        DEF order_lines, balances

\* Booking no difference leaves the balance as it is.
LEMMA NothingCorrected ==
    ASSUME NEW b \in Balance, NEW l \in Line, NEW x \in Outcomes, ~ReturnsChange(l, x)
    PROVE  CorrectedBalance(b, l, x) = b
<1>1. x.returned - l.returned = 0 /\ x.returned_damaged - l.returned_damaged = 0
  BY DEF ReturnsChange, Line, Outcomes
<1>2. b.on_hand + (x.returned - l.returned)
        + (x.returned_damaged - l.returned_damaged) = b.on_hand
  BY <1>1 DEF Balance
<1>3. b.damaged + (x.returned_damaged - l.returned_damaged) = b.damaged
  BY <1>1 DEF Balance
<1>4. CorrectedBalance(b, l, x) = [b EXCEPT !.on_hand = b.on_hand, !.damaged = b.damaged]
  BY <1>2, <1>3 DEF CorrectedBalance, Balance
<1> QED BY <1>4 DEF Balance

LEMMA CommitOutcome ==
    ASSUME OrdersInv, SessionInv, NEW t \in Sessions, Commit(t),
           NEW s, s = session[t], NEW o, o = s.order, s.handler = "outcome"
    PROVE  \E i \in Products, x \in Outcomes : RegisterOutcome(o, i, x)
<1>1. /\ o \in Orders /\ s.status = status[o] /\ s.warehouse = order_warehouse[o]
      /\ s.lines = line[o] /\ order_warehouse[o] \in Warehouses /\ ChecksHold(s)
      /\ DOMAIN s.held = Locks(s)
      /\ \A j \in DOMAIN s.held : s.held[j] = stock[order_warehouse[o]][j]
      /\ \A j \in Products : /\ line[o][j] \in Line
                             /\ LineChained(line[o][j])
                             /\ stock[order_warehouse[o]][j] \in Balance
  BY CommitFacts
<1>2. \A j \in DOMAIN s.held : ValidBalance(Effect(s).balances[j])
  BY CommitFacts
<1>3. PICK i \in Products : Reports(s, i) BY <1>1 DEF ChecksHold
<1>4. PICK x \in Outcomes : s.report = [j \in {i} |-> x] BY <1>3 DEF Reports
<1>5. DOMAIN s.report = {i} /\ s.report[i] = x BY <1>4
<1>6. DOMAIN s.held = IF ReturnsChange(line[o][i], x) THEN {i} ELSE {}
  BY <1>1, <1>5 DEF Locks
<1> DEFINE w == order_warehouse[o]
           corrected == CorrectedBalance(stock[w][i], line[o][i], x)
           reported == WithOutcome(line[o][i], x)
<1>7. PICK new : new = Effect(s) OBVIOUS
<1>8. new = [balances |-> [j \in DOMAIN s.held |->
                              CorrectedBalance(s.held[j], s.lines[j], s.report[j])],
             lines    |-> [j \in Products |-> IF j \in DOMAIN s.report
                              THEN WithOutcome(s.lines[j], s.report[j])
                              ELSE s.lines[j]],
             status   |-> IF s.status \in {"DELIVERED", "PARTIALLY_DELIVERED"}
                          THEN "OUTCOME_PENDING" ELSE s.status]
  BY <1>7 DEF Effect, OutcomeEffect
<1>9. ReturnsChange(line[o][i], x) => new.balances[i] = corrected /\ ValidBalance(corrected)
  BY <1>1, <1>2, <1>5, <1>6, <1>7, <1>8
<1>10. \A j \in Products : new.lines[j] = IF j = i THEN reported ELSE line[o][j]
  BY <1>1, <1>5, <1>8
<1>11. reported \in Line
  <2>1. x \in ReportedOutcome BY LogisticsAssumption DEF Outcomes, ReportedOutcome
  <2> QED BY <1>1, <2>1, WithOutcomeType
<1> HIDE DEF reported, corrected
<1>12. \A j \in Products : new.lines[j] \in Line BY <1>1, <1>10, <1>11
<1> DEFINE rows == [j \in Products |-> IF j \in DOMAIN s.held THEN new.balances[j]
                                       ELSE stock[order_warehouse[o]][j]]
<1>13. Stores(o, rows, new.lines, new.status) /\ dispatched_at' = dispatched_at
  <2>1. s.handler # "dispatch" OBVIOUS
  <2> HIDE DEF rows
  <2> QED BY <1>7, <1>12, <2>1, CommitStores DEF rows
<1>14. rows = [stock[w] EXCEPT ![i] = corrected]
  <2>1. stock[w] \in [Products -> Balance] BY <1>1 DEF OrdersInv, TypeInv, TypeOK
  <2>2. CASE ReturnsChange(line[o][i], x) BY <1>6, <1>9, <2>1, <2>2
  <2>3. CASE ~ReturnsChange(line[o][i], x)
    <3>1. corrected = stock[w][i] BY <1>1, <2>3, NothingCorrected DEF corrected
    <3> QED BY <1>6, <2>1, <2>3, <3>1
  <2> QED BY <2>2, <2>3
<1>15. [j \in Products |-> new.lines[j]] = [line[o] EXCEPT ![i] = reported]
  <2>1. line[o] \in [Products -> Line] BY <1>1 DEF OrdersInv, TypeInv, TypeOK
  <2> QED BY <1>10, <2>1
<1>16. [j \in Products |-> rows[j]] = rows OBVIOUS
<1> HIDE DEF rows
<1>17. /\ stock' = [stock EXCEPT ![w] = [stock[w] EXCEPT ![i] = corrected]]
       /\ line' = [line EXCEPT ![o] = [line[o] EXCEPT ![i] = reported]]
       /\ status' = [status EXCEPT ![o] = new.status]
       /\ UNCHANGED <<order_warehouse, dispatched_at, pending_request, entered, purchase>>
  BY <1>13, <1>14, <1>15, <1>16 DEF Stores
<1>18. /\ stock' = [stock EXCEPT ![w][i] = CorrectedBalance(@, line[o][i], x)]
       /\ line' = [line EXCEPT ![o][i] = WithOutcome(@, x)]
  BY <1>17 DEF corrected, reported
<1>19. SetStatus(o, OutcomeStatus(o))
  <2>1. new.status = OutcomeStatus(o) BY <1>1, <1>8 DEF OutcomeStatus
  <2> QED BY <1>17, <2>1 DEF SetStatus
<1>20. /\ status[o] \in OUTCOME_STATUSES
       /\ i \in Lines(o) /\ line[o][i].delivered > 0
       /\ OutcomeTotal(x) <= line[o][i].delivered
       /\ i \notin Consumables => x.consumed = 0
  BY <1>1, <1>3, <1>5 DEF ChecksHold, Reports
<1>23. item_id[i] = i BY DEF OrdersInv, BalanceInv, OneLineEach
<1>21. OutcomeAccepted(o, i, stock[w][i], x)
  BY <1>9, <1>20, <1>23 DEF OutcomeAccepted, corrected, ValidBalance
<1>22. RegisterOutcome(o, i, x)
  BY <1>17, <1>18, <1>19, <1>20, <1>21, <1>23 DEF RegisterOutcome
<1> QED BY <1>22

-----------------------------------------------------------------------------
(* The invariant is kept, and every step is a step of Logistics.            *)

LEMMA CommitIsHandler ==
    ASSUME OrdersInv, SessionInv, NEW t \in Sessions, Commit(t)
    PROVE  OrderNext
<1>1. PICK s : s = session[t] OBVIOUS
<1>2. PICK o : o = s.order OBVIOUS
<1>3. o \in Orders /\ s.handler \in Handlers BY <1>1, <1>2, CommitFacts
<1>4. CASE s.handler = "reserve"
  <2>1. ReserveStock(o, Products) BY <1>1, <1>2, <1>4, CommitReserve
  <2>2. \E usable \in SUBSET Products : ReserveStock(o, usable) BY <2>1
  <2> QED BY <1>3, <2>2, Zenon DEF OrderNext
<1>5. CASE s.handler = "unreserve"
  <2>1. UnreserveStock(o) BY <1>1, <1>2, <1>5, CommitUnreserve
  <2> QED BY <1>3, <2>1, Zenon DEF OrderNext
<1>6. CASE s.handler = "cancel"
  <2>1. CancelOrder(o) BY <1>1, <1>2, <1>6, CommitCancel
  <2> QED BY <1>3, <2>1, Zenon DEF OrderNext
<1>7. CASE s.handler = "dispatch"
  <2>1. DispatchOrder(o) BY <1>1, <1>2, <1>7, CommitDispatch
  <2> QED BY <1>3, <2>1, Zenon DEF OrderNext
<1>8. CASE s.handler = "outcome"
  <2>1. \E i \in Products, x \in Outcomes : RegisterOutcome(o, i, x)
    BY <1>1, <1>2, <1>8, CommitOutcome
  <2> QED BY <1>3, <2>1, Zenon DEF OrderNext
<1> QED BY <1>3, <1>4, <1>5, <1>6, <1>7, <1>8 DEF Handlers

OverlapInv == OrdersInv /\ SessionInv

LEMMA SessionStep ==
    ASSUME ~SameOrder, OverlapInv, NEW t \in Sessions, SessionNext(t)
    PROVE  SessionInv' /\ [Next]_vars
<1> USE DEF OverlapInv
<1>1. TypeInv BY DEF OrdersInv
<1>2. CASE \E o \in Orders :
              \/ BeginReserve(t, o)
              \/ BeginUnreserve(t, o)
              \/ BeginCancel(t, o)
              \/ BeginDispatch(t, o)
              \/ \E i \in Products, x \in Outcomes : BeginOutcome(t, o, i, x)
  <2>1. PICK o \in Orders :
              \/ BeginReserve(t, o)
              \/ BeginUnreserve(t, o)
              \/ BeginCancel(t, o)
              \/ BeginDispatch(t, o)
              \/ \E i \in Products, x \in Outcomes : BeginOutcome(t, o, i, x)
    BY <1>2
  <2>2. UNCHANGED vars
    BY <2>1 DEF BeginReserve, BeginUnreserve, BeginCancel, BeginDispatch,
                BeginOutcome, Read
  <2>3. SessionInv'
    BY <1>1, <2>1, BeginReserveStep, BeginUnreserveStep, BeginCancelStep,
       BeginDispatchStep, BeginOutcomeStep
  <2> QED BY <2>2, <2>3
<1>3. CASE LockBalance(t)
  <2>1. UNCHANGED vars BY <1>3 DEF LockBalance
  <2> QED BY <1>3, <2>1, LockBalanceStep
<1>4. CASE Commit(t)
  <2>1. Next BY <1>4, CommitIsHandler DEF Next
  <2> QED BY <1>1, <1>4, <2>1, CommitStep
<1>5. CASE Rollback(t)
  <2>1. UNCHANGED vars BY <1>5 DEF Rollback
  <2> QED BY <1>5, <2>1, RollbackStep
<1> QED BY <1>2, <1>3, <1>4, <1>5 DEF SessionNext

LEMMA NextOverlap ==
    ASSUME ~SameOrder, OverlapInv, [TransactionsNext]_allVars
    PROVE  OverlapInv' /\ [Next]_vars
<1>1. TypeInv /\ StageInv /\ BalanceInv /\ SessionInv BY DEF OverlapInv, OrdersInv
<1>2. SessionInv' /\ [Next]_vars
  <2>1. CASE \E t \in Sessions : SessionNext(t) BY <2>1, SessionStep
  <2>2. CASE \E o \in Orders : Between(o)
    <3>1. PICK o \in Orders : Between(o) BY <2>2
    <3> QED BY <1>1, <3>1, BetweenStep DEF Next
  <2>3. CASE UNCHANGED allVars
    <3>1. UNCHANGED vars /\ UNCHANGED session BY <2>3 DEF allVars
    <3>2. \A u \in Sessions : Live(u)' <=> Live(u) BY <3>1 DEF Live
    <3>3. ASSUME NEW u \in Sessions, Live(u) PROVE SessionFine(session[u])'
      <4>1. PICK s : s = session[u] OBVIOUS
      <4>2. SessionFine(s) BY <1>1, <3>3, <4>1 DEF SessionInv
      <4>3. RowsUntouched(s) BY <3>1 DEF RowsUntouched
      <4>4. SessionFine(s)' BY <4>2, <4>3, FineKept
      <4>5. session'[u] = s BY <3>1, <4>1
      <4> QED BY <4>4, <4>5
    <3>4. (\A u \in Sessions : Live(u) => SessionFine(session[u]))' BY <3>2, <3>3
    <3>5. (\A u, v \in Sessions : Live(u) /\ Live(v) /\ u # v
                                     => Apart(session[u], session[v]))'
      BY <1>1, <3>1, <3>2 DEF SessionInv
    <3>6. SessionInv' BY <1>1, <3>1, <3>4, <3>5 DEF SessionInv
    <3> QED BY <3>1, <3>6
  <2> QED BY <2>1, <2>2, <2>3 DEF TransactionsNext
<1>3. TypeInv' BY <1>1, <1>2, NextType
<1>4. StageInv' BY <1>1, <1>2, NextStage
<1>5. BalanceInv' BY <1>1, <1>2, NextBalances
<1> QED BY <1>2, <1>3, <1>4, <1>5 DEF OverlapInv, OrdersInv

-----------------------------------------------------------------------------
(* The theorems.  The tables may hold any rows that the handlers leave one  *)
(* at a time when the first session begins, empty tables among them.        *)

OverlapSpec == OrdersInv /\ SessionsIdle /\ [][TransactionsNext]_allVars

LEMMA EmptyTablesToo == TransactionsSpec => OverlapSpec
<1>1. Init => OrdersInv BY InitType, InitStage, InitBalances, SessionsAssumption DEF OrdersInv
<1> QED BY <1>1 DEF TransactionsSpec, OverlapSpec

LEMMA InitOverlap == OrdersInv /\ SessionsIdle => OverlapInv
<1> SUFFICES ASSUME OrdersInv, SessionsIdle PROVE OverlapInv OBVIOUS
<1>1. DOMAIN session = Sessions /\ \A t \in Sessions : ~Live(t)
  BY DEF SessionsIdle, Live, Idle
<1> QED BY <1>1 DEF OverlapInv, SessionInv

LEMMA OverlapKept ==
    ASSUME SameOrder = FALSE
    PROVE  OverlapSpec => [](OverlapInv /\ OrdersInv) /\ [][Next]_vars
<1>1. OverlapInv /\ [TransactionsNext]_allVars => OverlapInv' /\ [Next]_vars
  BY NextOverlap
<1>2. OverlapInv => OrdersInv BY DEF OverlapInv
<1> QED BY <1>1, <1>2, InitOverlap, PTL DEF OverlapSpec

\* Sessions on different orders do what the handlers do one at a time: every
\* commit, whatever was read before it and whatever happened in between, is one
\* handler of LogisticsOrders on the rows as they are then.
THEOREM OverlapIsSerial ==
    ASSUME SameOrder = FALSE
    PROVE  OverlapSpec => OneAtATime
BY OverlapKept, PTL DEF OneAtATime

\* What a session read of a row it has locked is true until it ends, the count
\* it recomputed from the unlocked lines of all orders included.
THEOREM LockedRowsStayFresh ==
    ASSUME SameOrder = FALSE
    PROVE  OverlapSpec => []HeldRowsFresh
<1>1. OverlapInv => HeldRowsFresh
  <2> SUFFICES ASSUME OverlapInv, NEW t \in Sessions, Live(t),
                      NEW i \in DOMAIN session[t].held
               PROVE  session[t].held[i] = RowRead(session[t], i)
    BY DEF HeldRowsFresh
  <2>1. PICK s : s = session[t] OBVIOUS
  <2>2. SessionFine(s) BY <2>1 DEF OverlapInv, SessionInv
  <2>3. i \in Products /\ s.held[i] = stock[s.warehouse][i]
    BY <2>1, <2>2 DEF SessionFine, RowsCurrent, Locks
  <2>4. s.warehouse \in Warehouses
    BY <2>2 DEF SessionFine, ReadCurrent, OverlapInv, OrdersInv, TypeInv, TypeOK
  <2>5. RowRead(s, i) = stock[s.warehouse][i]
    BY <2>3, <2>4, RowReadIsStored DEF OverlapInv
  <2> QED BY <2>1, <2>3, <2>5
<1> QED BY <1>1, OverlapKept, PTL

\* A session always holds a handler, an order, its warehouse and lines, and
\* balances of products.
THEOREM SessionsStayTyped ==
    ASSUME SameOrder = FALSE
    PROVE  OverlapSpec => []SessionsTyped
<1>1. OverlapInv => SessionsTyped
  <2> SUFFICES ASSUME OverlapInv, NEW t \in Sessions, Live(t), NEW s, s = session[t]
               PROVE  /\ s.handler \in Handlers
                      /\ s.order \in Orders /\ s.warehouse \in Warehouses
                      /\ s.lines \in [Products -> Line]
                      /\ DOMAIN s.held \subseteq Products
                      /\ \A i \in DOMAIN s.held : s.held[i] \in Balance
    BY DEF SessionsTyped
  <2>1. SessionFine(s) BY DEF OverlapInv, SessionInv
  <2>2. TypeOK BY DEF OverlapInv, OrdersInv, TypeInv
  <2>3. /\ s.handler \in Handlers /\ s.order \in Orders /\ s.warehouse \in Warehouses
        /\ s.lines \in [Products -> Line]
    BY <2>1, <2>2 DEF SessionFine, ReadCurrent, TypeOK
  <2>4. DOMAIN s.held \subseteq Products
        /\ \A i \in DOMAIN s.held : s.held[i] = stock[s.warehouse][i]
    BY <2>1 DEF SessionFine, RowsCurrent, Locks
  <2> QED BY <2>2, <2>3, <2>4 DEF TypeOK
<1> QED BY <1>1, OverlapKept, PTL

\* Overlapping sessions on different orders, none of which has two lines of one
\* product (SessionsAssumption), leak no reservation: the count that two sessions
\* on one order can break stays exact.
THEOREM OverlapLeaksNothing ==
    ASSUME SameOrder = FALSE
    PROVE  OverlapSpec => [](ReservedMatchesOrders /\ BalancesValid)
<1>1. OrdersInv => ReservedMatchesOrders /\ BalancesValid
  BY ReservedIsTotal
     DEF OrdersInv, BalanceInv, BalanceKept, ReservedMatchesOrders, BalancesValid
<1> QED BY <1>1, OverlapKept, PTL

==============================================================================
