--------------------------- MODULE DocumentDrafts ---------------------------
(***************************************************************************)
(* How people are brought into events, and drafts of documents made for    *)
(* them: by hand, from a spreadsheet, from those of another event, or for  *)
(* all who miss theirs.  Contracts and EPP records are made alike and      *)
(* apart, so one kind is followed.                                         *)
(*                                                                         *)
(* Each batch is a READ COMMITTED transaction.  It locks the row of its    *)
(* event, or the rows of its people one by one in the order of the file,   *)
(* and every row that it inserts shares a lock on the event and the person *)
(* it refers to.  A row of a spreadsheet that fails is undone alone.       *)
(***************************************************************************)
EXTENDS Sequences, FiniteSetsExt

CONSTANTS
    People,     \* those with a RUT
    Events,
    Sessions,
    Files,      \* Files[t]: the people that session t asks for, in their order
    Targets,    \* Targets[t]: the events it asks it for
    ByHand      \* persons and events that somebody makes a document for by hand

ASSUME DraftsAssumption ==
    /\ \A t \in Sessions : Files[t] \in Seq(People) \ {<<>>} /\ IsInjective(Files[t])
    /\ Targets \in [Sessions -> SUBSET Events]
    /\ ByHand \subseteq People \X Events

VARIABLES
    sheets,     \* people whose sheet is in the database
    assigned,   \* assigned[e]: people with an assignment to e
    drafts,     \* drafts[e][p]: documents of p for e made by batches, not cancelled
    by_hand,    \* persons and events with a document made by hand, not cancelled
    session     \* what each session does

draftsVars == <<sheets, assigned, drafts, by_hand, session>>

Idle == [handler |-> "NONE"]
Live(t) == session[t] # Idle

\* Rows locked FOR UPDATE, on the event or of people; rows locked FOR KEY SHARE by
\* what was inserted; sheets, assignments and drafts that are not committed yet.
Batch(handler, e, people, phase) ==
    [handler |-> handler, event |-> e, todo |-> people, phase |-> phase,
     lock |-> "NONE", own |-> {}, share |-> {}, fresh |-> {}, assign |-> {}, make |-> {}]

\* The rows are taken in the order of the file: who comes first of those to do.
Person(t) ==
    Files[t][Min({i \in DOMAIN Files[t] : Files[t][i] \in session[t].todo})]

\* Those who are known already were all brought into the events that are not targets.
DraftsInit ==
    /\ sheets \in SUBSET People
    /\ assigned = [e \in Events |-> IF e \in UNION Range(Targets) THEN {} ELSE sheets]
    /\ drafts = [e \in Events |-> [p \in People |-> 0]]
    /\ by_hand = {}
    /\ session = [t \in Sessions |-> Idle]

-----------------------------------------------------------------------------
(* Locks.                                                                   *)

\* Mutant: the event is read without a lock.
EventLockNone == "NONE"

EventLock == "UPDATE"

\* Those that begin by locking the event.
EventLocking == {"pairs", "missing", "assign", "assign_pairs"}

\* Those that lock the sheets of their people, and of them those that undo a row that
\* fails and go on.
RowByRow == {"pairs", "import", "person"}
Savepoints == {"pairs", "import"}

\* t wants a row that u holds.  An insertion waits for another of the same RUT, and
\* for whoever has locked what the new row refers to.
WaitsFor(t, u) ==
    /\ t # u /\ Live(t) /\ Live(u)
    /\ LET s == session[t]
           h == session[u]
       IN \/ s.phase = "event" /\ h.event = s.event /\ h.lock # "NONE"
          \/ s.phase = "row" /\ Person(t) \in (h.own \cup h.share) \cap sheets
          \/ s.phase = "insert" /\ Person(t) \in h.fresh
          \/ s.phase = "write" /\ IF s.handler \in RowByRow
                                  THEN h.event = s.event /\ h.lock = "UPDATE"
                                  ELSE Person(t) \in h.own

Free(t) == \A u \in Sessions : ~WaitsFor(t, u)

\* t is on a circle of sessions that wait for each other.
Deadlocked(t) ==
    \E circle \in SUBSET Sessions :
        /\ t \in circle
        /\ \A u \in circle : /\ \E v \in circle : WaitsFor(u, v)
                             /\ \E v \in circle : WaitsFor(v, u)

-----------------------------------------------------------------------------
(* What a session does next.                                                *)

FirstPhase(handler) == IF handler \in RowByRow THEN "row" ELSE "write"

WithTodo(s, todo) ==
    [s EXCEPT !.todo = todo,
              !.phase = IF todo = {} THEN "commit" ELSE FirstPhase(s.handler)]

NextRow(s, p) == WithTodo(s, s.todo \ {p})

\* Mutant: a row that fails is tried again in the same transaction.
FailedAgain(s, p) ==
    IF s.handler \in Savepoints
    THEN WithTodo([s EXCEPT !.own = @ \ {p}, !.fresh = @ \ {p}, !.make = @ \ {p}], s.todo)
    ELSE Idle

\* The row is undone up to its savepoint, with the locks it took, or all is.
Failed(s, p) ==
    IF s.handler \in Savepoints
    THEN NextRow([s EXCEPT !.own = @ \ {p}, !.fresh = @ \ {p}, !.make = @ \ {p}], p)
    ELSE Idle

Has(p, e) == drafts[e][p] > 0 \/ <<p, e>> \in by_hand

Becomes(t, s) ==
    /\ session' = [session EXCEPT ![t] = s]
    /\ UNCHANGED <<sheets, assigned, drafts, by_hand>>

Begin(t) ==
    /\ ~Live(t)
    /\ \E handler \in RowByRow \cup EventLocking, e \in Targets[t] :
          Becomes(t, Batch(handler, e,
                           IF handler = "person" THEN {Head(Files[t])} ELSE Range(Files[t]),
                           IF handler \in EventLocking THEN "event" ELSE FirstPhase(handler)))

\* With the event, what is missing is read for everybody at once.
MissingSelected(s) ==
    LET lacking == {p \in s.todo : ~Has(p, s.event)}
    IN IF s.todo \subseteq assigned[s.event]
       THEN WithTodo([s EXCEPT !.make = lacking], lacking)
       ELSE Idle

\* All must come from one other event; those who are here already are passed over.
AssignSelected(s) ==
    IF \E e \in Events \ {s.event} : s.todo \subseteq assigned[e]
    THEN WithTodo(s, s.todo \ assigned[s.event])
    ELSE Idle

Selected(s) ==
    CASE s.handler = "pairs"   -> s
      [] s.handler = "missing" -> MissingSelected(s)
      [] OTHER                 -> AssignSelected(s)

LockEvent(t) ==
    LET s == session[t]
    IN /\ Live(t) /\ s.phase = "event" /\ Free(t)
       /\ Becomes(t, Selected([s EXCEPT !.lock = EventLock, !.phase = FirstPhase(s.handler)]))

\* What the row of a person who is locked or new comes to: an assignment is added,
\* which waits for the event if this is the first, or updated, and a draft made if
\* there is none.
Read(s, p, adds) ==
    LET read == [s EXCEPT !.make = IF s.handler = "pairs" /\ ~Has(p, s.event)
                                   THEN @ \cup {p} ELSE @]
    IN CASE ~adds                   -> NextRow(read, p)
         [] adds /\ s.lock = "NONE" -> [read EXCEPT !.phase = "write"]
         [] OTHER                   -> NextRow([read EXCEPT !.assign = @ \cup {p}], p)

\* The sheet is looked for by its RUT, and locked.  Somebody assigned already is
\* assigned again with other data, or updated; a single person is refused then.
LockPerson(t) ==
    LET s == session[t]
        p == Person(t)
    IN /\ Live(t) /\ s.phase = "row" /\ Free(t)
       /\ IF p \notin sheets THEN Becomes(t, [s EXCEPT !.phase = "insert"])
          ELSE \/ Becomes(t, Read([s EXCEPT !.own = @ \cup {p}], p, TRUE))
               \/ /\ p \in assigned[s.event]
                  /\ Becomes(t, IF s.handler = "person" THEN Idle
                                ELSE Read([s EXCEPT !.own = @ \cup {p}], p, FALSE))

\* The RUT is unique: who comes second fails.
InsertPerson(t) ==
    LET s == session[t]
        p == Person(t)
    IN /\ Live(t) /\ s.phase = "insert" /\ Free(t)
       /\ Becomes(t, IF p \in sheets THEN Failed(s, p)
                     ELSE Read([s EXCEPT !.fresh = @ \cup {p}], p, TRUE))

\* The rows of one person are inserted.
ImportedRow(s, p) == NextRow([s EXCEPT !.assign = @ \cup {p}, !.lock = "SHARE"], p)

MissingRow(s, p) == NextRow([s EXCEPT !.share = @ \cup {p}], p)

AssignedRow(s, p) ==
    NextRow([s EXCEPT !.share = @ \cup {p}, !.assign = @ \cup {p},
                      !.make = IF s.handler = "assign_pairs" /\ ~Has(p, s.event)
                               THEN @ \cup {p} ELSE @], p)

WriteRow(t) ==
    LET s == session[t]
        p == Person(t)
    IN /\ Live(t) /\ s.phase = "write" /\ Free(t)
       /\ Becomes(t, CASE s.handler \in RowByRow -> ImportedRow(s, p)
                       [] s.handler = "missing"  -> MissingRow(s, p)
                       [] OTHER                  -> AssignedRow(s, p))

Commit(t) ==
    LET s == session[t]
    IN /\ Live(t) /\ s.phase = "commit"
       /\ sheets' = sheets \cup s.fresh
       /\ assigned' = [assigned EXCEPT ![s.event] = @ \cup s.assign]
       /\ drafts' = [drafts EXCEPT ![s.event] = [p \in People |->
                        IF p \in s.make THEN @[p] + 1 ELSE @[p]]]
       /\ session' = [session EXCEPT ![t] = Idle]
       /\ UNCHANGED by_hand

\* A row fails for any reason, a deadlock among them, or the process dies.
RowFails(t) ==
    /\ Live(t) /\ session[t].phase \in {"row", "insert", "write"}
    /\ Becomes(t, Failed(session[t], Person(t)))

Die(t) == Live(t) /\ Becomes(t, Idle)

BreakDeadlock(t) == Deadlocked(t) /\ RowFails(t)

-----------------------------------------------------------------------------
(* Others.                                                                  *)

\* create_document does not look for a document there is.
CreateDocument(p, e) ==
    /\ p \in assigned[e] /\ <<p, e>> \in ByHand \ by_hand
    /\ \A t \in Sessions : Live(t) =>
          ~(session[t].event = e /\ session[t].lock = "UPDATE") /\ p \notin session[t].own
    /\ by_hand' = by_hand \cup {<<p, e>>}
    /\ UNCHANGED <<sheets, assigned, drafts, session>>

CancelDocument(p, e) ==
    /\ \/ <<p, e>> \in by_hand /\ by_hand' = by_hand \ {<<p, e>>} /\ UNCHANGED drafts
       \/ drafts[e][p] > 0 /\ drafts' = [drafts EXCEPT ![e][p] = @ - 1] /\ UNCHANGED by_hand
    /\ UNCHANGED <<sheets, assigned, session>>

Advance(t) == LockEvent(t) \/ LockPerson(t) \/ InsertPerson(t) \/ WriteRow(t) \/ Commit(t)

DraftsNext ==
    \/ \E t \in Sessions :
          \/ Begin(t)
          \/ LockEvent(t) \/ LockPerson(t) \/ InsertPerson(t) \/ WriteRow(t)
          \/ Commit(t) \/ RowFails(t) \/ Die(t)
    \/ \E p \in People, e \in Events : CreateDocument(p, e) \/ CancelDocument(p, e)

\* PostgreSQL serves those who wait for a row in the order they came, and fails a
\* statement of a deadlock.
DraftsFairness ==
    \A t \in Sessions : SF_draftsVars(Advance(t)) /\ WF_draftsVars(BreakDeadlock(t))

DraftsSpec == DraftsInit /\ [][DraftsNext]_draftsVars /\ DraftsFairness

-----------------------------------------------------------------------------
(* Properties.                                                              *)

\* Batches make nobody a second draft of a kind for an event, and none for somebody
\* who is not assigned or whose sheet was undone, whatever overlaps, fails half-way,
\* is repeated, cancelled or made by hand.
PairsUnique ==
    \A e \in Events, p \in People :
        /\ drafts[e][p] <= 1
        /\ Has(p, e) => p \in assigned[e]
        /\ p \in assigned[e] => p \in sheets

\* Every batch is answered, though it waits for events and people in the order of its
\* file and others in the order of theirs.
EveryBatchEnds == \A t \in Sessions : Live(t) ~> ~Live(t)
=============================================================================
