------------------------ MODULE DocumentDrafts_proofs ------------------------
(***************************************************************************)
(* Batches make nobody a second draft, for any number of people, events,   *)
(* sessions and files: PairsUnique.                                        *)
(*                                                                         *)
(* What makes it inductive is what a session that has not committed knows: *)
(* a draft is prepared under the lock of the event alone, for a person who *)
(* has none and who is assigned or is being; and an assignment that is     *)
(* prepared refers to a sheet that is there or is being made, so that a    *)
(* row that is undone takes nothing along that another row rests on.       *)
(***************************************************************************)
EXTENDS DocumentDrafts, TLAPS, WellFoundedInduction

Handlers == RowByRow \cup EventLocking

BatchType ==
    [handler : Handlers, event : Events, todo : SUBSET People,
     phase : {"event", "row", "insert", "write", "commit"},
     lock : {"NONE", "SHARE", "UPDATE"}, own : SUBSET People, share : SUBSET People,
     fresh : SUBSET People, assign : SUBSET People, make : SUBSET People]

DraftsTypeOK ==
    /\ sheets \in SUBSET People
    /\ assigned \in [Events -> SUBSET People]
    /\ drafts \in [Events -> [People -> Nat]]
    /\ by_hand \in SUBSET (People \X Events)
    /\ session \in [Sessions -> {Idle} \cup BatchType]

\* Who comes first in the file of t, of the people S.
FirstOf(t, S) == Files[t][Min({i \in DOMAIN Files[t] : Files[t][i] \in S})]

\* The phases of a batch, and the lock it has in each.
Phased(s) ==
    /\ s.phase # "commit" => s.todo # {}
    /\ s.phase \in {"row", "insert"} => s.handler \in RowByRow
    /\ s.phase = "write" => s.handler # "pairs"
    /\ s.handler \in EventLocking =>
          s.lock = IF s.phase = "event" THEN "NONE" ELSE "UPDATE"
    /\ s.handler \notin EventLocking => s.phase # "event" /\ s.lock # "UPDATE"

\* What was prepared rests on what is there, or is prepared with it.
Grounded(t, s) ==
    /\ s.todo \subseteq Range(Files[t])
    /\ s.lock # "UPDATE" => s.make = {}
    /\ s.phase = "event" => s.assign = {}
    /\ \A p \in s.make : drafts[s.event][p] = 0 /\ p \in assigned[s.event] \cup s.assign
    /\ s.assign \subseteq sheets \cup s.fresh
    /\ s.assign \cap s.todo = {}
    /\ s.phase = "write" /\ s.handler \in RowByRow => FirstOf(t, s.todo) \in sheets \cup s.fresh
    /\ s.phase = "write" /\ s.handler \in {"assign", "assign_pairs"} => s.todo \subseteq sheets

BatchOK(t, s) == s \in BatchType /\ Phased(s) /\ Grounded(t, s)

\* Whoever locks an event FOR UPDATE is the only one with a lock on it.
Apart(r, s) == r.event = s.event /\ r.lock = "UPDATE" => s.lock = "NONE"

LocksApart == \A t, u \in Sessions : t # u /\ Live(t) /\ Live(u) => Apart(session[t], session[u])

DraftsInv ==
    /\ DraftsTypeOK
    /\ \A t \in Sessions : Live(t) => BatchOK(t, session[t])
    /\ LocksApart
    /\ PairsUnique

-----------------------------------------------------------------------------
(* What the operators of the model yield.                                   *)

\* Every set of naturals that is not empty has a least element.
LEMMA LeastNatural ==
    ASSUME NEW S \in SUBSET Nat, S # {}
    PROVE  Min(S) \in S
<1>1. PICK x \in S : \A y \in S : ~(<<y, x>> \in OpToRel(<, Nat))
  BY NatLessThanWellFounded, WFMin
<1>2. ASSUME NEW y \in S PROVE x <= y
  <2>1. x \in Nat /\ y \in Nat OBVIOUS
  <2>2. OpToRel(<, Nat) = {ss \in Nat \X Nat : ss[1] < ss[2]} BY Zenon DEF OpToRel
  <2>3. ~(y < x) BY <1>1, <2>1, <2>2
  <2> QED BY <2>1, <2>3
<1> QED BY <1>1, <1>2 DEF Min

\* The first of some people in a file is one of them.
LEMMA FirstIsOne ==
    ASSUME NEW t \in Sessions, NEW S, S # {}, S \subseteq Range(Files[t])
    PROVE  FirstOf(t, S) \in S
<1> DEFINE places == {i \in DOMAIN Files[t] : Files[t][i] \in S}
<1>1. Files[t] \in Seq(People) BY DraftsAssumption
<1>2. places \in SUBSET Nat BY <1>1
<1>3. places # {} BY DEF Range
<1>4. Min(places) \in places BY <1>2, <1>3, LeastNatural
<1> QED BY <1>4 DEF FirstOf

\* The files name people.
LEMMA FilePeople ==
    ASSUME NEW t \in Sessions
    PROVE  /\ Range(Files[t]) \in SUBSET People
           /\ Head(Files[t]) \in Range(Files[t])
<1>1. Files[t] \in Seq(People) /\ Files[t] # <<>> BY DraftsAssumption
<1> QED BY <1>1 DEF Range

LEMMA WithTodoFields ==
    ASSUME NEW s \in BatchType, NEW S \in SUBSET People
    PROVE  LET r == WithTodo(s, S) IN
           /\ r \in BatchType
           /\ r.todo = S
           /\ r.phase = IF S = {} THEN "commit" ELSE FirstPhase(s.handler)
           /\ r.handler = s.handler /\ r.event = s.event /\ r.lock = s.lock
           /\ r.own = s.own /\ r.share = s.share /\ r.fresh = s.fresh
           /\ r.assign = s.assign /\ r.make = s.make
BY DEF WithTodo, BatchType, FirstPhase

LEMMA LiveBatch ==
    ASSUME NEW s \in BatchType
    PROVE  s # Idle
BY DEF BatchType, Idle, Handlers, RowByRow, EventLocking

-----------------------------------------------------------------------------
(* Steps that change one session.                                           *)

LEMMA BecomesStep ==
    ASSUME DraftsInv, NEW t \in Sessions, NEW s, Becomes(t, s),
           \/ s = Idle
           \/ /\ BatchOK(t, s)
              /\ \A u \in Sessions \ {t} :
                    Live(u) => Apart(s, session[u]) /\ Apart(session[u], s)
    PROVE  DraftsInv'
<1>1. /\ session' = [session EXCEPT ![t] = s]
      /\ UNCHANGED <<sheets, assigned, drafts, by_hand>>
  BY DEF Becomes
<1>2. session'[t] = s /\ \A u \in Sessions \ {t} : session'[u] = session[u]
  BY <1>1 DEF DraftsInv, DraftsTypeOK
<1>3. DraftsTypeOK' BY <1>1 DEF DraftsInv, DraftsTypeOK, BatchOK
<1>4. ASSUME NEW u \in Sessions, Live(u)' PROVE BatchOK(u, session[u])'
  <2>1. CASE u = t
    <3>1. BatchOK(t, s) BY <1>2, <1>4, <2>1 DEF Live
    <3> QED BY <1>1, <1>2, <2>1, <3>1 DEF BatchOK, Grounded, Phased
  <2>2. CASE u # t
    <3>1. BatchOK(u, session[u]) BY <1>2, <1>4, <2>2 DEF Live, DraftsInv
    <3> QED BY <1>1, <1>2, <2>2, <3>1 DEF BatchOK, Grounded, Phased
  <2> QED BY <2>1, <2>2
<1>5. LocksApart'
  <2> SUFFICES ASSUME NEW v \in Sessions, NEW u \in Sessions, v # u, Live(v)', Live(u)'
               PROVE  Apart(session'[v], session'[u])
    BY DEF LocksApart
  <2>1. CASE v = t BY <1>2, <2>1 DEF Live
  <2>2. CASE u = t BY <1>2, <2>2 DEF Live
  <2>3. CASE v # t /\ u # t BY <1>2, <2>3 DEF Live, DraftsInv, LocksApart
  <2> QED BY <2>1, <2>2, <2>3
<1>6. PairsUnique' BY <1>1 DEF DraftsInv, PairsUnique, Has
<1> QED BY <1>3, <1>4, <1>5, <1>6 DEF DraftsInv

\* A session that keeps its lock.
LEMMA SameLockStep ==
    ASSUME DraftsInv, NEW t \in Sessions, Live(t), NEW s, Becomes(t, s),
           BatchOK(t, s), s.event = session[t].event, s.lock = session[t].lock
    PROVE  DraftsInv'
<1>1. \A u \in Sessions \ {t} :
          Live(u) => Apart(session[t], session[u]) /\ Apart(session[u], session[t])
  BY DEF DraftsInv, LocksApart
<1>2. \A u \in Sessions \ {t} : Live(u) => Apart(s, session[u]) /\ Apart(session[u], s)
  BY <1>1 DEF Apart
<1> QED BY <1>2, BecomesStep

LEMMA DieStep ==
    ASSUME DraftsInv, NEW t \in Sessions, Die(t)
    PROVE  DraftsInv'
BY BecomesStep DEF Die

LEMMA BeginStep ==
    ASSUME DraftsInv, NEW t \in Sessions, Begin(t)
    PROVE  DraftsInv'
<1>1. PICK h \in Handlers, e \in Targets[t] :
         Becomes(t, Batch(h, e,
                          IF h = "person" THEN {Head(Files[t])} ELSE Range(Files[t]),
                          IF h \in EventLocking THEN "event" ELSE FirstPhase(h)))
  BY DEF Begin, Handlers
<1> DEFINE todo == IF h = "person" THEN {Head(Files[t])} ELSE Range(Files[t])
           phase == IF h \in EventLocking THEN "event" ELSE FirstPhase(h)
           s == Batch(h, e, todo, phase)
<1>2. todo \in SUBSET People /\ todo # {} /\ todo \subseteq Range(Files[t])
  BY FilePeople
<1>3. e \in Events BY DraftsAssumption
<1>4. /\ phase \in {"event", "row"}
      /\ phase = "event" <=> h \in EventLocking
      /\ phase = "row" => h \in RowByRow
  BY DEF Handlers, FirstPhase
<1> HIDE DEF todo, phase
<1>5. /\ s \in BatchType
      /\ s.handler = h /\ s.todo = todo /\ s.phase = phase /\ s.lock = "NONE"
      /\ s.assign = {} /\ s.make = {}
  BY <1>2, <1>3, <1>4 DEF Batch, BatchType
<1>6. BatchOK(t, s)
  <2>1. Phased(s) BY <1>2, <1>4, <1>5 DEF Phased
  <2>2. Grounded(t, s) BY <1>2, <1>4, <1>5 DEF Grounded
  <2> QED BY <1>5, <2>1, <2>2 DEF BatchOK
<1>7. \A u \in Sessions \ {t} : Live(u) => Apart(s, session[u]) /\ Apart(session[u], s)
  BY <1>5 DEF Apart
<1>8. Becomes(t, s) BY <1>1 DEF todo, phase
<1> HIDE DEF s
<1> QED BY <1>6, <1>7, <1>8, BecomesStep

-----------------------------------------------------------------------------
(* The lock of the event.                                                   *)

\* Whoever takes the lock of an event finds none of it with another.
LEMMA EventFree ==
    ASSUME DraftsInv, NEW t \in Sessions, Live(t), session[t].phase = "event", Free(t),
           NEW s, s.event = session[t].event
    PROVE  \A u \in Sessions \ {t} : Live(u) => Apart(s, session[u]) /\ Apart(session[u], s)
<1>1. \A u \in Sessions \ {t} :
          Live(u) /\ session[u].event = session[t].event => session[u].lock = "NONE"
  BY DEF Free, WaitsFor
<1> QED BY <1>1 DEF Apart

LEMMA LockEventStep ==
    ASSUME DraftsInv, NEW t \in Sessions, LockEvent(t)
    PROVE  DraftsInv'
<1> DEFINE b == session[t]
           s == [b EXCEPT !.lock = EventLock, !.phase = FirstPhase(b.handler)]
<1>1. Live(t) /\ b.phase = "event" /\ Free(t) /\ Becomes(t, Selected(s))
  BY DEF LockEvent
<1>2. b \in BatchType /\ BatchOK(t, b)
  BY <1>1 DEF DraftsInv, BatchOK
<1>3. b.handler \in EventLocking /\ b.todo # {} /\ b.make = {} /\ b.assign = {}
  BY <1>1, <1>2 DEF BatchOK, Phased, Grounded
<1>4. /\ s \in BatchType /\ s.lock = "UPDATE" /\ s.phase = FirstPhase(b.handler)
      /\ s.handler = b.handler /\ s.event = b.event /\ s.todo = b.todo
      /\ s.make = {} /\ s.assign = {}
  BY <1>2, <1>3 DEF BatchType, EventLock, FirstPhase
<1> HIDE DEF s
<1>5. s.todo \in SUBSET People /\ s.todo \subseteq Range(Files[t]) /\ s.event \in Events
  BY <1>2, <1>4 DEF BatchOK, Grounded, BatchType
<1>6. ASSUME NEW r, BatchOK(t, r), r.event = b.event, Becomes(t, r) PROVE DraftsInv'
  BY <1>1, <1>6, EventFree, BecomesStep
<1>7. ASSUME Becomes(t, Idle) PROVE DraftsInv'
  BY <1>7, BecomesStep
<1>8. CASE s.handler = "pairs"
  <2>1. Phased(s) /\ Grounded(t, s)
    BY <1>3, <1>4, <1>5, <1>8 DEF Phased, Grounded, FirstPhase, RowByRow, EventLocking
  <2> QED BY <1>1, <1>4, <1>6, <1>8, <2>1 DEF BatchOK, Selected
<1>9. CASE s.handler = "missing"
  <2> DEFINE lacking == {p \in s.todo : ~Has(p, s.event)}
             m == [s EXCEPT !.make = lacking]
             r == WithTodo(m, lacking)
  <2>1. lacking \in SUBSET People /\ lacking \subseteq s.todo BY <1>5
  <2>2. \A p \in lacking : drafts[s.event][p] = 0
    BY <1>5 DEF Has, DraftsInv, DraftsTypeOK
  <2>3. Selected(s) = IF s.todo \subseteq assigned[s.event] THEN r ELSE Idle
    BY <1>9 DEF Selected, MissingSelected
  <2> HIDE DEF lacking
  <2>4. /\ m \in BatchType /\ m.make = lacking /\ m.assign = {} /\ m.lock = "UPDATE"
        /\ m.handler = "missing" /\ m.event = s.event
    BY <1>4, <1>9, <2>1 DEF BatchType
  <2> HIDE DEF m
  <2>5. /\ r \in BatchType /\ r.make = lacking /\ r.assign = {} /\ r.lock = "UPDATE"
        /\ r.handler = "missing" /\ r.event = s.event /\ r.todo = lacking
        /\ r.phase = IF lacking = {} THEN "commit" ELSE "write"
    BY <2>1, <2>4, WithTodoFields DEF FirstPhase, RowByRow
  <2> HIDE DEF r
  <2>6. CASE s.todo \subseteq assigned[s.event]
    <3>1. Phased(r) BY <2>5 DEF Phased, EventLocking
    <3>2. Grounded(t, r) BY <1>5, <2>1, <2>2, <2>5, <2>6 DEF Grounded, RowByRow
    <3> QED BY <1>1, <1>4, <1>6, <2>3, <2>5, <2>6, <3>1, <3>2 DEF BatchOK
  <2>7. CASE ~(s.todo \subseteq assigned[s.event]) BY <1>1, <1>7, <2>3, <2>7
  <2> QED BY <2>6, <2>7
<1>10. CASE s.handler \in {"assign", "assign_pairs"}
  <2> DEFINE todo == s.todo \ assigned[s.event]
             r == WithTodo(s, todo)
             known == \E e \in Events \ {s.event} : s.todo \subseteq assigned[e]
  <2>1. Selected(s) = IF known THEN r ELSE Idle
    BY <1>10 DEF Selected, AssignSelected
  <2>2. todo \in SUBSET People /\ todo \subseteq s.todo BY <1>5
  <2>3. known => todo \subseteq sheets
    BY <2>2 DEF DraftsInv, DraftsTypeOK, PairsUnique
  <2> HIDE DEF todo, known
  <2>4. /\ r \in BatchType /\ r.make = {} /\ r.assign = {} /\ r.lock = "UPDATE"
        /\ r.handler \in {"assign", "assign_pairs"} /\ r.event = s.event /\ r.todo = todo
        /\ r.phase = IF todo = {} THEN "commit" ELSE "write"
    BY <1>4, <1>10, <2>2, WithTodoFields DEF FirstPhase, RowByRow
  <2> HIDE DEF r
  <2>5. CASE known
    <3>1. Phased(r) BY <2>4 DEF Phased, EventLocking
    <3>2. Grounded(t, r) BY <1>5, <2>2, <2>3, <2>4, <2>5 DEF Grounded, RowByRow
    <3> QED BY <1>1, <1>4, <1>6, <2>1, <2>4, <2>5, <3>1, <3>2 DEF BatchOK
  <2>6. CASE ~known BY <1>1, <1>7, <2>1, <2>6
  <2> QED BY <2>5, <2>6
<1> QED BY <1>3, <1>4, <1>8, <1>9, <1>10 DEF EventLocking

-----------------------------------------------------------------------------
(* The rows of people.                                                      *)

\* A batch whose row for p is done and that goes on with the next.
LEMMA NextRowOK ==
    ASSUME NEW t \in Sessions, NEW a \in BatchType, NEW p,
           IF a.handler \in EventLocking THEN a.lock = "UPDATE" ELSE a.lock # "UPDATE",
           a.todo \subseteq Range(Files[t]),
           a.lock # "UPDATE" => a.make = {},
           \A q \in a.make : drafts[a.event][q] = 0 /\ q \in assigned[a.event] \cup a.assign,
           a.assign \subseteq sheets \cup a.fresh,
           a.assign \cap a.todo \subseteq {p},
           a.handler \in {"assign", "assign_pairs"} => a.todo \subseteq sheets
    PROVE  /\ BatchOK(t, NextRow(a, p))
           /\ NextRow(a, p).event = a.event
           /\ NextRow(a, p).lock = a.lock
<1> DEFINE todo == a.todo \ {p}
           r == NextRow(a, p)
<1>1. todo \in SUBSET People /\ todo \subseteq a.todo /\ p \notin todo BY DEF BatchType
<1>2. r = WithTodo(a, todo) BY DEF NextRow
<1> HIDE DEF todo, r
<1>3. /\ r \in BatchType /\ r.todo = todo
      /\ r.phase = IF todo = {} THEN "commit" ELSE FirstPhase(a.handler)
      /\ r.handler = a.handler /\ r.event = a.event /\ r.lock = a.lock
      /\ r.fresh = a.fresh /\ r.assign = a.assign /\ r.make = a.make
  BY <1>1, <1>2, WithTodoFields
<1>4. Phased(r) BY <1>3 DEF Phased, FirstPhase, RowByRow
<1>5. Grounded(t, r) BY <1>1, <1>3 DEF Grounded, FirstPhase, RowByRow
<1> QED BY <1>3, <1>4, <1>5 DEF BatchOK, r

\* Reading the row of somebody whose sheet is locked, or new.
LEMMA ReadOK ==
    ASSUME DraftsInv, NEW t \in Sessions, NEW s, BatchOK(t, s), s.phase \in {"row", "insert"},
           NEW p, p = FirstOf(t, s.todo), p \in People, p \in sheets \cup s.fresh,
           NEW adds \in BOOLEAN, ~adds => p \in assigned[s.event]
    PROVE  /\ BatchOK(t, Read(s, p, adds))
           /\ Read(s, p, adds).event = s.event
           /\ Read(s, p, adds).lock = s.lock
<1>1. /\ s \in BatchType /\ s.handler \in RowByRow
      /\ s.todo # {} /\ s.todo \subseteq Range(Files[t]) /\ s.event \in Events
  BY DEF BatchOK, Phased, Grounded, BatchType
<1> DEFINE make == IF s.handler = "pairs" /\ ~Has(p, s.event) THEN s.make \cup {p} ELSE s.make
           read == [s EXCEPT !.make = make]
<1>2. /\ make \in SUBSET People
      /\ \A q \in make : drafts[s.event][q] = 0
      /\ \A q \in make : q = p \/ q \in s.make
      /\ s.lock # "UPDATE" => make = {}
  BY <1>1 DEF BatchOK, Phased, Grounded, EventLocking, Has, BatchType, DraftsInv, DraftsTypeOK
<1> HIDE DEF make
<1>3. /\ read \in BatchType /\ read.make = make
      /\ read.handler = s.handler /\ read.event = s.event /\ read.todo = s.todo
      /\ read.phase = s.phase /\ read.lock = s.lock /\ read.assign = s.assign
      /\ read.fresh = s.fresh
  BY <1>1, <1>2 DEF BatchType
<1>4. Read(s, p, adds) =
          CASE ~adds                   -> NextRow(read, p)
            [] adds /\ s.lock = "NONE" -> [read EXCEPT !.phase = "write"]
            [] OTHER                   -> NextRow([read EXCEPT !.assign = @ \cup {p}], p)
  BY DEF Read, make
<1> HIDE DEF read
<1>5. /\ IF s.handler \in EventLocking THEN s.lock = "UPDATE" ELSE s.lock # "UPDATE"
      /\ s.handler \notin {"assign", "assign_pairs"}
      /\ s.assign \subseteq sheets \cup s.fresh
      /\ s.assign \cap s.todo = {}
      /\ \A q \in s.make : q \in assigned[s.event] \cup s.assign
  BY <1>1 DEF BatchOK, Phased, Grounded, RowByRow
<1>6. CASE ~adds
  <2>1. \A q \in make : q \in assigned[s.event] \cup s.assign BY <1>2, <1>5, <1>6
  <2>2. /\ BatchOK(t, NextRow(read, p))
        /\ NextRow(read, p).event = read.event /\ NextRow(read, p).lock = read.lock
    BY <1>1, <1>2, <1>3, <1>5, <2>1, NextRowOK
  <2> QED BY <1>3, <1>4, <1>6, <2>2
<1>7. CASE adds /\ s.lock = "NONE"
  <2> DEFINE w == [read EXCEPT !.phase = "write"]
  <2>1. /\ w \in BatchType /\ w.make = make
        /\ w.handler = s.handler /\ w.event = s.event /\ w.todo = s.todo
        /\ w.phase = "write" /\ w.lock = s.lock /\ w.assign = s.assign
        /\ w.fresh = s.fresh
    BY <1>3 DEF BatchType
  <2> HIDE DEF w
  <2>2. Phased(w) BY <1>1, <1>5, <1>7, <2>1 DEF Phased, EventLocking
  <2>3. Grounded(t, w) BY <1>1, <1>2, <1>5, <1>7, <2>1 DEF Grounded
  <2>4. Read(s, p, adds) = w BY <1>4, <1>7 DEF w
  <2> QED BY <2>1, <2>2, <2>3, <2>4 DEF BatchOK
<1>8. CASE adds /\ s.lock # "NONE"
  <2> DEFINE a == [read EXCEPT !.assign = @ \cup {p}]
  <2>1. /\ a \in BatchType /\ a.make = make
        /\ a.handler = s.handler /\ a.event = s.event /\ a.todo = s.todo
        /\ a.lock = s.lock /\ a.assign = s.assign \cup {p} /\ a.fresh = s.fresh
    BY <1>3 DEF BatchType
  <2>2. Read(s, p, adds) = NextRow(a, p) BY <1>4, <1>8
  <2> HIDE DEF a
  <2>3. \A q \in make : q \in assigned[s.event] \cup a.assign BY <1>2, <1>5, <2>1
  <2>4. /\ BatchOK(t, NextRow(a, p))
        /\ NextRow(a, p).event = a.event /\ NextRow(a, p).lock = a.lock
    BY <1>1, <1>2, <1>5, <2>1, <2>3, NextRowOK
  <2> QED BY <2>1, <2>2, <2>4
<1> QED BY <1>6, <1>7, <1>8

\* Locking a sheet, or inserting one, changes nothing that was prepared.
WithOwn(s, p) == [s EXCEPT !.own = @ \cup {p}]
WithFresh(s, p) == [s EXCEPT !.fresh = @ \cup {p}]

LEMMA WithOwnOK ==
    ASSUME NEW t \in Sessions, NEW s, BatchOK(t, s), NEW p \in People
    PROVE  /\ BatchOK(t, WithOwn(s, p))
           /\ WithOwn(s, p).phase = s.phase /\ WithOwn(s, p).todo = s.todo
           /\ WithOwn(s, p).event = s.event /\ WithOwn(s, p).lock = s.lock
<1> DEFINE own == WithOwn(s, p)
<1>1. s \in BatchType /\ Phased(s) /\ Grounded(t, s) BY DEF BatchOK
<1>2. /\ own \in BatchType
      /\ own.handler = s.handler /\ own.event = s.event /\ own.todo = s.todo
      /\ own.phase = s.phase /\ own.lock = s.lock /\ own.fresh = s.fresh
      /\ own.assign = s.assign /\ own.make = s.make
  BY <1>1 DEF BatchType, WithOwn
<1> HIDE DEF own
<1>3. BatchOK(t, own) BY <1>1, <1>2 DEF BatchOK, Phased, Grounded
<1> QED BY <1>2, <1>3 DEF own

LEMMA WithFreshOK ==
    ASSUME NEW t \in Sessions, NEW s, BatchOK(t, s), NEW p \in People
    PROVE  /\ BatchOK(t, WithFresh(s, p))
           /\ WithFresh(s, p).phase = s.phase /\ WithFresh(s, p).todo = s.todo
           /\ WithFresh(s, p).event = s.event /\ WithFresh(s, p).lock = s.lock
           /\ p \in WithFresh(s, p).fresh
<1> DEFINE new == WithFresh(s, p)
<1>1. s \in BatchType /\ Phased(s) /\ Grounded(t, s) BY DEF BatchOK
<1>2. /\ new \in BatchType
      /\ new.handler = s.handler /\ new.event = s.event /\ new.todo = s.todo
      /\ new.phase = s.phase /\ new.lock = s.lock /\ new.fresh = s.fresh \cup {p}
      /\ new.assign = s.assign /\ new.make = s.make
  BY <1>1 DEF BatchType, WithFresh
<1> HIDE DEF new
<1>3. BatchOK(t, new) BY <1>1, <1>2 DEF BatchOK, Phased, Grounded
<1> QED BY <1>2, <1>3 DEF new

\* The person whose row a session is at is one of those to do.
LEMMA PersonIsOne ==
    ASSUME DraftsInv, NEW t \in Sessions, Live(t),
           session[t].phase \in {"row", "insert", "write"}
    PROVE  /\ BatchOK(t, session[t])
           /\ Person(t) = FirstOf(t, session[t].todo)
           /\ Person(t) \in session[t].todo
           /\ Person(t) \in People
<1>1. BatchOK(t, session[t]) BY DEF DraftsInv
<1>2. /\ session[t].todo # {} /\ session[t].todo \subseteq Range(Files[t])
      /\ session[t].todo \subseteq People
  BY <1>1 DEF BatchOK, Phased, Grounded, BatchType
<1>3. Person(t) = FirstOf(t, session[t].todo) BY DEF Person, FirstOf
<1> QED BY <1>1, <1>2, <1>3, FirstIsOne

LEMMA LockPersonStep ==
    ASSUME DraftsInv, NEW t \in Sessions, LockPerson(t)
    PROVE  DraftsInv'
<1> DEFINE s == session[t]
           p == Person(t)
           own == WithOwn(s, p)
           insert == [s EXCEPT !.phase = "insert"]
<1>1. /\ Live(t) /\ s.phase = "row"
      /\ \/ p \notin sheets /\ Becomes(t, insert)
         \/ p \in sheets /\ Becomes(t, Read(own, p, TRUE))
         \/ p \in sheets /\ p \in assigned[s.event] /\ Becomes(t, Idle)
         \/ p \in sheets /\ p \in assigned[s.event] /\ Becomes(t, Read(own, p, FALSE))
  BY DEF LockPerson, WithOwn
<1>2. BatchOK(t, s) /\ p = FirstOf(t, s.todo) /\ p \in s.todo /\ p \in People
  BY <1>1, PersonIsOne
<1>3. CASE Becomes(t, insert)
  <2>1. /\ insert \in BatchType
        /\ insert.handler = s.handler /\ insert.event = s.event /\ insert.todo = s.todo
        /\ insert.phase = "insert" /\ insert.lock = s.lock /\ insert.fresh = s.fresh
        /\ insert.assign = s.assign /\ insert.make = s.make
    BY <1>2 DEF BatchOK, BatchType
  <2> HIDE DEF insert
  <2>2. BatchOK(t, insert) BY <1>1, <1>2, <2>1 DEF BatchOK, Phased, Grounded
  <2> QED BY <1>1, <1>3, <2>1, <2>2, SameLockStep
<1>4. ASSUME NEW adds \in BOOLEAN, p \in sheets, ~adds => p \in assigned[s.event],
             Becomes(t, Read(own, p, adds))
      PROVE  DraftsInv'
  <2>1. /\ BatchOK(t, own) /\ own.phase = s.phase /\ own.todo = s.todo
        /\ own.event = s.event /\ own.lock = s.lock
    BY <1>2, WithOwnOK
  <2> HIDE DEF own, p, s
  <2>2. /\ BatchOK(t, Read(own, p, adds))
        /\ Read(own, p, adds).event = own.event /\ Read(own, p, adds).lock = own.lock
    BY <1>1, <1>2, <1>4, <2>1, ReadOK
  <2> QED BY <1>1, <1>4, <2>1, <2>2, SameLockStep DEF s
<1>5. CASE Becomes(t, Idle) BY <1>5, BecomesStep
<1> HIDE DEF own, insert
<1> QED BY <1>1, <1>3, <1>4, <1>5

\* A row that fails takes along what it made, and nothing another row rests on.
LEMMA FailedStep ==
    ASSUME DraftsInv, NEW t \in Sessions, Live(t),
           session[t].phase \in {"row", "insert", "write"},
           Becomes(t, Failed(session[t], Person(t)))
    PROVE  DraftsInv'
<1> DEFINE s == session[t]
           p == Person(t)
           a == [s EXCEPT !.own = @ \ {p}, !.fresh = @ \ {p}, !.make = @ \ {p}]
<1>1. BatchOK(t, s) /\ p \in s.todo /\ p \in People
  BY PersonIsOne
<1>2. Failed(s, p) = IF s.handler \in Savepoints THEN NextRow(a, p) ELSE Idle
  BY DEF Failed
<1>3. CASE s.handler \notin Savepoints BY <1>2, <1>3, BecomesStep
<1>4. CASE s.handler \in Savepoints
  <2>1. /\ a \in BatchType
        /\ a.handler = s.handler /\ a.event = s.event /\ a.todo = s.todo
        /\ a.lock = s.lock /\ a.fresh = s.fresh \ {p}
        /\ a.assign = s.assign /\ a.make = s.make \ {p}
    BY <1>1 DEF BatchOK, BatchType
  <2>2. Becomes(t, NextRow(a, p)) BY <1>2, <1>4
  <2> HIDE DEF a
  <2>3. /\ BatchOK(t, NextRow(a, p))
        /\ NextRow(a, p).event = a.event /\ NextRow(a, p).lock = a.lock
    <3>1. /\ IF a.handler \in EventLocking THEN a.lock = "UPDATE" ELSE a.lock # "UPDATE"
          /\ a.handler \notin {"assign", "assign_pairs"}
      BY <1>1, <1>4, <2>1 DEF BatchOK, Phased, Savepoints
    <3>2. /\ a.todo \subseteq Range(Files[t])
          /\ a.lock # "UPDATE" => a.make = {}
          /\ \A q \in a.make : drafts[a.event][q] = 0 /\ q \in assigned[a.event] \cup a.assign
          /\ a.assign \cap a.todo = {}
      BY <1>1, <2>1 DEF BatchOK, Grounded
    <3>3. a.assign \subseteq sheets \cup a.fresh
      BY <1>1, <2>1 DEF BatchOK, Grounded
    <3> QED BY <2>1, <3>1, <3>2, <3>3, NextRowOK
  <2> QED BY <2>1, <2>2, <2>3, SameLockStep
<1> QED BY <1>3, <1>4

LEMMA RowFailsStep ==
    ASSUME DraftsInv, NEW t \in Sessions, RowFails(t)
    PROVE  DraftsInv'
BY FailedStep DEF RowFails

LEMMA InsertPersonStep ==
    ASSUME DraftsInv, NEW t \in Sessions, InsertPerson(t)
    PROVE  DraftsInv'
<1> DEFINE s == session[t]
           p == Person(t)
           new == WithFresh(s, p)
<1>1. /\ Live(t) /\ s.phase = "insert"
      /\ Becomes(t, IF p \in sheets THEN Failed(s, p) ELSE Read(new, p, TRUE))
  BY DEF InsertPerson, WithFresh
<1>2. CASE p \in sheets BY <1>1, <1>2, FailedStep
<1>3. CASE p \notin sheets
  <2>1. BatchOK(t, s) /\ p = FirstOf(t, s.todo) /\ p \in People
    BY <1>1, PersonIsOne
  <2>2. /\ BatchOK(t, new) /\ new.phase = s.phase /\ new.todo = s.todo
        /\ new.event = s.event /\ new.lock = s.lock /\ p \in new.fresh
    BY <2>1, WithFreshOK
  <2>3. Becomes(t, Read(new, p, TRUE)) BY <1>1, <1>3
  <2> HIDE DEF new, p, s
  <2>4. /\ BatchOK(t, Read(new, p, TRUE))
        /\ Read(new, p, TRUE).event = new.event /\ Read(new, p, TRUE).lock = new.lock
    BY <1>1, <2>1, <2>2, ReadOK
  <2> QED BY <1>1, <2>2, <2>3, <2>4, SameLockStep DEF s
<1> QED BY <1>2, <1>3

LEMMA WriteRowStep ==
    ASSUME DraftsInv, NEW t \in Sessions, WriteRow(t)
    PROVE  DraftsInv'
<1> DEFINE s == session[t]
           p == Person(t)
<1>1. /\ Live(t) /\ s.phase = "write" /\ Free(t)
      /\ s.handler \in RowByRow => Becomes(t, ImportedRow(s, p))
      /\ s.handler = "missing" => Becomes(t, MissingRow(s, p))
      /\ s.handler \notin RowByRow \cup {"missing"} => Becomes(t, AssignedRow(s, p))
  BY DEF WriteRow, RowByRow
<1>2. BatchOK(t, s) /\ p = FirstOf(t, s.todo) /\ p \in s.todo /\ p \in People
  BY <1>1, PersonIsOne
<1>3. s \in BatchType /\ Phased(s) /\ Grounded(t, s) BY <1>2 DEF BatchOK
<1>4. \A u \in Sessions \ {t} : Live(u) /\ session[u].event = s.event /\ s.handler \in RowByRow
         => session[u].lock # "UPDATE"
  BY <1>1 DEF Free, WaitsFor
<1>5. s.event \in Events BY <1>3 DEF BatchType
<1> HIDE DEF s, p
<1>6. CASE s.handler \in RowByRow
  <2> DEFINE a == [s EXCEPT !.assign = @ \cup {p}, !.lock = "SHARE"]
  <2>1. /\ a \in BatchType
        /\ a.handler = s.handler /\ a.event = s.event /\ a.todo = s.todo
        /\ a.lock = "SHARE" /\ a.fresh = s.fresh
        /\ a.assign = s.assign \cup {p} /\ a.make = s.make
    BY <1>2, <1>3 DEF BatchType
  <2>2. Becomes(t, NextRow(a, p)) BY <1>1, <1>6 DEF ImportedRow
  <2> HIDE DEF a
  <2>3. s.handler \notin EventLocking /\ s.make = {} /\ p \in sheets \cup s.fresh
    BY <1>1, <1>2, <1>3, <1>6 DEF Phased, Grounded, EventLocking, RowByRow
  <2>4. /\ BatchOK(t, NextRow(a, p))
        /\ NextRow(a, p).event = s.event /\ NextRow(a, p).lock = "SHARE"
    BY <1>3, <2>1, <2>3, NextRowOK DEF Grounded, EventLocking
  <2>5. \A u \in Sessions \ {t} : Live(u) => /\ Apart(NextRow(a, p), session[u])
                                             /\ Apart(session[u], NextRow(a, p))
    BY <1>4, <1>6, <2>4 DEF Apart
  <2> QED BY <2>2, <2>4, <2>5, BecomesStep
<1>7. CASE s.handler = "missing"
  <2> DEFINE a == [s EXCEPT !.share = @ \cup {p}]
  <2>1. /\ a \in BatchType
        /\ a.handler = s.handler /\ a.event = s.event /\ a.todo = s.todo
        /\ a.lock = s.lock /\ a.fresh = s.fresh
        /\ a.assign = s.assign /\ a.make = s.make
    BY <1>2, <1>3 DEF BatchType
  <2>2. Becomes(t, NextRow(a, p)) BY <1>1, <1>7 DEF MissingRow
  <2> HIDE DEF a
  <2>3. /\ BatchOK(t, NextRow(a, p))
        /\ NextRow(a, p).event = s.event /\ NextRow(a, p).lock = s.lock
    BY <1>1, <1>3, <1>7, <2>1, NextRowOK DEF Phased, Grounded, EventLocking
  <2> QED BY <1>1, <2>2, <2>3, SameLockStep DEF s
<1>8. CASE s.handler \in {"assign", "assign_pairs"}
  <2> DEFINE make == IF s.handler = "assign_pairs" /\ ~Has(p, s.event)
                     THEN s.make \cup {p} ELSE s.make
             a == [s EXCEPT !.share = @ \cup {p}, !.assign = @ \cup {p}, !.make = make]
  <2>1. /\ make \in SUBSET People
        /\ \A q \in make : drafts[s.event][q] = 0
        /\ \A q \in make : q = p \/ q \in s.make
    BY <1>2, <1>3, <1>5 DEF Grounded, Has, BatchType, DraftsInv, DraftsTypeOK
  <2>2. Becomes(t, NextRow(a, p)) BY <1>1, <1>8 DEF AssignedRow, RowByRow
  <2> HIDE DEF make
  <2>3. /\ a \in BatchType
        /\ a.handler = s.handler /\ a.event = s.event /\ a.todo = s.todo
        /\ a.lock = s.lock /\ a.fresh = s.fresh
        /\ a.assign = s.assign \cup {p} /\ a.make = make
    BY <1>2, <1>3, <2>1 DEF BatchType
  <2> HIDE DEF a
  <2>4. /\ s.lock = "UPDATE" /\ s.todo \subseteq sheets
        /\ s.todo \subseteq Range(Files[t])
        /\ s.assign \subseteq sheets \cup s.fresh /\ s.assign \cap s.todo = {}
        /\ \A q \in s.make : q \in assigned[s.event] \cup s.assign
    BY <1>1, <1>3, <1>8 DEF Phased, Grounded, EventLocking
  <2>5. \A q \in make : q \in assigned[s.event] \cup a.assign BY <2>1, <2>3, <2>4
  <2>6. /\ BatchOK(t, NextRow(a, p))
        /\ NextRow(a, p).event = s.event /\ NextRow(a, p).lock = s.lock
    BY <1>2, <1>8, <2>1, <2>3, <2>4, <2>5, NextRowOK DEF EventLocking
  <2> QED BY <1>1, <2>2, <2>6, SameLockStep DEF s
<1> QED BY <1>1, <1>3, <1>6, <1>7, <1>8 DEF Phased, BatchType, Handlers, EventLocking, RowByRow

-----------------------------------------------------------------------------
(* Commits, and documents that are made by hand or cancelled.               *)

LEMMA CommitStep ==
    ASSUME DraftsInv, NEW t \in Sessions, Commit(t)
    PROVE  DraftsInv'
<1> DEFINE s == session[t]
           e == s.event
           made == [p \in People |-> IF p \in s.make THEN drafts[e][p] + 1 ELSE drafts[e][p]]
<1>1. /\ Live(t)
      /\ sheets' = sheets \cup s.fresh
      /\ assigned' = [assigned EXCEPT ![e] = assigned[e] \cup s.assign]
      /\ session' = [session EXCEPT ![t] = Idle]
      /\ by_hand' = by_hand
  BY DEF Commit
<1>2. /\ BatchOK(t, s) /\ s \in BatchType /\ Grounded(t, s) /\ Phased(s)
      /\ e \in Events /\ s.fresh \in SUBSET People /\ s.assign \in SUBSET People
  BY <1>1 DEF DraftsInv, BatchOK, BatchType
<1>3. drafts' = [drafts EXCEPT ![e] = made] BY DEF Commit
<1>4. made \in [People -> Nat] BY <1>2 DEF DraftsInv, DraftsTypeOK
<1>5. \A p \in People : /\ p \notin s.make => made[p] = drafts[e][p]
                        /\ p \in s.make => made[p] = 1
  BY <1>2 DEF Grounded
<1> HIDE DEF made
<1>6. /\ drafts'[e] = made /\ \A x \in Events \ {e} : drafts'[x] = drafts[x]
      /\ assigned'[e] = assigned[e] \cup s.assign
      /\ \A x \in Events \ {e} : assigned'[x] = assigned[x]
      /\ session'[t] = Idle /\ \A u \in Sessions \ {t} : session'[u] = session[u]
  BY <1>1, <1>2, <1>3 DEF DraftsInv, DraftsTypeOK
<1>7. DraftsTypeOK' BY <1>1, <1>2, <1>3, <1>4 DEF DraftsInv, DraftsTypeOK
<1>8. ASSUME NEW u \in Sessions \ {t}, Live(u) PROVE BatchOK(u, session[u])'
  <2> DEFINE r == session[u]
  <2>1. BatchOK(u, r) /\ r \in BatchType /\ Grounded(u, r) /\ r.make \subseteq People
    BY <1>8 DEF DraftsInv, BatchOK, BatchType
  <2>2. Apart(s, r) BY <1>1, <1>8 DEF DraftsInv, LocksApart
  <2>3. \A p \in r.make : drafts'[r.event][p] = 0
    <3>1. CASE r.event # e BY <1>6, <2>1, <3>1 DEF Grounded, BatchType
    <3>2. CASE r.event = e /\ s.lock = "UPDATE"
      BY <2>1, <2>2, <3>2 DEF Apart, Grounded
    <3>3. CASE r.event = e /\ s.lock # "UPDATE"
      BY <1>2, <1>5, <1>6, <2>1, <3>3 DEF Grounded
    <3> QED BY <3>1, <3>2, <3>3
  <2>4. assigned[r.event] \subseteq assigned'[r.event] /\ sheets \subseteq sheets'
    BY <1>1, <1>6, <2>1 DEF BatchType
  <2>5. session'[u] = r BY <1>6, <1>8
  <2> HIDE DEF r
  <2> QED BY <2>1, <2>3, <2>4, <2>5 DEF BatchOK, Grounded, Phased
<1>9. ~Live(t)' /\ \A u \in Sessions \ {t} : Live(u)' <=> Live(u)
  BY <1>6 DEF Live
<1>10. LocksApart' BY <1>6, <1>9 DEF DraftsInv, LocksApart
<1>11. PairsUnique'
  <2> SUFFICES ASSUME NEW x \in Events, NEW p \in People
               PROVE  /\ drafts'[x][p] <= 1
                      /\ Has(p, x)' => p \in assigned'[x]
                      /\ p \in assigned'[x] => p \in sheets'
    BY DEF PairsUnique
  <2>1. /\ drafts[x][p] <= 1 /\ (Has(p, x) => p \in assigned[x])
        /\ p \in assigned[x] => p \in sheets
    BY DEF DraftsInv, PairsUnique
  <2>2. CASE x # e BY <1>1, <1>6, <2>1, <2>2 DEF Has
  <2>3. CASE x = e
    <3>1. p \in s.assign => p \in sheets' BY <1>1, <1>2 DEF Grounded
    <3>2. CASE p \in s.make
      <4>1. p \in assigned[x] \cup s.assign BY <1>2, <2>3, <3>2 DEF Grounded
      <4> QED BY <1>1, <1>5, <1>6, <2>1, <2>3, <3>1, <3>2, <4>1
    <3>3. CASE p \notin s.make
      BY <1>1, <1>5, <1>6, <2>1, <2>3, <3>1, <3>3 DEF Has
    <3> QED BY <3>2, <3>3
  <2> QED BY <2>2, <2>3
<1> QED BY <1>7, <1>8, <1>9, <1>10, <1>11 DEF DraftsInv

\* A step that leaves every session, sheet and assignment as they are, and makes no
\* draft of a batch.
LEMMA DocumentStep ==
    ASSUME DraftsInv, UNCHANGED <<sheets, assigned, session>>, DraftsTypeOK',
           \A e \in Events, p \in People : drafts'[e][p] <= drafts[e][p],
           \A e \in Events, p \in People : <<p, e>> \in by_hand' => p \in assigned[e]
    PROVE  DraftsInv'
<1>1. ASSUME NEW u \in Sessions, Live(u)' PROVE BatchOK(u, session[u])'
  <2>1. BatchOK(u, session[u]) BY <1>1 DEF Live, DraftsInv
  <2>2. session[u].event \in Events /\ session[u].make \subseteq People
    BY <2>1 DEF BatchOK, BatchType
  <2>3. \A p \in session[u].make : drafts'[session[u].event][p] = 0
    BY <2>1, <2>2 DEF BatchOK, Grounded, DraftsTypeOK
  <2> QED BY <2>1, <2>3 DEF BatchOK, Grounded, Phased
<1>2. LocksApart' BY DEF DraftsInv, LocksApart, Live
<1>3. PairsUnique'
  <2> SUFFICES ASSUME NEW x \in Events, NEW p \in People
               PROVE  /\ drafts'[x][p] <= 1
                      /\ Has(p, x)' => p \in assigned[x]
                      /\ p \in assigned[x] => p \in sheets
    BY DEF PairsUnique
  <2>1. /\ drafts[x][p] <= 1 /\ (Has(p, x) => p \in assigned[x])
        /\ p \in assigned[x] => p \in sheets
    BY DEF DraftsInv, PairsUnique
  <2>2. drafts[x][p] \in Nat /\ drafts'[x][p] \in Nat /\ drafts'[x][p] <= drafts[x][p]
    BY DEF DraftsInv, DraftsTypeOK
  <2>3. drafts'[x][p] > 0 => drafts[x][p] > 0 BY <2>2
  <2> QED BY <2>1, <2>2, <2>3 DEF Has
<1> QED BY <1>1, <1>2, <1>3 DEF DraftsInv

LEMMA CreateDocumentStep ==
    ASSUME DraftsInv, NEW p \in People, NEW e \in Events, CreateDocument(p, e)
    PROVE  DraftsInv'
<1>1. /\ p \in assigned[e] /\ by_hand' = by_hand \cup {<<p, e>>}
      /\ UNCHANGED <<sheets, assigned, drafts, session>>
  BY DEF CreateDocument
<1>2. DraftsTypeOK' BY <1>1 DEF DraftsInv, DraftsTypeOK
<1>3. \A x \in Events, q \in People : drafts'[x][q] <= drafts[x][q]
  BY <1>1 DEF DraftsInv, DraftsTypeOK
<1>4. \A x \in Events, q \in People : <<q, x>> \in by_hand' => q \in assigned[x]
  BY <1>1 DEF DraftsInv, PairsUnique, Has
<1> QED BY <1>1, <1>2, <1>3, <1>4, DocumentStep

LEMMA CancelDocumentStep ==
    ASSUME DraftsInv, NEW p \in People, NEW e \in Events, CancelDocument(p, e)
    PROVE  DraftsInv'
<1>1. UNCHANGED <<sheets, assigned, session>> /\ by_hand' \subseteq by_hand
  BY DEF CancelDocument
<1>2. \A x \in Events, q \in People : <<q, x>> \in by_hand' => q \in assigned[x]
  BY <1>1 DEF DraftsInv, PairsUnique, Has
<1>3. /\ drafts' \in [Events -> [People -> Nat]]
      /\ \A x \in Events, q \in People : drafts'[x][q] <= drafts[x][q]
  <2>1. drafts \in [Events -> [People -> Nat]] BY DEF DraftsInv, DraftsTypeOK
  <2>2. CASE drafts' = drafts BY <2>1, <2>2
  <2>3. CASE drafts[e][p] > 0 /\ drafts' = [drafts EXCEPT ![e][p] = @ - 1]
    BY <2>1, <2>3
  <2> QED BY <2>2, <2>3 DEF CancelDocument
<1>4. DraftsTypeOK' BY <1>1, <1>3 DEF DraftsInv, DraftsTypeOK
<1> QED BY <1>1, <1>2, <1>3, <1>4, DocumentStep

-----------------------------------------------------------------------------
(* The theorem.                                                             *)

LEMMA DraftsInitInv ==
    ASSUME DraftsInit
    PROVE  DraftsInv
<1>1. DraftsTypeOK BY DEF DraftsInit, DraftsTypeOK
<1>2. \A t \in Sessions : ~Live(t) BY DEF DraftsInit, Live
<1>3. PairsUnique BY DEF DraftsInit, PairsUnique, Has
<1> QED BY <1>1, <1>2, <1>3 DEF DraftsInv, LocksApart

LEMMA DraftsNextInv ==
    ASSUME DraftsInv, [DraftsNext]_draftsVars
    PROVE  DraftsInv'
<1>1. CASE UNCHANGED draftsVars
  BY <1>1 DEF draftsVars, DraftsInv, DraftsTypeOK, Live, BatchOK, Grounded, Phased,
     LocksApart, PairsUnique, Has
<1> QED BY <1>1, BeginStep, LockEventStep, LockPersonStep, InsertPersonStep, WriteRowStep,
     CommitStep, RowFailsStep, DieStep, CreateDocumentStep, CancelDocumentStep DEF DraftsNext

\* Batches make nobody a second draft for an event, and none for somebody who is not
\* assigned to it or whose sheet was undone: for any number of sessions, in any order
\* of their files, whatever fails half-way, is repeated, cancelled or made by hand.
THEOREM DraftsAreUnique == DraftsSpec => []PairsUnique
<1>1. DraftsInit => DraftsInv BY DraftsInitInv
<1>2. DraftsInv /\ [DraftsNext]_draftsVars => DraftsInv' BY DraftsNextInv
<1>3. DraftsInv => PairsUnique BY DEF DraftsInv
<1> QED BY <1>1, <1>2, <1>3, PTL DEF DraftsSpec

==============================================================================
