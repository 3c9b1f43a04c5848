-------------------------- MODULE Logbooks_proofs --------------------------
(***************************************************************************)
(* A logbook keeps what its participants submitted, for any number of      *)
(* people, of overlaps and of transactions that overtake a slow one:       *)
(* LogbooksTypeOK, ReviewedOnce, WorkFrozen and EndIsEnd.                  *)
(*                                                                         *)
(* What any handler may conclude from a logbook that it read is said once, *)
(* in Concludes.  Handlers are shown to conclude no more; and the          *)
(* invariant to be kept by a conclusion, whether it is written at once or  *)
(* by the slow transaction over what others have done since.               *)
(***************************************************************************)
EXTENDS Logbooks, TLAPS

InReview == {"SUBMITTED", "RESUBMITTED"}
Frozen == InReview \cup {"APPROVED"}
Ended == {"COMPLETED", "CANCELLED"}

Statuses == {"NONE", "PENDING", "IN_PROGRESS", "SUBMITTED", "RESUBMITTED",
             "CHANGES_REQUESTED", "APPROVED", "CANCELLED"}

SessionType ==
    [read : BookType, new : BookType, locked : SUBSET Works,
     did : {"nothing", "clock", "edit", "submit", "review", "open", "cancel", "add", "remove",
            "configure", "bulk"},
     work : SUBSET Works, overtaken : Nat]

\* A logbook that was made, whose answers hang on assignments.
Rooted(b) ==
    /\ b \in BookType
    /\ \A p \in People \ Assigned(b) : b.response[p] = "NONE" /\ b.contribution[p] = "NONE"

Made(b) == Rooted(b) /\ b.status # "ABSENT"

\* A submission freezes its work; nobody else's assignment changes.
Submits(b, n, work) ==
    /\ \E p \in People : work = {WorkOf(p)}
    /\ b.status \notin Ended /\ n.status = "UNDER_REVIEW"
    /\ \A q \in People : WorkOf(q) \notin work => n.assignment[q] = b.assignment[q]

\* A review, of the assignment that is locked, leaves nothing of the work in review.
Reviews(b, n, locked, work) ==
    /\ \E p \in People \cap locked : work = {WorkOf(p)} /\ b.assignment[p] \in InReview
    /\ \A q \in People : IF WorkOf(q) \in work THEN n.assignment[q] \notin InReview
                         ELSE n.assignment[q] = b.assignment[q]
    /\ n.status \in Ended => \A q \in People : n.assignment[q] \notin InReview
    /\ Shared => \/ n.status = "COMPLETED"
                 \/ \A q \in People : n.assignment[q] \notin Frozen

Edits(b, n, work) ==
    /\ \E p \in People : work = {WorkOf(p)} /\ Editable(b, p)
    /\ n.status = b.status
    /\ \A q \in People : n.assignment[q] \in {b.assignment[q], "IN_PROGRESS"}

\* Any other handler freezes nothing, and changes no answer of a logbook that ended.
Manages(b, n) ==
    /\ \A q \in People : n.assignment[q] \in Frozen => n.assignment[q] = b.assignment[q]
    /\ \/ n.status = b.status
       \/ b.status \in {"SCHEDULED", "OPEN"} /\ n.status \notin Ended
       \/ \A q \in People : n.assignment[q] \notin Frozen
    /\ b.status \in Ended => /\ n.status = b.status
                             /\ n.response = b.response
                             /\ n.contribution = b.contribution

Concludes(b, n, locked, did, work) ==
    /\ Made(b) /\ Made(n) /\ locked \subseteq Works /\ work \subseteq Works
    /\ \/ did = "submit" /\ Submits(b, n, work)
       \/ did = "review" /\ Reviews(b, n, locked, work)
       \/ did = "edit" /\ Edits(b, n, work)
       \/ /\ did \in {"clock", "open", "cancel", "add", "remove", "configure", "bulk"}
          /\ work = {} /\ Manages(b, n)

\* The rows, and the slow transaction.
BookInv ==
    /\ Rooted(book)
    /\ plan \in [mode : {"INDIVIDUAL", "SHARED", "IMPORTED"}, opens_at : 0..1, due_at : 1..2]
    /\ now \in 0..1
    /\ awaiting \in [Works -> Int]
    /\ touched \in [Works -> BOOLEAN]
    /\ session \in SessionType
    /\ races \in 0..MaxRaces
    /\ book.status = "ABSENT" =>
          book = NoBook /\ session = NoSession /\ plan.mode = "INDIVIDUAL"
    /\ session # NoSession =>
          /\ races < MaxRaces
          /\ Concludes(session.read, session.new, session.locked, session.did, session.work)

\* Work in review was submitted once more than it was reviewed.  The slow review has
\* its own submission: what was submitted since is one more.
AwaitInv ==
    /\ \A q \in People : book.assignment[q] \in InReview => awaiting[WorkOf(q)] >= 1
    /\ \A w \in Works : awaiting[w] >= 0
    /\ session # NoSession /\ session.did = "review" =>
          /\ \A p \in People \cap session.locked : book.assignment[p] = session.read.assignment[p]
          /\ \A q \in People :
                /\ WorkOf(q) \in session.work
                /\ book.assignment[q] \in InReview
                /\ session.read.assignment[q] \notin InReview
                => awaiting[WorkOf(q)] >= 2

\* Work that is frozen is untouched, and what a group shares cannot be edited then.
FrozenInv ==
    races = 0 =>
        /\ \A p \in People : book.assignment[p] \in Frozen => ~touched[WorkOf(p)]
        /\ Shared => \/ book.status \in {"UNDER_REVIEW", "COMPLETED"}
                     \/ \A q \in People : book.assignment[q] \notin Frozen
        /\ book.status \in Ended => \A q \in People : book.assignment[q] \notin InReview

LogbooksInv == BookInv /\ AwaitInv /\ FrozenInv

-----------------------------------------------------------------------------
(* What the operators on the rows of a logbook yield.                       *)

LEMMA WorkOfSame ==
    ASSUME NEW p \in People, NEW q \in People
    PROVE  /\ WorkOf(p) \in Works
           /\ WorkOf(q) = WorkOf(p) <=> Shared \/ q = p
BY LogbooksAssumption DEF WorkOf, Works

LEMMA AssignFields ==
    ASSUME NEW b \in BookType, NEW S, NEW status \in Statuses
    PROVE  /\ Assign(b, S, status) \in BookType
           /\ Assign(b, S, status).status = b.status
           /\ Assign(b, S, status).response = b.response
           /\ Assign(b, S, status).contribution = b.contribution
           /\ \A p \in People : Assign(b, S, status).assignment[p] =
                                   IF p \in S THEN status ELSE b.assignment[p]
<1> DEFINE f == [p \in People |-> IF p \in S THEN status ELSE b.assignment[p]]
<1>1. Assign(b, S, status) = [b EXCEPT !.assignment = f] BY DEF Assign
<1>2. /\ f \in [People -> Statuses]
      /\ \A p \in People : f[p] = IF p \in S THEN status ELSE b.assignment[p]
  BY DEF BookType, Statuses
<1> HIDE DEF f
<1>3. /\ [b EXCEPT !.assignment = f] \in BookType
      /\ [b EXCEPT !.assignment = f].status = b.status
      /\ [b EXCEPT !.assignment = f].response = b.response
      /\ [b EXCEPT !.assignment = f].contribution = b.contribution
      /\ [b EXCEPT !.assignment = f].assignment = f
  BY <1>2 DEF BookType, Statuses
<1> QED BY <1>1, <1>2, <1>3

LEMMA WithStatus ==
    ASSUME NEW b \in BookType,
           NEW status \in {"ABSENT", "SCHEDULED", "OPEN", "OVERDUE", "UNDER_REVIEW",
                           "CHANGES_REQUESTED", "COMPLETED", "CANCELLED"}
    PROVE  /\ [b EXCEPT !.status = status] \in BookType
           /\ [b EXCEPT !.status = status].status = status
           /\ [b EXCEPT !.status = status].assignment = b.assignment
           /\ [b EXCEPT !.status = status].response = b.response
           /\ [b EXCEPT !.status = status].contribution = b.contribution
BY DEF BookType

LEMMA WithoutFields ==
    ASSUME NEW b \in BookType, NEW S
    PROVE  /\ Without(b, S) \in BookType
           /\ Without(b, S).status = b.status
           /\ \A p \in People :
                 /\ Without(b, S).assignment[p] = IF p \in S THEN "NONE" ELSE b.assignment[p]
                 /\ Without(b, S).response[p] = IF p \in S THEN "NONE" ELSE b.response[p]
                 /\ Without(b, S).contribution[p] = IF p \in S THEN "NONE" ELSE b.contribution[p]
<1> DEFINE f == [p \in People |-> IF p \in S THEN "NONE" ELSE b.assignment[p]]
           g == [p \in People |-> IF p \in S THEN "NONE" ELSE b.response[p]]
           h == [p \in People |-> IF p \in S THEN "NONE" ELSE b.contribution[p]]
           n == [b EXCEPT !.assignment = f, !.response = g, !.contribution = h]
<1>1. Without(b, S) = n BY DEF Without
<1>2. f \in [People -> Statuses] BY DEF BookType, Statuses
<1>3. g \in [People -> {"NONE", "PENDING", "GIVEN"}] BY DEF BookType
<1>4. h \in [People -> {"NONE", "LIVE", "DELETED"}] BY DEF BookType
<1>5. \A p \in People : /\ f[p] = IF p \in S THEN "NONE" ELSE b.assignment[p]
                        /\ g[p] = IF p \in S THEN "NONE" ELSE b.response[p]
                        /\ h[p] = IF p \in S THEN "NONE" ELSE b.contribution[p]
  OBVIOUS
<1> HIDE DEF f, g, h
<1>6. /\ n \in BookType /\ n.status = b.status
      /\ n.assignment = f /\ n.response = g /\ n.contribution = h
  BY <1>2, <1>3, <1>4 DEF BookType, Statuses
<1> QED BY <1>1, <1>5, <1>6

\* Who comes back, or comes, has work that is not frozen.
LEMMA ReassignedFields ==
    ASSUME NEW b \in BookType, NEW S, NEW contributed
    PROVE  LET n == Reassigned(b, S, contributed)
           IN /\ n \in BookType
              /\ n.status = b.status
              /\ n.response = b.response
              /\ n.contribution = b.contribution
              /\ \A p \in People : IF p \in S THEN n.assignment[p] \in {"PENDING", "IN_PROGRESS"}
                                              ELSE n.assignment[p] = b.assignment[p]
<1> DEFINE back(p) == p \in Assigned(b)
                         /\ (b.response[p] # "NONE" \/ b.contribution[p] \in contributed)
           f == [p \in People |-> IF p \notin S THEN b.assignment[p]
                                  ELSE IF back(p) THEN "IN_PROGRESS" ELSE "PENDING"]
           n == Reassigned(b, S, contributed)
<1>1. n = [b EXCEPT !.assignment = f] BY DEF Reassigned
<1> HIDE DEF back
<1>2. /\ f \in [People -> Statuses]
      /\ \A p \in People : IF p \in S THEN f[p] \in {"PENDING", "IN_PROGRESS"}
                                      ELSE f[p] = b.assignment[p]
  BY DEF BookType, Statuses
<1> HIDE DEF f, n
<1>3. /\ n \in BookType /\ n.status = b.status /\ n.response = b.response
      /\ n.contribution = b.contribution /\ n.assignment = f
  BY <1>1, <1>2 DEF BookType, Statuses
<1>4. /\ n \in BookType /\ n.status = b.status /\ n.response = b.response
      /\ n.contribution = b.contribution
      /\ \A p \in People : IF p \in S THEN n.assignment[p] \in {"PENDING", "IN_PROGRESS"}
                                      ELSE n.assignment[p] = b.assignment[p]
  BY <1>2, <1>3
<1> QED BY <1>4 DEF n

LEMMA ResponseFields ==
    ASSUME NEW b \in BookType, NEW q \in People, NEW value \in {"NONE", "PENDING", "GIVEN"}
    PROVE  LET n == [b EXCEPT !.response[q] = value]
           IN /\ n \in BookType
              /\ n.status = b.status /\ n.assignment = b.assignment
              /\ n.contribution = b.contribution
              /\ \A p \in People : n.response[p] = IF p = q THEN value ELSE b.response[p]
BY DEF BookType

LEMMA ContributionFields ==
    ASSUME NEW b \in BookType, NEW q \in People, NEW value \in {"NONE", "LIVE", "DELETED"}
    PROVE  LET n == [b EXCEPT !.contribution[q] = value]
           IN /\ n \in BookType
              /\ n.status = b.status /\ n.assignment = b.assignment
              /\ n.response = b.response
              /\ \A p \in People : n.contribution[p] = IF p = q THEN value ELSE b.contribution[p]
BY DEF BookType

\* Rows hang on assignments as long as no assignment goes and none is written alone.
LEMMA StillRooted ==
    ASSUME NEW b, Rooted(b), NEW n \in BookType,
           \A p \in People : n.assignment[p] = "NONE" => b.assignment[p] = "NONE",
           \A p \in People : /\ n.response[p] = b.response[p] \/ n.assignment[p] # "NONE"
                             /\ n.contribution[p] = b.contribution[p] \/ n.assignment[p] # "NONE"
    PROVE  Rooted(n)
BY DEF Rooted, Assigned

-----------------------------------------------------------------------------
(* What the handlers conclude.                                              *)

LEMMA ClockConcludes ==
    ASSUME BookInv, Clocked(book) # book
    PROVE  Concludes(book, Clocked(book), {"SHARED"}, "clock", {})
<1> DEFINE n == Clocked(book)
           opened == IF book.status = "SCHEDULED" /\ plan.opens_at <= now THEN "OPEN" ELSE book.status
           status == IF opened = "OPEN" /\ plan.due_at <= now THEN "OVERDUE" ELSE opened
<1>1. book \in BookType /\ Rooted(book) BY DEF BookInv, Rooted
<1>2. n = [book EXCEPT !.status = status] BY DEF Clocked
<1>3. \/ status = book.status
      \/ book.status \in {"SCHEDULED", "OPEN"} /\ status \in {"OPEN", "OVERDUE"}
  OBVIOUS
<1> HIDE DEF status, n
<1>4. /\ n \in BookType /\ n.status = status /\ n.assignment = book.assignment
      /\ n.response = book.response /\ n.contribution = book.contribution
  <2>1. status \in {"ABSENT", "SCHEDULED", "OPEN", "OVERDUE", "UNDER_REVIEW",
                    "CHANGES_REQUESTED", "COMPLETED", "CANCELLED"}
    BY <1>1, <1>3 DEF BookType
  <2> QED BY <1>1, <1>2, <2>1, WithStatus
<1>5. book.status \in {"SCHEDULED", "OPEN"} /\ n.status \in {"OPEN", "OVERDUE"}
  <2>1. ASSUME status = book.status PROVE n = book
    BY <1>1, <1>2, <2>1 DEF BookType
  <2> QED BY <1>3, <1>4, <2>1 DEF n
<1>6. Rooted(n) BY <1>1, <1>4 DEF Rooted, Assigned
<1>7. Manages(book, n) BY <1>4, <1>5 DEF Manages, Ended
<1> QED BY <1>1, <1>5, <1>6, <1>7 DEF Concludes, Made, Works, n

\* Whoever edits a logbook takes part in it, and it is not over.
LEMMA EditableFacts ==
    ASSUME NEW b \in BookType, NEW p \in People, Editable(b, p)
    PROVE  /\ b.status \in {"OPEN", "CHANGES_REQUESTED"}
           /\ b.assignment[p] \in {"PENDING", "IN_PROGRESS", "CHANGES_REQUESTED"}
           /\ p \in Assigned(b)
BY DEF Editable, Assigned

\* A handler that only edits.
LEMMA EditConcludes ==
    ASSUME Rooted(book), NEW p \in People, Editable(book, p),
           NEW n \in BookType, n.status = book.status,
           \A q \in People : n.assignment[q] \in {book.assignment[q], "IN_PROGRESS"},
           \A q \in People : /\ n.response[q] = book.response[q] \/ q \in Assigned(book)
                             /\ n.contribution[q] = book.contribution[q] \/ q \in Assigned(book)
    PROVE  Concludes(book, n, {}, "edit", {WorkOf(p)})
<1>1. book \in BookType BY DEF Rooted
<1>2. Rooted(n) BY StillRooted DEF Assigned
<1>3. Edits(book, n, {WorkOf(p)}) BY DEF Edits
<1>4. book.status # "ABSENT" BY <1>1, EditableFacts
<1> QED BY <1>2, <1>3, <1>4, WorkOfSame DEF Concludes, Made

LEMMA StartedFields ==
    ASSUME NEW b \in BookType, NEW p \in People
    PROVE  /\ Started(b, p) \in BookType /\ Started(b, p).status = b.status
           /\ Started(b, p).response = b.response
           /\ Started(b, p).contribution = b.contribution
           /\ \A q \in People : Started(b, p).assignment[q] \in {b.assignment[q], "IN_PROGRESS"}
<1> DEFINE S == {p} \cap {q \in People : b.assignment[q] = "PENDING"}
<1>1. "IN_PROGRESS" \in Statuses BY DEF Statuses
<1>2. Started(b, p) = Assign(b, S, "IN_PROGRESS") BY DEF Started
<1> HIDE DEF S
<1> QED BY <1>1, <1>2, AssignFields

\* Answers belong to somebody who takes part.
LEMMA AnswerersAssigned ==
    ASSUME NEW b \in BookType, NEW p \in People, p \in Assigned(b)
    PROVE  Answerers(b, p) \subseteq Assigned(b) /\ Assigned(b) \subseteq People
BY DEF Answerers, Group, Assigned

LEMMA ContributionConcludes ==
    ASSUME Rooted(book), NEW p \in People, Editable(book, p)
    PROVE  /\ Concludes(book, [Started(book, p) EXCEPT !.contribution[p] = "LIVE"],
                        {}, "edit", {WorkOf(p)})
           /\ Concludes(book, [book EXCEPT !.contribution[p] = "DELETED"],
                        {}, "edit", {WorkOf(p)})
<1>1. book \in BookType BY DEF Rooted
<1>2. p \in Assigned(book) BY <1>1, EditableFacts
<1> DEFINE s == Started(book, p)
           n == [s EXCEPT !.contribution[p] = "LIVE"]
           m == [book EXCEPT !.contribution[p] = "DELETED"]
<1>3. /\ s \in BookType /\ s.status = book.status /\ s.response = book.response
      /\ s.contribution = book.contribution
      /\ \A q \in People : s.assignment[q] \in {book.assignment[q], "IN_PROGRESS"}
  BY <1>1, StartedFields
<1> HIDE DEF s
<1>4. /\ n \in BookType /\ n.status = s.status /\ n.assignment = s.assignment
      /\ n.response = s.response
      /\ \A q \in People : n.contribution[q] = IF q = p THEN "LIVE" ELSE s.contribution[q]
  BY <1>3, ContributionFields
<1>5. /\ m \in BookType /\ m.status = book.status /\ m.assignment = book.assignment
      /\ m.response = book.response
      /\ \A q \in People : m.contribution[q] = IF q = p THEN "DELETED" ELSE book.contribution[q]
  BY <1>1, ContributionFields
<1> HIDE DEF n, m
<1>6. Concludes(book, n, {}, "edit", {WorkOf(p)}) BY <1>2, <1>3, <1>4, EditConcludes
<1>7. Concludes(book, m, {}, "edit", {WorkOf(p)}) BY <1>2, <1>5, EditConcludes
<1> QED BY <1>6, <1>7 DEF n, m, s

LEMMA ResponseConcludes ==
    ASSUME Rooted(book), NEW p \in People, Editable(book, p), NEW q \in Answerers(book, p)
    PROVE  /\ Concludes(book, [Started(book, p) EXCEPT !.response[q] = "GIVEN"],
                        {}, "edit", {WorkOf(p)})
           /\ Concludes(book, [book EXCEPT !.response[q] = "PENDING"],
                        {}, "edit", {WorkOf(p)})
<1>1. book \in BookType BY DEF Rooted
<1>2. q \in Assigned(book) /\ q \in People
  BY <1>1, EditableFacts, AnswerersAssigned
<1> DEFINE s == Started(book, p)
           n == [s EXCEPT !.response[q] = "GIVEN"]
           m == [book EXCEPT !.response[q] = "PENDING"]
<1>3. /\ s \in BookType /\ s.status = book.status /\ s.response = book.response
      /\ s.contribution = book.contribution
      /\ \A r \in People : s.assignment[r] \in {book.assignment[r], "IN_PROGRESS"}
  BY <1>1, StartedFields
<1> HIDE DEF s
<1>4. /\ n \in BookType /\ n.status = s.status /\ n.assignment = s.assignment
      /\ n.contribution = s.contribution
      /\ \A r \in People : n.response[r] = IF r = q THEN "GIVEN" ELSE s.response[r]
  BY <1>2, <1>3, ResponseFields
<1>5. /\ m \in BookType /\ m.status = book.status /\ m.assignment = book.assignment
      /\ m.contribution = book.contribution
      /\ \A r \in People : m.response[r] = IF r = q THEN "PENDING" ELSE book.response[r]
  BY <1>1, <1>2, ResponseFields
<1> HIDE DEF n, m
<1>6. Concludes(book, n, {}, "edit", {WorkOf(p)}) BY <1>2, <1>3, <1>4, EditConcludes
<1>7. Concludes(book, m, {}, "edit", {WorkOf(p)}) BY <1>2, <1>5, EditConcludes
<1> QED BY <1>6, <1>7 DEF n, m, s

\* A group is those assigned that share the work.
LEMMA GroupIsWork ==
    ASSUME NEW b \in BookType, NEW p \in People, p \in Assigned(b)
    PROVE  /\ Group(b, p) \subseteq Assigned(b)
           /\ \A q \in People : q \in Assigned(b) =>
                 (q \in Group(b, p) <=> WorkOf(q) = WorkOf(p))
BY WorkOfSame DEF Group, Assigned

LEMMA SubmitConcludes ==
    ASSUME Rooted(book), NEW p \in People, Editable(book, p)
    PROVE  Concludes(book, SubmittedBook(book, p), {p}, "submit", {WorkOf(p)})
<1>1. book \in BookType BY DEF Rooted
<1>2. p \in Assigned(book) /\ book.status \in {"OPEN", "CHANGES_REQUESTED"}
  BY <1>1, EditableFacts
<1> DEFINE S == Group(book, p)
           status == IF book.assignment[p] = "CHANGES_REQUESTED" THEN "RESUBMITTED" ELSE "SUBMITTED"
           a == Assign(book, S, status)
           n == SubmittedBook(book, p)
<1>3. n = [a EXCEPT !.status = "UNDER_REVIEW"] BY DEF SubmittedBook
<1>4. status \in InReview /\ status \in Statuses BY DEF InReview, Statuses
<1> HIDE DEF status, S
<1>5. /\ a \in BookType /\ a.response = book.response /\ a.contribution = book.contribution
      /\ \A q \in People : a.assignment[q] = IF q \in S THEN status ELSE book.assignment[q]
  BY <1>1, <1>4, AssignFields
<1> HIDE DEF a, n
<1>6. /\ n \in BookType /\ n.status = "UNDER_REVIEW" /\ n.assignment = a.assignment
      /\ n.response = book.response /\ n.contribution = book.contribution
  BY <1>3, <1>5, WithStatus
<1>7. Rooted(n)
  BY <1>4, <1>5, <1>6, StillRooted DEF InReview
<1>8. Submits(book, n, {WorkOf(p)})
  <2>1. \A q \in People : q \in S => WorkOf(q) = WorkOf(p)
    BY <1>1, <1>2, GroupIsWork DEF S
  <2> QED BY <1>2, <1>5, <1>6, <2>1 DEF Submits, Ended
<1>9. book.status # "ABSENT" /\ n.status # "ABSENT" BY <1>2, <1>6
<1> QED BY <1>7, <1>8, <1>9, WorkOfSame DEF Concludes, Made, Works, n

\* A decision is written down for the whole group, so that nothing stays in review; and
\* a shared logbook that somebody is to correct is to be corrected by all.
LEMMA ReviewConcludes ==
    ASSUME Rooted(book), book.status # "ABSENT", NEW p \in People,
           book.assignment[p] \in InReview, NEW decision \in {"APPROVED", "CHANGES_REQUESTED"}
    PROVE  Concludes(book, ReviewedBook(book, p, decision), ReviewLocks(p), "review", {WorkOf(p)})
<1>1. book \in BookType BY DEF Rooted
<1>2. p \in Assigned(book) BY DEF Assigned, InReview
<1> DEFINE S == Group(book, p)
           a == Assign(book, S, decision)
           statuses == {a.assignment[q] : q \in Assigned(book)}
           status == IF statuses = {"APPROVED"} THEN "COMPLETED"
                     ELSE IF "CHANGES_REQUESTED" \in statuses THEN "CHANGES_REQUESTED"
                     ELSE "UNDER_REVIEW"
           n == ReviewedBook(book, p, decision)
<1>3. n = [a EXCEPT !.status = status] BY DEF ReviewedBook, ReviewTargets
<1>4. /\ S \subseteq Assigned(book) /\ Assigned(book) \subseteq People /\ p \in S
      /\ \A q \in People : q \in Assigned(book) => (q \in S <=> WorkOf(q) = WorkOf(p))
  BY <1>1, <1>2, GroupIsWork DEF Assigned
<1> HIDE DEF S
<1>5. /\ a \in BookType /\ a.response = book.response /\ a.contribution = book.contribution
      /\ \A q \in People : a.assignment[q] = IF q \in S THEN decision ELSE book.assignment[q]
  BY <1>1, AssignFields DEF Statuses
<1>6. /\ status \in {"COMPLETED", "CHANGES_REQUESTED", "UNDER_REVIEW"}
      /\ status = "COMPLETED" => \A q \in Assigned(book) : a.assignment[q] = "APPROVED"
      /\ status = "COMPLETED" <=> statuses = {"APPROVED"}
  OBVIOUS
<1> HIDE DEF a, status, n
<1>7. /\ n \in BookType /\ n.status = status /\ n.assignment = a.assignment
      /\ n.response = book.response /\ n.contribution = book.contribution
  <2>1. status \in {"ABSENT", "SCHEDULED", "OPEN", "OVERDUE", "UNDER_REVIEW",
                    "CHANGES_REQUESTED", "COMPLETED", "CANCELLED"}
    BY <1>6
  <2>2. a \in BookType BY <1>5
  <2>3. /\ [a EXCEPT !.status = status] \in BookType
        /\ [a EXCEPT !.status = status].status = status
        /\ [a EXCEPT !.status = status].assignment = a.assignment
        /\ [a EXCEPT !.status = status].response = a.response
        /\ [a EXCEPT !.status = status].contribution = a.contribution
    BY <2>1, <2>2, WithStatus
  <2> QED BY <1>3, <1>5, <2>3
<1>8. \A q \in People : q \notin Assigned(book) => book.assignment[q] = "NONE"
  BY DEF Assigned
<1>9. Rooted(n) BY <1>5, <1>7, StillRooted
<1>10. \A q \in People : IF WorkOf(q) = WorkOf(p) THEN n.assignment[q] \notin InReview
                         ELSE n.assignment[q] = book.assignment[q]
  BY <1>4, <1>5, <1>7, <1>8 DEF InReview
<1>11. n.status \in Ended => \A q \in People : n.assignment[q] \notin InReview
  BY <1>4, <1>5, <1>6, <1>7, <1>8 DEF Ended, InReview
<1>12. ASSUME Shared
       PROVE  n.status = "COMPLETED" \/ \A q \in People : n.assignment[q] \notin Frozen
  <2>1. S = Assigned(book) BY <1>12 DEF S, Group
  <2>2. CASE decision = "APPROVED"
    <3>1. statuses = {"APPROVED"} BY <1>2, <1>4, <1>5, <2>1, <2>2
    <3> QED BY <1>6, <1>7, <3>1
  <2>3. CASE decision = "CHANGES_REQUESTED"
    BY <1>4, <1>5, <1>7, <1>8, <2>1, <2>3 DEF Frozen, InReview
  <2> QED BY <2>2, <2>3
<1>13. Reviews(book, n, ReviewLocks(p), {WorkOf(p)})
  <2>1. p \in People \cap ReviewLocks(p) BY DEF ReviewLocks
  <2> QED BY <1>10, <1>11, <1>12, <2>1 DEF Reviews
<1>14. n.status # "ABSENT" /\ ReviewLocks(p) \subseteq Works
  BY <1>6, <1>7 DEF ReviewLocks, Works
<1> QED BY <1>9, <1>13, <1>14, WorkOfSame DEF Concludes, Made, n

\* A handler that freezes nothing, and keeps a logbook in its status.
LEMMA ManageConcludes ==
    ASSUME Rooted(book), book.status # "ABSENT", NEW n, Rooted(n), n.status = book.status,
           NEW did \in {"add", "remove", "configure", "bulk"},
           NEW locked \in SUBSET Works,
           \A q \in People : n.assignment[q] \in Frozen => n.assignment[q] = book.assignment[q],
           \/ book.status \notin Ended
           \/ n.response = book.response /\ n.contribution = book.contribution
    PROVE  Concludes(book, n, locked, did, {})
<1>1. Manages(book, n) BY DEF Manages
<1> QED BY <1>1 DEF Concludes, Made

LEMMA OpenConcludes ==
    ASSUME Rooted(book), book.status = "SCHEDULED"
    PROVE  Concludes(book, [book EXCEPT !.status = "OPEN"], {}, "open", {})
<1> DEFINE n == [book EXCEPT !.status = "OPEN"]
<1>1. book \in BookType BY DEF Rooted
<1>2. /\ n \in BookType /\ n.status = "OPEN" /\ n.assignment = book.assignment
      /\ n.response = book.response /\ n.contribution = book.contribution
  BY <1>1, WithStatus
<1> HIDE DEF n
<1>3. Rooted(n) BY <1>2 DEF Rooted, Assigned
<1>4. Manages(book, n) BY <1>2 DEF Manages, Ended
<1> QED BY <1>2, <1>3, <1>4 DEF Concludes, Made, n

LEMMA CancelConcludes ==
    ASSUME Rooted(book), Cancellable(book)
    PROVE  Concludes(book, [Assign(book, Assigned(book), "CANCELLED") EXCEPT !.status = "CANCELLED"],
                     {}, "cancel", {})
<1> DEFINE a == Assign(book, Assigned(book), "CANCELLED")
           n == [a EXCEPT !.status = "CANCELLED"]
<1>1. book \in BookType /\ book.status \notin {"ABSENT", "COMPLETED", "CANCELLED"}
  BY DEF Rooted, Cancellable
<1>2. /\ a \in BookType /\ a.response = book.response /\ a.contribution = book.contribution
      /\ \A q \in People : a.assignment[q] = IF q \in Assigned(book) THEN "CANCELLED"
                                             ELSE book.assignment[q]
  BY <1>1, AssignFields DEF Statuses
<1> HIDE DEF a
<1>3. /\ n \in BookType /\ n.status = "CANCELLED" /\ n.assignment = a.assignment
      /\ n.response = book.response /\ n.contribution = book.contribution
  BY <1>2, WithStatus
<1> HIDE DEF n
<1>4. \A q \in People : q \notin Assigned(book) => book.assignment[q] = "NONE" BY DEF Assigned
<1>5. Rooted(n) BY <1>2, <1>3, StillRooted
<1>6. \A q \in People : n.assignment[q] \notin Frozen
  BY <1>2, <1>3, <1>4 DEF Frozen, InReview
<1>7. Manages(book, n) BY <1>1, <1>6 DEF Manages, Ended
<1> QED BY <1>1, <1>3, <1>5, <1>7 DEF Concludes, Made, a, n

LEMMA AddConcludes ==
    ASSUME Rooted(book), book.status \in Configurable, NEW S
    PROVE  Concludes(book, Assign(book, S, "PENDING"), {}, "add", {})
<1> DEFINE n == Assign(book, S, "PENDING")
<1>1. book \in BookType BY DEF Rooted
<1>2. /\ n \in BookType /\ n.status = book.status
      /\ n.response = book.response /\ n.contribution = book.contribution
      /\ \A q \in People : n.assignment[q] = IF q \in S THEN "PENDING" ELSE book.assignment[q]
  BY <1>1, AssignFields DEF Statuses
<1> HIDE DEF n
<1>3. Rooted(n) BY <1>2, StillRooted
<1>4. \A q \in People : n.assignment[q] \in Frozen => n.assignment[q] = book.assignment[q]
  BY <1>2 DEF Frozen, InReview
<1>5. book.status # "ABSENT" BY DEF Configurable
<1>6. Concludes(book, n, {}, "add", {}) BY <1>2, <1>3, <1>4, <1>5, ManageConcludes
<1> QED BY <1>6 DEF n

LEMMA RemoveConcludes ==
    ASSUME Rooted(book), book.status \in Configurable, NEW p \in People, p \in Assigned(book)
    PROVE  /\ Concludes(book, Assign(book, {p}, "CANCELLED"), {}, "remove", {})
           /\ Concludes(book, Without(book, {p}), {}, "remove", {})
<1> DEFINE n == Assign(book, {p}, "CANCELLED")
           m == Without(book, {p})
<1>1. book \in BookType /\ book.status \notin Ended /\ book.status # "ABSENT"
  BY DEF Rooted, Configurable, Ended
<1>2. /\ n \in BookType /\ n.status = book.status
      /\ n.response = book.response /\ n.contribution = book.contribution
      /\ \A q \in People : n.assignment[q] = IF q \in {p} THEN "CANCELLED" ELSE book.assignment[q]
  BY <1>1, AssignFields DEF Statuses
<1>3. /\ m \in BookType /\ m.status = book.status
      /\ \A q \in People :
            /\ m.assignment[q] = IF q \in {p} THEN "NONE" ELSE book.assignment[q]
            /\ m.response[q] = IF q \in {p} THEN "NONE" ELSE book.response[q]
            /\ m.contribution[q] = IF q \in {p} THEN "NONE" ELSE book.contribution[q]
  BY <1>1, WithoutFields
<1> HIDE DEF n, m
<1>4. Rooted(n) BY <1>2, StillRooted
<1>5. Rooted(m) BY <1>3 DEF Rooted, Assigned
<1>6. \A q \in People : /\ n.assignment[q] \in Frozen => n.assignment[q] = book.assignment[q]
                        /\ m.assignment[q] \in Frozen => m.assignment[q] = book.assignment[q]
  BY <1>2, <1>3 DEF Frozen, InReview
<1>7. Concludes(book, n, {}, "remove", {}) BY <1>1, <1>2, <1>4, <1>6, ManageConcludes
<1>8. Concludes(book, m, {}, "remove", {}) BY <1>1, <1>3, <1>5, <1>6, ManageConcludes
<1> QED BY <1>7, <1>8 DEF n, m

LEMMA ConfigureConcludes ==
    ASSUME Rooted(book), book.status \in Configurable, NEW S
    PROVE  Concludes(book, Assign(Reassigned(book, S \ Active(book), {"LIVE"}),
                                  Active(book) \ S, "CANCELLED"),
                     {"SHARED"}, "configure", {})
<1> DEFINE a == Reassigned(book, S \ Active(book), {"LIVE"})
           n == Assign(a, Active(book) \ S, "CANCELLED")
<1>1. book \in BookType /\ book.status \notin Ended /\ book.status # "ABSENT"
  BY DEF Rooted, Configurable, Ended
<1>2. /\ a \in BookType /\ a.status = book.status
      /\ a.response = book.response /\ a.contribution = book.contribution
      /\ \A q \in People : IF q \in S \ Active(book)
                           THEN a.assignment[q] \in {"PENDING", "IN_PROGRESS"}
                           ELSE a.assignment[q] = book.assignment[q]
  BY <1>1, ReassignedFields
<1> HIDE DEF a
<1>3. /\ n \in BookType /\ n.status = book.status
      /\ n.response = book.response /\ n.contribution = book.contribution
      /\ \A q \in People : n.assignment[q] = IF q \in Active(book) \ S THEN "CANCELLED"
                                             ELSE a.assignment[q]
  BY <1>2, AssignFields DEF Statuses
<1> HIDE DEF n
<1>4. Rooted(n) BY <1>2, <1>3, StillRooted
<1>5. \A q \in People : n.assignment[q] \in Frozen => n.assignment[q] = book.assignment[q]
  BY <1>2, <1>3 DEF Frozen, InReview
<1>6. {"SHARED"} \in SUBSET Works BY DEF Works
<1>7. Concludes(book, n, {"SHARED"}, "configure", {})
  BY <1>1, <1>3, <1>4, <1>5, <1>6, ManageConcludes
<1> QED BY <1>7 DEF n, a

\* Even of a logbook that ended, only assignments change: who wrote something is
\* kept as cancelled.
LEMMA BulkConcludes ==
    ASSUME BookInv, plan.mode = "IMPORTED", NEW S, NEW known, NEW removed,
           \A q \in removed \ known : book.response[q] = "NONE" /\ book.contribution[q] = "NONE",
           NEW added, added = Reassigned(book, S, {"LIVE", "DELETED"})
    PROVE  Concludes(book, Without(Assign(added, known, "CANCELLED"), removed \ known),
                     Assigned(book) \cup {"SHARED"}, "bulk", {})
<1> DEFINE a == Assign(added, known, "CANCELLED")
           n == Without(a, removed \ known)
<1>1. Rooted(book) /\ book \in BookType /\ book.status # "ABSENT" BY DEF BookInv, Rooted
<1>2. /\ added \in BookType /\ added.status = book.status
      /\ added.response = book.response /\ added.contribution = book.contribution
      /\ \A q \in People : IF q \in S
                           THEN added.assignment[q] \in {"PENDING", "IN_PROGRESS"}
                           ELSE added.assignment[q] = book.assignment[q]
  BY <1>1, ReassignedFields
<1>3. /\ a \in BookType /\ a.status = book.status
      /\ a.response = book.response /\ a.contribution = book.contribution
      /\ \A q \in People : a.assignment[q] = IF q \in known THEN "CANCELLED"
                                             ELSE added.assignment[q]
  <2>1. "CANCELLED" \in Statuses BY DEF Statuses
  <2> QED BY <1>2, <2>1, AssignFields
<1> HIDE DEF a
<1>4. /\ n \in BookType /\ n.status = book.status
      /\ \A q \in People :
            /\ n.assignment[q] = IF q \in removed \ known THEN "NONE" ELSE a.assignment[q]
            /\ n.response[q] = IF q \in removed \ known THEN "NONE" ELSE a.response[q]
            /\ n.contribution[q] = IF q \in removed \ known THEN "NONE" ELSE a.contribution[q]
  BY <1>3, WithoutFields
<1> HIDE DEF n
<1>5. n.response = book.response /\ n.contribution = book.contribution
  <2>1. \A q \in People : n.response[q] = book.response[q] /\ n.contribution[q] = book.contribution[q]
    BY <1>3, <1>4
  <2>2. /\ n.response \in [People -> {"NONE", "PENDING", "GIVEN"}]
        /\ book.response \in [People -> {"NONE", "PENDING", "GIVEN"}]
        /\ n.contribution \in [People -> {"NONE", "LIVE", "DELETED"}]
        /\ book.contribution \in [People -> {"NONE", "LIVE", "DELETED"}]
    BY <1>1, <1>4 DEF BookType
  <2> QED BY <2>1, <2>2
<1>6. Rooted(n)
  <2>1. ASSUME NEW q \in People, n.assignment[q] = "NONE"
        PROVE  n.response[q] = "NONE" /\ n.contribution[q] = "NONE"
    <3>1. CASE q \in removed \ known BY <1>4, <3>1
    <3>2. CASE q \notin removed \ known
      <4>1. a.assignment[q] = "NONE" BY <1>4, <2>1, <3>2
      <4>2. added.assignment[q] = "NONE" BY <1>3, <4>1
      <4>3. book.assignment[q] = "NONE" BY <1>2, <4>2
      <4> QED BY <1>1, <1>3, <1>4, <3>2, <4>3 DEF Rooted, Assigned
    <3> QED BY <3>1, <3>2
  <2> QED BY <1>4, <2>1 DEF Rooted, Assigned
<1>7. \A q \in People : n.assignment[q] \in Frozen => n.assignment[q] = book.assignment[q]
  BY <1>2, <1>3, <1>4 DEF Frozen, InReview
<1>8. Assigned(book) \cup {"SHARED"} \in SUBSET Works BY DEF Assigned, Works
<1>9. Concludes(book, n, Assigned(book) \cup {"SHARED"}, "bulk", {})
  BY <1>1, <1>4, <1>5, <1>6, <1>7, <1>8, ManageConcludes
<1> QED BY <1>9 DEF n, a

-----------------------------------------------------------------------------
(* Writing what was concluded.                                              *)

LEMMA NoteFacts ==
    ASSUME NEW work \in SUBSET Works, NEW did, Note(did, work),
           awaiting \in [Works -> Int], touched \in [Works -> BOOLEAN],
           did \in {"submit", "review", "edit"} \/ work = {}
    PROVE  /\ awaiting' \in [Works -> Int] /\ touched' \in [Works -> BOOLEAN]
           /\ \A w \in Works :
                 /\ w \notin work => awaiting'[w] = awaiting[w] /\ touched'[w] = touched[w]
                 /\ w \in work /\ did = "submit" => awaiting'[w] = awaiting[w] + 1 /\ ~touched'[w]
                 /\ w \in work /\ did = "review" =>
                       awaiting'[w] = awaiting[w] - 1 /\ touched'[w] = touched[w]
                 /\ w \in work /\ did = "edit" => awaiting'[w] = awaiting[w]
<1>1. /\ awaiting' = [w \in Works |-> IF w \notin work THEN awaiting[w]
                                      ELSE CASE did = "submit" -> awaiting[w] + 1
                                             [] did = "review" -> awaiting[w] - 1
                                             [] did = "edit"   -> awaiting[w]]
      /\ touched' = [w \in Works |-> IF w \notin work THEN touched[w]
                                     ELSE (did = "edit") \/ (touched[w] /\ did # "submit")]
  BY DEF Note
<1>2. ASSUME NEW w \in Works
      PROVE  /\ w \notin work => awaiting'[w] = awaiting[w]
             /\ w \in work /\ did = "submit" => awaiting'[w] = awaiting[w] + 1
             /\ w \in work /\ did = "review" => awaiting'[w] = awaiting[w] - 1
             /\ w \in work /\ did = "edit" => awaiting'[w] = awaiting[w]
  <2>1. awaiting'[w] = IF w \notin work THEN awaiting[w]
                       ELSE CASE did = "submit" -> awaiting[w] + 1
                              [] did = "review" -> awaiting[w] - 1
                              [] did = "edit"   -> awaiting[w]
    BY <1>1
  <2>2. CASE did = "submit" BY <2>1, <2>2
  <2>3. CASE did = "review" BY <2>1, <2>3
  <2>4. CASE did = "edit" BY <2>1, <2>4
  <2>5. CASE work = {} BY <2>1, <2>5
  <2> QED BY <2>2, <2>3, <2>4, <2>5
<1>3. ASSUME NEW w \in Works
      PROVE  /\ touched'[w] \in BOOLEAN
             /\ w \notin work => touched'[w] = touched[w]
             /\ w \in work /\ did = "submit" => ~touched'[w]
             /\ w \in work /\ did = "review" => touched'[w] = touched[w]
  <2>1. touched'[w] = IF w \notin work THEN touched[w]
                      ELSE (did = "edit") \/ (touched[w] /\ did # "submit")
    BY <1>1, Zenon
  <2>2. touched[w] \in BOOLEAN OBVIOUS
  <2> QED BY <2>1, <2>2
<1>4. awaiting' \in [Works -> Int]
  <2>1. \A w \in Works : awaiting'[w] \in Int BY <1>2
  <2> QED BY <1>1, <2>1
<1>5. touched' \in [Works -> BOOLEAN]
  <2>1. \A w \in Works : touched'[w] \in BOOLEAN BY <1>3
  <2> QED BY <1>1, <2>1
<1> QED BY <1>2, <1>3, <1>4, <1>5

\* What is concluded from the logbook as it is, and written without a race, leaves
\* frozen work untouched.
LEMMA FrozenKept ==
    ASSUME LogbooksInv, NEW n, NEW locked, NEW did, NEW work \in SUBSET Works,
           Concludes(book, n, locked, did, work),
           book' = n, Note(did, work), UNCHANGED plan, races' = 0 => races = 0
    PROVE  FrozenInv'
<1> SUFFICES ASSUME races' = 0 PROVE FrozenInv' BY DEF FrozenInv
<1>1. /\ races = 0
      /\ \A p \in People : book.assignment[p] \in Frozen => ~touched[WorkOf(p)]
      /\ Shared => \/ book.status \in {"UNDER_REVIEW", "COMPLETED"}
                   \/ \A q \in People : book.assignment[q] \notin Frozen
      /\ book.status \in Ended => \A q \in People : book.assignment[q] \notin InReview
  BY DEF LogbooksInv, FrozenInv
<1>2. \A p \in People : WorkOf(p)' = WorkOf(p) /\ Shared' = Shared BY DEF WorkOf, Shared
<1>3. InReview \subseteq Frozen /\ "IN_PROGRESS" \notin Frozen BY DEF Frozen, InReview
<1>4. /\ did \in {"submit", "review", "edit"} \/ work = {}
      /\ awaiting \in [Works -> Int] /\ touched \in [Works -> BOOLEAN]
  BY DEF Concludes, LogbooksInv, BookInv
<1>5. \A w \in Works :
         /\ w \notin work => touched'[w] = touched[w]
         /\ w \in work /\ did = "submit" => ~touched'[w]
         /\ w \in work /\ did = "review" => touched'[w] = touched[w]
  BY <1>4, NoteFacts
<1>6. SUFFICES /\ \A p \in People : n.assignment[p] \in Frozen => ~touched'[WorkOf(p)]
               /\ Shared => \/ n.status \in {"UNDER_REVIEW", "COMPLETED"}
                            \/ \A q \in People : n.assignment[q] \notin Frozen
               /\ n.status \in Ended => \A q \in People : n.assignment[q] \notin InReview
  BY <1>2 DEF FrozenInv
<1>7. CASE did = "submit" /\ Submits(book, n, work)
  <2>1. /\ n.status = "UNDER_REVIEW"
        /\ \A q \in People : WorkOf(q) \notin work => n.assignment[q] = book.assignment[q]
    BY <1>7 DEF Submits
  <2> QED BY <1>1, <1>5, <1>7, <2>1, WorkOfSame DEF Ended
<1>8. CASE did = "review" /\ Reviews(book, n, locked, work)
  <2>1. PICK p \in People : work = {WorkOf(p)} /\ book.assignment[p] \in InReview
    BY <1>8 DEF Reviews
  <2>2. ~touched[WorkOf(p)] BY <1>1, <1>3, <2>1
  <2>3. /\ \A q \in People : WorkOf(q) \notin work => n.assignment[q] = book.assignment[q]
        /\ n.status \in Ended => \A q \in People : n.assignment[q] \notin InReview
        /\ Shared => \/ n.status = "COMPLETED"
                     \/ \A q \in People : n.assignment[q] \notin Frozen
    BY <1>8 DEF Reviews
  <2>4. ASSUME NEW q \in People, n.assignment[q] \in Frozen PROVE ~touched'[WorkOf(q)]
    BY <1>1, <1>5, <1>8, <2>1, <2>2, <2>3, <2>4, WorkOfSame
  <2> QED BY <2>3, <2>4
<1>9. CASE did = "edit" /\ Edits(book, n, work)
  <2>1. PICK p \in People : work = {WorkOf(p)} /\ Editable(book, p) BY <1>9 DEF Edits
  <2>2. /\ n.status = book.status
        /\ \A q \in People : n.assignment[q] \in {book.assignment[q], "IN_PROGRESS"}
    BY <1>9 DEF Edits
  <2>3. /\ book.status \in {"OPEN", "CHANGES_REQUESTED"}
        /\ book.assignment[p] \in {"PENDING", "IN_PROGRESS", "CHANGES_REQUESTED"}
    BY <2>1 DEF Editable
  <2>4. Shared => \A q \in People : book.assignment[q] \notin Frozen BY <1>1, <2>3
  <2>5. ASSUME NEW q \in People, n.assignment[q] \in Frozen
        PROVE  ~touched'[WorkOf(q)]
    <3>1. book.assignment[q] \in Frozen /\ ~Shared BY <1>3, <2>2, <2>4, <2>5
    <3>2. q # p BY <2>3, <3>1 DEF Frozen, InReview
    <3>3. WorkOf(q) \notin work BY <2>1, <3>1, <3>2, WorkOfSame
    <3> QED BY <1>1, <1>5, <3>1, <3>3, WorkOfSame
  <2>6. Shared => \A q \in People : n.assignment[q] \notin Frozen BY <1>3, <2>2, <2>4
  <2> QED BY <2>2, <2>3, <2>5, <2>6 DEF Ended
<1>10. CASE work = {} /\ Manages(book, n)
  <2>1. \A q \in People : n.assignment[q] \in Frozen => n.assignment[q] = book.assignment[q]
    BY <1>10 DEF Manages
  <2>2. \/ n.status = book.status
        \/ book.status \in {"SCHEDULED", "OPEN"} /\ n.status \notin Ended
        \/ \A q \in People : n.assignment[q] \notin Frozen
    BY <1>10 DEF Manages
  <2>3. \A p \in People : n.assignment[p] \in Frozen => ~touched'[WorkOf(p)]
    BY <1>1, <1>5, <1>10, <2>1, WorkOfSame
  <2>4. Shared => \/ n.status \in {"UNDER_REVIEW", "COMPLETED"}
                  \/ \A q \in People : n.assignment[q] \notin Frozen
    BY <1>1, <2>1, <2>2
  <2>5. n.status \in Ended => \A q \in People : n.assignment[q] \notin InReview
    BY <1>1, <1>3, <2>1, <2>2
  <2> QED BY <2>3, <2>4, <2>5
<1> QED BY <1>7, <1>8, <1>9, <1>10 DEF Concludes

\* What a conclusion leaves in review was in review, or is submitted now; and a
\* review leaves nothing of its work in review.
LEMMA InReviewKept ==
    ASSUME NEW b, NEW n, NEW locked, NEW did, NEW work,
           Concludes(b, n, locked, did, work), NEW q \in People
    PROVE  /\ WorkOf(q) \notin work /\ n.assignment[q] \in InReview =>
                 n.assignment[q] = b.assignment[q]
           /\ did \notin {"submit", "review"} /\ n.assignment[q] \in InReview =>
                 n.assignment[q] = b.assignment[q]
           /\ did = "review" /\ WorkOf(q) \in work => n.assignment[q] \notin InReview
           /\ did \in {"submit", "review", "edit"} \/ work = {}
<1>1. InReview \subseteq Frozen /\ "IN_PROGRESS" \notin InReview BY DEF Frozen, InReview
<1>2. CASE did = "submit" /\ Submits(b, n, work) BY <1>2 DEF Submits
<1>3. CASE did = "review" /\ Reviews(b, n, locked, work) BY <1>3 DEF Reviews
<1>4. CASE did = "edit" /\ Edits(b, n, work) BY <1>1, <1>4 DEF Edits
<1>5. CASE /\ did \in {"clock", "open", "cancel", "add", "remove", "configure", "bulk"}
           /\ work = {} /\ Manages(b, n)
  BY <1>1, <1>5 DEF Manages
<1> QED BY <1>2, <1>3, <1>4, <1>5 DEF Concludes

\* A review concludes from an assignment that is in review, and that it holds locked.
LEMMA ReviewedWas ==
    ASSUME NEW b, NEW n, NEW locked, NEW work, Concludes(b, n, locked, "review", work)
    PROVE  \E p \in People \cap locked : work = {WorkOf(p)} /\ b.assignment[p] \in InReview
BY DEF Concludes, Reviews

\* Who concludes from a logbook that ended only moves its people about.
LEMMA EndKept ==
    ASSUME FrozenInv, races = 0, book.status \in Ended,
           NEW n, NEW locked, NEW did, NEW work, Concludes(book, n, locked, did, work)
    PROVE  /\ n.status = book.status /\ n.response = book.response
           /\ n.contribution = book.contribution
<1>1. \A q \in People : book.assignment[q] \notin InReview BY DEF FrozenInv
<1>2. ~Submits(book, n, work) BY DEF Submits
<1>3. ~Reviews(book, n, locked, work) BY <1>1 DEF Reviews
<1>4. ~Edits(book, n, work) BY DEF Edits, Editable, Ended
<1>5. Manages(book, n) BY <1>2, <1>3, <1>4 DEF Concludes
<1> QED BY <1>5 DEF Manages

\* A handler that is over at once.
LEMMA AwaitAtOnce ==
    ASSUME LogbooksInv, NEW n, NEW locked, NEW did, NEW work \in SUBSET Works,
           Concludes(book, n, locked, did, work),
           book' = n, Note(did, work), UNCHANGED plan,
           Written(book, n) \cap session.locked = {},
           session # NoSession => session' = [session EXCEPT !.overtaken = @ + 1],
           session = NoSession => session' = session
    PROVE  AwaitInv'
<1>1. /\ \A q \in People : book.assignment[q] \in InReview => awaiting[WorkOf(q)] >= 1
      /\ \A w \in Works : awaiting[w] >= 0
      /\ session # NoSession /\ session.did = "review" =>
            /\ \A p \in People \cap session.locked :
                  book.assignment[p] = session.read.assignment[p]
            /\ \A q \in People :
                  /\ WorkOf(q) \in session.work
                  /\ book.assignment[q] \in InReview
                  /\ session.read.assignment[q] \notin InReview
                  => awaiting[WorkOf(q)] >= 2
  BY DEF LogbooksInv, AwaitInv
<1>2. /\ awaiting \in [Works -> Int] /\ touched \in [Works -> BOOLEAN]
      /\ session \in SessionType
      /\ session # NoSession =>
            Concludes(session.read, session.new, session.locked, session.did, session.work)
  BY DEF LogbooksInv, BookInv
<1>3. \A q \in People :
         /\ WorkOf(q) \notin work /\ n.assignment[q] \in InReview =>
               n.assignment[q] = book.assignment[q]
         /\ did \notin {"submit", "review"} /\ n.assignment[q] \in InReview =>
               n.assignment[q] = book.assignment[q]
         /\ did = "review" /\ WorkOf(q) \in work => n.assignment[q] \notin InReview
  BY InReviewKept
<1>4. did \in {"submit", "review", "edit"} \/ work = {} BY DEF Concludes
<1>5. \A w \in Works :
         /\ w \notin work => awaiting'[w] = awaiting[w]
         /\ w \in work /\ did = "submit" => awaiting'[w] = awaiting[w] + 1
         /\ w \in work /\ did = "review" => awaiting'[w] = awaiting[w] - 1
         /\ w \in work /\ did = "edit" => awaiting'[w] = awaiting[w]
  BY <1>2, <1>4, NoteFacts
<1>6. \A q \in People : WorkOf(q)' = WorkOf(q) /\ WorkOf(q) \in Works
  BY WorkOfSame DEF WorkOf, Shared
<1>7. \A w \in Works : awaiting[w] \in Int BY <1>2
<1>8. \A w \in Works : awaiting'[w] >= 0
  <2>1. ASSUME NEW w \in Works, w \in work, did = "review" PROVE awaiting'[w] >= 0
    <3>1. PICK p \in People : work = {WorkOf(p)} /\ book.assignment[p] \in InReview
      BY <2>1, ReviewedWas
    <3>2. awaiting[w] >= 1 BY <1>1, <2>1, <3>1
    <3> QED BY <1>5, <1>7, <2>1, <3>2
  <2> QED BY <1>1, <1>4, <1>5, <1>7, <2>1
<1>9. ASSUME NEW q \in People, n.assignment[q] \in InReview
      PROVE  awaiting'[WorkOf(q)] >= 1
  <2>1. CASE did = "submit" /\ WorkOf(q) \in work
    BY <1>1, <1>5, <1>6, <1>7, <2>1
  <2>2. CASE ~(did = "submit" /\ WorkOf(q) \in work)
    <3>1. n.assignment[q] = book.assignment[q] BY <1>3, <1>9, <2>2
    <3>2. awaiting'[WorkOf(q)] = awaiting[WorkOf(q)]
      BY <1>3, <1>4, <1>5, <1>6, <1>9, <2>2
    <3> QED BY <1>1, <1>9, <3>1, <3>2
  <2> QED BY <2>1, <2>2
<1>10. ASSUME session # NoSession, session.did = "review"
       PROVE  /\ \A p \in People \cap session.locked :
                    n.assignment[p] = session.read.assignment[p]
              /\ \A q \in People :
                    /\ WorkOf(q) \in session.work
                    /\ n.assignment[q] \in InReview
                    /\ session.read.assignment[q] \notin InReview
                    => awaiting'[WorkOf(q)] >= 2
  <2>1. ASSUME NEW p \in People \cap session.locked
        PROVE  n.assignment[p] = session.read.assignment[p]
    <3>1. p \notin Written(book, n) OBVIOUS
    <3>2. n.assignment[p] = book.assignment[p] BY <3>1 DEF Written
    <3> QED BY <1>1, <1>10, <3>2
  <2>2. ASSUME NEW q \in People, WorkOf(q) \in session.work, n.assignment[q] \in InReview,
               session.read.assignment[q] \notin InReview
        PROVE  awaiting'[WorkOf(q)] >= 2
    <3>1. PICK p \in People \cap session.locked :
             session.work = {WorkOf(p)} /\ session.read.assignment[p] \in InReview
      BY <1>2, <1>10, ReviewedWas
    <3>2. awaiting[WorkOf(q)] >= 1 BY <1>1, <1>10, <2>2, <3>1
    <3>3. CASE did = "submit" /\ WorkOf(q) \in work
      BY <1>5, <1>6, <1>7, <3>2, <3>3
    <3>4. CASE ~(did = "submit" /\ WorkOf(q) \in work)
      <4>1. n.assignment[q] = book.assignment[q] BY <1>3, <2>2, <3>4
      <4>2. awaiting'[WorkOf(q)] = awaiting[WorkOf(q)]
        BY <1>3, <1>4, <1>5, <1>6, <2>2, <3>4
      <4> QED BY <1>1, <1>10, <2>2, <4>1, <4>2
    <3> QED BY <3>3, <3>4
  <2> QED BY <2>1, <2>2
<1>11. session # NoSession =>
          /\ session'.read = session.read /\ session'.locked = session.locked
          /\ session'.did = session.did /\ session'.work = session.work
  BY <1>2 DEF SessionType
<1> QED BY <1>6, <1>8, <1>9, <1>10, <1>11 DEF AwaitInv

\* The slow one commits: over what others submitted meanwhile, its review leaves one
\* submission for each of them.
LEMMA OverlayFields ==
    ASSUME book \in BookType, NEW read \in BookType, NEW new \in BookType
    PROVE  /\ Rooted(Overlay(read, new))
           /\ Overlay(read, new).status = IF read.status = new.status THEN book.status
                                                                      ELSE new.status
           /\ \A p \in People :
                 Overlay(read, new).assignment[p] =
                    IF read.assignment[p] = new.assignment[p] THEN book.assignment[p]
                                                              ELSE new.assignment[p]
           /\ read = book /\ Rooted(new) => Overlay(read, new) = new
<1> DEFINE f == [p \in People |-> IF read.assignment[p] = new.assignment[p]
                                  THEN book.assignment[p] ELSE new.assignment[p]]
           g == [p \in People |-> IF read.response[p] = new.response[p]
                                  THEN book.response[p] ELSE new.response[p]]
           h == [p \in People |-> IF read.contribution[p] = new.contribution[p]
                                  THEN book.contribution[p] ELSE new.contribution[p]]
           s == IF read.status = new.status THEN book.status ELSE new.status
           m == [status |-> s, assignment |-> f, response |-> g, contribution |-> h]
           n == Without(m, People \ Assigned(m))
<1>1. Overlay(read, new) = n BY DEF Overlay
<1>2. /\ f \in [People -> Statuses] /\ g \in [People -> {"NONE", "PENDING", "GIVEN"}]
      /\ h \in [People -> {"NONE", "LIVE", "DELETED"}]
      /\ s \in {"ABSENT", "SCHEDULED", "OPEN", "OVERDUE", "UNDER_REVIEW", "CHANGES_REQUESTED",
                "COMPLETED", "CANCELLED"}
  BY DEF BookType, Statuses
<1>3. read = book => f = new.assignment /\ g = new.response /\ h = new.contribution
                     /\ s = new.status
  BY DEF BookType
<1>4. \A p \in People : f[p] = IF read.assignment[p] = new.assignment[p]
                               THEN book.assignment[p] ELSE new.assignment[p]
  OBVIOUS
<1> HIDE DEF f, g, h, s
<1>5. m \in BookType BY <1>2 DEF BookType, Statuses
<1>6. m.status = s /\ m.assignment = f /\ m.response = g /\ m.contribution = h OBVIOUS
<1> HIDE DEF m
<1>7. /\ n \in BookType /\ n.status = m.status
      /\ \A p \in People :
            /\ n.assignment[p] = IF p \in People \ Assigned(m) THEN "NONE" ELSE m.assignment[p]
            /\ n.response[p] = IF p \in People \ Assigned(m) THEN "NONE" ELSE m.response[p]
            /\ n.contribution[p] = IF p \in People \ Assigned(m) THEN "NONE" ELSE m.contribution[p]
  BY <1>5, WithoutFields
<1> HIDE DEF n
<1>8. \A p \in People : n.assignment[p] = m.assignment[p] BY <1>7 DEF Assigned
<1>9. Rooted(n) BY <1>7, <1>8 DEF Rooted, Assigned
<1>10. ASSUME read = book, Rooted(new)
       PROVE  n = new
  <2>1. /\ n.status = new.status /\ \A p \in People : n.assignment[p] = new.assignment[p]
    BY <1>3, <1>6, <1>7, <1>8, <1>10
  <2>2. \A p \in People : n.response[p] = new.response[p] /\ n.contribution[p] = new.contribution[p]
    <3>1. \A p \in People \ Assigned(m) : new.response[p] = "NONE" /\ new.contribution[p] = "NONE"
      BY <1>3, <1>6, <1>10 DEF Rooted, Assigned
    <3> QED BY <1>3, <1>6, <1>7, <1>10, <3>1
  <2>3. n.assignment = new.assignment /\ n.response = new.response
        /\ n.contribution = new.contribution
    BY <1>7, <2>1, <2>2 DEF BookType
  <2> QED BY <1>7, <2>1, <2>3 DEF BookType
<1> QED BY <1>1, <1>4, <1>6, <1>7, <1>8, <1>9, <1>10 DEF s

LEMMA AwaitCommit ==
    ASSUME LogbooksInv, Commit
    PROVE  AwaitInv'
<1> DEFINE read == session.read
           new == session.new
           did == session.did
           work == session.work
<1>1. /\ session # NoSession /\ book' = Overlay(read, new) /\ Note(did, work)
      /\ session' = NoSession /\ UNCHANGED plan
  BY DEF Commit
<1>2. /\ \A q \in People : book.assignment[q] \in InReview => awaiting[WorkOf(q)] >= 1
      /\ \A w \in Works : awaiting[w] >= 0
      /\ did = "review" =>
            /\ \A p \in People \cap session.locked : book.assignment[p] = read.assignment[p]
            /\ \A q \in People :
                  /\ WorkOf(q) \in work
                  /\ book.assignment[q] \in InReview
                  /\ read.assignment[q] \notin InReview
                  => awaiting[WorkOf(q)] >= 2
  BY <1>1 DEF LogbooksInv, AwaitInv
<1>3. /\ awaiting \in [Works -> Int] /\ touched \in [Works -> BOOLEAN]
      /\ work \in SUBSET Works /\ book \in BookType /\ read \in BookType /\ new \in BookType
      /\ Concludes(read, new, session.locked, did, work)
  BY <1>1 DEF LogbooksInv, BookInv, SessionType, Rooted
<1> HIDE DEF read, new, did, work
<1>4. \A q \in People :
         /\ WorkOf(q) \notin work /\ new.assignment[q] \in InReview =>
               new.assignment[q] = read.assignment[q]
         /\ did \notin {"submit", "review"} /\ new.assignment[q] \in InReview =>
               new.assignment[q] = read.assignment[q]
         /\ did = "review" /\ WorkOf(q) \in work => new.assignment[q] \notin InReview
  BY <1>3, InReviewKept
<1>5. did \in {"submit", "review", "edit"} \/ work = {} BY <1>3 DEF Concludes
<1>6. \A w \in Works :
         /\ w \notin work => awaiting'[w] = awaiting[w]
         /\ w \in work /\ did = "submit" => awaiting'[w] = awaiting[w] + 1
         /\ w \in work /\ did = "review" => awaiting'[w] = awaiting[w] - 1
         /\ w \in work /\ did = "edit" => awaiting'[w] = awaiting[w]
  BY <1>1, <1>3, <1>5, NoteFacts
<1>7. \A q \in People : WorkOf(q)' = WorkOf(q) /\ WorkOf(q) \in Works
  BY <1>1, WorkOfSame DEF WorkOf, Shared
<1>8. \A w \in Works : awaiting[w] \in Int BY <1>3
<1>9. \A p \in People : book'.assignment[p] =
         IF read.assignment[p] = new.assignment[p] THEN book.assignment[p] ELSE new.assignment[p]
  BY <1>1, <1>3, OverlayFields
<1>10. ASSUME NEW w \in Works PROVE awaiting'[w] >= 0
  <2>1. CASE w \in work /\ did = "review"
    <3>1. PICK p \in People \cap session.locked :
             work = {WorkOf(p)} /\ read.assignment[p] \in InReview
      BY <1>3, <2>1, ReviewedWas
    <3>2. awaiting[w] >= 1 BY <1>2, <2>1, <3>1
    <3> QED BY <1>6, <1>8, <2>1, <3>2
  <2>2. CASE ~(w \in work /\ did = "review") BY <1>2, <1>5, <1>6, <1>8, <2>2
  <2> QED BY <2>1, <2>2
<1>11. ASSUME NEW q \in People, book'.assignment[q] \in InReview
       PROVE  awaiting'[WorkOf(q)] >= 1
  <2>1. CASE WorkOf(q) \in work /\ did = "submit" BY <1>2, <1>6, <1>7, <1>8, <2>1
  <2>2. CASE WorkOf(q) \in work /\ did = "review"
    <3>1. new.assignment[q] \notin InReview BY <1>4, <2>2
    <3>2. read.assignment[q] = new.assignment[q] /\ book.assignment[q] \in InReview
      BY <1>9, <1>11, <3>1
    <3>3. awaiting[WorkOf(q)] >= 2 BY <1>2, <2>2, <3>1, <3>2
    <3> QED BY <1>6, <1>7, <1>8, <2>2, <3>3
  <2>3. CASE WorkOf(q) \notin work \/ did \notin {"submit", "review"}
    <3>1. book.assignment[q] \in InReview BY <1>4, <1>9, <1>11, <2>3
    <3>2. awaiting'[WorkOf(q)] = awaiting[WorkOf(q)] BY <1>5, <1>6, <1>7, <2>3
    <3> QED BY <1>2, <3>1, <3>2
  <2> QED BY <2>1, <2>2, <2>3
<1> QED BY <1>1, <1>7, <1>10, <1>11 DEF AwaitInv

\* Nothing was concluded from what a session that is not there read.
LEMMA NoBookFacts ==
    /\ NoBook \in BookType /\ NoBook.status = "ABSENT" /\ Rooted(NoBook)
    /\ \A p \in People : NoBook.assignment[p] = "NONE"
    /\ NoSession \in SessionType
<1>1. /\ NoBook \in BookType /\ NoBook.status = "ABSENT"
      /\ \A p \in People : /\ NoBook.assignment[p] = "NONE" /\ NoBook.response[p] = "NONE"
                           /\ NoBook.contribution[p] = "NONE"
  BY DEF NoBook, BookType
<1>2. Rooted(NoBook) BY <1>1 DEF Rooted
<1>3. NoSession \in SessionType BY <1>1 DEF NoSession, SessionType
<1> QED BY <1>1, <1>2, <1>3

LEMMA CommitStep ==
    ASSUME LogbooksInv, Commit
    PROVE  /\ LogbooksInv'
           /\ races' = 0 /\ book.status \in Ended =>
                 /\ book'.status = book.status
                 /\ book'.response = book.response
                 /\ book'.contribution = book.contribution
<1> DEFINE read == session.read
           new == session.new
<1>1. /\ session # NoSession /\ book' = Overlay(read, new) /\ Note(session.did, session.work)
      /\ races' = races + IF read = book THEN 0 ELSE 1
      /\ session' = NoSession /\ UNCHANGED <<plan, now>>
  BY DEF Commit
<1>2. BookInv /\ FrozenInv BY DEF LogbooksInv
<1>3. /\ Rooted(book) /\ book \in BookType /\ book.status # "ABSENT"
      /\ session \in SessionType /\ races \in 0..MaxRaces /\ races < MaxRaces
      /\ awaiting \in [Works -> Int] /\ touched \in [Works -> BOOLEAN]
      /\ Concludes(read, new, session.locked, session.did, session.work)
  BY <1>1, <1>2 DEF BookInv, Rooted
<1>4. /\ read \in BookType /\ new \in BookType /\ session.work \in SUBSET Works
      /\ Made(read) /\ Made(new)
      /\ session.did \in {"submit", "review", "edit"} \/ session.work = {}
  BY <1>3 DEF SessionType, Concludes
<1> HIDE DEF read, new
<1>5. /\ Rooted(book') /\ book'.status # "ABSENT"
      /\ read = book => book' = new
  BY <1>1, <1>3, <1>4, OverlayFields DEF Made
<1>6. races' \in 0..MaxRaces /\ (races' = 0 => races = 0 /\ read = book)
  BY <1>1, <1>3, LogbooksAssumption
<1>7. awaiting' \in [Works -> Int] /\ touched' \in [Works -> BOOLEAN]
  BY <1>1, <1>3, <1>4, NoteFacts
<1>8. BookInv'
  <2>1. Rooted(book)' BY <1>5 DEF Rooted, Assigned
  <2> QED BY <1>1, <1>2, <1>5, <1>6, <1>7, <2>1, NoBookFacts DEF BookInv
<1>9. AwaitInv' BY AwaitCommit
<1>10. FrozenInv'
  <2>1. CASE races' = 0
    <3>1. Concludes(book, new, session.locked, session.did, session.work) /\ book' = new
      BY <1>3, <1>5, <1>6, <2>1
    <3> QED BY <1>1, <1>4, <1>6, <3>1, FrozenKept
  <2>2. CASE races' # 0 BY <2>2 DEF FrozenInv
  <2> QED BY <2>1, <2>2
<1>11. ASSUME races' = 0, book.status \in Ended
       PROVE  /\ book'.status = book.status /\ book'.response = book.response
              /\ book'.contribution = book.contribution
  BY <1>2, <1>3, <1>5, <1>6, <1>11, EndKept
<1> QED BY <1>8, <1>9, <1>10, <1>11 DEF LogbooksInv

\* What the slow one concluded does not change while others run.
LEMMA ConclusionStays ==
    ASSUME UNCHANGED plan,
           session'.read = session.read, session'.new = session.new,
           session'.locked = session.locked, session'.did = session.did,
           session'.work = session.work,
           Concludes(session.read, session.new, session.locked, session.did, session.work)
    PROVE  Concludes(session.read, session.new, session.locked, session.did, session.work)'
<1>1. (\A p \in People : WorkOf(p)' = WorkOf(p)) /\ Shared' = Shared BY DEF WorkOf, Shared
<1>2. Made(session.read)' /\ Made(session.new)'
  <2>1. Made(session.read) /\ Made(session.new) BY DEF Concludes
  <2> QED BY <2>1 DEF Made, Rooted, Assigned
<1>3. (session.locked \subseteq Works)' /\ (session.work \subseteq Works)' BY DEF Concludes
<1>4. CASE session.did = "submit" /\ Submits(session.read, session.new, session.work)
  <2>1. Submits(session.read, session.new, session.work)' BY <1>1, <1>4 DEF Submits
  <2> QED BY <1>2, <1>3, <1>4, <2>1 DEF Concludes
<1>5. CASE session.did = "review"
             /\ Reviews(session.read, session.new, session.locked, session.work)
  <2>1. Reviews(session.read, session.new, session.locked, session.work)'
    BY <1>1, <1>5 DEF Reviews
  <2> QED BY <1>2, <1>3, <1>5, <2>1 DEF Concludes
<1>6. CASE session.did = "edit" /\ Edits(session.read, session.new, session.work)
  <2>1. Edits(session.read, session.new, session.work)' BY <1>1, <1>6 DEF Edits, Editable
  <2> QED BY <1>2, <1>3, <1>6, <2>1 DEF Concludes
<1>7. CASE /\ session.did \in {"clock", "open", "cancel", "add", "remove", "configure", "bulk"}
           /\ session.work = {} /\ Manages(session.read, session.new)
  <2>1. Manages(session.read, session.new)' BY <1>7 DEF Manages
  <2> QED BY <1>2, <1>3, <1>7, <2>1 DEF Concludes
<1> QED BY <1>4, <1>5, <1>6, <1>7 DEF Concludes

\* A handler is over at once, or begins as the slow one.
LEMMA HandleStep ==
    ASSUME LogbooksInv, NEW new, NEW locked, NEW did, NEW work,
           Concludes(book, new, locked, did, work), Handle(new, locked, did, work)
    PROVE  /\ LogbooksInv'
           /\ races' = 0 /\ book.status \in Ended =>
                 /\ book'.status = book.status
                 /\ book'.response = book.response
                 /\ book'.contribution = book.contribution
<1>1. UNCHANGED <<plan, now, races>> BY DEF Handle
<1>2. BookInv /\ AwaitInv /\ FrozenInv BY DEF LogbooksInv
<1>3. /\ Made(book) /\ Made(new) /\ locked \subseteq Works /\ work \in SUBSET Works
      /\ did \in {"submit", "review", "edit"} \/ work = {}
      /\ did \in {"nothing", "clock", "edit", "submit", "review", "open", "cancel", "add",
                  "remove", "configure", "bulk"}
  BY DEF Concludes
<1>4. CASE /\ Written(book, new) \cap session.locked = {}
           /\ book' = new /\ Note(did, work)
           /\ session' = IF session = NoSession THEN session
                         ELSE [session EXCEPT !.overtaken = @ + 1]
  <2>1. awaiting' \in [Works -> Int] /\ touched' \in [Works -> BOOLEAN]
    BY <1>2, <1>3, <1>4, NoteFacts DEF BookInv
  <2>2. AwaitInv' BY <1>1, <1>3, <1>4, AwaitAtOnce
  <2>3. FrozenInv' BY <1>1, <1>3, <1>4, FrozenKept
  <2>4. /\ session' \in SessionType
        /\ session # NoSession =>
              /\ session'.read = session.read /\ session'.new = session.new
              /\ session'.locked = session.locked /\ session'.did = session.did
              /\ session'.work = session.work
        /\ session = NoSession => session' = NoSession
    BY <1>2, <1>4 DEF BookInv, SessionType
  <2>5. session # NoSession =>
           Concludes(session.read, session.new, session.locked, session.did, session.work)'
    <3>1. session # NoSession =>
             Concludes(session.read, session.new, session.locked, session.did, session.work)
      BY <1>2 DEF BookInv
    <3> QED BY <1>1, <2>4, <3>1, ConclusionStays
  <2>6. Rooted(book)' /\ book'.status # "ABSENT" BY <1>3, <1>4 DEF Made, Rooted, Assigned
  <2>7. BookInv' BY <1>1, <1>2, <2>1, <2>4, <2>5, <2>6 DEF BookInv
  <2>8. ASSUME races' = 0, book.status \in Ended
        PROVE  /\ book'.status = book.status /\ book'.response = book.response
               /\ book'.contribution = book.contribution
    BY <1>1, <1>2, <1>4, <2>8, EndKept
  <2> QED BY <2>2, <2>3, <2>7, <2>8 DEF LogbooksInv
<1>5. CASE /\ session = NoSession /\ races < MaxRaces
           /\ session' = [read |-> book, new |-> new, locked |-> locked,
                          did |-> did, work |-> work, overtaken |-> 0]
           /\ UNCHANGED <<book, awaiting, touched>>
  <2>1. /\ session'.read = book /\ session'.new = new /\ session'.locked = locked
        /\ session'.did = did /\ session'.work = work
    BY <1>5
  <2>2. session' \in SessionType
    BY <1>3, <1>5 DEF SessionType, Made, Rooted
  <2>3. Concludes(session.read, session.new, session.locked, session.did, session.work)'
    BY <1>1, <2>1
       DEF Concludes, Made, Rooted, Assigned, Submits, Reviews, Edits, Manages, Editable,
           WorkOf, Shared
  <2>4. Rooted(book)' /\ book'.status # "ABSENT" BY <1>3, <1>5 DEF Made, Rooted, Assigned
  <2>5. BookInv' BY <1>1, <1>2, <1>5, <2>2, <2>3, <2>4 DEF BookInv
  <2>6. AwaitInv' BY <1>1, <1>2, <1>5, <2>1 DEF AwaitInv, WorkOf, Shared
  <2>7. FrozenInv' BY <1>1, <1>2, <1>5 DEF FrozenInv, WorkOf, Shared
  <2> QED BY <1>5, <2>5, <2>6, <2>7 DEF LogbooksInv
<1> QED BY <1>4, <1>5 DEF Handle

LEMMA FailStep ==
    ASSUME LogbooksInv, Fail
    PROVE  LogbooksInv'
<1>1. session' = NoSession /\ UNCHANGED <<book, plan, now, awaiting, touched, races>> BY DEF Fail
<1>2. BookInv' BY <1>1, NoBookFacts DEF LogbooksInv, BookInv, Rooted, Assigned
<1>3. AwaitInv' BY <1>1 DEF LogbooksInv, AwaitInv, WorkOf, Shared
<1>4. FrozenInv' BY <1>1 DEF LogbooksInv, FrozenInv, WorkOf, Shared
<1> QED BY <1>2, <1>3, <1>4 DEF LogbooksInv

LEMMA TickStep ==
    ASSUME LogbooksInv, Tick
    PROVE  LogbooksInv'
<1>1. now' = now + 1 /\ now < 1 /\ UNCHANGED <<book, plan, awaiting, touched, session, races>>
  BY DEF Tick
<1>2. BookInv'
  <2>1. session # NoSession =>
           Concludes(session.read, session.new, session.locked, session.did, session.work)'
    BY <1>1, ConclusionStays DEF LogbooksInv, BookInv
  <2>2. now' \in 0..1 BY <1>1 DEF LogbooksInv, BookInv
  <2> QED BY <1>1, <2>1, <2>2 DEF LogbooksInv, BookInv, Rooted, Assigned
<1>3. AwaitInv' BY <1>1 DEF LogbooksInv, AwaitInv, WorkOf, Shared
<1>4. FrozenInv' BY <1>1 DEF LogbooksInv, FrozenInv, WorkOf, Shared
<1> QED BY <1>2, <1>3, <1>4 DEF LogbooksInv

LEMMA CreateStep ==
    ASSUME LogbooksInv, CreateInstance
    PROVE  LogbooksInv'
<1>1. book = NoBook /\ UNCHANGED <<now, awaiting, touched, session, races>>
  BY DEF CreateInstance
<1>2. PICK mode \in Modes, opens_at \in 0..1, due_at \in 1..2, staff \in SUBSET People \ {{}} :
         /\ plan' = [mode |-> mode, opens_at |-> opens_at, due_at |-> due_at]
         /\ book' = [Assign(NoBook, staff, "PENDING") EXCEPT
                       !.status = IF opens_at > now THEN "SCHEDULED" ELSE "OPEN"]
  BY DEF CreateInstance
<1> DEFINE a == Assign(NoBook, staff, "PENDING")
           status == IF opens_at > now THEN "SCHEDULED" ELSE "OPEN"
<1>3. session = NoSession /\ BookInv /\ AwaitInv /\ FrozenInv
  BY <1>1, NoBookFacts DEF LogbooksInv, BookInv
<1>4. /\ a \in BookType /\ a.response = NoBook.response /\ a.contribution = NoBook.contribution
      /\ \A q \in People : a.assignment[q] = IF q \in staff THEN "PENDING"
                                             ELSE NoBook.assignment[q]
  BY NoBookFacts, AssignFields DEF Statuses
<1> HIDE DEF a
<1>5. /\ book' \in BookType /\ book'.status \in {"SCHEDULED", "OPEN"}
      /\ book'.assignment = a.assignment
      /\ book'.response = NoBook.response /\ book'.contribution = NoBook.contribution
  <2>1. status \in {"SCHEDULED", "OPEN"} OBVIOUS
  <2>2. book' = [a EXCEPT !.status = status] BY <1>2 DEF a
  <2> HIDE DEF status
  <2>3. status \in {"ABSENT", "SCHEDULED", "OPEN", "OVERDUE", "UNDER_REVIEW",
                    "CHANGES_REQUESTED", "COMPLETED", "CANCELLED"}
    BY <2>1
  <2>4. a \in BookType BY <1>4
  <2>5. /\ [a EXCEPT !.status = status] \in BookType
        /\ [a EXCEPT !.status = status].status = status
        /\ [a EXCEPT !.status = status].assignment = a.assignment
        /\ [a EXCEPT !.status = status].response = a.response
        /\ [a EXCEPT !.status = status].contribution = a.contribution
    BY <2>3, <2>4, WithStatus
  <2> QED BY <1>4, <2>1, <2>2, <2>5
<1>6. Rooted(book)' BY <1>4, <1>5, NoBookFacts DEF Rooted, Assigned
<1>7. \A q \in People : book'.assignment[q] \notin Frozen
  BY <1>4, <1>5, NoBookFacts DEF Frozen, InReview
<1>8. plan' \in [mode : {"INDIVIDUAL", "SHARED", "IMPORTED"}, opens_at : 0..1, due_at : 1..2]
  BY <1>2, LogbooksAssumption
<1>9. BookInv' BY <1>1, <1>3, <1>5, <1>6, <1>8 DEF BookInv
<1>10. AwaitInv' BY <1>1, <1>3, <1>7 DEF AwaitInv, Frozen
<1>11. FrozenInv' BY <1>5, <1>7 DEF FrozenInv, Ended
<1> QED BY <1>9, <1>10, <1>11 DEF LogbooksInv

-----------------------------------------------------------------------------
(* The theorems.                                                            *)

\* Each handler concludes no more than Concludes allows, and writes it as Handle does.
LEMMA OperationStep ==
    ASSUME LogbooksInv,
           \/ ProcessLifecycle \/ OpenInstance \/ CancelInstance
           \/ \E p \in People :
                 \/ SaveResponse(p) \/ ClearResponse(p) \/ Contribute(p) \/ RemoveContribution(p)
                 \/ Submit(p) \/ Review(p) \/ RemoveParticipant(p)
           \/ \E S \in SUBSET People :
                 AddParticipants(S) \/ ConfigureInstance(S) \/ BulkParticipants(S)
    PROVE  \E new, locked, did, work :
              Concludes(book, new, locked, did, work) /\ Handle(new, locked, did, work)
<1>1. BookInv /\ Rooted(book) BY DEF LogbooksInv, BookInv
<1>2. CASE ProcessLifecycle BY <1>1, <1>2, ClockConcludes DEF ProcessLifecycle
<1>3. CASE OpenInstance BY <1>1, <1>3, OpenConcludes DEF OpenInstance
<1>4. CASE CancelInstance BY <1>1, <1>4, CancelConcludes DEF CancelInstance
<1>5. ASSUME NEW p \in People, SaveResponse(p) \/ ClearResponse(p)
      PROVE  \E new, locked, did, work :
                Concludes(book, new, locked, did, work) /\ Handle(new, locked, did, work)
  BY <1>1, <1>5, ResponseConcludes DEF SaveResponse, ClearResponse
<1>6. ASSUME NEW p \in People, Contribute(p) \/ RemoveContribution(p)
      PROVE  \E new, locked, did, work :
                Concludes(book, new, locked, did, work) /\ Handle(new, locked, did, work)
  BY <1>1, <1>6, ContributionConcludes DEF Contribute, RemoveContribution
<1>7. ASSUME NEW p \in People, Submit(p)
      PROVE  \E new, locked, did, work :
                Concludes(book, new, locked, did, work) /\ Handle(new, locked, did, work)
  BY <1>1, <1>7, SubmitConcludes DEF Submit
<1>8. ASSUME NEW p \in People, Review(p)
      PROVE  \E new, locked, did, work :
                Concludes(book, new, locked, did, work) /\ Handle(new, locked, did, work)
  <2>1. book.assignment[p] \in InReview BY <1>8 DEF Review, InReview
  <2>2. book.status # "ABSENT"
    BY <1>1, <2>1, NoBookFacts DEF BookInv, InReview
  <2>3. PICK decision \in {"APPROVED", "CHANGES_REQUESTED"} :
           Handle(ReviewedBook(book, p, decision), ReviewLocks(p), "review", {WorkOf(p)})
    BY <1>8 DEF Review
  <2> QED BY <1>1, <2>1, <2>2, <2>3, ReviewConcludes
<1>9. ASSUME NEW p \in People, RemoveParticipant(p)
      PROVE  \E new, locked, did, work :
                Concludes(book, new, locked, did, work) /\ Handle(new, locked, did, work)
  BY <1>1, <1>9, RemoveConcludes DEF RemoveParticipant
<1>10. ASSUME NEW S \in SUBSET People, AddParticipants(S) \/ ConfigureInstance(S)
       PROVE  \E new, locked, did, work :
                 Concludes(book, new, locked, did, work) /\ Handle(new, locked, did, work)
  BY <1>1, <1>10, AddConcludes, ConfigureConcludes DEF AddParticipants, ConfigureInstance
<1>11. ASSUME NEW S \in SUBSET People, BulkParticipants(S)
       PROVE  \E new, locked, did, work :
                 Concludes(book, new, locked, did, work) /\ Handle(new, locked, did, work)
  <2> DEFINE removed == Active(book) \ S
             known == {p \in removed : book.response[p] # "NONE" \/ book.contribution[p] # "NONE"}
             added == Reassigned(book, S \ Active(book), {"LIVE", "DELETED"})
             new == Without(Assign(added, known, "CANCELLED"), removed \ known)
  <2>1. plan.mode = "IMPORTED" /\ Handle(new, Assigned(book) \cup {"SHARED"}, "bulk", {})
    BY <1>11 DEF BulkParticipants
  <2>2. \A q \in removed \ known : book.response[q] = "NONE" /\ book.contribution[q] = "NONE"
    OBVIOUS
  <2>3. Concludes(book, new, Assigned(book) \cup {"SHARED"}, "bulk", {})
    BY <1>1, <2>1, <2>2, BulkConcludes
  <2> QED BY <2>1, <2>3
<1> QED BY <1>2, <1>3, <1>4, <1>5, <1>6, <1>7, <1>8, <1>9, <1>10, <1>11

LEMMA LogbooksInitially ==
    ASSUME LogbooksInit
    PROVE  LogbooksInv
<1>1. /\ book = NoBook /\ plan = [mode |-> "INDIVIDUAL", opens_at |-> 0, due_at |-> 2]
      /\ now = 0 /\ awaiting = [w \in Works |-> 0] /\ touched = [w \in Works |-> FALSE]
      /\ session = NoSession /\ races = 0
  BY DEF LogbooksInit
<1>2. BookInv BY <1>1, NoBookFacts, LogbooksAssumption DEF BookInv
<1>3. \A q \in People : book.assignment[q] \notin Frozen
  BY <1>1, NoBookFacts DEF Frozen, InReview
<1>4. AwaitInv BY <1>1, <1>3 DEF AwaitInv, Frozen
<1>5. FrozenInv BY <1>1, <1>3, NoBookFacts DEF FrozenInv, Ended
<1> QED BY <1>2, <1>4, <1>5 DEF LogbooksInv

LEMMA LogbooksStep ==
    ASSUME LogbooksInv, [LogbooksNext]_logbookVars
    PROVE  /\ LogbooksInv'
           /\ races' = 0 /\ book.status \in Ended =>
                 /\ book'.status = book.status
                 /\ book'.response = book.response
                 /\ book'.contribution = book.contribution
<1>1. CASE \E new, locked, did, work :
              Concludes(book, new, locked, did, work) /\ Handle(new, locked, did, work)
  BY <1>1, HandleStep
<1>2. CASE CreateInstance
  <2>1. book.status \notin Ended BY <1>2, NoBookFacts DEF CreateInstance, Ended
  <2> QED BY <1>2, <2>1, CreateStep
<1>3. CASE Tick BY <1>3, TickStep DEF Tick
<1>4. CASE Commit BY <1>4, CommitStep
<1>5. CASE Fail BY <1>5, FailStep DEF Fail
<1>6. CASE UNCHANGED logbookVars
  <2>1. UNCHANGED <<book, plan, now, awaiting, touched, session, races>>
    BY <1>6 DEF logbookVars
  <2>2. session # NoSession =>
           Concludes(session.read, session.new, session.locked, session.did, session.work)'
    BY <2>1, ConclusionStays DEF LogbooksInv, BookInv
  <2>3. BookInv' BY <2>1, <2>2 DEF LogbooksInv, BookInv, Rooted, Assigned
  <2>4. AwaitInv' BY <2>1 DEF LogbooksInv, AwaitInv, WorkOf, Shared
  <2>5. FrozenInv' BY <2>1 DEF LogbooksInv, FrozenInv, WorkOf, Shared
  <2> QED BY <2>1, <2>3, <2>4, <2>5 DEF LogbooksInv
<1>7. CASE LogbooksNext BY <1>1, <1>2, <1>3, <1>4, <1>5, <1>7, OperationStep DEF LogbooksNext
<1> QED BY <1>6, <1>7

LEMMA LogbooksInvariant == LogbooksSpec => []LogbooksInv
BY LogbooksInitially, LogbooksStep, PTL DEF LogbooksSpec

\* The rows keep the values of their columns, and what a participant wrote hangs on an
\* assignment, whatever handlers overlap.
THEOREM LogbooksTyped == LogbooksSpec => []LogbooksTypeOK
<1>1. LogbooksInv => LogbooksTypeOK
  BY DEF LogbooksInv, BookInv, Rooted, SessionType, LogbooksTypeOK
<1> QED BY <1>1, LogbooksInvariant, PTL

\* A submission is reviewed once, with any number of people, handlers that overlap and
\* supervisors who decide at a time: the lock on the reviewed assignment is enough.
THEOREM SubmissionsReviewedOnce == LogbooksSpec => []ReviewedOnce
<1>1. LogbooksInv => ReviewedOnce BY DEF LogbooksInv, AwaitInv, ReviewedOnce
<1> QED BY <1>1, LogbooksInvariant, PTL

\* As long as no commit rests on what was overtaken, work that was submitted or
\* approved is what its participants had written when they submitted it.
THEOREM WorkStaysFrozen == LogbooksSpec => []WorkFrozen
<1>1. LogbooksInv => WorkFrozen BY DEF LogbooksInv, FrozenInv, WorkFrozen, Frozen, InReview
<1> QED BY <1>1, LogbooksInvariant, PTL

\* As long as no commit rests on what was overtaken, no step takes a logbook out of
\* COMPLETED or CANCELLED, or changes its answers and contributions.
THEOREM EndsAreFinal == LogbooksSpec => EndIsEnd
<1>1. LogbooksInv /\ [LogbooksNext]_logbookVars =>
         [(races' = 0 /\ book.status \in {"COMPLETED", "CANCELLED"}) =>
             /\ book'.status = book.status
             /\ book'.response = book.response
             /\ book'.contribution = book.contribution]_logbookVars
  BY LogbooksStep DEF Ended
<1> QED BY <1>1, LogbooksInvariant, PTL DEF LogbooksSpec, EndIsEnd

==============================================================================
