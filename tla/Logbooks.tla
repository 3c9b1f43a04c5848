------------------------------ MODULE Logbooks ------------------------------
(***************************************************************************)
(* One logbook of an event: opened and made overdue by the clock, filled   *)
(* in by its participants, submitted, reviewed, corrected; its people are  *)
(* changed one by one, by a configuration, or for all the logbooks of an   *)
(* imported spreadsheet at once.                                           *)
(*                                                                         *)
(* A handler is one transaction.  It may be over before another begins, or *)
(* be the slow one: it read the logbook, and others run before it commits  *)
(* what it concluded.  If they changed the logbook that is a race.         *)
(***************************************************************************)
EXTENDS Integers, FiniteSets

CONSTANTS
    People,     \* who may take part
    Modes,      \* the kinds of logbook looked at
    MaxRaces,   \* bound on the commits that rest on what was overtaken; then none is slow
    MaxOvertaken  \* bound on the transactions that overtake a slow one

ASSUME LogbooksAssumption ==
    /\ "SHARED" \notin People
    /\ Modes \subseteq {"INDIVIDUAL", "SHARED", "IMPORTED"}
    /\ MaxRaces \in Nat /\ MaxOvertaken \in Nat \ {0}

VARIABLES
    book,       \* the rows of the logbook: its own, assignments, answers
    plan,       \* what is fixed when it is made: its mode and its hours
    now,        \* the clock: before or after the hours that are set
    awaiting,   \* awaiting[w]: submissions of work w less reviews of it
    touched,    \* touched[w]: answers of w changed since it was last submitted
    session,    \* the transaction that is slow
    races       \* how often it committed after others had changed the logbook

logbookVars == <<book, plan, now, awaiting, touched, session, races>>

\* A template has one item, which must be answered: a participant has given no
\* answer, has one that was cleared (PENDING), or has a GIVEN one.  Contributions
\* are the free text of imported logbooks; a removed one is kept as DELETED.
NoBook == [status |-> "ABSENT",
           assignment |-> [p \in People |-> "NONE"],
           response |-> [p \in People |-> "NONE"],
           contribution |-> [p \in People |-> "NONE"]]

NoSession == [read |-> NoBook, new |-> NoBook, locked |-> {}, did |-> "nothing", work |-> {},
              overtaken |-> 0]

\* A participant's work is one's own, or the whole group's.
Works == People \cup {"SHARED"}

LogbooksInit ==
    /\ book = NoBook
    /\ plan = [mode |-> "INDIVIDUAL", opens_at |-> 0, due_at |-> 2]
    /\ now = 0
    /\ awaiting = [w \in Works |-> 0]
    /\ touched = [w \in Works |-> FALSE]
    /\ session = NoSession
    /\ races = 0

-----------------------------------------------------------------------------
(* What a handler concludes from the rows it reads.                         *)

Shared == plan.mode # "INDIVIDUAL"
Assigned(b) == {p \in People : b.assignment[p] # "NONE"}
Active(b) == {p \in Assigned(b) : b.assignment[p] # "CANCELLED"}
Group(b, p) == IF Shared THEN Assigned(b) ELSE {p}
WorkOf(p) == IF Shared THEN "SHARED" ELSE p

Assign(b, S, status) ==
    [b EXCEPT !.assignment = [p \in People |-> IF p \in S THEN status ELSE @[p]]]

Configurable == {"SCHEDULED", "OPEN", "CHANGES_REQUESTED"}

Editable(b, p) ==
    /\ b.status \in {"OPEN", "CHANGES_REQUESTED"}
    /\ b.status = "CHANGES_REQUESTED" => b.assignment[p] = "CHANGES_REQUESTED"
    /\ b.assignment[p] \in {"PENDING", "IN_PROGRESS", "CHANGES_REQUESTED"}

Started(b, p) == Assign(b, {p} \cap {q \in People : b.assignment[q] = "PENDING"}, "IN_PROGRESS")

\* Who the answer that p writes belongs to: whoever of the group answered first.
Answerers(b, p) ==
    LET found == {q \in Group(b, p) : b.response[q] # "NONE"}
    IN IF found = {} THEN {p} ELSE found

\* Mutant: the answers stay when the assignment goes.
AssignmentOnly(b, S) == Assign(b, S, "NONE")

\* Rows go with the assignment they hang on.
Without(b, S) ==
    [b EXCEPT !.assignment = [p \in People |-> IF p \in S THEN "NONE" ELSE @[p]],
              !.response = [p \in People |-> IF p \in S THEN "NONE" ELSE @[p]],
              !.contribution = [p \in People |-> IF p \in S THEN "NONE" ELSE @[p]]]

\* Who comes back takes up where they were.
Reassigned(b, S, contributed) ==
    LET back(p) == p \in Assigned(b) /\ (b.response[p] # "NONE" \/ b.contribution[p] \in contributed)
    IN [b EXCEPT !.assignment = [p \in People |->
           IF p \notin S THEN @[p] ELSE IF back(p) THEN "IN_PROGRESS" ELSE "PENDING"]]

SubmittedBook(b, p) ==
    [Assign(b, Group(b, p), IF b.assignment[p] = "CHANGES_REQUESTED" THEN "RESUBMITTED"
                                                                     ELSE "SUBMITTED")
     EXCEPT !.status = "UNDER_REVIEW"]

\* Mutant: the review of shared work is written down for one participant only.
ReviewTargetsOne(b, p) == {p}

ReviewTargets(b, p) == Group(b, p)

ReviewedBook(b, p, decision) ==
    LET new == Assign(b, ReviewTargets(b, p), decision)
        statuses == {new.assignment[q] : q \in Assigned(b)}
    IN [new EXCEPT !.status = IF statuses = {"APPROVED"} THEN "COMPLETED"
                              ELSE IF "CHANGES_REQUESTED" \in statuses THEN "CHANGES_REQUESTED"
                              ELSE "UNDER_REVIEW"]

\* The clock's transitions of a logbook; both at once if it is late for both.
Clocked(b) ==
    LET opened == IF b.status = "SCHEDULED" /\ plan.opens_at <= now THEN "OPEN" ELSE b.status
    IN [b EXCEPT !.status = IF opened = "OPEN" /\ plan.due_at <= now THEN "OVERDUE" ELSE opened]

-----------------------------------------------------------------------------
(* Transactions.                                                            *)

\* Rows that differ: a person stands for the assignment, "SHARED" for the logbook.
Written(b, new) ==
    {p \in People : b.assignment[p] # new.assignment[p]}
        \cup (IF b.status # new.status THEN {"SHARED"} ELSE {})

\* What was done to which work is noted down for the properties.
Note(did, work) ==
    /\ awaiting' = [w \in Works |-> IF w \notin work THEN awaiting[w]
                                    ELSE CASE did = "submit" -> awaiting[w] + 1
                                           [] did = "review" -> awaiting[w] - 1
                                           [] did = "edit"   -> awaiting[w]]
    /\ touched' = [w \in Works |-> IF w \notin work THEN touched[w]
                                   ELSE (did = "edit") \/ (touched[w] /\ did # "submit")]

\* A handler that read b, which it may only do when no one else holds the rows in
\* locked, makes it new: at once, or later, as the slow one.
Handle(new, locked, did, work) ==
    /\ locked \cap session.locked = {}
    /\ \/ /\ Written(book, new) \cap session.locked = {}
          /\ book' = new
          /\ Note(did, work)
          /\ session.overtaken < MaxOvertaken
          /\ session' = IF session = NoSession THEN session
                        ELSE [session EXCEPT !.overtaken = @ + 1]
       \/ /\ session = NoSession /\ races < MaxRaces
          /\ session' = [read |-> book, new |-> new, locked |-> locked,
                         did |-> did, work |-> work, overtaken |-> 0]
          /\ UNCHANGED <<book, awaiting, touched>>
    /\ UNCHANGED <<plan, now, races>>

\* The slow one commits: it changes the rows that it found otherwise, removes the
\* rows under those it removes, and fails if a row it adds is there or a row it
\* changes is gone.
Overlay(read, new) ==
    LET merge(old, r, n) == [p \in People |-> IF r[p] = n[p] THEN old[p] ELSE n[p]]
        merged == [status |-> IF read.status = new.status THEN book.status ELSE new.status,
                   assignment |-> merge(book.assignment, read.assignment, new.assignment),
                   response |-> merge(book.response, read.response, new.response),
                   contribution |-> merge(book.contribution, read.contribution, new.contribution)]
    IN Without(merged, People \ Assigned(merged))

Commit ==
    /\ session # NoSession
    /\ \A p \in Written(session.read, session.new) \cap People :
          (p \in Assigned(session.read)) = (p \in Assigned(book))
    /\ \A p \in People : session.read.response[p] # session.new.response[p] =>
          /\ p \in Assigned(book) \cup Written(session.read, session.new)
          /\ (session.read.response[p] = "NONE") = (book.response[p] = "NONE")
    /\ book' = Overlay(session.read, session.new)
    /\ Note(session.did, session.work)
    /\ races' = races + IF session.read = book THEN 0 ELSE 1
    /\ session' = NoSession
    /\ UNCHANGED <<plan, now>>

\* The slow one is refused by the database, or dies.
Fail ==
    /\ session # NoSession
    /\ session' = NoSession
    /\ UNCHANGED <<book, plan, now, awaiting, touched, races>>

-----------------------------------------------------------------------------
(* Operations.                                                              *)

\* A logbook is made for people of the event, alone or by importing a spreadsheet.
CreateInstance ==
    /\ book = NoBook
    /\ \E mode \in Modes, opens_at \in 0..1, due_at \in 1..2, staff \in SUBSET People \ {{}} :
          /\ plan' = [mode |-> mode, opens_at |-> opens_at, due_at |-> due_at]
          /\ book' = [Assign(NoBook, staff, "PENDING") EXCEPT
                        !.status = IF opens_at > now THEN "SCHEDULED" ELSE "OPEN"]
    /\ UNCHANGED <<now, awaiting, touched, session, races>>

Tick ==
    /\ book # NoBook
    /\ now < 1
    /\ now' = now + 1
    /\ UNCHANGED <<book, plan, awaiting, touched, session, races>>

\* The scheduled job, or whoever opens the logbook, brings it up to date.
ProcessLifecycle ==
    /\ Clocked(book) # book
    /\ Handle(Clocked(book), {"SHARED"}, "clock", {})

SaveResponse(p) ==
    /\ Editable(book, p)
    /\ \E q \in Answerers(book, p) :
          Handle([Started(book, p) EXCEPT !.response[q] = "GIVEN"], {}, "edit", {WorkOf(p)})

ClearResponse(p) ==
    /\ Editable(book, p)
    /\ \E q \in Answerers(book, p) :
          /\ book.response[q] = "GIVEN"
          /\ Handle([book EXCEPT !.response[q] = "PENDING"], {}, "edit", {WorkOf(p)})

Contribute(p) ==
    /\ plan.mode = "IMPORTED"
    /\ Editable(book, p)
    /\ Handle([Started(book, p) EXCEPT !.contribution[p] = "LIVE"], {}, "edit", {WorkOf(p)})

RemoveContribution(p) ==
    /\ Editable(book, p)
    /\ book.contribution[p] = "LIVE"
    /\ Handle([book EXCEPT !.contribution[p] = "DELETED"], {}, "edit", {WorkOf(p)})

Submit(p) ==
    /\ Editable(book, p)
    /\ book.assignment[p] \in {"IN_PROGRESS", "CHANGES_REQUESTED"}
    /\ \E q \in Group(book, p) : book.response[q] = "GIVEN"
    /\ Handle(SubmittedBook(book, p), {p}, "submit", {WorkOf(p)})

\* Mutant: the reviewed assignment is read without a lock.
ReviewLocksNone(p) == {}

ReviewLocks(p) == {p}

Review(p) ==
    /\ book.assignment[p] \in {"SUBMITTED", "RESUBMITTED"}
    /\ \E decision \in {"APPROVED", "CHANGES_REQUESTED"} :
          Handle(ReviewedBook(book, p, decision), ReviewLocks(p), "review", {WorkOf(p)})

OpenInstance ==
    /\ book.status = "SCHEDULED"
    /\ Handle([book EXCEPT !.status = "OPEN"], {}, "open", {})

\* Mutant: a logbook that was signed off can still be cancelled.
CancellableUntilCancelled(b) == b.status \notin {"ABSENT", "CANCELLED"}

Cancellable(b) == b.status \notin {"ABSENT", "COMPLETED", "CANCELLED"}

CancelInstance ==
    /\ Cancellable(book)
    /\ Handle([Assign(book, Assigned(book), "CANCELLED") EXCEPT !.status = "CANCELLED"],
              {}, "cancel", {})

AddParticipants(S) ==
    /\ book.status \in Configurable
    /\ S # {}
    /\ S \cap Assigned(book) = {}
    /\ Handle(Assign(book, S, "PENDING"), {}, "add", {})

RemoveParticipant(p) ==
    /\ book.status \in Configurable
    /\ p \in Assigned(book)
    /\ p \in Active(book) => Cardinality(Active(book)) > 1
    /\ Handle(IF book.response[p] # "NONE" THEN Assign(book, {p}, "CANCELLED")
                                           ELSE Without(book, {p}),
              {}, "remove", {})

ConfigureInstance(S) ==
    /\ book.status \in Configurable
    /\ S # {}
    /\ Handle(Assign(Reassigned(book, S \ Active(book), {"LIVE"}), Active(book) \ S, "CANCELLED"),
              {"SHARED"}, "configure", {})

\* For all the logbooks of an import, whatever their status: S is who is to take part.
BulkParticipants(S) ==
    /\ plan.mode = "IMPORTED"
    /\ S # {}
    /\ LET removed == Active(book) \ S
           known == {p \in removed : book.response[p] # "NONE" \/ book.contribution[p] # "NONE"}
           added == Reassigned(book, S \ Active(book), {"LIVE", "DELETED"})
       IN Handle(Without(Assign(added, known, "CANCELLED"), removed \ known),
                 Assigned(book) \cup {"SHARED"}, "bulk", {})

LogbooksNext ==
    \/ CreateInstance
    \/ Tick
    \/ ProcessLifecycle
    \/ OpenInstance
    \/ CancelInstance
    \/ Commit
    \/ Fail
    \/ \E p \in People :
          \/ SaveResponse(p)
          \/ ClearResponse(p)
          \/ Contribute(p)
          \/ RemoveContribution(p)
          \/ Submit(p)
          \/ Review(p)
          \/ RemoveParticipant(p)
    \/ \E S \in SUBSET People :
          \/ AddParticipants(S)
          \/ ConfigureInstance(S)
          \/ BulkParticipants(S)

LogbooksSpec == LogbooksInit /\ [][LogbooksNext]_logbookVars

-----------------------------------------------------------------------------
(* Properties.                                                              *)

BookType ==
    [status : {"ABSENT", "SCHEDULED", "OPEN", "OVERDUE", "UNDER_REVIEW", "CHANGES_REQUESTED",
               "COMPLETED", "CANCELLED"},
     assignment : [People -> {"NONE", "PENDING", "IN_PROGRESS", "SUBMITTED", "RESUBMITTED",
                              "CHANGES_REQUESTED", "APPROVED", "CANCELLED"}],
     response : [People -> {"NONE", "PENDING", "GIVEN"}],
     contribution : [People -> {"NONE", "LIVE", "DELETED"}]]

\* The rows have the values of their columns, and what a participant wrote hangs on
\* an assignment that is there, whatever is removed while others write.
LogbooksTypeOK ==
    /\ book \in BookType
    /\ \A p \in People \ Assigned(book) :
          book.response[p] = "NONE" /\ book.contribution[p] = "NONE"
    /\ plan \in [mode : {"INDIVIDUAL", "SHARED", "IMPORTED"}, opens_at : 0..1, due_at : 1..2]
    /\ now \in 0..1
    /\ awaiting \in [Works -> Int]
    /\ touched \in [Works -> BOOLEAN]
    /\ session.read \in BookType /\ session.new \in BookType
    /\ session.locked \subseteq Works /\ session.work \subseteq Works
    /\ races \in 0..MaxRaces

\* A submission is reviewed once: two supervisors who decide at the same time, on the
\* assignments of two participants who share the work even, do not both have their
\* way, for the assignment is locked and read again.  Holds with races.
ReviewedOnce == \A w \in Works : awaiting[w] >= 0

\* What is submitted or approved is what its participants had written when it was
\* submitted: no one who shares it, was added to it, taken off or put back on can
\* change it until changes are asked for.
WorkFrozen ==
    races = 0 => \A p \in People :
        book.assignment[p] \in {"SUBMITTED", "RESUBMITTED", "APPROVED"} => ~touched[WorkOf(p)]

\* A logbook that was completed or cancelled stays so, and so do its answers and
\* contributions, even those of participants that are moved about in all the logbooks
\* of an import.
EndIsEnd ==
    [][(races' = 0 /\ book.status \in {"COMPLETED", "CANCELLED"}) =>
          /\ book'.status = book.status
          /\ book'.response = book.response
          /\ book'.contribution = book.contribution]_logbookVars
=============================================================================
