---------------------------- MODULE LogbookSeries ----------------------------
(***************************************************************************)
(* A series of logbooks, one for each date of its rule, made ahead of      *)
(* time: all at once if they are few, else those of a window that moves    *)
(* with the day.  A date may be skipped or moved, the rule's end changed,  *)
(* the series paused.  Every handler locks the series first, so it is one  *)
(* step.  Those that commit before they generate are two: the second locks *)
(* the row again but keeps what the first had loaded of it.                *)
(***************************************************************************)
EXTENDS Integers

CONSTANTS
    People,           \* who may take part
    Requests,         \* requests that may be between their two commits at one time
    LastDate,         \* bound on the dates: a rule is to be met on 1, 2, ... up to its end
    PregenerateLimit, \* a series of so many dates is made at once
    Window,           \* how far ahead the others are made
    Nonexistent       \* dates whose clock change leaves out the hour of the rule

ASSUME SeriesAssumption ==
    /\ {LastDate, PregenerateLimit, Window} \subseteq Nat \ {0}
    /\ Nonexistent \subseteq 1..LastDate

VARIABLES
    series,        \* the row of the series
    participants,  \* who takes part in it
    occurrence,    \* occurrence[d]: the logbook of date d
    exception,     \* exception[d]: why date d has none of its own
    today,         \* the first date of the rule is yet to come, on day 0
    active,        \* who is active at the event
    request,       \* request[r]: what r, which is to complete the window, has loaded
    owed,          \* the series changed, and nobody completed its window from fresh rows since
    raced          \* a window was completed from rows that had changed since

rows == <<series, occurrence, exception>>
seriesVars == <<series, participants, occurrence, exception, today, active, request, owed, raced>>

Dates == 1..LastDate
Never == 0

\* QUIET: scheduled or open, and nothing was written in it.  BUSY: anything else
\* that is not cancelled.  A logbook that was moved knows its original date.
NoOccurrence == [status |-> "NONE", original |-> Never]

\* The rows as a session that locks the series for the first time loads them.
Excepted == {d \in Dates : exception[d] # "NONE"}
Loaded == [row |-> series, exceptions |-> Excepted, participants |-> participants]

AbsentSeries == [status |-> "ABSENT", last |-> 1, next_occurrence_date |-> Never]
Idle == [row |-> AbsentSeries, exceptions |-> {}, participants |-> {}]

SeriesInit ==
    /\ series = AbsentSeries
    /\ participants = {}
    /\ occurrence = [d \in Dates |-> NoOccurrence]
    /\ exception = [d \in Dates |-> "NONE"]
    /\ today = 0
    /\ active = People
    /\ request = [r \in Requests |-> Idle]
    /\ owed = FALSE
    /\ raced = FALSE

-----------------------------------------------------------------------------
(* Generation, from what a session has loaded: its view.  The dates that    *)
(* have a logbook and the people that are active are always read anew.      *)

Horizon(row) == IF row.last <= PregenerateLimit THEN row.last ELSE today + Window

\* Mutant: the date after the next is noted as the next.
NextAfterOne(row) == IF Horizon(row) + 1 < row.last THEN Horizon(row) + 2 ELSE Never

NextAfter(row) == IF Horizon(row) < row.last THEN Horizon(row) + 1 ELSE Never

\* Mutant: a date that was skipped is free.
DueAgain(view) ==
    {d \in Dates : d <= view.row.last /\ d <= Horizon(view.row) /\ occurrence[d].status = "NONE"}

Due(view) ==
    {d \in Dates : /\ d <= view.row.last /\ d <= Horizon(view.row)
                   /\ occurrence[d].status = "NONE" /\ d \notin view.exceptions}

Staffed(view) == view.participants \cap active # {}

\* An hour that does not exist, or a second exception for a date, fails the whole.
Possible(view) ==
    /\ Staffed(view) => Due(view) \cap Nonexistent = {}
    /\ Staffed(view) \/ Due(view) \cap Excepted = {}

\* Only a next date that differs from the loaded one is written.
Renoted(view) ==
    [series EXCEPT !.next_occurrence_date =
        IF NextAfter(view.row) = view.row.next_occurrence_date THEN @ ELSE NextAfter(view.row)]

\* The window is completed: dates without anybody to attend are noted.
Generated(view) ==
    /\ Possible(view)
    /\ occurrence' = [d \in Dates |-> IF d \in Due(view) /\ Staffed(view)
                                      THEN [NoOccurrence EXCEPT !.status = "QUIET"]
                                      ELSE occurrence[d]]
    /\ exception' = [d \in Dates |-> IF d \in Due(view) /\ ~Staffed(view)
                                     THEN "NO_VALID_PARTICIPANTS" ELSE exception[d]]

CreateSeries ==
    /\ series.status = "ABSENT"
    /\ 1 \notin Nonexistent
    /\ \E last \in Dates, people \in SUBSET active \ {{}} :
          LET row == [status |-> "ACTIVE", last |-> last, next_occurrence_date |-> 1]
          IN /\ Generated([row |-> row, exceptions |-> {}, participants |-> people])
             /\ series' = [row EXCEPT !.next_occurrence_date = NextAfter(row)]
             /\ participants' = people
    /\ UNCHANGED <<today, active, request, owed, raced>>

\* Mutant: the job looks at the series whose next date has come.
PickedLate == series.next_occurrence_date \in 1..today

\* The job takes the active series whose next date has come into the window.
Picked == series.next_occurrence_date \in 1..(today + Window)

\* One that fails is rolled back, and taken again at the next run.
CompleteWindow ==
    /\ series.status = "ACTIVE"
    /\ Generated(Loaded)
    /\ series' = Renoted(Loaded)
    /\ owed' = FALSE
    /\ UNCHANGED <<participants, today, active, request, raced>>

ProcessActiveSeries == Picked /\ CompleteWindow

\* A request to complete the window loads the series itself.
GenerateRecurrenceWindow == CompleteWindow

Overtaken(view) == view.row # series \/ view.exceptions # Excepted

\* The second transaction of a handler.  The lock is taken again, and what the first
\* had loaded stays: the row, its exceptions and its participants.
GenerateWindow(r) ==
    LET view == request[r]
    IN /\ view.row.status = "ACTIVE"
       /\ Generated(view)
       /\ series' = Renoted(view)
       /\ owed' = Overtaken(view)
       /\ raced' = (raced \/ Overtaken(view))
       /\ request' = [request EXCEPT ![r] = Idle]
       /\ UNCHANGED <<participants, today, active>>

\* It is refused if it is not possible, and may be lost with the process: the first
\* commit stays.
LeaveWindow(r) ==
    /\ request[r] # Idle
    /\ request' = [request EXCEPT ![r] = Idle]
    /\ UNCHANGED <<rows, participants, today, active, owed, raced>>

-----------------------------------------------------------------------------
(* Changes.                                                                 *)

\* The first transaction of r is committed, and with it what it has loaded: the row
\* with its changes, but the participants that there were.  The second does nothing if
\* the row is not that of an active series.
Continues(r) ==
    /\ request[r] = Idle
    /\ request' = IF series'.status = "ACTIVE"
                  THEN [request EXCEPT ![r] = [Loaded EXCEPT !.row = series']] ELSE request
    /\ owed' = TRUE

SetStatus(status) ==
    /\ \/ status = "PAUSED" /\ series.status = "ACTIVE"
       \/ status = "ACTIVE" /\ series.status = "PAUSED"
       \/ status = "FINISHED" /\ series.status \in {"ACTIVE", "PAUSED"}
    /\ series' = [series EXCEPT !.status = status]
    /\ IF status = "ACTIVE" THEN \E r \in Requests : Continues(r)
       ELSE UNCHANGED <<request, owed>>
    /\ UNCHANGED <<participants, occurrence, exception, today, active, raced>>

\* The end of the rule, and who takes part: only people that are active are accepted.
UpdateFuture ==
    /\ series.status \in {"ACTIVE", "PAUSED"}
    /\ \E last \in Dates : series' = [series EXCEPT !.last = last]
    /\ participants' \in {participants} \cup (SUBSET active \ {{}})
    /\ \E r \in Requests : Continues(r)
    /\ UNCHANGED <<occurrence, exception, today, active, raced>>

SkipOccurrence(d) ==
    /\ series.status # "ABSENT"
    /\ occurrence[d].status \in {"NONE", "QUIET"}
    /\ occurrence' = [occurrence EXCEPT ![d].status = IF @ = "QUIET" THEN "CANCELLED" ELSE @]
    /\ exception' = [exception EXCEPT ![d] = IF @ = "NONE" THEN "SKIPPED" ELSE @]
    /\ UNCHANGED <<series, participants, today, active, request, owed, raced>>

\* A date has at most one exception, and at most one occurrence.
RescheduleOccurrence(d, replacement) ==
    /\ occurrence[d].status = "QUIET"
    /\ occurrence[replacement].status = "NONE"
    /\ replacement \notin Nonexistent
    /\ exception[d] = "NONE"
    /\ occurrence' = [occurrence EXCEPT ![replacement] = [status |-> "QUIET", original |-> d],
                                        ![d] = NoOccurrence]
    /\ exception' = [exception EXCEPT ![d] = "REPROGRAMMED"]
    /\ UNCHANGED <<series, participants, today, active, request, owed, raced>>

-----------------------------------------------------------------------------
(* What happens around the series.                                          *)

\* An open occurrence is worked on, or becomes overdue; any may be cancelled.
OccurrenceChanges(d) ==
    /\ \/ /\ occurrence[d].status = "QUIET" /\ d <= today
          /\ occurrence' = [occurrence EXCEPT ![d].status = "BUSY"]
       \/ /\ occurrence[d].status \in {"QUIET", "BUSY"}
          /\ occurrence' = [occurrence EXCEPT ![d].status = "CANCELLED"]
    /\ UNCHANGED <<series, participants, exception, today, active, request, owed, raced>>

\* Bound: the last date comes into the window, and what happens to it then is what
\* happened to those before it.
NextDay ==
    /\ today + Window < LastDate
    /\ today' = today + 1
    /\ UNCHANGED <<rows, participants, active, request, owed, raced>>

\* Somebody is activated or deactivated; or leaves the event, and with it the series.
StaffChanges(p) ==
    /\ \/ active' = active \cup {p} /\ UNCHANGED participants
       \/ active' = active \ {p} /\ participants' \in {participants, participants \ {p}}
    /\ UNCHANGED <<rows, today, request, owed, raced>>

SeriesNext ==
    \/ CreateSeries
    \/ ProcessActiveSeries
    \/ GenerateRecurrenceWindow
    \/ UpdateFuture
    \/ NextDay
    \/ \E r \in Requests : GenerateWindow(r) \/ LeaveWindow(r)
    \/ \E p \in People : StaffChanges(p)
    \/ \E status \in {"PAUSED", "ACTIVE", "FINISHED"} : SetStatus(status)
    \/ \E d \in Dates :
          \/ SkipOccurrence(d)
          \/ OccurrenceChanges(d)
          \/ \E replacement \in Dates : RescheduleOccurrence(d, replacement)

\* The job runs again and again, and every request ends.
SeriesFairness ==
    /\ WF_seriesVars(ProcessActiveSeries)
    /\ \A r \in Requests : WF_seriesVars(GenerateWindow(r) \/ LeaveWindow(r))

SeriesSpec == SeriesInit /\ [][SeriesNext]_seriesVars /\ SeriesFairness

-----------------------------------------------------------------------------
(* Properties.                                                              *)

Accounted(d) == occurrence[d].status # "NONE" \/ exception[d] # "NONE"

\* A date that was skipped, moved away or left out for want of people never gets a
\* live logbook of its own again, through whatever pauses, changes of the end and
\* completions of the window follow; another date's may be moved to it.  Until a window
\* is completed from rows that changed since: a date skipped meanwhile gets its logbook.
ExceptionsStay ==
    ~raced => \A d \in Dates : exception[d] # "NONE" =>
        occurrence[d].status \in {"NONE", "CANCELLED"} \/ occurrence[d].original # Never

\* The next date noted in the row, by which the job picks a series, leaves no date
\* behind: all dates of the rule before it (all, if there is none) are accounted for,
\* unless the window is owed.  What a death, a refusal or an overtaken completion left
\* behind is made good by the first completion from fresh rows.
NothingLeftBehind ==
    (series.status = "ACTIVE" /\ ~owed) =>
        \A d \in 1..series.last :
            (series.next_occurrence_date = Never \/ d < series.next_occurrence_date) => Accounted(d)

\* A window that cannot be completed: the hour of one of its dates does not exist.
Refused == ~Possible(Loaded)

Wanted(d) == series.status = "ACTIVE" /\ d <= series.last /\ d <= today + Window

\* Again and again every date in the window of an active series has its logbook or an
\* exception, unless a handler left the window owed, or the window is refused.
WindowCompleted ==
    []<>(owed \/ Refused \/ \A d \in Dates : Wanted(d) => Accounted(d))
=============================================================================
