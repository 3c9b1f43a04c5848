------------------------ MODULE LogbookSeries_proofs ------------------------
(***************************************************************************)
(* A series of logbooks loses no date and brings none back, for any number *)
(* of dates, people and requests, any window, any limit on what is made at *)
(* once and any dates whose hour does not exist: ExceptionsStay and        *)
(* NothingLeftBehind.                                                      *)
(*                                                                         *)
(* The two are inductive together with the types of the rows.  Completing  *)
(* the window is the step that could break both, so what Generated does    *)
(* with the view of a session is a lemma of its own: of any view it keeps  *)
(* the types, and of one that is not overtaken it accounts for every date. *)
(***************************************************************************)
EXTENDS LogbookSeries, TLAPS

OccurrenceType ==
    [status : {"NONE", "QUIET", "BUSY", "CANCELLED"}, original : Dates \cup {Never}]

ExceptionType == {"NONE", "NO_VALID_PARTICIPANTS", "SKIPPED", "REPROGRAMMED"}

SeriesType ==
    [status : {"ABSENT", "ACTIVE", "PAUSED", "FINISHED"}, last : Dates,
     next_occurrence_date : Nat]

ViewType == [row : SeriesType, exceptions : SUBSET Dates, participants : SUBSET People]

SeriesTypeOK ==
    /\ series \in SeriesType
    /\ participants \in SUBSET People
    /\ occurrence \in [Dates -> OccurrenceType]
    /\ exception \in [Dates -> ExceptionType]
    /\ today \in 0..LastDate
    /\ active \in SUBSET People
    /\ request \in [Requests -> ViewType]
    /\ owed \in BOOLEAN
    /\ raced \in BOOLEAN

\* Nothing is there before the series is.
Unborn ==
    series.status = "ABSENT" =>
        /\ \A d \in Dates : ~Accounted(d)
        /\ \A r \in Requests : request[r] = Idle

SeriesInv == SeriesTypeOK /\ Unborn /\ ExceptionsStay /\ NothingLeftBehind

-----------------------------------------------------------------------------
(* What completing the window yields.                                       *)

\* The note of the next date is the first that the window leaves out.
LEMMA NextAfterValue ==
    ASSUME SeriesTypeOK, NEW row \in SeriesType
    PROVE  /\ Horizon(row) \in Nat
           /\ NextAfter(row) \in Nat
           /\ \A d \in 1..row.last :
                 NextAfter(row) = Never \/ d < NextAfter(row) => d <= Horizon(row)
BY SeriesAssumption DEF SeriesTypeOK, SeriesType, Horizon, NextAfter, Dates, Never

\* The dates keep their types, and none that is accounted for changes unless it is due.
LEMMA GeneratedTypes ==
    ASSUME SeriesTypeOK, NEW view \in ViewType, Generated(view)
    PROVE  /\ occurrence' \in [Dates -> OccurrenceType]
           /\ exception' \in [Dates -> ExceptionType]
<1>1. NoOccurrence \in OccurrenceType BY DEF NoOccurrence, OccurrenceType
<1>2. [NoOccurrence EXCEPT !.status = "QUIET"] \in OccurrenceType
  BY <1>1 DEF OccurrenceType
<1> QED BY <1>2 DEF Generated, SeriesTypeOK, ExceptionType

\* From fresh exceptions, every date of the rule in the window is accounted for, and no
\* date that had a logbook or an exception changes.
LEMMA GeneratedDates ==
    ASSUME SeriesTypeOK, NEW view \in ViewType, Generated(view), view.exceptions = Excepted
    PROVE  /\ \A d \in Dates : Accounted(d) => /\ occurrence'[d] = occurrence[d]
                                               /\ exception'[d] = exception[d]
           /\ \A d \in Dates : ~Accounted(d) =>
                 occurrence'[d].status = "NONE" \/ exception'[d] = "NONE"
           /\ \A d \in 1..view.row.last : d <= Horizon(view.row) => Accounted(d)'
<1> DEFINE quiet == [NoOccurrence EXCEPT !.status = "QUIET"]
<1>1. PICK due : due = Due(view) OBVIOUS
<1>2. PICK staffed : staffed = Staffed(view) OBVIOUS
<1>3. /\ occurrence' = [d \in Dates |-> IF d \in due /\ Staffed(view) THEN quiet
                                        ELSE occurrence[d]]
      /\ exception' = [d \in Dates |-> IF d \in due /\ ~Staffed(view)
                                       THEN "NO_VALID_PARTICIPANTS" ELSE exception[d]]
  BY <1>1 DEF Generated
<1>4. quiet.status = "QUIET" BY DEF NoOccurrence
<1>5. \A d \in Dates : d \in due <=> /\ d <= view.row.last /\ d <= Horizon(view.row)
                                     /\ ~Accounted(d)
  BY <1>1 DEF Due, Excepted, Accounted
<1> HIDE DEF quiet
<1>6. ASSUME NEW d \in Dates, Accounted(d)
      PROVE  occurrence'[d] = occurrence[d] /\ exception'[d] = exception[d]
  BY <1>3, <1>5, <1>6
<1>7. ASSUME NEW d \in Dates, ~Accounted(d)
      PROVE  occurrence'[d].status = "NONE" \/ exception'[d] = "NONE"
  BY <1>3, <1>7 DEF Accounted
<1>8. ASSUME NEW d \in 1..view.row.last, d <= Horizon(view.row) PROVE Accounted(d)'
  <2>1. d \in Dates BY SeriesAssumption DEF SeriesType, ViewType, Dates
  <2>2. CASE Accounted(d) BY <1>6, <2>1, <2>2 DEF Accounted
  <2>3. CASE ~Accounted(d)
    <3>1. d \in due BY <1>5, <1>8, <2>1, <2>3
    <3> QED BY <1>3, <1>4, <2>1, <3>1 DEF Accounted
  <2> QED BY <2>2, <2>3
<1> QED BY <1>6, <1>7, <1>8

\* A step that completes the window from a view whose rows are those of the series.
LEMMA FreshInv ==
    ASSUME SeriesInv, NEW view \in ViewType, Generated(view), SeriesTypeOK',
           series'.status # "ABSENT",
           series'.last = view.row.last,
           series'.next_occurrence_date = NextAfter(view.row),
           view.exceptions = Excepted,
           raced' = raced
    PROVE  SeriesInv'
<1>1. SeriesTypeOK BY DEF SeriesInv
<1>2. ExceptionsStay'
  <2> SUFFICES ASSUME ~raced, NEW d \in Dates, exception'[d] # "NONE"
               PROVE  \/ occurrence'[d].status \in {"NONE", "CANCELLED"}
                      \/ occurrence'[d].original # Never
    BY DEF ExceptionsStay
  <2>1. CASE Accounted(d)
    BY <1>1, <2>1, GeneratedDates DEF SeriesInv, ExceptionsStay
  <2>2. CASE ~Accounted(d) BY <1>1, <2>2, GeneratedDates
  <2> QED BY <2>1, <2>2
<1>3. NothingLeftBehind'
  <2> SUFFICES ASSUME NEW d \in 1..series'.last,
                      \/ series'.next_occurrence_date = Never
                      \/ d < series'.next_occurrence_date
               PROVE  Accounted(d)'
    BY DEF NothingLeftBehind
  <2>1. d \in 1..view.row.last OBVIOUS
  <2>2. view.row \in SeriesType BY DEF ViewType
  <2>3. NextAfter(view.row) = Never \/ d < NextAfter(view.row) OBVIOUS
  <2>4. d <= Horizon(view.row) BY <1>1, <2>1, <2>2, <2>3, NextAfterValue
  <2> QED BY <1>1, <2>1, <2>4, GeneratedDates
<1>4. Unborn' BY DEF Unborn
<1> QED BY <1>2, <1>3, <1>4 DEF SeriesInv

LEMMA CreateSeriesStep ==
    ASSUME SeriesInv, CreateSeries
    PROVE  SeriesInv'
<1>1. PICK last \in Dates, people \in SUBSET active \ {{}} :
          LET row == [status |-> "ACTIVE", last |-> last, next_occurrence_date |-> 1]
          IN /\ Generated([row |-> row, exceptions |-> {}, participants |-> people])
             /\ series' = [row EXCEPT !.next_occurrence_date = NextAfter(row)]
             /\ participants' = people
  BY DEF CreateSeries
<1>2. PICK row : row = [status |-> "ACTIVE", last |-> last, next_occurrence_date |-> 1]
  OBVIOUS
<1>3. PICK view : view = [row |-> row, exceptions |-> {}, participants |-> people]
  OBVIOUS
<1>4. /\ Generated(view)
      /\ series' = [row EXCEPT !.next_occurrence_date = NextAfter(row)]
      /\ participants' = people
  BY <1>1, <1>2, <1>3
<1>5. row \in SeriesType BY <1>2 DEF SeriesType
<1>6. view \in ViewType BY <1>3, <1>5 DEF ViewType, SeriesInv, SeriesTypeOK
<1>7. /\ series' \in SeriesType /\ series'.last = row.last
      /\ series'.next_occurrence_date = NextAfter(row)
  BY <1>4, <1>5, NextAfterValue DEF SeriesType, SeriesInv
<1>8. UNCHANGED <<today, active, request, owed, raced>> BY DEF CreateSeries
<1>9. SeriesTypeOK'
  BY <1>4, <1>6, <1>7, <1>8, GeneratedTypes DEF SeriesInv, SeriesTypeOK
<1>10. view.exceptions = Excepted
  <2>1. \A d \in Dates : ~Accounted(d) BY DEF CreateSeries, SeriesInv, Unborn
  <2> QED BY <1>3, <2>1 DEF Excepted, Accounted
<1>11. series'.status # "ABSENT" BY <1>2, <1>4 
<1>12. series'.last = view.row.last BY <1>3, <1>7
<1>13. series'.next_occurrence_date = NextAfter(view.row) BY <1>3, <1>7
<1> QED BY <1>4, <1>6, <1>8, <1>9, <1>10, <1>11, <1>12, <1>13, FreshInv

\* What a completion writes to the row of the series.
LEMMA RenotedValue ==
    ASSUME SeriesTypeOK, NEW view \in ViewType
    PROVE  /\ Renoted(view) \in SeriesType
           /\ Renoted(view).status = series.status
           /\ Renoted(view).last = series.last
           /\ view.row = series => Renoted(view).next_occurrence_date = NextAfter(view.row)
<1>1. view.row \in SeriesType BY DEF ViewType
<1>2. NextAfter(view.row) \in Nat BY <1>1, NextAfterValue
<1> QED BY <1>2 DEF Renoted, SeriesTypeOK, SeriesType

LEMMA CompleteWindowStep ==
    ASSUME SeriesInv, CompleteWindow
    PROVE  SeriesInv'
<1>1. SeriesTypeOK BY DEF SeriesInv
<1>2. PICK view : view = Loaded OBVIOUS
<1>3. /\ Generated(view) /\ series' = Renoted(view) /\ series.status = "ACTIVE"
      /\ owed' = FALSE /\ UNCHANGED <<participants, today, active, request, raced>>
  BY <1>2 DEF CompleteWindow
<1>4. /\ view.row = series /\ view.exceptions = Excepted
      /\ view \in ViewType
  BY <1>1, <1>2 DEF Loaded, ViewType, SeriesTypeOK, Excepted
<1>5. /\ series' \in SeriesType /\ series'.status # "ABSENT"
      /\ series'.last = view.row.last /\ series'.next_occurrence_date = NextAfter(view.row)
  BY <1>1, <1>3, <1>4, RenotedValue
<1>6. SeriesTypeOK' BY <1>1, <1>3, <1>4, <1>5, GeneratedTypes DEF SeriesTypeOK
<1> QED BY <1>3, <1>4, <1>5, <1>6, FreshInv

LEMMA GenerateWindowStep ==
    ASSUME SeriesInv, NEW r \in Requests, GenerateWindow(r)
    PROVE  SeriesInv'
<1>1. SeriesTypeOK BY DEF SeriesInv
<1>2. PICK view : view = request[r] OBVIOUS
<1>3. view \in ViewType BY <1>1, <1>2 DEF SeriesTypeOK
<1>4. /\ view.row.status = "ACTIVE" /\ Generated(view) /\ series' = Renoted(view)
      /\ owed' = Overtaken(view) /\ raced' = (raced \/ Overtaken(view))
      /\ request' = [request EXCEPT ![r] = Idle]
      /\ UNCHANGED <<participants, today, active>>
  BY <1>2 DEF GenerateWindow
<1>5. PICK overtaken \in BOOLEAN : overtaken = Overtaken(view) BY DEF Overtaken
<1>6. series.status # "ABSENT"
  BY <1>2, <1>4 DEF SeriesInv, Unborn, Idle, AbsentSeries
<1>7. series' \in SeriesType /\ series'.status = series.status /\ series'.last = series.last
  BY <1>1, <1>3, <1>4, RenotedValue
<1>8. view.row = series \/ overtaken BY <1>5 DEF Overtaken
<1>9. view.exceptions = Excepted \/ overtaken BY <1>5 DEF Overtaken
<1>10. series'.next_occurrence_date = NextAfter(view.row) \/ overtaken
  BY <1>1, <1>3, <1>4, <1>8, RenotedValue
<1>11. Idle \in ViewType
  <2>1. AbsentSeries \in SeriesType
    BY SeriesAssumption DEF AbsentSeries, SeriesType, Dates, Never
  <2> QED BY <2>1 DEF Idle, ViewType
<1>12. owed' = overtaken /\ raced' = (raced \/ overtaken) BY <1>4, <1>5
<1>13. owed' \in BOOLEAN /\ raced' \in BOOLEAN BY <1>1, <1>12 DEF SeriesTypeOK
<1>14. occurrence' \in [Dates -> OccurrenceType] /\ exception' \in [Dates -> ExceptionType]
  BY <1>1, <1>3, <1>4, GeneratedTypes
<1>15. SeriesTypeOK' BY <1>1, <1>4, <1>7, <1>11, <1>13, <1>14 DEF SeriesTypeOK
<1>16. series'.status # "ABSENT" BY <1>6, <1>7
<1>17. CASE ~overtaken
  <2>1. series'.last = view.row.last BY <1>7, <1>8, <1>17
  <2>2. series'.next_occurrence_date = NextAfter(view.row) BY <1>10, <1>17
  <2>3. view.exceptions = Excepted BY <1>9, <1>17
  <2>4. raced' = raced BY <1>1, <1>12, <1>17 DEF SeriesTypeOK
  <2> QED BY <1>3, <1>4, <1>15, <1>16, <2>1, <2>2, <2>3, <2>4, FreshInv
<1>18. CASE overtaken
  <2>1. owed' /\ raced' BY <1>12, <1>18
  <2> QED BY <1>15, <1>16, <2>1 DEF SeriesInv, Unborn, ExceptionsStay, NothingLeftBehind
<1> QED BY <1>17, <1>18

-----------------------------------------------------------------------------
(* The other handlers.                                                      *)

\* A step that leaves the rows of the dates alone, and that either leaves the row of
\* the series too, or leaves its window owed unless it is not active.
LEMMA SeriesRowStep ==
    ASSUME SeriesInv, SeriesTypeOK', UNCHANGED <<occurrence, exception, raced>>,
           series'.status = "ABSENT" => series.status = "ABSENT" /\ UNCHANGED request,
           \/ UNCHANGED <<series, owed>>
           \/ series'.status = "ACTIVE" => owed'
    PROVE  SeriesInv'
BY DEF SeriesInv, Unborn, ExceptionsStay, NothingLeftBehind, Accounted

LEMMA LeaveWindowStep ==
    ASSUME SeriesInv, NEW r \in Requests, LeaveWindow(r)
    PROVE  SeriesInv'
<1>1. AbsentSeries \in SeriesType
  BY SeriesAssumption DEF AbsentSeries, SeriesType, Dates, Never
<1>2. Idle \in ViewType BY <1>1 DEF Idle, ViewType
<1>3. SeriesTypeOK' BY <1>2 DEF SeriesInv, SeriesTypeOK, LeaveWindow, rows
<1>4. series.status # "ABSENT" BY DEF LeaveWindow, SeriesInv, Unborn
<1> QED BY <1>3, <1>4, SeriesRowStep DEF LeaveWindow, rows

\* What a request takes with it into its second transaction.
LEMMA ContinuesType ==
    ASSUME SeriesTypeOK, series' \in SeriesType, NEW r \in Requests, Continues(r)
    PROVE  request' \in [Requests -> ViewType] /\ owed' = TRUE
<1>1. Loaded \in ViewType BY DEF Loaded, ViewType, SeriesTypeOK, Excepted
<1>2. [Loaded EXCEPT !.row = series'] \in ViewType BY <1>1 DEF ViewType
<1>3. request \in [Requests -> ViewType] BY DEF SeriesTypeOK
<1> QED BY <1>2, <1>3 DEF Continues

LEMMA SetStatusStep ==
    ASSUME SeriesInv, NEW s \in {"PAUSED", "ACTIVE", "FINISHED"}, SetStatus(s)
    PROVE  SeriesInv'
<1>1. /\ series' = [series EXCEPT !.status = s]
      /\ UNCHANGED <<participants, occurrence, exception, today, active, raced>>
  BY DEF SetStatus
<1>2. series' \in SeriesType /\ series'.status = s
  BY <1>1 DEF SeriesInv, SeriesTypeOK, SeriesType
<1>3. CASE s = "ACTIVE"
  <2>1. PICK r \in Requests : Continues(r) BY <1>3 DEF SetStatus
  <2>2. request' \in [Requests -> ViewType] /\ owed' = TRUE
    BY <1>2, <2>1, ContinuesType DEF SeriesInv
  <2>3. SeriesTypeOK' BY <1>1, <1>2, <2>2 DEF SeriesInv, SeriesTypeOK
  <2> QED BY <1>1, <1>2, <2>2, <2>3, SeriesRowStep
<1>4. CASE s # "ACTIVE"
  <2>1. UNCHANGED <<request, owed>> BY <1>4 DEF SetStatus
  <2>2. SeriesTypeOK' BY <1>1, <1>2, <2>1 DEF SeriesInv, SeriesTypeOK
  <2> QED BY <1>1, <1>2, <1>4, <2>2, SeriesRowStep
<1> QED BY <1>3, <1>4

LEMMA UpdateFutureStep ==
    ASSUME SeriesInv, UpdateFuture
    PROVE  SeriesInv'
<1>1. PICK last \in Dates : series' = [series EXCEPT !.last = last] BY DEF UpdateFuture
<1>2. series' \in SeriesType /\ series'.status = series.status
  BY <1>1 DEF SeriesInv, SeriesTypeOK, SeriesType
<1>3. PICK r \in Requests : Continues(r) BY DEF UpdateFuture
<1>4. request' \in [Requests -> ViewType] /\ owed' = TRUE
  BY <1>2, <1>3, ContinuesType DEF SeriesInv
<1>5. participants' \in SUBSET People BY DEF UpdateFuture, SeriesInv, SeriesTypeOK
<1>6. UNCHANGED <<occurrence, exception, today, active, raced>> BY DEF UpdateFuture
<1>7. SeriesTypeOK' BY <1>2, <1>4, <1>5, <1>6 DEF SeriesInv, SeriesTypeOK
<1>8. series'.status # "ABSENT" BY <1>2 DEF UpdateFuture
<1> QED BY <1>4, <1>6, <1>7, <1>8, SeriesRowStep

LEMMA NextDayStep ==
    ASSUME SeriesInv, NextDay
    PROVE  SeriesInv'
<1>1. SeriesTypeOK'
  BY SeriesAssumption DEF SeriesInv, SeriesTypeOK, NextDay, rows
<1> QED BY <1>1, SeriesRowStep DEF NextDay, rows

LEMMA StaffChangesStep ==
    ASSUME SeriesInv, NEW p \in People, StaffChanges(p)
    PROVE  SeriesInv'
<1>1. SeriesTypeOK' BY DEF SeriesInv, SeriesTypeOK, StaffChanges, rows
<1> QED BY <1>1, SeriesRowStep DEF StaffChanges, rows

\* A step that changes the rows of dates and leaves no date unaccounted for.
LEMMA DateStep ==
    ASSUME SeriesInv, UNCHANGED <<series, participants, today, active, request, owed, raced>>,
           series.status # "ABSENT",
           occurrence' \in [Dates -> OccurrenceType],
           exception' \in [Dates -> ExceptionType],
           \A d \in Dates : Accounted(d) => Accounted(d)',
           ExceptionsStay'
    PROVE  SeriesInv'
<1>1. SeriesTypeOK' BY DEF SeriesInv, SeriesTypeOK
<1>2. \A d \in 1..series.last : d \in Dates
  BY SeriesAssumption DEF SeriesInv, SeriesTypeOK, SeriesType, Dates
<1>3. NothingLeftBehind' BY <1>2 DEF SeriesInv, NothingLeftBehind
<1> QED BY <1>1, <1>3 DEF SeriesInv, Unborn

LEMMA SkipOccurrenceStep ==
    ASSUME SeriesInv, NEW d \in Dates, SkipOccurrence(d)
    PROVE  SeriesInv'
<1> DEFINE s == IF occurrence[d].status = "QUIET" THEN "CANCELLED" ELSE occurrence[d].status
           x == IF exception[d] = "NONE" THEN "SKIPPED" ELSE exception[d]
<1>1. /\ occurrence[d].status \in {"NONE", "QUIET"}
      /\ occurrence' = [occurrence EXCEPT ![d].status = s]
      /\ exception' = [exception EXCEPT ![d] = x]
      /\ UNCHANGED <<series, participants, today, active, request, owed, raced>>
  BY DEF SkipOccurrence
<1>2. s \in {"NONE", "CANCELLED"}
  BY <1>1
<1>3. x \in {"NO_VALID_PARTICIPANTS", "SKIPPED", "REPROGRAMMED"}
  BY DEF SeriesInv, SeriesTypeOK, ExceptionType
<1> HIDE DEF s, x
<1>4. occurrence' \in [Dates -> OccurrenceType]
  BY <1>1, <1>2 DEF SeriesInv, SeriesTypeOK, OccurrenceType
<1>5. exception' \in [Dates -> ExceptionType]
  BY <1>1, <1>3 DEF SeriesInv, SeriesTypeOK, ExceptionType
<1>6. /\ occurrence'[d].status = s /\ exception'[d] = x
      /\ \A e \in Dates \ {d} : occurrence'[e] = occurrence[e] /\ exception'[e] = exception[e]
  BY <1>1 DEF SeriesInv, SeriesTypeOK, OccurrenceType
<1>7. \A e \in Dates : Accounted(e) => Accounted(e)' BY <1>3, <1>6 DEF Accounted
<1>8. ExceptionsStay' BY <1>1, <1>2, <1>6 DEF SeriesInv, ExceptionsStay
<1>9. series.status # "ABSENT" BY DEF SkipOccurrence
<1> QED BY <1>1, <1>4, <1>5, <1>7, <1>8, <1>9, DateStep

LEMMA OccurrenceChangesStep ==
    ASSUME SeriesInv, NEW d \in Dates, OccurrenceChanges(d)
    PROVE  SeriesInv'
<1>1. PICK s \in {"BUSY", "CANCELLED"} :
          /\ occurrence[d].status \in {"QUIET", "BUSY"}
          /\ s = "CANCELLED" \/ occurrence[d].status = "QUIET"
          /\ occurrence' = [occurrence EXCEPT ![d].status = s]
  BY DEF OccurrenceChanges
<1>2. UNCHANGED <<series, participants, exception, today, active, request, owed, raced>>
  BY DEF OccurrenceChanges
<1>3. occurrence' \in [Dates -> OccurrenceType]
  BY <1>1 DEF SeriesInv, SeriesTypeOK, OccurrenceType
<1>4. /\ occurrence'[d].status = s /\ occurrence'[d].original = occurrence[d].original
      /\ \A e \in Dates \ {d} : occurrence'[e] = occurrence[e]
  BY <1>1 DEF SeriesInv, SeriesTypeOK, OccurrenceType
<1>5. \A e \in Dates : Accounted(e) => Accounted(e)' BY <1>2, <1>4 DEF Accounted
<1>6. ExceptionsStay' BY <1>1, <1>2, <1>4 DEF SeriesInv, ExceptionsStay
<1>7. series.status # "ABSENT" BY <1>1 DEF SeriesInv, Unborn, Accounted
<1>8. exception' \in [Dates -> ExceptionType] BY <1>2 DEF SeriesInv, SeriesTypeOK
<1> QED BY <1>2, <1>3, <1>5, <1>6, <1>7, <1>8, DateStep

LEMMA RescheduleOccurrenceStep ==
    ASSUME SeriesInv, NEW d \in Dates, NEW r \in Dates, RescheduleOccurrence(d, r)
    PROVE  SeriesInv'
<1>1. /\ occurrence[d].status = "QUIET" /\ occurrence[r].status = "NONE"
      /\ occurrence' = [occurrence EXCEPT ![r] = [status |-> "QUIET", original |-> d],
                                          ![d] = NoOccurrence]
      /\ exception' = [exception EXCEPT ![d] = "REPROGRAMMED"]
      /\ UNCHANGED <<series, participants, today, active, request, owed, raced>>
  BY DEF RescheduleOccurrence
<1>2. NoOccurrence \in OccurrenceType /\ [status |-> "QUIET", original |-> d] \in OccurrenceType
  BY DEF NoOccurrence, OccurrenceType
<1>3. r # d BY <1>1
<1>4. occurrence' \in [Dates -> OccurrenceType]
  BY <1>1, <1>2 DEF SeriesInv, SeriesTypeOK
<1>5. exception' \in [Dates -> ExceptionType]
  BY <1>1 DEF SeriesInv, SeriesTypeOK, ExceptionType
<1>6. /\ occurrence'[r] = [status |-> "QUIET", original |-> d]
      /\ occurrence'[d] = NoOccurrence
      /\ exception'[d] = "REPROGRAMMED"
      /\ \A e \in Dates \ {d} : exception'[e] = exception[e]
      /\ \A e \in Dates \ {d, r} : occurrence'[e] = occurrence[e]
  BY <1>1, <1>3 DEF SeriesInv, SeriesTypeOK
<1>7. \A e \in Dates : Accounted(e) => Accounted(e)' BY <1>6 DEF Accounted
<1>8. d # Never BY DEF Dates, Never
<1>9. ExceptionsStay'
  <2> SUFFICES ASSUME ~raced, NEW e \in Dates, exception'[e] # "NONE"
               PROVE  \/ occurrence'[e].status \in {"NONE", "CANCELLED"}
                      \/ occurrence'[e].original # Never
    BY <1>1 DEF ExceptionsStay
  <2>1. CASE e = d BY <1>6, <2>1 DEF NoOccurrence
  <2>2. CASE e = r BY <1>6, <1>8, <2>2
  <2>3. CASE e \in Dates \ {d, r}
    BY <1>6, <2>3 DEF SeriesInv, ExceptionsStay
  <2> QED BY <2>1, <2>2, <2>3
<1>10. series.status # "ABSENT" BY <1>1 DEF SeriesInv, Unborn, Accounted
<1> QED BY <1>1, <1>4, <1>5, <1>7, <1>9, <1>10, DateStep

-----------------------------------------------------------------------------
(* The theorems.                                                            *)

\* The inductive invariant holds in every state of a series.
LEMMA SeriesInvariant == SeriesSpec => []SeriesInv
<1>1. SeriesInit => SeriesInv
  <2> SUFFICES ASSUME SeriesInit PROVE SeriesInv
    OBVIOUS
  <2>1. SeriesTypeOK
    <3>1. AbsentSeries \in SeriesType
      BY SeriesAssumption DEF AbsentSeries, SeriesType, Dates, Never
    <3>2. Idle \in ViewType BY <3>1 DEF Idle, ViewType
    <3>3. NoOccurrence \in OccurrenceType BY DEF NoOccurrence, OccurrenceType
    <3>4. today \in 0..LastDate BY SeriesAssumption DEF SeriesInit
    <3> QED BY <3>1, <3>2, <3>3, <3>4 DEF SeriesInit, SeriesTypeOK, ExceptionType
  <2>2. Unborn BY DEF SeriesInit, Unborn, Accounted, NoOccurrence
  <2>3. ExceptionsStay BY DEF SeriesInit, ExceptionsStay
  <2>4. NothingLeftBehind BY DEF SeriesInit, NothingLeftBehind, AbsentSeries
  <2> QED BY <2>1, <2>2, <2>3, <2>4 DEF SeriesInv
<1>2. SeriesInv /\ [SeriesNext]_seriesVars => SeriesInv'
  <2> SUFFICES ASSUME SeriesInv, [SeriesNext]_seriesVars PROVE SeriesInv'
    OBVIOUS
  <2>1. CASE UNCHANGED seriesVars
    BY <2>1 DEF seriesVars, SeriesInv, SeriesTypeOK, Unborn, ExceptionsStay, NothingLeftBehind,
       Accounted
  <2>2. CASE ProcessActiveSeries \/ GenerateRecurrenceWindow
    BY <2>2, CompleteWindowStep DEF ProcessActiveSeries, GenerateRecurrenceWindow
  <2> QED BY <2>1, <2>2, CreateSeriesStep, GenerateWindowStep, LeaveWindowStep,
     UpdateFutureStep, NextDayStep, StaffChangesStep, SetStatusStep, SkipOccurrenceStep,
     OccurrenceChangesStep, RescheduleOccurrenceStep DEF SeriesNext
<1> QED BY <1>1, <1>2, PTL DEF SeriesSpec

\* A date that was skipped, moved away or left out gets no live logbook of its own
\* again, whatever pauses, changes of the end, deaths, refusals and completions of the
\* window follow, until a window is completed from rows that had changed since.
THEOREM ExceptionsAreKept == SeriesSpec => []ExceptionsStay
<1>1. SeriesInv => ExceptionsStay BY DEF SeriesInv
<1> QED BY <1>1, SeriesInvariant, PTL

\* The date by which the job picks a series has no date before it that was forgotten,
\* unless the window is owed: by a handler between its commits, that died, was refused or
\* was overtaken, and nobody has completed it since.
THEOREM NoDateLeftBehind == SeriesSpec => []NothingLeftBehind
<1>1. SeriesInv => NothingLeftBehind BY DEF SeriesInv
<1> QED BY <1>1, SeriesInvariant, PTL

==============================================================================
