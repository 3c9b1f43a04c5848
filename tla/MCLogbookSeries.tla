--------------------------- MODULE MCLogbookSeries ---------------------------
(* A series of one date is made at once, longer ones a day ahead. *)
EXTENDS LogbookSeries

CONSTANTS p1, r1

\* Bound: a finished series is followed only while a request may complete its window
\* from rows that had changed, the first time.  What comes after are occurrences that
\* are worked on, moved or cancelled, as before.
Unfinished ==
    series.status = "FINISHED" => ~raced /\ \E r \in Requests : request[r] # Idle
=============================================================================
