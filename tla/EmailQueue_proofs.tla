-------------------------- MODULE EmailQueue_proofs --------------------------
(***************************************************************************)
(* The e-mail queue is safe, and keeps the promise of EmailDelivery, for   *)
(* any number of batches, pairs, requests, workers, attempts, crashes and  *)
(* retries, as long as no request commits after it was overtaken.          *)
(*                                                                         *)
(* What makes the properties inductive is QueueInv: the lock keeps workers *)
(* apart, a worker and the row it holds agree, every status bounds the     *)
(* attempts that can have led to it, and what a request read is still so,  *)
(* unless another request overtook it.                                     *)
(***************************************************************************)
EXTENDS DocumentEmailQueue, TLAPS

Statuses == Active \cup Ended \cup {"ABSENT"}

RowType == [status : Statuses, attempt_count : Nat, delivery_payload : BOOLEAN,
            ripe : BOOLEAN]

ClaimType == [step : {"claimed", "accepted"}, item : Items, attempt_count : Nat]

Busy(w) == worker[w].step # "idle"

Held(i) == \E w \in Workers : Busy(w) /\ worker[w].item = i

\* The advisory lock: one worker at a time.
OneWorker == \A v, w \in Workers : Busy(v) /\ Busy(w) => v = w

\* What the status of a row, and whether its item was accepted, say of its payload.
RowAgrees(row, acc) ==
    /\ row.status \in {"ABSENT", "PROCESSING"} => ~row.delivery_payload
    /\ row.status = "SENDING" => row.delivery_payload
    /\ acc /\ row.status # "SENT" => row.delivery_payload
    /\ acc => production

RowsAgree == \A i \in Items : RowAgrees(item[i], accepted[i])

\* A worker has its item in hand, with the attempts it counted, and goes on as
\* accepted only if it was.
HandsAgree ==
    \A w \in Workers : Busy(w) =>
        /\ item[worker[w].item].status \in InHand
        /\ item[worker[w].item].attempt_count = worker[w].attempt_count
        /\ At(w, "accepted") => accepted[worker[w].item]

\* The attempts that can have led to a row, while c workers died in all.
\* An item in hand that no worker holds owes an attempt to one of the dead.
AttemptsOf(row, held, c) ==
    /\ row.attempt_count <= MAX_ATTEMPTS + 1 + c
    /\ row.status \in Waiting =>
          row.attempt_count <= IF row.delivery_payload THEN MAX_ATTEMPTS + c
                               ELSE MAX_ATTEMPTS - 1
    /\ row.status = "PROCESSING" =>
          row.attempt_count <= IF held THEN MAX_ATTEMPTS + c ELSE MAX_ATTEMPTS + c - 1
    /\ row.status = "SENDING" /\ ~held => row.attempt_count <= MAX_ATTEMPTS + c

AttemptsAgree == \A i \in Items : AttemptsOf(item[i], Held(i), crashes)

\* A batch has its items once it exists, and none on its way once it is done.
DoneAgrees(s, rows, b) ==
    s \in {"COMPLETED", "COMPLETED_WITH_ERRORS"} =>
        \A i \in Items : i[1] = b => rows[i].status \notin Active

BatchAgrees(s, rows, b) ==
    /\ s = "ABSENT" => \A i \in Items : i[1] = b => rows[i].status = "ABSENT"
    /\ DoneAgrees(s, rows, b)

BatchesAgree == \A b \in Batches : BatchAgrees(batch_status[b], item, b)

\* What a session q on a batch of status s knows of the rows, unless it was overtaken.
\* The rows it loaded are failed ones, which only a retry changes; after its own
\* retry they wait in its copy, whatever the workers have done with them since.
ReadAgrees(q, s, rows) ==
    /\ q.seen = s
    /\ q.step = "opened" => \A i \in Items : q.copy[i] = NoItem
    /\ q.step = "selected" =>
          \A i \in Items : q.copy[i] # NoItem =>
             /\ i[1] = q.batch
             /\ rows[i] = q.copy[i]
             /\ rows[i].status = "FAILED"
    /\ q.step = "reading" =>
          \A i \in Items : q.copy[i] # NoItem =>
             /\ i[1] = q.batch
             /\ q.copy[i].status \in Waiting
    /\ q.step = "counted" => DoneAgrees(q.status, rows, q.batch)

RequestsAgree ==
    \A r \in Requests : Live(r) =>
        /\ batch_status[BatchOf(r)] # "ABSENT"
        /\ ~request[r].overtaken => ReadAgrees(request[r], batch_status[BatchOf(r)], item)

QueueInv ==
    /\ QueueTypeOK
    /\ OneWorker
    /\ RowsAgree
    /\ HandsAgree
    /\ AttemptsAgree
    /\ BatchesAgree
    /\ RequestsAgree

-----------------------------------------------------------------------------
(* What the operators of the model yield.                                   *)

\* Reading a batch always gives it a status, and "done" only if nothing is active.
LEMMA CountedValue ==
    ASSUME NEW rows, NEW b \in Batches
    PROVE  /\ Counted(rows, b) \in StoredStatuses
           /\ DoneAgrees(Counted(rows, b), rows, b)
<1> DEFINE has(statuses) == \E i \in ItemsOf(b, Pairs) : rows[i].status \in statuses
<1>1. has(Active) <=> has(InHand) \/ has(Waiting)
  BY DEF Active
<1>2. has(Active \cup {"FAILED"}) <=> has(Active) \/ has({"FAILED"})
  OBVIOUS
<1>3. ~has(Active) => \A i \in Items : i[1] = b => rows[i].status \notin Active
  BY QueueAssumption DEF ItemsOf
<1>4. Counted(rows, b) = CASE has(InHand)                       -> "PROCESSING"
                           [] has(Waiting) /\ ~has(InHand)      -> "QUEUED"
                           [] has({"FAILED"}) /\ ~has(Active)   -> "COMPLETED_WITH_ERRORS"
                           [] ~has(Active \cup {"FAILED"})      -> "COMPLETED"
  BY DEF Counted
<1> HIDE DEF has
<1> QED BY <1>1, <1>2, <1>3, <1>4 DEF DoneAgrees, StoredStatuses

\* A worker that is not idle holds one of the items.
LEMMA BusyWorker ==
    ASSUME QueueTypeOK, NEW w \in Workers, Busy(w)
    PROVE  /\ worker[w] \in ClaimType
           /\ worker[w].item \in Items
           /\ worker[w].attempt_count \in Nat
           /\ Row(w) \in RowType
<1>1. worker[w] # Idle BY DEF Busy, Idle
<1>2. worker[w] \in ClaimType BY <1>1 DEF QueueTypeOK, ClaimType
<1>3. item \in [Items -> RowType] BY DEF QueueTypeOK, ItemRow, RowType, Statuses
<1>4. worker[w].item \in Items /\ worker[w].attempt_count \in Nat BY <1>2 DEF ClaimType
<1> QED BY <1>2, <1>3, <1>4 DEF Row

\* A request under way has a batch, a status seen and what its step needs.
LEMMA LiveRequest ==
    ASSUME QueueTypeOK, NEW r \in Requests, Live(r)
    PROVE  /\ request[r] \in OpenRequest \cup CountedRequest
           /\ BatchOf(r) \in Batches
           /\ request[r].seen \in StoredStatuses
           /\ request[r].overtaken \in BOOLEAN
           /\ RequestAt(r, "counted") => /\ request[r] \in CountedRequest
                                        /\ request[r].status \in StoredStatuses
           /\ ~RequestAt(r, "counted") => /\ request[r] \in OpenRequest
                                         /\ request[r].copy \in [Items -> ItemRow]
<1>1. request[r] # NoRequest BY DEF Live, NoRequest
<1>2. request[r] \in OpenRequest \cup CountedRequest BY <1>1 DEF QueueTypeOK
<1> QED BY <1>2 DEF OpenRequest, CountedRequest, BatchOf, RequestAt

\* A failed attempt leaves a row that waits, or that failed.
LEMMA FailedRow ==
    ASSUME NEW row \in RowType, NEW retryable \in BOOLEAN, NEW n \in Nat
    PROVE  LET f == Failed(row, n, retryable) IN
           /\ f \in RowType
           /\ f.status = IF retryable /\ n < MAX_ATTEMPTS
                         THEN "RETRYING" ELSE "FAILED"
           /\ f.attempt_count = row.attempt_count
           /\ f.delivery_payload = row.delivery_payload
BY DEF Failed, RowType, Statuses, Active, Ended, Waiting, InHand

\* What a claim, and the end of an attempt, make of a row.
ClaimedRow(row, s, n) ==
    [row EXCEPT !.status = s, !.attempt_count = n, !.ripe = FALSE]

EndedRow(row, s, p, t) ==
    [row EXCEPT !.status = s, !.delivery_payload = p, !.ripe = t]

LEMMA ClaimedRowValue ==
    ASSUME NEW row \in RowType, NEW s \in Statuses, NEW n \in Nat
    PROVE  /\ ClaimedRow(row, s, n) \in RowType
           /\ ClaimedRow(row, s, n).status = s
           /\ ClaimedRow(row, s, n).attempt_count = n
           /\ ClaimedRow(row, s, n).delivery_payload = row.delivery_payload
BY DEF ClaimedRow, RowType

LEMMA EndedRowValue ==
    ASSUME NEW row \in RowType, NEW s \in Statuses, NEW p \in BOOLEAN, NEW t \in BOOLEAN
    PROVE  /\ EndedRow(row, s, p, t) \in RowType
           /\ EndedRow(row, s, p, t).status = s
           /\ EndedRow(row, s, p, t).attempt_count = row.attempt_count
           /\ EndedRow(row, s, p, t).delivery_payload = p
BY DEF EndedRow, RowType

-----------------------------------------------------------------------------
(* What requests leave of the types.                                        *)

RequestType == {NoRequest} \cup OpenRequest \cup CountedRequest

\* A session that opens, and one that has loaded rows, is one of the type.
LEMMA SessionType ==
    ASSUME NEW step \in {"opened", "selected", "reading"}, NEW b \in Batches,
           NEW s \in StoredStatuses, NEW copy \in [Items -> ItemRow],
           NEW overtaken \in BOOLEAN
    PROVE  /\ Session(step, b, s, copy, overtaken) \in OpenRequest
           /\ Session(step, b, s, copy, overtaken).step = step
           /\ Session(step, b, s, copy, overtaken).batch = b
           /\ Session(step, b, s, copy, overtaken).seen = s
           /\ Session(step, b, s, copy, overtaken).copy = copy
           /\ Session(step, b, s, copy, overtaken).overtaken = overtaken
BY DEF Session, OpenRequest

LEMMA NoCopyType == NoCopy \in [Items -> ItemRow] /\ \A i \in Items : NoCopy[i] = NoItem
<1>1. NoItem \in ItemRow BY DEF NoItem, ItemRow
<1> QED BY <1>1 DEF NoCopy

\* The other requests on the batch of r are overtaken; all others stay as they are.
LEMMA OvertakesOthers ==
    ASSUME QueueTypeOK, NEW r \in Requests, Live(r), NEW next \in RequestType,
           Overtakes(r, next)
    PROVE  /\ request' \in [Requests -> RequestType]
           /\ request'[r] = next
           /\ \A q \in Requests : q # r =>
                 \/ request'[q] = request[q] /\ (Live(q) => BatchOf(q) # BatchOf(r))
                 \/ /\ Live(q) /\ request'[q].step # "none"
                    /\ request'[q].batch = BatchOf(q)
                    /\ request'[q].overtaken = TRUE
<1>1. request \in [Requests -> RequestType] BY DEF QueueTypeOK, RequestType
<1>2. ASSUME NEW q \in Requests, Live(q)
      PROVE  /\ [request[q] EXCEPT !.overtaken = TRUE] \in RequestType
             /\ [request[q] EXCEPT !.overtaken = TRUE].step = request[q].step
             /\ [request[q] EXCEPT !.overtaken = TRUE].batch = BatchOf(q)
             /\ [request[q] EXCEPT !.overtaken = TRUE].overtaken = TRUE
  <2>1. request[q] \in OpenRequest \cup CountedRequest BY <1>2, LiveRequest
  <2>2. CASE request[q] \in OpenRequest
    BY <2>2 DEF OpenRequest, RequestType, BatchOf
  <2>3. CASE request[q] \in CountedRequest
    BY <2>3 DEF CountedRequest, RequestType, BatchOf
  <2> QED BY <2>1, <2>2, <2>3
<1>3. \A q \in Requests : request'[q] =
          IF q = r THEN next
          ELSE IF Live(q) /\ BatchOf(q) = BatchOf(r)
               THEN [request[q] EXCEPT !.overtaken = TRUE] ELSE request[q]
  BY DEF Overtakes
<1>4. \A q \in Requests : request'[q] \in RequestType BY <1>1, <1>2, <1>3
<1>5. request' \in [Requests -> RequestType] BY <1>4 DEF Overtakes
<1>6. request'[r] = next BY <1>3
<1>7. ASSUME NEW q \in Requests, q # r
      PROVE  \/ request'[q] = request[q] /\ (Live(q) => BatchOf(q) # BatchOf(r))
             \/ /\ Live(q) /\ request'[q].step # "none"
                /\ request'[q].batch = BatchOf(q)
                /\ request'[q].overtaken = TRUE
  <2>1. CASE Live(q) /\ BatchOf(q) = BatchOf(r)
    <3>1. request'[q] = [request[q] EXCEPT !.overtaken = TRUE] BY <1>3, <1>7, <2>1
    <3> QED BY <1>2, <2>1, <3>1 DEF Live
  <2>2. CASE ~(Live(q) /\ BatchOf(q) = BatchOf(r)) BY <1>3, <1>7, <2>2
  <2> QED BY <2>1, <2>2
<1> QED BY <1>5, <1>6, <1>7

LEMMA CreateBatchTypes ==
    ASSUME QueueTypeOK, NEW r \in Requests, NEW b \in Batches, NEW S, CreateBatch(r, b, S)
    PROVE  QueueTypeOK'
<1>1. PICK queued : /\ queued = {i \in ItemsOf(b, S) : ~AlreadyQueued(i[2])}
  OBVIOUS
<1>2. PICK status : status = IF queued = {} THEN "COMPLETED" ELSE "QUEUED"
  OBVIOUS
<1>3. PICK row : row = [NoItem EXCEPT !.status = "QUEUED", !.ripe = TRUE]
  OBVIOUS
<1>4. /\ item' = [i \in Items |-> IF i \in queued THEN row ELSE item[i]]
      /\ batch_status' = [batch_status EXCEPT ![b] = status]
      /\ request' = [request EXCEPT ![r] = Session("reading", b, status, NoCopy, FALSE)]
      /\ UNCHANGED <<worker, accepted, production, crashes, retries>>
  BY <1>1, <1>2, <1>3 DEF CreateBatch
<1>5. status \in StoredStatuses BY <1>2 DEF StoredStatuses
<1>6. row \in ItemRow BY <1>3 DEF NoItem, ItemRow, Active, Waiting
<1>7. Session("reading", b, status, NoCopy, FALSE) \in OpenRequest
  BY <1>5, NoCopyType, SessionType
<1>8. item' \in [Items -> ItemRow] BY <1>4, <1>6 DEF QueueTypeOK
<1>9. request' \in [Requests -> {NoRequest} \cup OpenRequest \cup CountedRequest]
  BY <1>4, <1>7 DEF QueueTypeOK
<1> QED BY <1>4, <1>5, <1>8, <1>9 DEF QueueTypeOK

LEMMA OpenBatchTypes ==
    ASSUME QueueTypeOK, NEW r \in Requests, NEW b \in Batches, OpenBatch(r, b)
    PROVE  QueueTypeOK'
<1>1. batch_status[b] \in StoredStatuses BY DEF OpenBatch, QueueTypeOK
<1>2. Session("opened", b, batch_status[b], NoCopy, FALSE) \in OpenRequest
  BY <1>1, NoCopyType, SessionType
<1> QED BY <1>2 DEF OpenBatch, QueueTypeOK

LEMMA CountItemsTypes ==
    ASSUME QueueTypeOK, NEW r \in Requests, CountItems(r)
    PROVE  QueueTypeOK'
<1>1. Live(r) BY DEF CountItems, RequestAt, Live
<1>2. PICK next : next = [step |-> "counted", batch |-> BatchOf(r),
                       seen |-> request[r].seen, overtaken |-> request[r].overtaken,
                       status |-> Counted(Seen(r), BatchOf(r))]
  OBVIOUS
<1>3. Counted(Seen(r), BatchOf(r)) \in StoredStatuses BY <1>1, LiveRequest, CountedValue
<1>4. next \in CountedRequest BY <1>1, <1>2, <1>3, LiveRequest DEF CountedRequest
<1>5. request' = [request EXCEPT ![r] = next] BY <1>2 DEF CountItems
<1> QED BY <1>4, <1>5 DEF CountItems, QueueTypeOK

LEMMA StoreStatusTypes ==
    ASSUME QueueTypeOK, NEW r \in Requests, StoreStatus(r)
    PROVE  QueueTypeOK'
<1>1. Live(r) BY DEF StoreStatus, RequestAt, Live
<1>2. request[r].status \in StoredStatuses BY <1>1, LiveRequest DEF StoreStatus
<1>3. UNCHANGED <<item, worker, accepted, production, crashes, retries>> BY DEF StoreStatus
<1>4. batch_status' \in [Batches -> StoredStatuses \cup {"ABSENT"}]
  BY <1>2 DEF StoreStatus, QueueTypeOK
<1>5. request' \in [Requests -> RequestType]
  <2>1. CASE request[r].status = request[r].seen
    BY <2>1 DEF StoreStatus, QueueTypeOK, RequestType
  <2>2. CASE request[r].status # request[r].seen
    <3>1. Overtakes(r, NoRequest) BY <2>2 DEF StoreStatus
    <3>2. NoRequest \in RequestType BY DEF RequestType
    <3> QED BY <1>1, <3>1, <3>2, OvertakesOthers
  <2> QED BY <2>1, <2>2
<1> QED BY <1>3, <1>4, <1>5 DEF QueueTypeOK, RequestType

LEMMA SelectFailedTypes ==
    ASSUME QueueTypeOK, NEW r \in Requests, NEW S, SelectFailed(r, S)
    PROVE  QueueTypeOK'
<1>1. Live(r) BY DEF SelectFailed, RequestAt, Live
<1>2. request[r] \in OpenRequest BY <1>1, LiveRequest DEF SelectFailed, RequestAt
<1>3. PICK copy : copy = [i \in Items |-> IF i \in FailedOf(BatchOf(r), S) THEN item[i]
                                          ELSE NoItem]
  OBVIOUS
<1>4. copy \in [Items -> ItemRow] BY <1>3 DEF QueueTypeOK, NoItem, ItemRow
<1>5. request' = [request EXCEPT ![r].step = "selected", ![r].copy = copy]
  BY <1>3 DEF SelectFailed
<1>6. [request[r] EXCEPT !.step = "selected", !.copy = copy] \in OpenRequest
  BY <1>2, <1>4 DEF OpenRequest
<1>7. request' = [request EXCEPT ![r] = [request[r] EXCEPT !.step = "selected",
                                                          !.copy = copy]]
  BY <1>5 DEF QueueTypeOK
<1>8. request' \in [Requests -> RequestType] BY <1>6, <1>7 DEF QueueTypeOK, RequestType
<1>9. retries' \in 0..MaxRetries BY QueueAssumption DEF SelectFailed, QueueTypeOK
<1> QED BY <1>8, <1>9 DEF SelectFailed, QueueTypeOK, RequestType

\* What a retry makes of rows.
LEMMA RequeuedValue ==
    ASSUME NEW row \in ItemRow, NEW read \in ItemRow
    PROVE  /\ Requeued(read) \in ItemRow
           /\ Requeued(read).status \in Waiting
           /\ RequeueWritten(row, read) \in ItemRow
           /\ RequeueWritten(row, read).status = Requeued(read).status
           /\ row = read => RequeueWritten(row, read).attempt_count = 0
           /\ RequeueWritten(row, read).delivery_payload = row.delivery_payload
<1>1. /\ Requeued(read) \in ItemRow
      /\ Requeued(read).status \in Waiting
      /\ Requeued(read).attempt_count = 0
  BY DEF Requeued, ItemRow, Active, Waiting
<1>2. PICK s \in Waiting, n \in Nat :
          /\ RequeueWritten(row, read) = [row EXCEPT !.status = s, !.attempt_count = n,
                                                     !.ripe = TRUE]
          /\ s = Requeued(read).status
          /\ row = read => n = 0
  BY <1>1 DEF RequeueWritten, ItemRow
<1>3. s \in Active BY DEF Active
<1> QED BY <1>1, <1>2, <1>3 DEF ItemRow

LEMMA CommitRetryTypes ==
    ASSUME QueueTypeOK, NEW r \in Requests, CommitRetry(r)
    PROVE  QueueTypeOK'
<1>1. Live(r) /\ ~RequestAt(r, "counted") BY DEF CommitRetry, RequestAt, Live
<1>2. PICK copy : copy = request[r].copy OBVIOUS
<1>3. copy \in [Items -> ItemRow] BY <1>1, <1>2, LiveRequest
<1>4. PICK again : again = [i \in Items |-> IF i \in Loaded(r) THEN Requeued(copy[i])
                                           ELSE NoItem]
  OBVIOUS
<1>5. again \in [Items -> ItemRow]
  BY <1>3, <1>4, RequeuedValue DEF NoItem, ItemRow
<1>6. /\ item' = [i \in Items |-> IF i \in Loaded(r) THEN RequeueWritten(item[i], copy[i])
                                  ELSE item[i]]
      /\ Overtakes(r, Session("reading", BatchOf(r), "QUEUED", again,
                              request[r].overtaken))
      /\ UNCHANGED <<worker, accepted, production, crashes, retries>>
  BY <1>2, <1>4 DEF CommitRetry
<1>7. item' \in [Items -> ItemRow] BY <1>3, <1>6, RequeuedValue DEF QueueTypeOK
<1>8. batch_status' \in [Batches -> StoredStatuses \cup {"ABSENT"}]
  BY DEF CommitRetry, QueueTypeOK, StoredStatuses
<1>9. "QUEUED" \in StoredStatuses BY DEF StoredStatuses
<1>10. Session("reading", BatchOf(r), "QUEUED", again, request[r].overtaken)
          \in RequestType
  BY <1>1, <1>5, <1>9, LiveRequest, SessionType DEF RequestType
<1>11. request' \in [Requests -> RequestType]
  BY <1>1, <1>6, <1>10, OvertakesOthers
<1> QED BY <1>6, <1>7, <1>8, <1>11 DEF QueueTypeOK, RequestType

LEMMA LeaveTypes ==
    ASSUME QueueTypeOK, NEW r \in Requests, Leave(r)
    PROVE  QueueTypeOK'
BY DEF Leave, QueueTypeOK

-----------------------------------------------------------------------------
(* What the worker and the clock leave of the types.                        *)

LEMMA ClaimTypes ==
    ASSUME QueueTypeOK, NEW w \in Workers, NEW i \in Items, Claim(w, i)
    PROVE  QueueTypeOK'
<1>1. item[i] \in ItemRow /\ item[i].attempt_count + 1 \in Nat BY DEF QueueTypeOK, ItemRow
<1>2. PICK s \in Active, n \in Nat :
         /\ item' = [item EXCEPT ![i] = [item[i] EXCEPT !.status = s, !.attempt_count = n,
                                                        !.ripe = FALSE]]
         /\ worker' = [worker EXCEPT ![w] = [step |-> "claimed", item |-> i,
                                             attempt_count |-> n]]
  BY <1>1 DEF Claim, QueueTypeOK, Active, InHand
<1>3. [item[i] EXCEPT !.status = s, !.attempt_count = n, !.ripe = FALSE] \in ItemRow
  BY <1>1 DEF ItemRow
<1>4. item' \in [Items -> ItemRow] BY <1>2, <1>3 DEF QueueTypeOK
<1>5. worker' \in [Workers -> {Idle} \cup [step : {"claimed", "accepted"}, item : Items,
                                          attempt_count : Nat]]
  BY <1>2 DEF QueueTypeOK
<1> QED BY <1>4, <1>5 DEF Claim, QueueTypeOK

LEMMA EndAttemptTypes ==
    ASSUME QueueTypeOK, NEW w \in Workers, NEW row \in ItemRow, EndAttempt(w, row),
           UNCHANGED accepted
    PROVE  QueueTypeOK'
BY DEF EndAttempt, QueueTypeOK

LEMMA ProviderAcceptsTypes ==
    ASSUME QueueTypeOK, NEW w \in Workers, ProviderAccepts(w)
    PROVE  QueueTypeOK'
<1>1. Busy(w) BY DEF ProviderAccepts, At, Busy
<1>2. worker[w] \in ClaimType BY <1>1, BusyWorker
<1>3. [worker[w] EXCEPT !.step = "accepted"] \in ClaimType BY <1>2 DEF ClaimType
<1>4. worker' = [worker EXCEPT ![w] = [worker[w] EXCEPT !.step = "accepted"]]
  BY DEF ProviderAccepts, QueueTypeOK
<1>5. worker' \in [Workers -> {Idle} \cup ClaimType]
  BY <1>3, <1>4 DEF QueueTypeOK, ClaimType
<1> QED BY <1>5 DEF ProviderAccepts, QueueTypeOK, ClaimType

LEMMA CrashTypes ==
    ASSUME QueueTypeOK, NEW w \in Workers, Crash(w)
    PROVE  QueueTypeOK'
BY QueueAssumption DEF Crash, QueueTypeOK

LEMMA RipenTypes ==
    ASSUME QueueTypeOK, NEW i \in Items, Ripen(i)
    PROVE  QueueTypeOK'
<1>1. [item[i] EXCEPT !.ripe = TRUE] \in ItemRow
  <2>1. PICK row \in ItemRow : row = item[i] BY DEF QueueTypeOK
  <2>2. [row EXCEPT !.ripe = TRUE] \in ItemRow BY DEF ItemRow
  <2> QED BY <2>1, <2>2
<1>2. item' = [item EXCEPT ![i] = [item[i] EXCEPT !.ripe = TRUE]]
  BY DEF Ripen, QueueTypeOK
<1> QED BY <1>1, <1>2 DEF Ripen, QueueTypeOK

\* The rows that the ends of an attempt leave.
LEMMA WorkTypes ==
    ASSUME QueueTypeOK, NEW w \in Workers, Work(w)
    PROVE  QueueTypeOK'
<1>1. Busy(w)
  BY DEF Work, ActorInactive, PayloadStored, PreparationFails, Prepared, ProviderAccepts,
     Sent, SendFails, At, Busy
<1>2. Row(w) \in RowType /\ worker[w].attempt_count \in Nat BY <1>1, BusyWorker
<1>3. RowType = ItemRow BY DEF RowType, ItemRow, Statuses
<1>4. \A retryable \in BOOLEAN :
          Failed(Row(w), worker[w].attempt_count, retryable) \in ItemRow
  BY <1>2, <1>3, FailedRow
<1>5. [Row(w) EXCEPT !.status = "RETRYING", !.delivery_payload = TRUE, !.ripe = TRUE]
         \in ItemRow
  BY <1>2, <1>3 DEF ItemRow, Active, Waiting
<1>6. [Row(w) EXCEPT !.status = "PREPARED", !.delivery_payload = FALSE, !.ripe = FALSE]
         \in ItemRow
  BY <1>2, <1>3 DEF ItemRow, Ended
<1>7. [Row(w) EXCEPT !.status = "SENT", !.delivery_payload = FALSE, !.ripe = FALSE]
         \in ItemRow
  BY <1>2, <1>3 DEF ItemRow, Ended
<1>8. CASE ActorInactive(w) BY <1>4, <1>8, EndAttemptTypes DEF ActorInactive
<1>9. CASE PayloadStored(w) BY <1>5, <1>9, EndAttemptTypes DEF PayloadStored
<1>10. CASE \E retryable \in BOOLEAN : PreparationFails(w, retryable)
  BY <1>4, <1>10, EndAttemptTypes DEF PreparationFails
<1>11. CASE Prepared(w) BY <1>6, <1>11, EndAttemptTypes DEF Prepared
<1>12. CASE Sent(w) BY <1>7, <1>12, EndAttemptTypes DEF Sent
<1>13. CASE SendFails(w) BY <1>4, <1>13, EndAttemptTypes DEF SendFails
<1> QED BY <1>8, <1>9, <1>10, <1>11, <1>12, <1>13, ProviderAcceptsTypes DEF Work

LEMMA QueueInitTypes ==
    ASSUME QueueInit
    PROVE  QueueTypeOK
BY QueueAssumption DEF QueueInit, QueueTypeOK, ItemRow, NoItem, Ended

LEMMA QueueNextTypes ==
    ASSUME QueueTypeOK, [QueueNext]_queueVars
    PROVE  QueueTypeOK'
<1>1. ASSUME NEW r \in Requests, RequestNext(r) PROVE QueueTypeOK'
  BY <1>1, OpenBatchTypes, CreateBatchTypes, SelectFailedTypes, CommitRetryTypes,
     CountItemsTypes, StoreStatusTypes, LeaveTypes DEF RequestNext
<1>2. ASSUME NEW w \in Workers, NEW i \in Items, Claim(w, i) PROVE QueueTypeOK'
  BY <1>2, ClaimTypes
<1>3. ASSUME NEW w \in Workers, Work(w) PROVE QueueTypeOK' BY <1>3, WorkTypes
<1>4. ASSUME NEW w \in Workers, Crash(w) PROVE QueueTypeOK' BY <1>4, CrashTypes
<1>5. ASSUME NEW i \in Items, Ripen(i) PROVE QueueTypeOK' BY <1>5, RipenTypes
<1>6. CASE UNCHANGED queueVars BY <1>6 DEF queueVars, QueueTypeOK
<1> QED BY <1>1, <1>2, <1>3, <1>4, <1>5, <1>6 DEF QueueNext

-----------------------------------------------------------------------------
(* What requests leave of the invariant.                                    *)

\* A session keeps what it knows while the rows of its batch stay as they are.
LEMMA SessionKept ==
    ASSUME QueueTypeOK, RequestsAgree, NEW q \in Requests, Live(q),
           request'[q] = request[q],
           batch_status'[BatchOf(q)] = batch_status[BatchOf(q)],
           \A i \in Items : i[1] = BatchOf(q) => item'[i] = item[i]
    PROVE  /\ batch_status'[BatchOf(q)'] # "ABSENT"
           /\ ~request'[q].overtaken
                 => ReadAgrees(request'[q], batch_status'[BatchOf(q)'], item')
<1>1. BatchOf(q)' = BatchOf(q) BY DEF BatchOf
<1>2. /\ batch_status[BatchOf(q)] # "ABSENT"
      /\ ~request[q].overtaken => ReadAgrees(request[q], batch_status[BatchOf(q)], item)
  BY DEF RequestsAgree
<1>3. request[q].batch = BatchOf(q) BY DEF BatchOf
<1>4. ASSUME ReadAgrees(request[q], batch_status[BatchOf(q)], item)
      PROVE  ReadAgrees(request[q], batch_status[BatchOf(q)], item')
  BY <1>3, <1>4 DEF ReadAgrees, DoneAgrees
<1> QED BY <1>1, <1>2, <1>4

\* It keeps it, too, while the workers and the clock change rows that are on their way.
LEMMA SessionsKept ==
    ASSUME QueueTypeOK, RequestsAgree, UNCHANGED <<request, batch_status>>,
           \A i \in Items : item[i].status \notin Active => item'[i] = item[i]
    PROVE  RequestsAgree'
<1> SUFFICES ASSUME NEW q \in Requests, Live(q)
             PROVE  /\ batch_status[BatchOf(q)] # "ABSENT"
                    /\ ~request[q].overtaken
                          => ReadAgrees(request[q], batch_status[BatchOf(q)], item')
  BY DEF RequestsAgree, Live, BatchOf
<1>1. /\ batch_status[BatchOf(q)] # "ABSENT"
      /\ ~request[q].overtaken => ReadAgrees(request[q], batch_status[BatchOf(q)], item)
  BY DEF RequestsAgree
<1>2. "FAILED" \notin Active BY DEF Active, Waiting, InHand
<1>3. ASSUME ReadAgrees(request[q], batch_status[BatchOf(q)], item)
      PROVE  ReadAgrees(request[q], batch_status[BatchOf(q)], item')
  <2>1. DoneAgrees(request[q].status, item, request[q].batch)
           => DoneAgrees(request[q].status, item', request[q].batch)
    BY DEF DoneAgrees
  <2>2. \A i \in Items : item[i].status = "FAILED" => item'[i] = item[i] BY <1>2
  <2> QED BY <1>3, <2>1, <2>2 DEF ReadAgrees
<1> QED BY <1>1, <1>3

\* All but the sessions stay as they are.
LEMMA RowsKept ==
    ASSUME QueueInv, UNCHANGED <<item, batch_status, worker, accepted, production, crashes>>
    PROVE  /\ OneWorker' /\ RowsAgree' /\ HandsAgree' /\ AttemptsAgree' /\ BatchesAgree'
BY DEF QueueInv, OneWorker, RowsAgree, RowAgrees, HandsAgree, AttemptsAgree, AttemptsOf,
       Held, Busy, At, BatchesAgree, BatchAgrees, DoneAgrees

\* A step of request r that changes no row, and leaves its own session agreeing.
LEMMA OwnSessionStep ==
    ASSUME QueueInv, NEW r \in Requests,
           UNCHANGED <<item, batch_status, worker, accepted, production, crashes>>,
           QueueTypeOK',
           \A q \in Requests : q # r => request'[q] = request[q],
           Live(r)' => /\ batch_status[BatchOf(r)'] # "ABSENT"
                       /\ ~request'[r].overtaken
                             => ReadAgrees(request'[r], batch_status[BatchOf(r)'], item)
    PROVE  QueueInv'
<1>1. RequestsAgree'
  <2> SUFFICES ASSUME NEW q \in Requests, Live(q)'
               PROVE  /\ batch_status'[BatchOf(q)'] # "ABSENT"
                      /\ ~request'[q].overtaken
                            => ReadAgrees(request'[q], batch_status'[BatchOf(q)'], item')
    BY DEF RequestsAgree
  <2>1. CASE q = r BY <2>1
  <2>2. CASE q # r
    <3>1. request'[q] = request[q] BY <2>2
    <3>2. Live(q) BY <3>1 DEF Live
    <3> QED BY <3>1, <3>2, SessionKept DEF QueueInv
  <2> QED BY <2>1, <2>2
<1> QED BY <1>1, RowsKept DEF QueueInv

LEMMA OpenBatchStep ==
    ASSUME QueueInv, NEW r \in Requests, NEW b \in Batches, OpenBatch(r, b)
    PROVE  QueueInv'
<1>1. QueueTypeOK' BY OpenBatchTypes DEF QueueInv
<1>2. batch_status[b] \in StoredStatuses BY DEF OpenBatch, QueueInv, QueueTypeOK
<1>3. PICK next : next = Session("opened", b, batch_status[b], NoCopy, FALSE) OBVIOUS
<1>4. /\ next.step = "opened" /\ next.batch = b /\ next.seen = batch_status[b]
      /\ next.copy = NoCopy
  BY <1>3 DEF Session
<1>5. request' = [request EXCEPT ![r] = next] BY <1>3 DEF OpenBatch
<1>6. /\ request'[r] = next
      /\ \A q \in Requests : q # r => request'[q] = request[q]
  BY <1>5 DEF QueueInv, QueueTypeOK
<1>7. ReadAgrees(next, batch_status[b], item) BY <1>4, NoCopyType DEF ReadAgrees
<1>8. BatchOf(r)' = b BY <1>4, <1>6 DEF BatchOf
<1> QED BY <1>1, <1>6, <1>7, <1>8, OwnSessionStep DEF OpenBatch

LEMMA LeaveStep ==
    ASSUME QueueInv, NEW r \in Requests, Leave(r)
    PROVE  QueueInv'
<1>1. QueueTypeOK' BY LeaveTypes DEF QueueInv
<1>2. /\ request'[r] = NoRequest
      /\ \A q \in Requests : q # r => request'[q] = request[q]
  BY DEF Leave, QueueInv, QueueTypeOK
<1>3. ~Live(r)' BY <1>2 DEF Live, NoRequest
<1> QED BY <1>1, <1>2, <1>3, OwnSessionStep DEF Leave

LEMMA SelectFailedStep ==
    ASSUME QueueInv, NEW r \in Requests, NEW S, SelectFailed(r, S)
    PROVE  QueueInv'
<1>1. QueueTypeOK' BY SelectFailedTypes DEF QueueInv
<1>2. Live(r) BY DEF SelectFailed, RequestAt, Live
<1>3. request[r] \in OpenRequest
  BY <1>2, LiveRequest DEF QueueInv, SelectFailed, RequestAt
<1>4. PICK copy : copy = [i \in Items |-> IF i \in FailedOf(BatchOf(r), S) THEN item[i]
                                          ELSE NoItem]
  OBVIOUS
<1>5. PICK next : next = [request[r] EXCEPT !.step = "selected", !.copy = copy]
  OBVIOUS
<1>6. /\ next.step = "selected" /\ next.batch = BatchOf(r)
      /\ next.seen = request[r].seen /\ next.overtaken = request[r].overtaken
      /\ next.copy = copy
  BY <1>3, <1>5 DEF OpenRequest, BatchOf
<1>7. request' = [request EXCEPT ![r] = next]
  <2>1. request' = [request EXCEPT ![r].step = "selected", ![r].copy = copy]
    BY <1>4 DEF SelectFailed
  <2> QED BY <1>5, <2>1 DEF QueueInv, QueueTypeOK
<1>8. /\ request'[r] = next
      /\ \A q \in Requests : q # r => request'[q] = request[q]
  BY <1>7 DEF QueueInv, QueueTypeOK
<1>9. /\ batch_status[BatchOf(r)] # "ABSENT"
      /\ ~request[r].overtaken => request[r].seen = batch_status[BatchOf(r)]
  BY <1>2 DEF QueueInv, RequestsAgree, ReadAgrees
<1>10. \A i \in Items : copy[i] # NoItem =>
           i[1] = BatchOf(r) /\ item[i] = copy[i] /\ item[i].status = "FAILED"
  BY <1>4 DEF FailedOf, ItemsOf
<1>11. ~next.overtaken => ReadAgrees(next, batch_status[BatchOf(r)], item)
  BY <1>6, <1>9, <1>10 DEF ReadAgrees
<1>12. BatchOf(r)' = BatchOf(r) BY <1>6, <1>8 DEF BatchOf
<1> QED BY <1>1, <1>8, <1>9, <1>11, <1>12, OwnSessionStep DEF SelectFailed

LEMMA CountItemsStep ==
    ASSUME QueueInv, NEW r \in Requests, CountItems(r)
    PROVE  QueueInv'
<1>1. QueueTypeOK' BY CountItemsTypes DEF QueueInv
<1>2. Live(r) BY DEF CountItems, RequestAt, Live
<1>3. PICK c : c = Counted(Seen(r), BatchOf(r)) OBVIOUS
<1>4. PICK b : b = BatchOf(r) OBVIOUS
<1>5. PICK next : next = [step |-> "counted", batch |-> b, seen |-> request[r].seen,
                          overtaken |-> request[r].overtaken, status |-> c]
  OBVIOUS
<1>6. request' = [request EXCEPT ![r] = next] BY <1>3, <1>4, <1>5 DEF CountItems
<1>7. /\ request'[r] = next
      /\ \A q \in Requests : q # r => request'[q] = request[q]
  BY <1>6 DEF QueueInv, QueueTypeOK
<1>8. /\ batch_status[b] # "ABSENT"
      /\ ~request[r].overtaken => ReadAgrees(request[r], batch_status[b], item)
  BY <1>2, <1>4 DEF QueueInv, RequestsAgree
<1>9. b \in Batches BY <1>2, <1>4, LiveRequest DEF QueueInv
<1>10. ASSUME ~request[r].overtaken PROVE DoneAgrees(c, item, b)
  <2>1. DoneAgrees(c, Seen(r), b) BY <1>3, <1>4, <1>9, CountedValue
  <2>2. \A i \in Items : request[r].copy[i] # NoItem =>
            i[1] = b /\ request[r].copy[i].status \in Active
    BY <1>4, <1>8, <1>10 DEF ReadAgrees, CountItems, RequestAt, BatchOf, Active
  <2>3. \A i \in Items : Seen(r)[i] = IF request[r].copy[i] # NoItem
                                      THEN request[r].copy[i] ELSE item[i]
    BY DEF Seen, Loaded
  <2> QED BY <2>1, <2>2, <2>3 DEF DoneAgrees
<1>11. /\ next.step = "counted" /\ next.batch = b /\ next.seen = request[r].seen
       /\ next.overtaken = request[r].overtaken /\ next.status = c
  BY <1>5
<1>12. ~next.overtaken => ReadAgrees(next, batch_status[b], item)
  BY <1>8, <1>10, <1>11 DEF ReadAgrees
<1>13. BatchOf(r)' = b BY <1>7, <1>11 DEF BatchOf
<1> QED BY <1>1, <1>7, <1>8, <1>12, <1>13, OwnSessionStep DEF CountItems

\* The other sessions, when request r changed its batch and overtook them.
LEMMA OthersOvertaken ==
    ASSUME QueueInv, NEW r \in Requests, Live(r), NEW next \in RequestType,
           Overtakes(r, next),
           batch_status'[BatchOf(r)] # "ABSENT",
           \A c \in Batches : c # BatchOf(r) => batch_status'[c] = batch_status[c],
           \A i \in Items : i[1] # BatchOf(r) => item'[i] = item[i],
           NEW q \in Requests, q # r, Live(q)'
    PROVE  /\ batch_status'[BatchOf(q)'] # "ABSENT"
           /\ ~request'[q].overtaken
                 => ReadAgrees(request'[q], batch_status'[BatchOf(q)'], item')
<1>1. CASE request'[q] = request[q] /\ (Live(q) => BatchOf(q) # BatchOf(r))
  <2>1. Live(q) BY <1>1 DEF Live
  <2>2. BatchOf(q) \in Batches /\ BatchOf(q) # BatchOf(r)
    BY <1>1, <2>1, LiveRequest DEF QueueInv
  <2>3. batch_status'[BatchOf(q)] = batch_status[BatchOf(q)] BY <2>2
  <2>4. \A i \in Items : i[1] = BatchOf(q) => item'[i] = item[i] BY <2>2
  <2> QED BY <1>1, <2>1, <2>3, <2>4, SessionKept DEF QueueInv
<1>2. CASE /\ Live(q) /\ request'[q].step # "none"
           /\ request'[q].batch = BatchOf(q)
           /\ request'[q].overtaken = TRUE
  <2>1. BatchOf(q)' = BatchOf(q) BY <1>2 DEF BatchOf
  <2>2. BatchOf(q) \in Batches /\ batch_status[BatchOf(q)] # "ABSENT"
    BY <1>2, LiveRequest DEF QueueInv, RequestsAgree
  <2>3. batch_status'[BatchOf(q)] # "ABSENT" BY <2>2
  <2> QED BY <1>2, <2>1, <2>3
<1> QED BY <1>1, <1>2, OvertakesOthers DEF QueueInv

LEMMA StoreStatusStep ==
    ASSUME ~Overtaken, QueueInv, NEW r \in Requests, StoreStatus(r)
    PROVE  QueueInv'
<1> USE DEF QueueInv
<1>1. QueueTypeOK' BY StoreStatusTypes
<1>2. Live(r) /\ ~request[r].overtaken
  BY LiveRequest DEF StoreStatus, RequestAt, Live, MayCommit
<1>3. PICK b : b = BatchOf(r) OBVIOUS
<1>4. PICK c : c = request[r].status OBVIOUS
<1>5. /\ b \in Batches
      /\ c \in StoredStatuses
      /\ c # "ABSENT"
      /\ request[r].seen = batch_status[b]
      /\ DoneAgrees(c, item, b)
  BY <1>2, <1>3, <1>4, LiveRequest
     DEF RequestsAgree, ReadAgrees, StoreStatus, RequestAt, BatchOf, StoredStatuses
<1>6. CASE c = batch_status[b]
  <2>1. /\ request'[r] = NoRequest
        /\ \A q \in Requests : q # r => request'[q] = request[q]
        /\ UNCHANGED <<item, batch_status, worker, accepted, production, crashes>>
    BY <1>4, <1>5, <1>6 DEF StoreStatus, QueueTypeOK
  <2>2. ~Live(r)' BY <2>1 DEF Live, NoRequest
  <2> QED BY <1>1, <2>1, <2>2, OwnSessionStep
<1>7. CASE c # batch_status[b]
  <2>1. /\ batch_status' = [batch_status EXCEPT ![b] = c]
        /\ Overtakes(r, NoRequest)
        /\ UNCHANGED <<item, worker, accepted, production, crashes, retries>>
    BY <1>3, <1>4, <1>5, <1>7 DEF StoreStatus
  <2>2. /\ batch_status'[b] = c
        /\ \A d \in Batches : d # b => batch_status'[d] = batch_status[d]
    BY <1>5, <2>1 DEF QueueTypeOK
  <2>3. OneWorker' /\ RowsAgree' /\ HandsAgree' /\ AttemptsAgree'
    BY <2>1 DEF OneWorker, RowsAgree, RowAgrees, HandsAgree, AttemptsAgree, AttemptsOf,
                Held, Busy, At
  <2>4. BatchesAgree'
    <3> SUFFICES ASSUME NEW d \in Batches
                 PROVE  BatchAgrees(batch_status'[d], item, d)
      BY <2>1 DEF BatchesAgree
    <3>1. CASE d = b BY <1>5, <2>2, <3>1 DEF BatchAgrees
    <3>2. CASE d # b BY <2>2, <3>2 DEF BatchesAgree
    <3> QED BY <3>1, <3>2
  <2>5. NoRequest \in RequestType BY DEF RequestType
  <2>6. request'[r] = NoRequest BY <1>2, <2>1, <2>5, OvertakesOthers
  <2>7. ~Live(r)' BY <2>6 DEF Live, NoRequest
  <2>8. RequestsAgree'
    <3> SUFFICES ASSUME NEW q \in Requests, Live(q)'
                 PROVE  /\ batch_status'[BatchOf(q)'] # "ABSENT"
                        /\ ~request'[q].overtaken
                              => ReadAgrees(request'[q], batch_status'[BatchOf(q)'], item')
      BY DEF RequestsAgree
    <3>1. q # r BY <2>7
    <3>2. batch_status'[BatchOf(r)] # "ABSENT" BY <1>3, <1>5, <2>2
    <3>3. \A d \in Batches : d # BatchOf(r) => batch_status'[d] = batch_status[d]
      BY <1>3, <2>2
    <3>4. \A i \in Items : i[1] # BatchOf(r) => item'[i] = item[i] BY <2>1
    <3> QED BY <1>2, <2>1, <2>5, <3>1, <3>2, <3>3, <3>4, OthersOvertaken
  <2> QED BY <1>1, <2>3, <2>4, <2>8
<1> QED BY <1>6, <1>7

\* Rows that were absent or failed, and now wait with no attempt: what they, the workers
\* and the counters owe each other.
LEMMA QueuedRows ==
    ASSUME QueueInv,
           UNCHANGED <<worker, accepted, production, crashes>>,
           \A i \in Items :
              item'[i] # item[i] =>
                 /\ item[i].status \in {"ABSENT", "FAILED"}
                 /\ item'[i].status \in Waiting
                 /\ item'[i].attempt_count = 0
                 /\ item'[i].delivery_payload = item[i].delivery_payload
    PROVE  OneWorker' /\ RowsAgree' /\ HandsAgree' /\ AttemptsAgree'
<1> USE DEF QueueInv
<1>1. OneWorker' BY DEF OneWorker, Busy
<1>2. RowsAgree'
  <2> SUFFICES ASSUME NEW i \in Items PROVE RowAgrees(item'[i], accepted[i])
    BY DEF RowsAgree, RowAgrees
  <2>1. RowAgrees(item[i], accepted[i]) BY DEF RowsAgree
  <2>2. CASE item'[i] = item[i] BY <2>1, <2>2
  <2>3. CASE item'[i] # item[i] BY <2>1, <2>3 DEF RowAgrees, Waiting
  <2> QED BY <2>2, <2>3
<1>3. HandsAgree'
  <2> SUFFICES ASSUME NEW w \in Workers, Busy(w)
               PROVE  /\ item'[worker[w].item].status \in InHand
                      /\ item'[worker[w].item].attempt_count = worker[w].attempt_count
                      /\ At(w, "accepted") => accepted[worker[w].item]
    BY DEF HandsAgree, Busy, At
  <2>1. worker[w].item \in Items BY BusyWorker
  <2>2. item[worker[w].item].status \in InHand BY DEF HandsAgree
  <2>3. item'[worker[w].item] = item[worker[w].item] BY <2>1, <2>2 DEF InHand
  <2> QED BY <2>3 DEF HandsAgree
<1>4. AttemptsAgree'
  <2> SUFFICES ASSUME NEW i \in Items
               PROVE  AttemptsOf(item'[i], Held(i), crashes)
    BY DEF AttemptsAgree, AttemptsOf, Held, Busy
  <2>1. CASE item'[i] = item[i] BY <2>1 DEF AttemptsAgree
  <2>2. CASE item'[i] # item[i]
    BY <2>2, QueueAssumption DEF AttemptsOf, QueueTypeOK, Waiting
  <2> QED BY <2>1, <2>2
<1> QED BY <1>1, <1>2, <1>3, <1>4

LEMMA CreateBatchStep ==
    ASSUME QueueInv, NEW r \in Requests, NEW b \in Batches, NEW S, CreateBatch(r, b, S)
    PROVE  QueueInv'
<1> USE DEF QueueInv
<1>1. QueueTypeOK' BY CreateBatchTypes
<1>2. PICK queued : queued = {i \in ItemsOf(b, S) : ~AlreadyQueued(i[2])} OBVIOUS
<1>3. PICK s : s = IF queued = {} THEN "COMPLETED" ELSE "QUEUED" OBVIOUS
<1>4. PICK row : row = [NoItem EXCEPT !.status = "QUEUED", !.ripe = TRUE] OBVIOUS
<1>5. PICK next : next = Session("reading", b, s, NoCopy, FALSE) OBVIOUS
<1>6. /\ batch_status[b] = "ABSENT"
      /\ item' = [i \in Items |-> IF i \in queued THEN row ELSE item[i]]
      /\ batch_status' = [batch_status EXCEPT ![b] = s]
      /\ request' = [request EXCEPT ![r] = next]
      /\ UNCHANGED <<worker, accepted, production, crashes, retries>>
  BY <1>2, <1>3, <1>4, <1>5 DEF CreateBatch
<1>7. /\ row.status = "QUEUED" /\ row.attempt_count = 0 /\ row.delivery_payload = FALSE
  BY <1>4 DEF NoItem
<1>8. \A i \in queued : i \in Items /\ i[1] = b BY <1>2 DEF ItemsOf
<1>9. \A i \in Items : i[1] = b => item[i].status = "ABSENT"
  BY <1>6 DEF BatchesAgree, BatchAgrees
<1>10. \A i \in queued : item[i].delivery_payload = FALSE
  BY <1>8, <1>9 DEF RowsAgree, RowAgrees, QueueTypeOK, ItemRow
<1>11. \A i \in Items : item'[i] = IF i \in queued THEN row ELSE item[i] BY <1>6
<1>12. \A i \in Items :
          item'[i] # item[i] =>
             /\ item[i].status \in {"ABSENT", "FAILED"}
             /\ item'[i].status \in Waiting
             /\ item'[i].attempt_count = 0
             /\ item'[i].delivery_payload = item[i].delivery_payload
  BY <1>7, <1>8, <1>9, <1>10, <1>11 DEF Waiting
<1>13. OneWorker' /\ RowsAgree' /\ HandsAgree' /\ AttemptsAgree'
  BY <1>6, <1>12, QueuedRows
<1>14. /\ batch_status'[b] = s
       /\ \A c \in Batches : c # b => batch_status'[c] = batch_status[c]
  BY <1>6 DEF QueueTypeOK
<1>15. \A i \in Items : i[1] # b => item'[i] = item[i] BY <1>8, <1>11
<1>16. BatchesAgree'
  <2> SUFFICES ASSUME NEW c \in Batches PROVE BatchAgrees(batch_status'[c], item', c)
    BY DEF BatchesAgree
  <2>1. CASE c = b
    <3>1. queued = {} => \A i \in Items : item'[i] = item[i] BY <1>11
    <3> QED BY <1>3, <1>9, <1>14, <2>1, <3>1
        DEF BatchAgrees, DoneAgrees, Active, Waiting, InHand
  <2>2. CASE c # b
    BY <1>14, <1>15, <2>2 DEF BatchesAgree, BatchAgrees, DoneAgrees
  <2> QED BY <2>1, <2>2
<1>17. /\ request'[r] = next
       /\ \A q \in Requests : q # r => request'[q] = request[q]
  BY <1>6 DEF QueueTypeOK
<1>18. s \in StoredStatuses BY <1>3 DEF StoredStatuses
<1>19. /\ next.step = "reading" /\ next.batch = b /\ next.seen = s /\ next.copy = NoCopy
  BY <1>5 DEF Session
<1>20. RequestsAgree'
  <2> SUFFICES ASSUME NEW q \in Requests, Live(q)'
               PROVE  /\ batch_status'[BatchOf(q)'] # "ABSENT"
                      /\ ~request'[q].overtaken
                            => ReadAgrees(request'[q], batch_status'[BatchOf(q)'], item')
    BY DEF RequestsAgree
  <2>1. CASE q = r
    <3>1. BatchOf(q)' = b BY <1>17, <1>19, <2>1 DEF BatchOf
    <3>2. ReadAgrees(next, s, item') BY <1>19, NoCopyType DEF ReadAgrees
    <3> QED BY <1>3, <1>14, <1>17, <2>1, <3>1, <3>2
  <2>2. CASE q # r
    <3>1. request'[q] = request[q] BY <1>17, <2>2
    <3>2. Live(q) BY <3>1 DEF Live
    <3>3. BatchOf(q) \in Batches /\ BatchOf(q) # b
      BY <1>6, <3>2, LiveRequest DEF RequestsAgree
    <3>4. batch_status'[BatchOf(q)] = batch_status[BatchOf(q)] BY <1>14, <3>3
    <3>5. \A i \in Items : i[1] = BatchOf(q) => item'[i] = item[i] BY <1>15, <3>3
    <3> QED BY <3>1, <3>2, <3>4, <3>5, SessionKept
  <2> QED BY <2>1, <2>2
<1> QED BY <1>1, <1>13, <1>16, <1>20

\* What a retry that was not overtaken commits: its rows were failed as it read them.
LEMMA RetriedRows ==
    ASSUME ~Overtaken, QueueInv, NEW r \in Requests, CommitRetry(r)
    PROVE  \A i \in Items :
              /\ item'[i] # item[i] => i \in Loaded(r)
              /\ i \in Loaded(r) =>
                    /\ i[1] = BatchOf(r)
                    /\ item[i].status = "FAILED"
                    /\ item'[i].status \in Waiting
                    /\ item'[i].attempt_count = 0
                    /\ item'[i].delivery_payload = item[i].delivery_payload
<1> USE DEF QueueInv
<1>1. /\ Live(r) /\ ~request[r].overtaken
      /\ RequestAt(r, "selected") /\ ~RequestAt(r, "counted")
  BY LiveRequest DEF CommitRetry, RequestAt, Live, MayCommit
<1>2. PICK copy : copy = request[r].copy OBVIOUS
<1>3. copy \in [Items -> ItemRow] BY <1>1, <1>2, LiveRequest
<1>4. \A i \in Items : copy[i] # NoItem =>
          /\ i[1] = BatchOf(r) /\ item[i] = copy[i] /\ item[i].status = "FAILED"
  BY <1>1, <1>2 DEF RequestsAgree, ReadAgrees, RequestAt, BatchOf
<1>5. \A i \in Items : i \in Loaded(r) <=> copy[i] # NoItem BY <1>2 DEF Loaded
<1>6. \A i \in Items : item'[i] = IF i \in Loaded(r) THEN RequeueWritten(item[i], copy[i])
                                  ELSE item[i]
  BY <1>2 DEF CommitRetry
<1>7. \A i \in Items : item[i] \in ItemRow BY DEF QueueTypeOK
<1> QED BY <1>3, <1>4, <1>5, <1>6, <1>7, RequeuedValue

LEMMA CommitRetryStep ==
    ASSUME ~Overtaken, QueueInv, NEW r \in Requests, CommitRetry(r)
    PROVE  QueueInv'
<1> USE DEF QueueInv
<1>1. QueueTypeOK' BY CommitRetryTypes
<1>2. /\ Live(r) /\ ~request[r].overtaken
      /\ RequestAt(r, "selected") /\ ~RequestAt(r, "counted")
  BY LiveRequest DEF CommitRetry, RequestAt, Live, MayCommit
<1>3. PICK b : b = BatchOf(r) OBVIOUS
<1>4. b \in Batches /\ request[r].seen = batch_status[b]
  BY <1>2, <1>3, LiveRequest DEF RequestsAgree, ReadAgrees
<1>5. PICK copy : copy = request[r].copy OBVIOUS
<1>6. PICK again : again = [i \in Items |-> IF i \in Loaded(r) THEN Requeued(copy[i])
                                           ELSE NoItem]
  OBVIOUS
<1>7. PICK next : next = Session("reading", b, "QUEUED", again, request[r].overtaken)
  OBVIOUS
<1>8. /\ Overtakes(r, next)
      /\ UNCHANGED <<worker, accepted, production, crashes, retries>>
  BY <1>3, <1>5, <1>6, <1>7 DEF CommitRetry
<1>9. copy \in [Items -> ItemRow] BY <1>2, <1>5, LiveRequest
<1>10. again \in [Items -> ItemRow]
  BY <1>6, <1>9, RequeuedValue DEF NoItem, ItemRow
<1>11. "QUEUED" \in StoredStatuses BY DEF StoredStatuses
<1>12. /\ next \in RequestType
       /\ next.step = "reading" /\ next.batch = b /\ next.seen = "QUEUED"
       /\ next.copy = again
  BY <1>2, <1>4, <1>7, <1>10, <1>11, LiveRequest, SessionType DEF RequestType
<1>13. OneWorker' /\ RowsAgree' /\ HandsAgree' /\ AttemptsAgree'
  BY <1>8, RetriedRows, QueuedRows
<1>14. /\ batch_status'[b] = "QUEUED"
       /\ \A c \in Batches : c # b => batch_status'[c] = batch_status[c]
  BY <1>3, <1>4 DEF CommitRetry, QueueTypeOK
<1>15. \A i \in Items : i[1] # b => item'[i] = item[i] BY <1>3, RetriedRows
<1>16. BatchesAgree'
  <2> SUFFICES ASSUME NEW c \in Batches PROVE BatchAgrees(batch_status'[c], item', c)
    BY DEF BatchesAgree
  <2>1. CASE c = b BY <1>14, <2>1 DEF BatchAgrees, DoneAgrees
  <2>2. CASE c # b
    BY <1>14, <1>15, <2>2 DEF BatchesAgree, BatchAgrees, DoneAgrees
  <2> QED BY <2>1, <2>2
<1>17. request'[r] = next BY <1>2, <1>8, <1>12, OvertakesOthers
<1>18. ReadAgrees(next, "QUEUED", item')
  <2>1. \A i \in Items : again[i] # NoItem => i[1] = b /\ again[i].status \in Waiting
    BY <1>3, <1>6, <1>9, RetriedRows, RequeuedValue
  <2> QED BY <1>12, <2>1 DEF ReadAgrees
<1>19. RequestsAgree'
  <2> SUFFICES ASSUME NEW q \in Requests, Live(q)'
               PROVE  /\ batch_status'[BatchOf(q)'] # "ABSENT"
                      /\ ~request'[q].overtaken
                            => ReadAgrees(request'[q], batch_status'[BatchOf(q)'], item')
    BY DEF RequestsAgree
  <2>1. CASE q = r
    <3>1. BatchOf(q)' = b BY <1>12, <1>17, <2>1 DEF BatchOf
    <3> QED BY <1>14, <1>17, <1>18, <2>1, <3>1
  <2>2. CASE q # r
    <3>1. batch_status'[BatchOf(r)] # "ABSENT" BY <1>3, <1>14
    <3>2. \A d \in Batches : d # BatchOf(r) => batch_status'[d] = batch_status[d]
      BY <1>3, <1>14
    <3>3. \A i \in Items : i[1] # BatchOf(r) => item'[i] = item[i] BY <1>3, <1>15
    <3> QED BY <1>2, <1>8, <1>12, <2>2, <3>1, <3>2, <3>3, OthersOvertaken
  <2> QED BY <2>1, <2>2
<1> QED BY <1>1, <1>13, <1>16, <1>19

-----------------------------------------------------------------------------
(* The worker and the clock.                                                *)

LEMMA ClaimStep ==
    ASSUME QueueInv, NEW w \in Workers, NEW i \in Items, Claim(w, i)
    PROVE  QueueInv'
<1> USE DEF QueueInv
<1> DEFINE s == IF item[i].delivery_payload THEN "SENDING" ELSE "PROCESSING"
           n == item[i].attempt_count + 1
           row == ClaimedRow(item[i], s, n)
<1>1. item[i] \in RowType BY DEF QueueTypeOK, ItemRow, RowType, Statuses
<1>2. /\ row \in RowType
      /\ row.status = s
      /\ row.attempt_count = n
      /\ row.delivery_payload = item[i].delivery_payload
  <2>1. s \in Statuses /\ n \in Nat
    BY <1>1 DEF RowType, Statuses, Active, InHand
  <2> HIDE DEF s, n
  <2> QED BY <1>1, <2>1, ClaimedRowValue
<1>3. item' = [item EXCEPT ![i] = row] BY <1>1 DEF Claim, ClaimedRow, QueueTypeOK
<1>4. /\ item[i].status \in Active
      /\ \A v \in Workers : ~Busy(v)
      /\ worker' = [worker EXCEPT ![w] = [step |-> "claimed", item |-> i,
                                          attempt_count |-> n]]
      /\ UNCHANGED <<batch_status, request, accepted, production, crashes, retries>>
  BY DEF Claim, Claimable, LockFree, Busy
<1> HIDE DEF row
<1>5. /\ item'[i] = row
      /\ \A j \in Items \ {i} : item'[j] = item[j]
      /\ worker'[w] = [step |-> "claimed", item |-> i, attempt_count |-> n]
      /\ \A v \in Workers \ {w} : worker'[v] = worker[v]
  BY <1>3, <1>4 DEF QueueTypeOK
<1>6. QueueTypeOK' BY ClaimTypes
<1>7. \A v \in Workers : Busy(v)' => v = w BY <1>4, <1>5 DEF Busy
<1>8. OneWorker' BY <1>7 DEF OneWorker
<1>9. RowsAgree'
  <2>1. RowAgrees(row, accepted[i])
    BY <1>2, <1>4 DEF RowsAgree, RowAgrees, Active, Waiting, InHand
  <2> QED BY <1>4, <1>5, <2>1 DEF RowsAgree, RowAgrees
<1>10. HandsAgree' BY <1>2, <1>4, <1>5, <1>7 DEF HandsAgree, At, InHand, Busy
<1>11. AttemptsAgree'
  <2>1. AttemptsOf(row, TRUE, crashes)
    <3>1. /\ AttemptsOf(item[i], FALSE, crashes)
          /\ RowAgrees(item[i], accepted[i])
          /\ item[i].attempt_count \in Nat /\ crashes \in Nat
      BY <1>1, <1>4 DEF AttemptsAgree, AttemptsOf, Held, RowsAgree, QueueTypeOK, RowType
    <3> QED BY <1>2, <1>4, <3>1, QueueAssumption
        DEF AttemptsOf, RowAgrees, Active, Waiting, InHand
  <2>2. \A j \in Items \ {i} : AttemptsOf(item[j], FALSE, crashes)
    BY <1>4 DEF AttemptsAgree, Held
  <2>3. Held(i)' BY <1>5 DEF Held, Busy
  <2>4. \A j \in Items \ {i} : ~Held(j)' BY <1>5, <1>7 DEF Held
  <2>5. ASSUME NEW j \in Items PROVE AttemptsOf(item[j], Held(j), crashes)'
    <3>1. CASE j = i BY <1>4, <1>5, <2>1, <2>3, <3>1 DEF AttemptsOf
    <3>2. CASE j # i BY <1>4, <1>5, <2>2, <2>4, <3>2 DEF AttemptsOf
    <3> QED BY <3>1, <3>2
  <2> QED BY <2>5 DEF AttemptsAgree
<1>12. BatchesAgree'
  BY <1>2, <1>4, <1>5
     DEF BatchesAgree, BatchAgrees, DoneAgrees, Active, Waiting, InHand
<1>13. RequestsAgree' BY <1>4, <1>5, SessionsKept
<1> QED BY <1>6, <1>8, <1>9, <1>10, <1>11, <1>12, <1>13

\* An attempt that ends leaves a row that is not in hand and that agrees with what
\* the provider accepted.
LEMMA EndAttemptStep ==
    ASSUME QueueInv, NEW w \in Workers, Busy(w), NEW row \in RowType,
           EndAttempt(w, row), UNCHANGED accepted,
           row.status \in Waiting \cup Ended,
           RowAgrees(row, accepted[worker[w].item]),
           AttemptsOf(row, FALSE, crashes)
    PROVE  QueueInv'
<1> USE DEF QueueInv
<1> DEFINE i == worker[w].item
<1>1. i \in Items /\ worker[w] # Idle BY BusyWorker DEF Busy, Idle
<1>2. /\ item' = [item EXCEPT ![i] = row]
      /\ worker' = [worker EXCEPT ![w] = Idle]
      /\ UNCHANGED <<batch_status, request, accepted, production, crashes, retries>>
  BY DEF EndAttempt
<1> HIDE DEF i
<1>3. /\ item'[i] = row
      /\ \A j \in Items \ {i} : item'[j] = item[j]
      /\ \A v \in Workers : ~(v = w) => worker'[v] = worker[v]
      /\ worker'[w].step = "idle"
  BY <1>1, <1>2 DEF QueueTypeOK, Idle
<1>4. \A v \in Workers : Busy(v) => v = w BY DEF OneWorker
<1>5. \A v \in Workers : ~Busy(v)' BY <1>3, <1>4 DEF Busy
<1>6. QueueTypeOK' BY EndAttemptTypes DEF RowType, ItemRow, Statuses
<1>7. OneWorker' BY <1>5 DEF OneWorker
<1>8. RowsAgree' BY <1>2, <1>3 DEF RowsAgree, RowAgrees, i
<1>9. HandsAgree' BY <1>5 DEF HandsAgree
<1>10. AttemptsAgree'
  <2>1. \A j \in Items \ {i} : ~Held(j) BY <1>4 DEF Held, i
  <2>2. \A j \in Items : ~Held(j)' BY <1>5 DEF Held
  <2>3. ASSUME NEW j \in Items PROVE AttemptsOf(item[j], Held(j), crashes)'
    <3>1. CASE j = i BY <1>2, <1>3, <2>2, <3>1 DEF AttemptsOf
    <3>2. CASE j # i
      BY <1>2, <1>3, <2>1, <2>2, <3>2 DEF AttemptsAgree, AttemptsOf
    <3> QED BY <3>1, <3>2
  <2> QED BY <2>3 DEF AttemptsAgree
<1>11. BatchesAgree'
  <2>1. item[i].status \in InHand BY DEF HandsAgree, i
  <2> QED BY <1>2, <1>3, <2>1
      DEF BatchesAgree, BatchAgrees, DoneAgrees, Active, Waiting, InHand, Ended
<1>12. RequestsAgree'
  <2>1. item[i].status \in Active BY DEF HandsAgree, i, Active
  <2> QED BY <1>2, <1>3, <2>1, SessionsKept
<1> QED BY <1>6, <1>7, <1>8, <1>9, <1>10, <1>11, <1>12

\* What QueueInv says of the row a worker holds.
LEMMA HeldRow ==
    ASSUME QueueInv, NEW w \in Workers, Busy(w)
    PROVE  /\ Row(w) \in RowType
           /\ Row(w).status = IF Row(w).delivery_payload THEN "SENDING" ELSE "PROCESSING"
           /\ RowAgrees(Row(w), accepted[worker[w].item])
           /\ Row(w).attempt_count <= IF Row(w).delivery_payload
                                      THEN MAX_ATTEMPTS + 1 + crashes
                                      ELSE MAX_ATTEMPTS + crashes
           /\ Row(w).attempt_count = worker[w].attempt_count
           /\ crashes \in Nat
<1>1. worker[w].item \in Items /\ Row(w) \in RowType BY BusyWorker DEF QueueInv
<1>2. Row(w).status \in InHand /\ RowAgrees(Row(w), accepted[worker[w].item])
  BY <1>1 DEF QueueInv, HandsAgree, RowsAgree, Row
<1>3. Held(worker[w].item) BY DEF Held
<1>4. AttemptsOf(Row(w), TRUE, crashes)
  BY <1>1, <1>3 DEF QueueInv, AttemptsAgree, AttemptsOf, Row
<1>5. crashes \in Nat BY DEF QueueInv, QueueTypeOK
<1>6. Row(w).status = IF Row(w).delivery_payload THEN "SENDING" ELSE "PROCESSING"
  BY <1>1, <1>2 DEF RowAgrees, InHand, RowType
<1>7. Row(w).attempt_count = worker[w].attempt_count
  BY DEF QueueInv, HandsAgree, Row
<1> QED BY <1>1, <1>2, <1>4, <1>5, <1>6, <1>7 DEF AttemptsOf

\* An attempt that fails.
LEMMA FailedStep ==
    ASSUME QueueInv, NEW w \in Workers, Busy(w), NEW retryable \in BOOLEAN,
           EndAttempt(w, Failed(Row(w), worker[w].attempt_count, retryable)),
           UNCHANGED accepted
    PROVE  QueueInv'
<1> DEFINE row == Failed(Row(w), worker[w].attempt_count, retryable)
<1>1. /\ row \in RowType
      /\ row.status = IF retryable /\ Row(w).attempt_count < MAX_ATTEMPTS
                      THEN "RETRYING" ELSE "FAILED"
      /\ row.attempt_count = Row(w).attempt_count
      /\ row.delivery_payload = Row(w).delivery_payload
  BY HeldRow, BusyWorker, FailedRow DEF QueueInv
<1> HIDE DEF row
<1>2. row.status \in Waiting \cup Ended BY <1>1 DEF Waiting, Ended
<1>3. RowAgrees(row, accepted[worker[w].item])
  BY <1>1, HeldRow DEF RowAgrees
<1>4. AttemptsOf(row, FALSE, crashes)
  BY <1>1, HeldRow, QueueAssumption DEF AttemptsOf, Waiting, RowType
<1>5. EndAttempt(w, row) BY DEF row
<1> QED BY <1>1, <1>2, <1>3, <1>4, <1>5, EndAttemptStep

LEMMA ActorInactiveStep ==
    ASSUME QueueInv, NEW w \in Workers, ActorInactive(w)
    PROVE  QueueInv'
BY FailedStep DEF ActorInactive, At, Busy

LEMMA PreparationFailsStep ==
    ASSUME QueueInv, NEW w \in Workers, NEW retryable \in BOOLEAN,
           PreparationFails(w, retryable)
    PROVE  QueueInv'
BY FailedStep DEF PreparationFails, At, Busy

LEMMA SendFailsStep ==
    ASSUME QueueInv, NEW w \in Workers, SendFails(w)
    PROVE  QueueInv'
BY FailedStep DEF SendFails, At, Busy

LEMMA PayloadStoredStep ==
    ASSUME QueueInv, NEW w \in Workers, PayloadStored(w)
    PROVE  QueueInv'
<1> DEFINE row == EndedRow(Row(w), "RETRYING", TRUE, TRUE)
<1>1. /\ Busy(w) /\ ~Row(w).delivery_payload
      /\ EndAttempt(w, row) /\ UNCHANGED accepted
  BY DEF PayloadStored, At, Busy, EndedRow
<1>2. /\ row \in RowType
      /\ row.status = "RETRYING"
      /\ row.attempt_count = Row(w).attempt_count
      /\ row.delivery_payload = TRUE
  BY <1>1, HeldRow, EndedRowValue DEF Statuses, Active, Waiting
<1> HIDE DEF row
<1>3. RowAgrees(row, accepted[worker[w].item])
  BY <1>1, <1>2, HeldRow DEF RowAgrees
<1>4. AttemptsOf(row, FALSE, crashes)
  BY <1>1, <1>2, HeldRow, QueueAssumption DEF AttemptsOf, Waiting, RowType
<1> QED BY <1>1, <1>2, <1>3, <1>4, EndAttemptStep DEF Waiting

LEMMA PreparedStep ==
    ASSUME QueueInv, NEW w \in Workers, Prepared(w)
    PROVE  QueueInv'
<1> DEFINE row == EndedRow(Row(w), "PREPARED", FALSE, FALSE)
<1>1. /\ Busy(w) /\ Row(w).delivery_payload /\ ~production
      /\ EndAttempt(w, row) /\ UNCHANGED accepted
  BY DEF Prepared, At, Busy, EndedRow
<1>2. /\ row \in RowType
      /\ row.status = "PREPARED"
      /\ row.attempt_count = Row(w).attempt_count
      /\ row.delivery_payload = FALSE
  BY <1>1, HeldRow, EndedRowValue DEF Statuses, Ended
<1> HIDE DEF row
<1>3. RowAgrees(row, accepted[worker[w].item])
  BY <1>1, <1>2, HeldRow DEF RowAgrees
<1>4. AttemptsOf(row, FALSE, crashes)
  BY <1>1, <1>2, HeldRow, QueueAssumption DEF AttemptsOf, Waiting, RowType
<1> QED BY <1>1, <1>2, <1>3, <1>4, EndAttemptStep DEF Ended

LEMMA SentStep ==
    ASSUME QueueInv, NEW w \in Workers, Sent(w)
    PROVE  QueueInv'
<1> DEFINE row == EndedRow(Row(w), "SENT", FALSE, FALSE)
<1>1. /\ Busy(w) /\ At(w, "accepted")
      /\ EndAttempt(w, row) /\ UNCHANGED accepted
  BY DEF Sent, At, Busy, EndedRow
<1>2. /\ row \in RowType
      /\ row.status = "SENT"
      /\ row.attempt_count = Row(w).attempt_count
      /\ row.delivery_payload = FALSE
  BY <1>1, HeldRow, EndedRowValue DEF Statuses, Ended
<1> HIDE DEF row
<1>3. RowAgrees(row, accepted[worker[w].item])
  BY <1>1, <1>2, HeldRow DEF RowAgrees
<1>4. AttemptsOf(row, FALSE, crashes)
  BY <1>1, <1>2, HeldRow, QueueAssumption DEF AttemptsOf, Waiting, RowType
<1> QED BY <1>1, <1>2, <1>3, <1>4, EndAttemptStep DEF Ended

LEMMA ProviderAcceptsStep ==
    ASSUME QueueInv, NEW w \in Workers, ProviderAccepts(w)
    PROVE  QueueInv'
<1> USE DEF QueueInv
<1> DEFINE i == worker[w].item
<1>1. /\ Busy(w) /\ Row(w).delivery_payload /\ production
      /\ accepted' = [accepted EXCEPT ![i] = TRUE]
      /\ worker' = [worker EXCEPT ![w].step = "accepted"]
      /\ UNCHANGED <<item, batch_status, request, production, crashes, retries>>
  BY DEF ProviderAccepts, At, Busy
<1>2. /\ worker[w] \in ClaimType
      /\ i \in Items
  BY <1>1, BusyWorker
<1>3. /\ worker'[w] \in ClaimType
      /\ worker'[w].item = i
      /\ worker'[w].attempt_count = worker[w].attempt_count
      /\ \A v \in Workers : ~(v = w) => worker'[v] = worker[v]
  BY <1>1, <1>2 DEF QueueTypeOK, ClaimType
<1>4. \A v \in Workers : Busy(v)' <=> Busy(v)
  BY <1>1, <1>3 DEF Busy
<1>5. \A v \in Workers : worker'[v].item = worker[v].item
  BY <1>3
<1>6. /\ accepted' \in [Items -> BOOLEAN]
      /\ accepted'[i]
      /\ \A j \in Items : ~(j = i) => accepted'[j] = accepted[j]
  BY <1>1, <1>2 DEF QueueTypeOK
<1>7. QueueTypeOK' BY ProviderAcceptsTypes
<1>8. OneWorker' BY <1>4 DEF OneWorker
<1>9. RowsAgree'
  <2>1. item[i].delivery_payload BY <1>1 DEF Row
  <2> QED BY <1>1, <1>6, <2>1 DEF RowsAgree, RowAgrees
<1>10. HandsAgree'
  <2> SUFFICES ASSUME NEW v \in Workers, Busy(v)'
               PROVE  /\ item[worker'[v].item].status \in InHand
                      /\ item[worker'[v].item].attempt_count = worker'[v].attempt_count
                      /\ At(v, "accepted")' => accepted'[worker'[v].item]
    BY <1>1 DEF HandsAgree
  <2>1. Busy(v) /\ v = w BY <1>1, <1>4 DEF OneWorker
  <2> QED BY <1>3, <1>6, <2>1 DEF HandsAgree
<1>11. AttemptsAgree'
  <2>1. \A j \in Items : Held(j)' <=> Held(j) BY <1>4, <1>5 DEF Held
  <2> QED BY <1>1, <2>1 DEF AttemptsAgree, AttemptsOf
<1>12. BatchesAgree' BY <1>1 DEF BatchesAgree, BatchAgrees, DoneAgrees
<1>13. RequestsAgree' BY <1>1, SessionsKept
<1> QED BY <1>7, <1>8, <1>9, <1>10, <1>11, <1>12, <1>13

LEMMA CrashStep ==
    ASSUME QueueInv, NEW w \in Workers, Crash(w)
    PROVE  QueueInv'
<1> USE DEF QueueInv
<1>1. /\ Busy(w) /\ crashes < MaxCrashes
      /\ crashes' = crashes + 1
      /\ worker' = [worker EXCEPT ![w] = Idle]
      /\ UNCHANGED <<item, batch_status, request, accepted, production, retries>>
  BY DEF Crash, At, Busy
<1>2. /\ \A v \in Workers : ~(v = w) => worker'[v] = worker[v]
      /\ worker'[w].step = "idle"
  BY <1>1 DEF QueueTypeOK, Idle
<1>3. \A v \in Workers : ~Busy(v)' BY <1>1, <1>2 DEF Busy, OneWorker
<1>4. QueueTypeOK' BY CrashTypes
<1>5. OneWorker' /\ HandsAgree' BY <1>3 DEF OneWorker, HandsAgree
<1>6. RowsAgree' BY <1>1 DEF RowsAgree, RowAgrees
<1>7. AttemptsAgree'
  <2> SUFFICES ASSUME NEW j \in Items
               PROVE  AttemptsOf(item[j], FALSE, crashes + 1)
    BY <1>1, <1>3 DEF AttemptsAgree, AttemptsOf, Held
  <2>1. AttemptsOf(item[j], Held(j), crashes) BY DEF AttemptsAgree
  <2>2. crashes \in Nat /\ item[j].attempt_count \in Nat BY DEF QueueTypeOK, ItemRow
  <2> QED BY <2>1, <2>2, QueueAssumption DEF AttemptsOf
<1>8. BatchesAgree' BY <1>1 DEF BatchesAgree, BatchAgrees, DoneAgrees
<1>9. RequestsAgree' BY <1>1, SessionsKept
<1> QED BY <1>4, <1>5, <1>6, <1>7, <1>8, <1>9

LEMMA RipenStep ==
    ASSUME QueueInv, NEW i \in Items, Ripen(i)
    PROVE  QueueInv'
<1> USE DEF QueueInv
<1>1. /\ item' = [item EXCEPT ![i].ripe = TRUE]
      /\ UNCHANGED <<batch_status, request, worker, accepted, production, crashes, retries>>
      /\ item[i].status \in Active
  BY DEF Ripen
<1>2. item \in [Items -> RowType] BY DEF QueueTypeOK, ItemRow, RowType, Statuses
<1>3. item' \in [Items -> RowType] BY <1>1, <1>2 DEF RowType
<1>4. \A j \in Items : /\ item'[j].status = item[j].status
                       /\ item'[j].attempt_count = item[j].attempt_count
                       /\ item'[j].delivery_payload = item[j].delivery_payload
  BY <1>1, <1>2 DEF RowType
<1>5. QueueTypeOK' BY RipenTypes
<1>6. OneWorker' BY <1>1 DEF OneWorker, Busy
<1>7. RowsAgree' BY <1>1, <1>4 DEF RowsAgree, RowAgrees
<1>8. HandsAgree'
  <2> SUFFICES ASSUME NEW v \in Workers, Busy(v)
               PROVE  /\ item'[worker[v].item].status \in InHand
                      /\ item'[worker[v].item].attempt_count = worker[v].attempt_count
                      /\ At(v, "accepted") => accepted[worker[v].item]
    BY <1>1 DEF HandsAgree, Busy, At
  <2>1. worker[v].item \in Items BY BusyWorker
  <2> QED BY <1>4, <2>1 DEF HandsAgree
<1>9. AttemptsAgree' BY <1>1, <1>4 DEF AttemptsAgree, AttemptsOf, Held, Busy
<1>10. BatchesAgree' BY <1>1, <1>4 DEF BatchesAgree, BatchAgrees, DoneAgrees
<1>11. RequestsAgree'
  <2>1. \A j \in Items : item[j].status \notin Active => item'[j] = item[j]
    BY <1>1 DEF QueueTypeOK
  <2> QED BY <1>1, <2>1, SessionsKept
<1> QED BY <1>5, <1>6, <1>7, <1>8, <1>9, <1>10, <1>11

LEMMA QueueInitInv ==
    ASSUME QueueInit
    PROVE  QueueInv
<1> USE DEF QueueInit
<1>1. QueueTypeOK BY QueueInitTypes
<1>2. OneWorker /\ HandsAgree BY DEF OneWorker, HandsAgree, Busy, Idle
<1>3. RowsAgree BY DEF RowsAgree, RowAgrees, NoItem
<1>4. AttemptsAgree
  BY QueueAssumption DEF AttemptsAgree, AttemptsOf, NoItem, Waiting
<1>5. BatchesAgree
  BY DEF BatchesAgree, BatchAgrees, DoneAgrees, NoItem, Active, Waiting, InHand
<1>6. RequestsAgree BY DEF RequestsAgree, Live, NoRequest
<1> QED BY <1>1, <1>2, <1>3, <1>4, <1>5, <1>6 DEF QueueInv

LEMMA QueueNextInv ==
    ASSUME ~Overtaken, QueueInv, [QueueNext]_queueVars
    PROVE  QueueInv'
<1>1. ASSUME NEW r \in Requests, RequestNext(r) PROVE QueueInv'
  BY <1>1, OpenBatchStep, CreateBatchStep, SelectFailedStep, CommitRetryStep,
     CountItemsStep, StoreStatusStep, LeaveStep DEF RequestNext
<1>2. ASSUME NEW w \in Workers, NEW i \in Items, Claim(w, i) PROVE QueueInv'
  BY <1>2, ClaimStep
<1>3. ASSUME NEW w \in Workers, Work(w) PROVE QueueInv'
  BY <1>3, ActorInactiveStep, PayloadStoredStep, PreparationFailsStep, PreparedStep,
     ProviderAcceptsStep, SentStep, SendFailsStep DEF Work
<1>4. ASSUME NEW w \in Workers, Crash(w) PROVE QueueInv'
  BY <1>4, CrashStep
<1>5. ASSUME NEW i \in Items, Ripen(i) PROVE QueueInv'
  BY <1>5, RipenStep
<1>6. CASE UNCHANGED queueVars
  <2>1. RequestsAgree' BY <1>6, SessionsKept DEF queueVars, QueueInv
  <2> QED BY <1>6, <2>1, RowsKept DEF queueVars, QueueInv, QueueTypeOK
<1> QED BY <1>1, <1>2, <1>3, <1>4, <1>5, <1>6 DEF QueueNext

\* The inductive invariant holds in every state of the queue, if no request commits
\* after it was overtaken.
LEMMA QueueInvariant ==
    ASSUME Overtaken = FALSE
    PROVE  QueueSpec => []QueueInv
<1>1. QueueInit => QueueInv BY QueueInitInv
<1>2. QueueInv /\ [QueueNext]_queueVars => QueueInv' BY QueueNextInv
<1> QED BY <1>1, <1>2, PTL DEF QueueSpec

-----------------------------------------------------------------------------
(* The properties.                                                          *)

\* Rows, workers and counters keep to their columns, whoever does what in what order.
THEOREM QueueTypesKept == QueueSpec => []QueueTypeOK
<1>1. QueueInit => QueueTypeOK BY QueueInitTypes
<1>2. QueueTypeOK /\ [QueueNext]_queueVars => QueueTypeOK' BY QueueNextTypes
<1> QED BY <1>1, <1>2, PTL DEF QueueSpec

\* An e-mail that the provider accepted stays stored until its item is SENT, through
\* failures, crashes, leases that run out and retries: no later attempt prepares the
\* documents again, as long as no request commits after it was overtaken.
THEOREM AcceptedPayloadKept ==
    ASSUME Overtaken = FALSE
    PROVE  QueueSpec => []AcceptedKeepsPayload
<1>1. QueueInv => AcceptedKeepsPayload
  BY DEF QueueInv, AcceptedKeepsPayload, RowsAgree, RowAgrees
<1> QED BY <1>1, QueueInvariant, PTL

\* An item takes at most one attempt more than the cap, and one for each worker that
\* died: no order of claims, failures, crashes and retries that were not overtaken gives
\* more.
THEOREM AttemptsAreBounded ==
    ASSUME Overtaken = FALSE
    PROVE  QueueSpec => []AttemptsBounded
<1>1. QueueInv => AttemptsBounded
  BY DEF QueueInv, AttemptsBounded, AttemptsAgree, AttemptsOf
<1> QED BY <1>1, QueueInvariant, PTL

\* A batch shown as completed has no item on its way, whatever the workers did since
\* the status was computed: only a request that was overtaken could store it wrongly.
THEOREM DoneBatchesAtRest ==
    ASSUME Overtaken = FALSE
    PROVE  QueueSpec => []DoneBatchesRest
<1>1. QueueInv => DoneBatchesRest
  BY DEF QueueInv, DoneBatchesRest, BatchesAgree, BatchAgrees, DoneAgrees, ItemsOf
<1> QED BY <1>1, QueueInvariant, PTL

-----------------------------------------------------------------------------
(* The queue implements EmailDelivery.                                      *)

LEMMA StageValue ==
    ASSUME QueueTypeOK, NEW i \in Items
    PROVE  /\ item[i].status = "ABSENT" <=> Stage(i) = "none"
           /\ item[i].status \in Active <=> Stage(i) = "pending"
           /\ item[i].status = "SENT" <=> Stage(i) = "sent"
           /\ item[i].status = "PREPARED" <=> Stage(i) = "prepared"
           /\ item[i].status = "FAILED" <=> Stage(i) = "failed"
<1>1. item[i].status \in Statuses BY DEF QueueTypeOK, ItemRow, Statuses
<1> QED BY <1>1 DEF Stage, Statuses, Active, Waiting, InHand, Ended

\* The same of the next state.
LEMMA NextStageValue ==
    ASSUME QueueTypeOK', NEW i \in Items
    PROVE  /\ item'[i].status = "ABSENT" <=> Stage(i)' = "none"
           /\ item'[i].status \in Active <=> Stage(i)' = "pending"
           /\ item'[i].status = "SENT" <=> Stage(i)' = "sent"
           /\ item'[i].status = "PREPARED" <=> Stage(i)' = "prepared"
           /\ item'[i].status = "FAILED" <=> Stage(i)' = "failed"
<1>1. item'[i].status \in Statuses BY DEF QueueTypeOK, ItemRow, Statuses
<1> QED BY <1>1 DEF Stage, Statuses, Active, Waiting, InHand, Ended

\* A step that keeps what the statuses mean is a step of nothing in EmailDelivery.
LEMMA StagesKept ==
    ASSUME \A i \in Items : Stage(i)' = Stage(i), UNCHANGED accepted
    PROVE  UNCHANGED Delivery!deliveryVars
BY DEF Delivery!deliveryVars

\* Items asked for, for the first time or after they failed.
LEMMA AskStep ==
    ASSUME QueueTypeOK, QueueTypeOK', UNCHANGED accepted,
           NEW S \in SUBSET Items,
           \A i \in S : /\ item[i].status \in {"ABSENT", "FAILED"}
                        /\ item'[i].status \in Waiting,
           \A i \in Items \ S : item'[i] = item[i]
    PROVE  Delivery!Next
<1>1. \A i \in S : Stage(i) \in {"none", "failed"} BY StageValue
<1>2. \A i \in S : Stage(i)' = "pending" BY NextStageValue DEF Active
<1>3. \A i \in Items \ S : Stage(i)' = Stage(i) BY DEF Stage
<1>4. Delivery!Ask(S) BY <1>1, <1>2, <1>3 DEF Delivery!Ask
<1> QED BY <1>4 DEF Delivery!Next

LEMMA CreateBatchDelivers ==
    ASSUME QueueInv, QueueInv', NEW r \in Requests, NEW b \in Batches, NEW S,
           CreateBatch(r, b, S)
    PROVE  Delivery!Next
<1>1. PICK queued : queued = {i \in ItemsOf(b, S) : ~AlreadyQueued(i[2])} OBVIOUS
<1>2. PICK row : row = [NoItem EXCEPT !.status = "QUEUED", !.ripe = TRUE] OBVIOUS
<1>3. /\ batch_status[b] = "ABSENT"
      /\ item' = [i \in Items |-> IF i \in queued THEN row ELSE item[i]]
      /\ UNCHANGED accepted
  BY <1>1, <1>2 DEF CreateBatch
<1>4. row.status \in Waiting BY <1>2 DEF NoItem, Waiting
<1>5. queued \in SUBSET Items /\ \A i \in queued : i[1] = b BY <1>1 DEF ItemsOf
<1>6. \A i \in queued : item[i].status = "ABSENT" /\ item'[i].status \in Waiting
  BY <1>3, <1>4, <1>5 DEF QueueInv, BatchesAgree, BatchAgrees
<1>7. \A i \in Items \ queued : item'[i] = item[i] BY <1>3
<1> QED BY <1>3, <1>5, <1>6, <1>7, AskStep DEF QueueInv

LEMMA CommitRetryDelivers ==
    ASSUME ~Overtaken, QueueInv, QueueInv', NEW r \in Requests, CommitRetry(r)
    PROVE  Delivery!Next
<1>1. Loaded(r) \in SUBSET Items BY DEF Loaded
<1>2. UNCHANGED accepted BY DEF CommitRetry
<1>3. \A i \in Loaded(r) : item[i].status \in {"ABSENT", "FAILED"} /\ item'[i].status \in Waiting
  BY <1>1, RetriedRows
<1>4. \A i \in Items \ Loaded(r) : item'[i] = item[i] BY RetriedRows
<1> QED BY <1>1, <1>2, <1>3, <1>4, AskStep DEF QueueInv

LEMMA ClaimDelivers ==
    ASSUME QueueInv, QueueInv', NEW w \in Workers, NEW i \in Items, Claim(w, i)
    PROVE  UNCHANGED Delivery!deliveryVars
<1>1. /\ item[i].status \in Active
      /\ item'[i].status \in Active
      /\ \A j \in Items \ {i} : item'[j] = item[j]
      /\ UNCHANGED accepted
  <2>1. item \in [Items -> RowType]
    BY DEF QueueInv, QueueTypeOK, ItemRow, RowType, Statuses
  <2>2. item'[i].status \in InHand
    <3>1. worker'[w] = [step |-> "claimed", item |-> i,
                        attempt_count |-> item[i].attempt_count + 1]
      BY DEF Claim, QueueInv, QueueTypeOK
    <3>2. Busy(w)' /\ worker'[w].item = i BY <3>1 DEF Busy
    <3> QED BY <3>2 DEF QueueInv, HandsAgree
  <2> QED BY <2>1, <2>2 DEF Claim, Claimable, Active
<1>2. Stage(i) = "pending" /\ Stage(i)' = "pending"
  BY <1>1, StageValue, NextStageValue DEF QueueInv
<1>3. \A j \in Items \ {i} : Stage(j)' = Stage(j) BY <1>1 DEF Stage
<1> QED BY <1>1, <1>2, <1>3, StagesKept

\* An attempt that ends leaves its item pending, or finishes it as it may.
LEMMA EndAttemptDelivers ==
    ASSUME QueueInv, QueueInv', NEW w \in Workers, Busy(w), NEW row,
           NEW i \in Items, worker[w].item = i,
           EndAttempt(w, row), UNCHANGED accepted,
           row.status \in Waiting \cup Ended,
           row.status = "SENT" => accepted[i],
           row.status = "PREPARED" => ~accepted[i]
    PROVE  [Delivery!Next]_(Delivery!deliveryVars)
<1>1. item[i].status \in InHand BY DEF QueueInv, HandsAgree
<1>2. item'[i] = row /\ \A j \in Items \ {i} : item'[j] = item[j]
  BY DEF EndAttempt, QueueInv, QueueTypeOK
<1>3. \A j \in Items \ {i} : Stage(j)' = Stage(j) BY <1>2 DEF Stage
<1>4. Stage(i) = "pending" BY <1>1, StageValue DEF Active, QueueInv
<1>5. CASE row.status \in Waiting
  <2>1. Stage(i)' = "pending" BY <1>2, <1>5, NextStageValue DEF Active, QueueInv
  <2> QED BY <1>3, <1>4, <2>1, StagesKept
<1>6. CASE row.status \in Ended
  <2> DEFINE end == Stage(i)'
  <2>1. /\ end \in Delivery!Ends
        /\ end = "sent" => accepted[i]
        /\ end = "prepared" => ~accepted[i]
    BY <1>2, <1>6, NextStageValue DEF Ended, Delivery!Ends, QueueInv
  <2>2. [j \in Items |-> Stage(j)]' = [[j \in Items |-> Stage(j)] EXCEPT ![i] = end]
    BY <1>3
  <2> HIDE DEF end
  <2>3. Delivery!Finish(i, end) BY <1>4, <2>1, <2>2 DEF Delivery!Finish
  <2> QED BY <2>1, <2>3 DEF Delivery!Next
<1> QED BY <1>5, <1>6

\* An attempt that fails waits again, or is over.
LEMMA FailedDelivers ==
    ASSUME QueueInv, QueueInv', NEW w \in Workers, Busy(w), NEW retryable \in BOOLEAN,
           EndAttempt(w, Failed(Row(w), worker[w].attempt_count, retryable)),
           UNCHANGED accepted
    PROVE  [Delivery!Next]_(Delivery!deliveryVars)
<1>1. worker[w].item \in Items BY BusyWorker DEF QueueInv
<1>2. Failed(Row(w), worker[w].attempt_count, retryable).status \in {"RETRYING", "FAILED"}
  BY HeldRow, BusyWorker, FailedRow DEF QueueInv
<1> QED BY <1>1, <1>2, EndAttemptDelivers DEF Waiting, Ended

LEMMA WorkDelivers ==
    ASSUME QueueInv, QueueInv', NEW w \in Workers, Work(w)
    PROVE  [Delivery!Next]_(Delivery!deliveryVars)
<1>1. Busy(w)
  BY DEF Work, ActorInactive, PayloadStored, PreparationFails, Prepared, ProviderAccepts,
     Sent, SendFails, At, Busy
<1>2. PICK i \in Items : worker[w].item = i BY <1>1, BusyWorker DEF QueueInv
<1>3. Row(w) \in RowType /\ RowAgrees(Row(w), accepted[i])
  BY <1>1, <1>2, HeldRow
<1>4. CASE ActorInactive(w) BY <1>1, <1>4, FailedDelivers DEF ActorInactive
<1>5. CASE PayloadStored(w)
  <2> DEFINE row == EndedRow(Row(w), "RETRYING", TRUE, TRUE)
  <2>1. row.status = "RETRYING"
    BY <1>3, EndedRowValue DEF Statuses, Active, Waiting
  <2>2. EndAttempt(w, row) /\ UNCHANGED accepted
    BY <1>5 DEF PayloadStored, EndedRow
  <2> HIDE DEF row
  <2> QED BY <1>1, <1>2, <2>1, <2>2, EndAttemptDelivers DEF Waiting
<1>6. CASE \E retryable \in BOOLEAN : PreparationFails(w, retryable)
  BY <1>1, <1>6, FailedDelivers DEF PreparationFails
<1>7. CASE Prepared(w)
  <2> DEFINE row == EndedRow(Row(w), "PREPARED", FALSE, FALSE)
  <2>1. row.status = "PREPARED"
    BY <1>3, EndedRowValue DEF Statuses, Ended
  <2>2. EndAttempt(w, row) /\ UNCHANGED accepted
    BY <1>7 DEF Prepared, EndedRow
  <2>3. ~accepted[i] BY <1>3, <1>7 DEF Prepared, RowAgrees
  <2> HIDE DEF row
  <2> QED BY <1>1, <1>2, <2>1, <2>2, <2>3, EndAttemptDelivers DEF Ended
<1>8. CASE ProviderAccepts(w)
  <2>1. item' = item /\ accepted' = [accepted EXCEPT ![i] = TRUE]
    BY <1>2, <1>8 DEF ProviderAccepts
  <2>2. \A j \in Items : Stage(j)' = Stage(j) BY <2>1 DEF Stage
  <2>3. Stage(i) = "pending"
    BY <1>1, <1>2, StageValue DEF QueueInv, HandsAgree, Active
  <2>4. CASE accepted[i]
    <3>1. UNCHANGED accepted BY <2>1, <2>4 DEF QueueInv, QueueTypeOK
    <3> QED BY <2>2, <3>1, StagesKept
  <2>5. CASE ~accepted[i]
    <3>1. Delivery!Accept(i) BY <2>1, <2>2, <2>3, <2>5 DEF Delivery!Accept
    <3> QED BY <3>1 DEF Delivery!Next
  <2> QED BY <2>4, <2>5
<1>9. CASE Sent(w)
  <2> DEFINE row == EndedRow(Row(w), "SENT", FALSE, FALSE)
  <2>1. row.status = "SENT"
    BY <1>3, EndedRowValue DEF Statuses, Ended
  <2>2. EndAttempt(w, row) /\ UNCHANGED accepted
    BY <1>9 DEF Sent, EndedRow
  <2>3. accepted[i] BY <1>1, <1>2, <1>9 DEF Sent, QueueInv, HandsAgree
  <2> HIDE DEF row
  <2> QED BY <1>1, <1>2, <2>1, <2>2, <2>3, EndAttemptDelivers DEF Ended
<1>10. CASE SendFails(w) BY <1>1, <1>10, FailedDelivers DEF SendFails
<1> QED BY <1>4, <1>5, <1>6, <1>7, <1>8, <1>9, <1>10 DEF Work

LEMMA RipenDelivers ==
    ASSUME QueueInv, NEW i \in Items, Ripen(i)
    PROVE  UNCHANGED Delivery!deliveryVars
<1>1. \A j \in Items : item'[j].status = item[j].status
  BY DEF Ripen, QueueInv, QueueTypeOK
<1>2. \A j \in Items : Stage(j)' = Stage(j) BY <1>1 DEF Stage
<1> QED BY <1>2, StagesKept DEF Ripen

LEMMA QueueNextDelivers ==
    ASSUME ~Overtaken, QueueInv, QueueInv', [QueueNext]_queueVars
    PROVE  [Delivery!Next]_(Delivery!deliveryVars)
<1>1. ASSUME NEW r \in Requests, NEW b \in Batches, NEW S \in SUBSET Pairs \ {{}},
             CreateBatch(r, b, S)
      PROVE  Delivery!Next
  BY <1>1, CreateBatchDelivers
<1>2. ASSUME NEW r \in Requests, CommitRetry(r) PROVE Delivery!Next
  BY <1>2, CommitRetryDelivers
<1>3. ASSUME NEW w \in Workers, NEW i \in Items, Claim(w, i)
      PROVE  UNCHANGED Delivery!deliveryVars
  BY <1>3, ClaimDelivers
<1>4. ASSUME NEW w \in Workers, Work(w)
      PROVE  [Delivery!Next]_(Delivery!deliveryVars)
  BY <1>4, WorkDelivers
<1>5. ASSUME NEW i \in Items, Ripen(i) PROVE UNCHANGED Delivery!deliveryVars
  BY <1>5, RipenDelivers
<1>6. ASSUME UNCHANGED <<item, accepted>> PROVE UNCHANGED Delivery!deliveryVars
  BY <1>6, StagesKept DEF Stage
<1>7. ASSUME NEW r \in Requests, RequestNext(r)
      PROVE  [Delivery!Next]_(Delivery!deliveryVars)
  <2>1. CASE \E b \in Batches : OpenBatch(r, b)
    BY <1>6, <2>1 DEF OpenBatch
  <2>2. CASE \E b \in Batches, S \in SUBSET Pairs \ {{}} : CreateBatch(r, b, S)
    BY <1>1, <2>2
  <2>3. CASE \E S \in SUBSET Pairs \ {{}} : SelectFailed(r, S)
    BY <1>6, <2>3 DEF SelectFailed
  <2>4. CASE CommitRetry(r) BY <1>2, <2>4
  <2>5. CASE CountItems(r) BY <1>6, <2>5 DEF CountItems
  <2>6. CASE StoreStatus(r) BY <1>6, <2>6 DEF StoreStatus
  <2>7. CASE Leave(r) BY <1>6, <2>7 DEF Leave
  <2> QED BY <1>7, <2>1, <2>2, <2>3, <2>4, <2>5, <2>6, <2>7 DEF RequestNext
<1>8. ASSUME NEW w \in Workers, Crash(w) PROVE UNCHANGED Delivery!deliveryVars
  BY <1>6, <1>8 DEF Crash
<1>9. CASE UNCHANGED queueVars BY <1>6, <1>9 DEF queueVars
<1> QED BY <1>3, <1>4, <1>5, <1>7, <1>8, <1>9 DEF QueueNext

\* The queue keeps its promise: mapped by Stage, each of its steps is a step of
\* EmailDelivery or changes nothing there.  So the provider accepts an item's e-mail at
\* most once, nothing that was sent or prepared is taken up again, and SENT is written
\* only for an accepted e-mail: for any number of workers, requests, crashes and retries,
\* as long as no request commits after it was overtaken.
THEOREM QueueImplementsDelivery ==
    ASSUME Overtaken = FALSE
    PROVE  QueueSpec => DeliveryImplemented
<1>1. QueueInit => Delivery!Init
  <2> SUFFICES ASSUME QueueInit PROVE Delivery!Init
    OBVIOUS
  <2>1. \A i \in Items : item[i].status = "ABSENT" BY DEF QueueInit, NoItem
  <2>2. \A i \in Items : Stage(i) = "none"
    BY <2>1, QueueInitInv, StageValue DEF QueueInv
  <2> QED BY <2>2 DEF Delivery!Init, QueueInit
<1>2. QueueInv /\ QueueInv' /\ [QueueNext]_queueVars
         => [Delivery!Next]_(Delivery!deliveryVars)
  BY QueueNextDelivers
<1> QED BY <1>1, <1>2, QueueInvariant, PTL DEF QueueSpec, DeliveryImplemented, Delivery!Spec

==============================================================================
