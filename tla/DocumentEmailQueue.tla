------------------------- MODULE DocumentEmailQueue -------------------------
(***************************************************************************)
(* The durable queue that e-mails signing links of document pairs: batches *)
(* of items created by users, and the loop that each application instance  *)
(* runs over them.  An advisory lock lets one instance work at a time; a   *)
(* lease on the item it works on lets another take over when it dies.      *)
(*                                                                         *)
(* Requests of users read rows without locking them and commit later, so   *)
(* each is a session of several steps, and others work in between.  What a *)
(* request commits may rest on rows that another request on the same batch *)
(* has changed since: it was "overtaken".  Overtaken says if such commits  *)
(* are part of the model; nothing in the code prevents them.               *)
(*                                                                         *)
(* Time is the flag "ripe": the time from which an item may be claimed has *)
(* come, which is next_attempt_at while it waits and the end of its lease  *)
(* while it is worked on.  An item's documents are prepared and re-sent by *)
(* another service; what matters here is that this yields a payload.       *)
(***************************************************************************)
EXTENDS Integers, FiniteSets

CONSTANTS
    NumBatches,    \* batches are numbered in the order they are created
    Pairs,         \* pairs of a contract and its EPP record
    Items,         \* items <<batch, pair>>: which pairs a batch may be asked for
    Workers,       \* application instances, each with its worker thread
    MAX_ATTEMPTS,  \* after how many attempts a failure is final
    Requests,      \* the users' requests that can be under way at a time
    Overtaken,     \* whether a request may commit after it was overtaken
    MaxCrashes,    \* bound on the deaths of a worker while it holds an item
    MaxRetries     \* bound on the requests to retry failed items

Batches == 1..NumBatches

ASSUME QueueAssumption ==
    /\ NumBatches \in Nat
    /\ Items \subseteq Batches \X Pairs   \* the pair of a batch is unique in it
    /\ MAX_ATTEMPTS \in Nat \ {0}
    /\ Overtaken \in BOOLEAN
    /\ MaxCrashes \in Nat
    /\ MaxRetries \in Nat

VARIABLES
    item,          \* item[i]: a row of document_email_batch_items
    batch_status,  \* the status column of document_email_batches
    request,       \* what each request is doing, and what its session has read
    worker,        \* what each worker is doing, and with which item
    accepted,      \* which items' idempotency keys the provider has accepted
    production,    \* whether real e-mail is enabled in this deployment
    crashes,       \* deaths so far
    retries        \* retry requests so far

queueVars == <<item, batch_status, request, worker, accepted, production,
               crashes, retries>>

\* The items that batch b can have, and those of a selection of pairs.
ItemsOf(b, selection) == {i \in Items : i[1] = b /\ i[2] \in selection}

Waiting == {"QUEUED", "RETRYING"}
InHand == {"PROCESSING", "SENDING"}
Active == Waiting \cup InHand
Ended == {"SENT", "PREPARED", "FAILED"}

NoItem == [status |-> "ABSENT", attempt_count |-> 0, delivery_payload |-> FALSE,
           ripe |-> FALSE]

Idle == [step |-> "idle"]

NoRequest == [step |-> "none"]

QueueInit ==
    /\ item = [i \in Items |-> NoItem]
    /\ batch_status = [b \in Batches |-> "ABSENT"]
    /\ request = [r \in Requests |-> NoRequest]
    /\ worker = [w \in Workers |-> Idle]
    /\ accepted = [i \in Items |-> FALSE]
    /\ production \in BOOLEAN
    /\ crashes = 0
    /\ retries = 0

-----------------------------------------------------------------------------
(* Requests of users.                                                       *)

\* Mutant: only items in hand count as on their way.
CountedInHand(rows, b) ==
    LET has(statuses) == \E i \in ItemsOf(b, Pairs) : rows[i].status \in statuses
    IN CASE has(InHand)                       -> "PROCESSING"
         [] has({"FAILED"}) /\ ~has(InHand)  -> "COMPLETED_WITH_ERRORS"
         [] ~has(InHand \cup {"FAILED"})     -> "COMPLETED"

\* The status that reading a batch computes from its items and stores.
Counted(rows, b) ==
    LET has(statuses) == \E i \in ItemsOf(b, Pairs) : rows[i].status \in statuses
    IN CASE has(InHand)                       -> "PROCESSING"
         [] has(Waiting) /\ ~has(InHand)      -> "QUEUED"
         [] has({"FAILED"}) /\ ~has(Active)   -> "COMPLETED_WITH_ERRORS"
         [] ~has(Active \cup {"FAILED"})      -> "COMPLETED"

\* Whether a pair is already on its way in some batch.
AlreadyQueued(p) == \E i \in Items : i[2] = p /\ item[i].status \in Active

\* A session at a step that has loaded batch b with status s, and of its items those
\* that are not NoItem in "copy".
Session(step, b, s, copy, overtaken) ==
    [step |-> step, batch |-> b, seen |-> s, copy |-> copy, overtaken |-> overtaken]

NoCopy == [i \in Items |-> NoItem]

Live(r) == request[r].step # "none"

RequestAt(r, step) == request[r].step = step

\* The batch of request r.
BatchOf(r) == request[r].batch

\* The items that the session of request r has loaded.
Loaded(r) == {i \in Items : request[r].copy[i] # NoItem}

\* Request r goes on as "next" after it changed rows that the other requests on its
\* batch may have read.
Overtakes(r, next) ==
    request' = [q \in Requests |->
        IF q = r THEN next
        ELSE IF Live(q) /\ BatchOf(q) = BatchOf(r)
             THEN [request[q] EXCEPT !.overtaken = TRUE] ELSE request[q]]

MayCommit(r) == request[r].overtaken => Overtaken

\* A new batch with its items; the request goes on by reading it.
CreateBatch(r, b, selection) ==
    /\ ~Live(r)
    /\ batch_status[b] = "ABSENT"
    /\ \A c \in Batches : c < b => batch_status[c] # "ABSENT"
    /\ LET queued == {i \in ItemsOf(b, selection) : ~AlreadyQueued(i[2])}
           status == IF queued = {} THEN "COMPLETED" ELSE "QUEUED"
       IN /\ item' = [i \in Items |->
                         IF i \in queued
                         THEN [NoItem EXCEPT !.status = "QUEUED", !.ripe = TRUE]
                         ELSE item[i]]
          /\ batch_status' = [batch_status EXCEPT ![b] = status]
          /\ request' = [request EXCEPT ![r] = Session("reading", b, status, NoCopy, FALSE)]
    /\ UNCHANGED <<worker, accepted, production, crashes, retries>>

\* A request to read a batch, to create it again under the same identifier, or to
\* retry its failed items loads the batch.
OpenBatch(r, b) ==
    /\ ~Live(r)
    /\ batch_status[b] # "ABSENT"
    /\ request' = [request EXCEPT ![r] =
                      Session("opened", b, batch_status[b], NoCopy, FALSE)]
    /\ UNCHANGED <<item, batch_status, worker, accepted, production, crashes, retries>>

\* The rows as request r sees them: those its session has loaded stay as they are there.
Seen(r) == [i \in Items |-> IF i \in Loaded(r) THEN request[r].copy[i] ELSE item[i]]

\* The items are counted, and give the batch its status in the session of r.
CountItems(r) ==
    /\ RequestAt(r, "opened") \/ RequestAt(r, "reading")
    /\ request' = [request EXCEPT ![r] = [step |-> "counted", batch |-> BatchOf(r),
                        seen |-> request[r].seen, overtaken |-> request[r].overtaken,
                        status |-> Counted(Seen(r), BatchOf(r))]]
    /\ UNCHANGED <<item, batch_status, worker, accepted, production, crashes, retries>>

\* The commit writes the status of the batch if it differs from the one loaded.
StoreStatus(r) ==
    /\ RequestAt(r, "counted")
    /\ MayCommit(r)
    /\ IF request[r].status = request[r].seen
       THEN /\ request' = [request EXCEPT ![r] = NoRequest]
            /\ UNCHANGED batch_status
       ELSE /\ batch_status' = [batch_status EXCEPT ![BatchOf(r)] = request[r].status]
            /\ Overtakes(r, NoRequest)
    /\ UNCHANGED <<item, worker, accepted, production, crashes, retries>>

\* Mutant: a retry makes up for the attempt that the claim will count.
RequeuedBelowZero(row) ==
    [row EXCEPT !.status = IF row.delivery_payload THEN "RETRYING" ELSE "QUEUED",
                !.attempt_count = -1, !.ripe = TRUE]

\* What a retry makes of a row in its session.
Requeued(row) ==
    [row EXCEPT !.status = IF row.delivery_payload THEN "RETRYING" ELSE "QUEUED",
                !.attempt_count = 0, !.ripe = TRUE]

\* What its commit makes of the row in the table, once "read" when it was loaded: the
\* columns that changed are written.  A failed row is neither ripe nor waiting.
RequeueWritten(row, read) ==
    [row EXCEPT !.status = Requeued(read).status,
                !.attempt_count = IF read.attempt_count = Requeued(read).attempt_count
                                  THEN @ ELSE Requeued(read).attempt_count,
                !.ripe = TRUE]

\* The rows that a retry of a selection of pairs loads.
FailedOf(b, selection) == {i \in ItemsOf(b, selection) : item[i].status = "FAILED"}

\* A retry of a selection loads its failed rows.  If there are none it only reads.
SelectFailed(r, selection) ==
    /\ RequestAt(r, "opened")
    /\ retries < MaxRetries
    /\ LET again == FailedOf(BatchOf(r), selection)
       IN /\ again # {}
          /\ request' = [request EXCEPT ![r].step = "selected",
                          ![r].copy = [i \in Items |-> IF i \in again THEN item[i]
                                                      ELSE NoItem]]
    /\ retries' = retries + 1
    /\ UNCHANGED <<item, batch_status, worker, accepted, production, crashes>>

\* Its commit queues them again, and the batch; then it goes on by reading the batch.
CommitRetry(r) ==
    /\ RequestAt(r, "selected")
    /\ MayCommit(r)
    /\ LET copy == request[r].copy
           b == BatchOf(r)
       IN /\ item' = [i \in Items |-> IF i \in Loaded(r)
                                      THEN RequeueWritten(item[i], copy[i]) ELSE item[i]]
          /\ batch_status' = IF request[r].seen = "QUEUED" THEN batch_status
                             ELSE [batch_status EXCEPT ![b] = "QUEUED"]
          /\ Overtakes(r, Session("reading", b, "QUEUED",
                                  [i \in Items |-> IF i \in Loaded(r)
                                                  THEN Requeued(copy[i]) ELSE NoItem],
                                  request[r].overtaken))
    /\ UNCHANGED <<worker, accepted, production, crashes, retries>>

\* The request fails, and what it has not committed is rolled back.
Leave(r) ==
    /\ Live(r)
    /\ request' = [request EXCEPT ![r] = NoRequest]
    /\ UNCHANGED <<item, batch_status, worker, accepted, production, crashes, retries>>

RequestNext(r) ==
    \/ \E b \in Batches :
          \/ OpenBatch(r, b)
          \/ \E S \in SUBSET Pairs \ {{}} : CreateBatch(r, b, S)
    \/ \E S \in SUBSET Pairs \ {{}} : SelectFailed(r, S)
    \/ CommitRetry(r)
    \/ CountItems(r)
    \/ StoreStatus(r)
    \/ Leave(r)

-----------------------------------------------------------------------------
(* The worker: one claim, then one end of the attempt.                      *)

\* Mutant: only waiting items are claimed, never one whose lease ran out.
ClaimableWaiting(i) == item[i].ripe /\ item[i].status \in Waiting

Claimable(i) == item[i].ripe /\ item[i].status \in Active

\* Mutant: the lease alone keeps workers apart.
LockFreeAlways == TRUE

\* The advisory lock is held by the session of the worker until it is done, or
\* until the session ends with its process.
LockFree == \A w \in Workers : worker[w].step = "idle"

Claim(w, i) ==
    /\ LockFree
    /\ Claimable(i)
    /\ \A j \in Items : Claimable(j) => i[1] <= j[1]
    /\ item' = [item EXCEPT
           ![i].status = IF item[i].delivery_payload THEN "SENDING" ELSE "PROCESSING",
           ![i].attempt_count = @ + 1,
           ![i].ripe = FALSE]
    /\ worker' = [worker EXCEPT ![w] = [step |-> "claimed", item |-> i,
                                       attempt_count |-> item[i].attempt_count + 1]]
    /\ UNCHANGED <<batch_status, request, accepted, production, crashes, retries>>

\* Mutant: the cap is compared before the attempt that failed is counted.
FailedLate(row, attempts, retryable) ==
    [row EXCEPT !.status = IF retryable /\ attempts <= MAX_ATTEMPTS
                           THEN "RETRYING" ELSE "FAILED",
                !.ripe = FALSE]

\* Mutant: a failed attempt starts over with the documents.
FailedForgetting(row, attempts, retryable) ==
    [row EXCEPT !.status = IF retryable /\ attempts < MAX_ATTEMPTS
                           THEN "RETRYING" ELSE "FAILED",
                !.delivery_payload = FALSE, !.ripe = FALSE]

\* An attempt failed: it will be retried after a pause, or it failed for good.  The
\* worker compares the attempts as it counted them when it claimed the item.
Failed(row, attempts, retryable) ==
    [row EXCEPT !.status = IF retryable /\ attempts < MAX_ATTEMPTS
                           THEN "RETRYING" ELSE "FAILED",
                !.ripe = FALSE]

\* Worker w commits the row of its item and releases the lock.
EndAttempt(w, row) ==
    /\ item' = [item EXCEPT ![worker[w].item] = row]
    /\ worker' = [worker EXCEPT ![w] = Idle]
    /\ UNCHANGED <<batch_status, request, production, crashes, retries>>

At(w, step) == worker[w].step = step

Row(w) == item[worker[w].item]

\* The user who created the batch was deactivated.
ActorInactive(w) ==
    /\ At(w, "claimed")
    /\ EndAttempt(w, Failed(Row(w), worker[w].attempt_count, FALSE))
    /\ UNCHANGED accepted

\* The documents are prepared and sent for signing, and the e-mail is kept.
PayloadStored(w) ==
    /\ At(w, "claimed")
    /\ ~Row(w).delivery_payload
    /\ EndAttempt(w, [Row(w) EXCEPT !.status = "RETRYING", !.delivery_payload = TRUE,
                                    !.ripe = TRUE])
    /\ UNCHANGED accepted

\* The documents service refuses, or fails.
PreparationFails(w, retryable) ==
    /\ At(w, "claimed")
    /\ ~Row(w).delivery_payload
    /\ EndAttempt(w, Failed(Row(w), worker[w].attempt_count, retryable))
    /\ UNCHANGED accepted

\* Real e-mail is disabled here.
Prepared(w) ==
    /\ At(w, "claimed")
    /\ Row(w).delivery_payload
    /\ ~production
    /\ EndAttempt(w, [Row(w) EXCEPT !.status = "PREPARED", !.delivery_payload = FALSE,
                                    !.ripe = FALSE])
    /\ UNCHANGED accepted

\* The provider accepts the e-mail.  It recognises the key of an item that it
\* has accepted before, and sends nothing again.
ProviderAccepts(w) ==
    /\ At(w, "claimed")
    /\ Row(w).delivery_payload
    /\ production
    /\ accepted' = [accepted EXCEPT ![worker[w].item] = TRUE]
    /\ worker' = [worker EXCEPT ![w].step = "accepted"]
    /\ UNCHANGED <<item, batch_status, request, production, crashes, retries>>

Sent(w) ==
    /\ At(w, "accepted")
    /\ EndAttempt(w, [Row(w) EXCEPT !.status = "SENT", !.delivery_payload = FALSE,
                                    !.ripe = FALSE])
    /\ UNCHANGED accepted

\* No key is configured, the provider refuses or cannot be reached; or its answer,
\* or the commit of SENT, is lost after it accepted.
SendFails(w) ==
    /\ ~At(w, "idle")
    /\ Row(w).delivery_payload
    /\ production
    /\ EndAttempt(w, Failed(Row(w), worker[w].attempt_count, TRUE))
    /\ UNCHANGED accepted

\* The worker dies, or loses the database, with the item in its hands.
Crash(w) ==
    /\ ~At(w, "idle")
    /\ crashes < MaxCrashes
    /\ crashes' = crashes + 1
    /\ worker' = [worker EXCEPT ![w] = Idle]
    /\ UNCHANGED <<item, batch_status, request, accepted, production, retries>>

Work(w) ==
    \/ ActorInactive(w)
    \/ PayloadStored(w)
    \/ \E retryable \in BOOLEAN : PreparationFails(w, retryable)
    \/ Prepared(w)
    \/ ProviderAccepts(w)
    \/ Sent(w)
    \/ SendFails(w)

\* A pause or a lease comes to its end.
Ripen(i) ==
    /\ item[i].status \in Active
    /\ ~item[i].ripe
    /\ item' = [item EXCEPT ![i].ripe = TRUE]
    /\ UNCHANGED <<batch_status, request, worker, accepted, production, crashes,
                   retries>>

QueueNext ==
    \/ \E r \in Requests : RequestNext(r)
    \/ \E w \in Workers : \/ \E i \in Items : Claim(w, i)
                          \/ Work(w)
                          \/ Crash(w)
    \/ \E i \in Items : Ripen(i)

\* The loop polls for ever, a started attempt ends, and time passes.
QueueFairness ==
    /\ WF_queueVars(\E w \in Workers, i \in Items : Claim(w, i))
    /\ \A w \in Workers : WF_queueVars(Work(w))
    /\ \A i \in Items : WF_queueVars(Ripen(i))

QueueSpec == QueueInit /\ [][QueueNext]_queueVars /\ QueueFairness

-----------------------------------------------------------------------------
(* Properties.                                                              *)

StoredStatuses == {"QUEUED", "PROCESSING", "COMPLETED", "COMPLETED_WITH_ERRORS"}

ItemRow == [status : Active \cup Ended \cup {"ABSENT"}, attempt_count : Nat,
            delivery_payload : BOOLEAN, ripe : BOOLEAN]

OpenRequest ==
    [step : {"opened", "selected", "reading"}, batch : Batches, seen : StoredStatuses,
     copy : [Items -> ItemRow], overtaken : BOOLEAN]

CountedRequest ==
    [step : {"counted"}, batch : Batches, seen : StoredStatuses,
     status : StoredStatuses, overtaken : BOOLEAN]

\* Rows, requests, workers and counters have the values their columns allow.
QueueTypeOK ==
    /\ item \in [Items -> ItemRow]
    /\ batch_status \in [Batches -> StoredStatuses \cup {"ABSENT"}]
    /\ request \in [Requests -> {NoRequest} \cup OpenRequest \cup CountedRequest]
    /\ worker \in [Workers -> {Idle} \cup [step : {"claimed", "accepted"}, item : Items,
                                           attempt_count : Nat]]
    /\ accepted \in [Items -> BOOLEAN]
    /\ production \in BOOLEAN
    /\ crashes \in 0..MaxCrashes
    /\ retries \in 0..MaxRetries

\* An item whose e-mail the provider accepted, and which did not end as sent,
\* still has that e-mail stored: a later attempt repeats the same request under
\* the same key, and never prepares the documents (and revokes the links the
\* person has) again.  document_email_queue_service.py:295-328
AcceptedKeepsPayload ==
    \A i \in Items :
        accepted[i] /\ item[i].status # "SENT" => item[i].delivery_payload

\* Only failures compare the attempts with the cap; the claim that sends what an
\* attempt prepared, and each worker that died with the item, may pass it by one.
\* document_email_queue_service.py:231-240, 276-282
AttemptsBounded ==
    \A i \in Items :
        item[i].attempt_count <= MAX_ATTEMPTS + 1 + crashes

\* A batch that is shown as done has nothing on its way.
\* document_email_queue_service.py:168-189, 207-228
DoneBatchesRest ==
    \A b \in Batches :
        batch_status[b] \in {"COMPLETED", "COMPLETED_WITH_ERRORS"} =>
            \A i \in ItemsOf(b, Pairs) : item[i].status \notin Active

\* The queue implements EmailDelivery: what its statuses mean for an item.
Stage(i) ==
    CASE item[i].status = "ABSENT"   -> "none"
      [] item[i].status \in Active   -> "pending"
      [] item[i].status = "SENT"     -> "sent"
      [] item[i].status = "PREPARED" -> "prepared"
      [] item[i].status = "FAILED"   -> "failed"

Delivery == INSTANCE EmailDelivery WITH stage <- [i \in Items |-> Stage(i)]

\* Every step of the queue is a step of the promise, or changes nothing of it:
\* no accepted e-mail is accepted again, nothing that was sent or prepared is taken
\* up again, and SENT is never written for an e-mail nobody accepted.
DeliveryImplemented == Delivery!Spec

\* Every queued item ends as SENT, PREPARED or FAILED, whatever fails on its way.
EveryItemEnds == Delivery!EveryItemEnds
=============================================================================
