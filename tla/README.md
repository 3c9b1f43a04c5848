# EcoEvent 360: specifications and proofs

EcoEvent 360 is a FastAPI backend (`src/backend`) with a Next.js client
(`src/frontend`) for running events: clients, events and sessions, staff,
logistics and stock, purchases, waste and carbon records, logbooks, documents to
sign, public forms and reports.  All state is in one PostgreSQL database.  A
request is one SQLAlchemy session: it reads rows, checks them, writes rows and
commits.  Requests of different users overlap, and two background workers (the
document e-mail queue and the logbook lifecycle command) work on the same rows.

This directory holds TLA+ modules for the parts with state worth checking, the
TLC configurations that check them, and proofs that TLAPS checks.

## 1. Inventory

Each component is listed in `PROJECT.json` with its files and what became of it.
The ones with logic of their own:

| Component | State | Operations | What makes it correct | What is hard |
|---|---|---|---|---|
| Stock balances (`stock_service`) | per warehouse and item: on hand, reserved, damaged; a journal of movements | create, update, seven kinds of manual movement | reserved + damaged never exceed on hand; reserved is what active orders hold | an unlocked read-validate-write in `update_stock_balance` |
| Logistics orders (`logistics_order_service`) | order status, warehouse, lines with nine quantities, partial-dispatch requests | 25 handlers from creation to closure | reservations are exact, units are conserved, the quantities of a line are a chain, an order leaves once | orders and lines are read without a lock, balances one by one with a lock; late approvals; corrections of corrections |
| Purchase requests (`purchase_request_service`) | status, destination, items requested, bought and received | create, from an order, edit, approve, reject, buy, receive in parts, deliver, cancel | what is received is booked once and never exceeds the request | check-then-create; an order that changes under its purchase |
| Document e-mail queue (`document_email_queue_service`) | batches, items with status, attempts, lease and stored e-mail | create a batch, claim, prepare, send, fail, retry | every item ends; no accepted e-mail is accepted again, or prepared anew | deaths and lost answers between the acceptance and the commit; a lease; two workers |
| Managed documents (`managed_documents_service`) | document status, frozen snapshot, signature requests alone and in bundles, paper batches | create, edit, send alone or together, open, sign, send copies, print, cancel, new version | one link works; what is signed is what was frozen; one successor; one joint copy | public links racing the office; four commits of one request; reads before locks |
| Document drafts (`document_batch_service`, `document_people_service`) | people, their assignments to events, drafts | create a person, import a file, with or without drafts, assign from another event, make what is missing | no second draft of a kind; every batch is answered | four ways with different locks; rows that fail alone; deadlocks of files in opposite orders |
| Logbooks (`logbook_service`, `logbook_lifecycle_service`, `logbook_contribution_service`) | instance status, assignments, answers, shared contributions | open, answer, submit, review, configure, cancel, reopen, change people, scheduled job | submitted work stays as it was; a submission is reviewed once; an end is an end | shared work under several assignments; the job against users; changes of people in bulk |
| Logbook recurrence (`logbook_recurrence_service`) | series, exceptions, next date | create, generate, extend, pause, resume, skip, move, end, job | each date gets its logbook or an exception, once | the next date is a cache; commits half-way |
| Reports (`report_builder_service`, `report_revision_service`, `report_layout_service`) | edit version, sections and overrides, pages with linked objects, revisions | edit, refresh, reset, restore, pages, proposals, templates | no save over something unseen; figures follow the operation | an optimistic check without a lock; links to sections that were made anew |
| Report publication (`report_publication_service`) | publications with key and status, files | make, deliver, archive | what is shown as delivered can be opened | repetitions under one key, lost answers, archiving the latest |
| Public forms, event sessions, tasks and incidents | short status fields | transitions | only listed transitions | see "Not modelled" |

Components interact through shared rows.  Orders reserve and move the balances
that people also edit by hand; purchases are created from an order's missing
units, change its status, and fill the same balances; an order cannot be
cancelled while a purchase for it is active; a partial dispatch splits an order
in two.  Drafts become managed documents, which the e-mail queue sends; a person's
data is frozen in a document when it is sent.  A series makes logbooks, which then
live on their own.  Reports read what the operation recorded, and a publication
freezes a report.

## 2. Plan

Done, in this order: the logistics core with each handler atomic; the handlers of
orders that lock balances as overlapping transactions, refining the first; the
e-mail queue, refining an abstract delivery; managed documents; logbooks and their
recurrence; reports and publications; document drafts; proofs of the safety
properties of all of them, the logistics core and its overlapping sessions first.
Left, in order:

1. Hand edits of balances, transfers and purchases as sessions of
   `LogisticsTransactions`, with their proofs.
2. Photographs, incidents and tasks of a logbook's answers; texts that objects of a
   page share with sections.
3. The types of sessions that share an order (`SessionsTyped` with `SameOrder` TRUE),
   which hold although the serial order is lost.

## 3. Modules

| Module | Models | Lines |
|---|---|---|
| `LogisticsState` | the rows: `models/core.py` (`StockBalance`, `LogisticsOrder`, `LogisticsOrderItem`, `LogisticsPartialDispatchRequest`, `PurchaseRequest`), the status sets, and the helpers all three services call | state and helpers |
| `StockBalances` | `stock_service.py` | handlers that write balances by hand |
| `LogisticsOrders` | `logistics_order_service.py` | handlers of orders |
| `PurchaseRequests` | `purchase_request_service.py` | handlers of purchases |
| `Logistics` | their composition, the specification and the properties | `Next` |
| `MCLogistics` | instances for TLC: symmetry, and a start with stocked warehouses | |
| `LogisticsTransactions` | reserve, unreserve, cancel, dispatch and outcome as overlapping sessions of `db/session.py` over the same rows; the other steps of an order in between | `TransactionsNext`, fairness, refinement of `Logistics` |
| `MCTransactions` | instances of it: stocked warehouses, two competing orders | |
| `EmailDelivery` | what the queue promises, item by item: asked for, accepted once, an end | abstract specification |
| `DocumentEmailQueue` | `document_email_queue_service.py`, `document_email_service.py`, the worker's loop | handlers, the worker, deaths, fairness, refinement of `EmailDelivery` |
| `ManagedDocuments` | `managed_documents_service.py` and the rows of `models/documents.py` | handlers, overlapping sessions |
| `DocumentDrafts` | `document_batch_service.py`, and the handlers of `document_people_service.py` that bring people in | transactions with their row locks, fairness |
| `Logbooks` | `logbook_service.py`, `logbook_lifecycle_service.py`, `logbook_contribution_service.py`, the bulk change of `logbook_excel_service.py` | handlers, one slow transaction |
| `LogbookSeries` | `logbook_recurrence_service.py` | handlers, the job, days, deaths, fairness |
| `ReportEditing` | `report_builder_service.py`, `report_revision_service.py`, the page and template services, proposals | handlers, one slow transaction |
| `ReportPublications` | `report_publication_service.py` | handlers; extends `ReportEditing`, and composes both in `ReportsNext` |
| `MCEmailQueue`, `MCDocuments`, `MCDrafts`, `MCLogbooks`, `MCLogbookSeries`, `MCReports` | instances of them | |
| `Logistics_proofs`, `LogisticsTransactions_proofs`, `EmailQueue_proofs`, `ManagedDocuments_proofs`, `DocumentDrafts_proofs`, `Logbooks_proofs`, `LogbookSeries_proofs`, `Reports_proofs` | the theorems of section 6 | |

Correspondence.  An order's row is spread over `status`, `order_warehouse`,
`dispatched_at` (only whether it is NULL), and `line`, a record per product with
`quantity_requested`, `_reserved`, `_loaded`, `_dispatched`, `_delivered`,
`_consumed`, `_returned`, `_returned_damaged` and the sum of `_lost` and
`_discarded`, which are only ever added up.  `stock` is `stock_balances`.
`entered` is the net on-hand effect of the rows of `stock_movements` that are not
an order's dispatch, return or repair; no guard reads it, it is what
`UnitsConserved` compares the stock with.  `purchase` is `purchase_requests` with
its items.  Each action is one handler with its guards and all it writes,
including the helper calls (`_sync_stock_reservation_from_orders` runs inside
`ReserveStock`, `ReleaseReservations`, `CheckStock` and `DispatchOrder`, as
`Synced`).  A loop over the lines of an order touches a different balance for
each line, so it is one function of the state before the loop.

Abstractions.

- Permissions, 404 checks, evidence, prices, notes, timestamps and users are left
  out: they refuse a request before anything is written, or are never read by a
  guard.  An inactive catalogue item counts as having nothing available; whether
  an item is active is chosen anew by each action (`usable`).
- Quantities are natural numbers; the code uses decimals with two digits, and
  no rule depends on the unit.
- A missing balance is the balance of zeros.  Balances are never deleted, and the
  handlers treat a missing one as empty or refuse.
- An order has one line per product.  The creation schema demands it
  (`schemas/logistics_order_schema.py:186`); `add_logistics_order_item` does not
  check it, which is listed as a hazard.
- The statuses REQUESTED, STOCK_REVIEW and OBSERVED are declared and never
  assigned by any service.
- In `Logistics` a handler runs alone.

`LogisticsTransactions` drops the last one.  It extends `Logistics` with one
variable, `session`: for each database session the handler it runs, the order as
it was read (status, warehouse, lines), the outcome the client reports, the
products whose balances it still has to lock, in the order in which it will, and
the rows it holds.  `Begin...` reads and checks; `LockBalance` waits for the row,
takes it and repairs it; `Commit` computes the new rows (`Effect`), checks them
as the handler and the CHECK constraints do, and writes the columns whose value
changed (`Written`), which is how SQLAlchemy builds its UPDATE; `Rollback` is a
refusal, a broken deadlock or the death of the process.  From the code: the
engine sets no isolation level, hence READ COMMITTED, and the session does not
autoflush (`db/session.py:11-16`), so nothing is written before the commit; the
order is read without a lock (`:86-101`), balances with FOR UPDATE (`:289-302`);
the relationship of an order to its lines states no order, so rows are locked in
any order.  Abstractions of its own: the two SELECTs that read an order and its
lines are one step; catalogue items are active; balances exist.  With `SameOrder`
FALSE two sessions never work on one order at a time: that is an assumption about
users, not something the code ensures, and the runs with TRUE show what follows
without it.  `mark_all_consumables_consumed` (which flushes between lines), hand
edits, transfers and purchases are not sessions yet.

### The document e-mail queue

`Stage` maps an item of the queue to a stage of `EmailDelivery`.  A worker's
attempt is the steps between its commits: `Claim` (under the advisory lock), then
`PayloadStored` or `PreparationFails`, then `ProviderAccepts` and `Sent`, or
`SendFails` with the e-mail accepted or not; `Crash` may come between any two.
Time is one flag per item, `ripe`: a retry's delay or a dead worker's lease may
have run out.  Assumed: the connection that holds the advisory lock lives as long as
its worker, the provider honours idempotency keys, `create_batch` does not race
itself between its check and its insert, and the production flag is constant.
`retry_failed` of an older batch of the same pair may e-mail links that were
revoked since; what is in an e-mail is not part of the module.

### Managed documents

Handlers that lock the document first are one step.  Those that read before they
lock or do not lock (edit, cancel, print, sign, send together) are sessions: they
keep what they read, and write the fields that they changed; a row taken FOR UPDATE
that the session already holds keeps its old attributes, as SQLAlchemy leaves them.
`races` counts the overlaps on one document and `faults` the sessions that died and
the failed attempts to send a copy again: properties that the code only keeps
without them say so.  VIEWED is folded into SENT; a change of a person, assignment,
template or signer profile is `FactsChange`, bound to the statuses that still read
them; employer defaults and EPP templates fill drafts (`FillDrafts`);
completeness, identity and permission refusals are left out.  `supervisor_sign` is
no action because its precondition is never met: `NeverPartiallySigned` checks it.

### Document drafts

Each batch is a transaction that takes its row locks one by one: FOR UPDATE on the
event (`missing`, `assign`, `pairs`) or on people in the order of the file (`pairs`,
`import`, `person`), and FOR KEY SHARE on the event and the person that an inserted
row refers to, which conflicts with FOR UPDATE.  Inserting a RUT waits for another
transaction that inserted it, and fails if that commits.  `WaitsFor` says who waits
for whom; a row that fails is undone to its savepoint with the locks it took.
What a step need not wait for is done in the step before it.  Contracts and EPP
records are treated alike and apart, so one kind is followed; locks on assignments
(held only together with their person's), changes of a RUT, contents and previews
are left out.  `create_document` looks for nothing, so documents made by hand are
counted apart.

### Logbooks and series

`Logbooks` follows one logbook.  A handler is atomic or it is the one slow
transaction: it keeps a snapshot, others overtake it at most `MaxOvertaken` times,
and it writes the rows that it changed.  It holds the locks the code takes: its own
assignment (submit, review), the instance (configure, lifecycle), or both (bulk).
`races` counts commits that rest on an overtaken read; after `MaxRaces` no
transaction is slow.  A template is one required item; imported logbooks share
contributions; the clock only knows before and after the hours.  Revision checks
refuse, no more.  `bulk_participants` changes completed logbooks too, against
docs/logbook-shared-manual-certification.md:38-39; `EndIsEnd` counts what is left.

`LogbookSeries` numbers the dates of the rule from 1.  Each handler locks the series
and is one step; `resume` and `update_future` commit first and complete the window
after (`GenerateWindow`), and may die in between.

### Reports

One transaction is slow at a time, as in `Logbooks`.  A report has one automatic
section with one figure, custom sections one at a time, one evidence, and one page
object, which may be linked to a section.  After a save the editor shows what was
saved.  Page numbers, geometry, override values, text that objects copy from
sections, and the layouts of earlier releases are left out.  Edits that overlap a
delivery are left out too: they write other columns.  File names are unique per
rendering, as the code makes them.

### Mutants

Definitions whose comment starts with "Mutant" are deliberately wrong versions of
the definition that follows them.  `PROJECT.json` says which property of which run
finds each of them out; they take no part in any specification.

## 4. What is checked

`Spec` starts from an empty database; `StockedSpec` (in `MCLogistics`) starts from
stocked warehouses and leaves balances to the orders and purchases, which makes
room for larger quantities.  TLC's own deadlock check is off, because the systems
may rest: all orders closed, all items sent, the model's identifiers used up.

Fairness.  Nothing obliges a user to act, so no property says that an order is ever
closed or a document signed.  Liveness is about what the program itself does:

- `EveryRequestEnds`: `LockBalance` is strongly fair, because PostgreSQL serves the
  waiters of a row in the order they came, and a row that is released and taken again
  by others is only enabled from time to time; `End` is weakly fair, because `get_db`
  closes the session of every request, and PostgreSQL fails a statement of a deadlock.
- `EveryBatchEnds`: the same, `Advance` strongly and `BreakDeadlock` weakly fair.
- `EveryItemEnds`: `queue_worker_loop` polls for ever, so a claim and each worker's
  next step are weakly fair, and so is time (`Ripen`).  Deaths are bounded.
- `WindowCompleted`: the scheduled job runs again and again
  (docs/logbook-lifecycle.md leaves that to an external scheduler), and a handler
  that lives completes the window.

| Run | Instance | Shows |
|---|---|---|
| `orders` | `Spec`, 2 orders, 1 product, 1 warehouse, quantities to 2, on hand to 2 | the whole life of two orders that compete for a balance that is edited by hand |
| `purchases` | `StockedSpec`, 1 order, 1 purchase, 2 warehouses, quantities to 2, and a product that is only asked for | purchases with several deliveries, linked and free; moved orders, transfers |
| `overlap` | 2 sessions on different orders that compete for one unit of each of 2 products | every interleaving of reads, locks and commits does what single handlers do, and every request ends |
| `phantom` | 2 sessions on one order | a disagreement, below |
| `queue` | 2 batches for one pair of documents, 2 workers, 2 attempts, 2 deaths, 1 retry | the queue implements `EmailDelivery`, and every item ends |
| `documents` | a contract and two more versions, 1 session, 2 requests, no overlap | replaced once, frozen once, signed for good |
| `bundles` | a contract and an EPP record, 2 sessions, 1 overlap, 1 fault | one live link, one joint copy |
| `drafts` | 2 people in opposite orders, 2 sessions on one event, another event they may come from | no second draft, and every batch ends |
| `logbooks` | 2 participants, individual and shared, a slow transaction overtaken twice | reviewed once, work frozen, ends final |
| `series` | 3 dates, a window of one day, 1 death | no date forgotten, none comes back |
| `reports` | 2 editors, 4 versions, 1 revision, a slow transaction overtaken once | no save over what was not seen; figures follow the source |
| `publications` | 1 editor, 2 versions, 2 publications, 2 requests under one key, 1 lost answer | what is delivered can be opened |

Logistics.  `BalancesValid`: the CHECK constraints of a balance.
`ReservedMatchesOrders`: a balance's reserved count is exactly what active orders
hold, so the repair inside the handlers never finds work.  `LinesChained`:
explained <= delivered <= dispatched <= loaded <= reserved <= requested.
`StagesMatchLines`: an order's status never claims what its lines do not show.
`UnitsConserved`: on hand = entered - dispatched + returned.  `LeavesOnce`,
`OutcomeFinal`, `CancelledWithoutPurchase`, `PurchasesSettled`: what a step may
never do.  `OneAtATime` is `[][Next]_vars`, the next-state relation of `Logistics`:
each commit of an overlapping session is a whole handler on the rows as they are at
the commit.  `HeldRowsFresh` is why: what a session read of a locked row, and the sum
over unlocked lines it repaired it with, cannot change before the session ends.

Queue.  `DeliveryImplemented` is the specification of `EmailDelivery`: no accepted
e-mail is accepted again, SENT is never written for one nobody accepted.
`AcceptedKeepsPayload` is why: until it ends, an accepted e-mail stays stored and is
repeated under its key.  `AttemptsBounded` is one over the cap and one per death,
because a claim does not look at the cap.  `DoneBatchesRest`: the status that a batch
shows is not stale in the direction that matters.

Documents.  `LinksRevoked`, `OneSuccessor`, `SignedForGood`, `CopiedOnce`,
`NeverPartiallySigned` as above; the comments in the module say which of them are
about documents on which nothing overlapped.  `PairsUnique` holds with every overlap,
whatever fails or is repeated, although the four ways lock different rows.

Logbooks.  `ReviewedOnce` holds with races, for the assignment is locked and read
again; `WorkFrozen` and `EndIsEnd` only without them.  `ExceptionsStay`: skipped and
moved dates do not come back.  `NothingLeftBehind` is about the cached next date, and
`WindowCompleted` follows with fairness.

Reports.  `SavesSeeAll`, `FiguresFollowSource`, `DeliveredCanBeOpened`: as their
names say, without overlaps; with one, the optimistic check lets two saves through.

Bounds.  `MaxQuantity` bounds what a client asks for in a line and `MaxOnHand` what is
entered by hand or received.  Two units are enough for a partial reservation, load or
delivery and an outcome that splits into two kinds; two orders for competition over a
balance, or for a split order and its child; two warehouses for a transfer.  In
`purchases` a second product adds lines to orders and takes them off; the constraint
`ExtrasOnlyAsked` keeps it out of stock and of purchases, which the first product
exercises.  Two sessions and two products, or people, are what a deadlock takes.
`overlap` has no consumables, because consumption changes no balance.  Two attempts
pass through delay, cap and one over it; two batches let a pair be queued again. Three
documents are a version of a version.  Two overtakings let a slow transaction miss a
change and its undoing; one raced commit (`MaxRaces`) is what the properties that hold
with races need, and where the others stop.  Three dates are one to skip, one to move
and one to move it to.  Two publications are one delivered and one to replace
it.  Symmetry is over interchangeable identifiers (orders, purchases, sessions,
participants, editors), and never in a run with a liveness property.

## 5. Disagreements

A run that TLC must violate:

- `phantom`: an order is cancelled while it is being reserved, or reserved twice at
  a time; both handlers read its lines before the other commits, and the balance
  keeps a reserved count that no order holds, although stock_service.py:165 says
  that only active orders control it.

Met while modelling, without a run of their own:

- An order is partly reserved, a partial dispatch is requested, the reservation is
  released, the order is reserved again when nothing is available, and the old
  request is approved: the order becomes RESERVED with no lines.
- The plain creation of a purchase does not look for an active one of the same
  order; an order with an active purchase but no reservation can change warehouse;
  a purchase created from a cancelled order revives it.
- Two dispatches, or two outcome reports, of one order that overlap are both booked.
- A document that is out in a bundle and is sent again alone leaves the bundle
  incomplete for ever; whoever signed the other one waits for a joint copy
  (managed_documents_service.py:1433) that is never sent.
- In an individual logbook of two participants the first submission keeps the second
  from submitting.
- A handler that extends a series and dies before it completes the window loses the
  dates: the job does not look at a series without a next date.
- An answer lost after the commit of a publication makes the handler delete the PDF
  of a publication that exists.

## 6. What is proved

Every safety invariant and every action property that a passing run checks is also a
theorem about the specification, for any values of the constants that meet the named
assumption of its module, and so is the refinement of `EmailDelivery`.  Each
inductive invariant below was checked by TLC on the instance of a run before it was
proved.  What is proved starts from `Init`; a run that starts from stocked rows
starts from states that the invariant holds in.

| Module | Assumption | Theorems (property) |
|---|---|---|
| `Logistics_proofs` | `LogisticsAssumption`: orders are finitely many, bounds are naturals | `TypeCorrect` (`TypeOK`), `NeverOverReserved`, `ChainKept` (`LinesChained`), `StageCorrect` (`StagesMatchLines`), `LeavesForGood` (`LeavesOnce`), `OutcomeIsFinal` (`OutcomeFinal`), `BalancesStayValid` (`BalancesValid`), `NoReservationLeaks` (`ReservedMatchesOrders`), `UnitsAreConserved` (`UnitsConserved`), `RepairNeverNeeded`, `PurchasesStaySettled` (`PurchasesSettled`), `CancelledOnlyWithoutPurchase` (`CancelledWithoutPurchase`) |
| `LogisticsTransactions_proofs` | and `SessionsAssumption`: products are finitely many; `SameOrder = FALSE` | `OverlapIsSerial` (`OneAtATime`), `LockedRowsStayFresh` (`HeldRowsFresh`), `SessionsStayTyped` (`SessionsTyped`), `OverlapLeaksNothing` |
| `EmailQueue_proofs` | `QueueAssumption` | `QueueTypesKept` (`QueueTypeOK`), `AcceptedPayloadKept` (`AcceptedKeepsPayload`), `AttemptsAreBounded` (`AttemptsBounded`), `DoneBatchesAtRest` (`DoneBatchesRest`), `QueueImplementsDelivery` (`DeliveryImplemented`) |
| `ManagedDocuments_proofs` | `DocumentsAssumption` | `DocumentsTyped` (`DocumentsTypeOK`), `LinksAreRevoked` (`LinksRevoked`), `NeverHalfSigned` (`NeverPartiallySigned`), `ReplacedOnce` (`OneSuccessor`), `CopiedOnceOnly` (`CopiedOnce`), `SignedStaysSigned` (`SignedForGood`) |
| `DocumentDrafts_proofs` | `DraftsAssumption` | `DraftsAreUnique` (`PairsUnique`) |
| `Logbooks_proofs` | `LogbooksAssumption` | `LogbooksTyped` (`LogbooksTypeOK`), `SubmissionsReviewedOnce` (`ReviewedOnce`), `WorkStaysFrozen` (`WorkFrozen`), `EndsAreFinal` (`EndIsEnd`) |
| `LogbookSeries_proofs` | `SeriesAssumption` | `ExceptionsAreKept` (`ExceptionsStay`), `NoDateLeftBehind` (`NothingLeftBehind`) |
| `Reports_proofs` | `ReportsAssumption`, `PublicationsAssumption` | `ReportsTyped` (`ReportsTypeOK`), `SavesAreSeen` (`SavesSeeAll`), `FiguresAreKept` (`FiguresFollowSource`), `DeliveredStaysOpen` (`DeliveredCanBeOpened`) |

The modules are laid out alike: what the operators of the model yield, one lemma per
handler (or per kind of handler, where several write alike), the invariant over a
whole step, and the theorems.

### Logistics

- Types.  Because they are naturals, `TypeOK` says that no handler writes a negative
  count.  It is not inductive alone: splitting an order makes a line with
  `requested - reserved` units, so `TypeInv` adds `ReservedWithinRequested`.
  Subtractions are justified by the guard that the code has before them:
  `DispatchOrder` compares the load with the repaired balance, `ReleaseReservations`
  refuses a negative result, `OutcomeAccepted` checks the corrected balance,
  `SaveBalance` validates the row.
- Stages.  `StageInv`: for each order, `OrderStage` relates the status, the
  `dispatched_at` flag and the lines, line by line (`LineStage`).  It says more than
  the properties do where they are not inductive: nothing is explained before the
  first outcome (otherwise lowering a delivery could break the chain), a whole line
  has exactly what it asked for in every status from RESERVED on, and an ASSIGNED
  order has a line (otherwise a reservation of nothing would leave an
  INSUFFICIENT_STOCK order that misses no unit).  For the action properties,
  `NextLeftStep` shows what any step may do to an order that left: the early handlers
  refuse it, a purchase made from it is impossible because none of its lines misses a
  unit (`MissingUnits`), and the late handlers leave its dispatched and reserved
  units alone.
- Balances.  `BalanceInv` is `RequestsBounded`, no line asks for more than
  `MaxQuantity`, and `BalanceKept`: a balance is valid, its reserved count is the sum
  over orders of what each holds there, and its on-hand count is what was booked.
  `ReservedMatchesOrders` counts a set of units, pairs and numbers, and the lemmas on
  cardinality turn it into that sum (`ReservedIsTotal`); a sum over orders changes by
  the share of the one or two orders that a handler touches.  `StageInv` is needed to
  know which status holds units and which does not.  From `BalanceKept` it follows
  that the repair inside the handlers never finds work (`SyncedIsStored`,
  `RepairNeverNeeded`), so it never raises what is on hand.
- Purchases.  What was bought and received of an item stays within what was
  requested; only `CancelOrder` sets CANCELLED, and it looks for active purchases.

### Overlapping sessions

The hypothesis `SameOrder = FALSE` is that users do not work on one order at the
same time.  The code does not ensure it, and without it the theorems are false: the
run `phantom` violates `ReservedMatchesOrders`.  Everything else may overlap: any
number of sessions on the same balances, in any order of locks, refused, deadlocked or
dead at any step.  `OverlapSpec` begins in any rows that the handlers leave one at a
time (`OrdersInv`), because sessions can do nothing in an empty warehouse;
`EmptyTablesToo` says that this includes the empty tables of `TransactionsSpec`.

`SessionInv` says of each live session that what it read of its order is what is
stored, that the checks it made still hold, that each row it locked is what is stored,
and that no two sessions share an order or a locked row.  The second is true because
only the holder of a lock writes the row, and the repair after the lock finds nothing
to repair, whatever unlocked lines of other orders it summed.  So a commit computes
the same rows as `ReserveStock`, `UnreserveStock`, `CancelOrder`, `DispatchOrder` or
`RegisterOutcome` would at that moment, and writing only the changed columns
(`Written`) writes the same rows (`CommitReserve`, `CommitRelease` and their like).

### The e-mail queue

`QueueInv`: the advisory lock lets one worker be at work (`OneWorker`); a row's status
says whether its e-mail may have been accepted and must still be stored (`RowsAgree`);
a worker holds a row that is being processed or sent, and goes on to SENT only if it
was accepted (`HandsAgree`); each status bounds the attempts behind it, with one more
per death, because a row in hand that no worker holds owes its attempt to a dead one
(`AttemptsAgree`); and a batch that shows an end has no active item
(`BatchesAgree`).  `QueueImplementsDelivery` maps each step: creation asks, the
provider's acceptance accepts, SENT, PREPARED and the last failure end, a retry asks
again for what failed, and everything else stutters.

### Documents and drafts

`DocumentsInv` has two halves.  One holds whatever overlaps: rows and requests belong
together, requests are issued in order and at most one works (`RowsOK`), each session
is where its handler can be (`SessionsOK`), and the joint copies of a bundle that were
or may yet be e-mailed are at most one more than the faults (`BundlesOK`).  The other,
`Quiet`, is about the time before anything overlapped (`races = 0`): sessions work on
disjoint documents, and what one read is what is stored, but for the data that
anybody may change.  While a document is sent, the one request that works is not
signed: signing completes the document in the same commit, so the office's signature
never has its turn.

`DraftsInv`: a draft that is prepared and not committed is prepared under the lock of
its event, for a person who has none and who is or is being assigned; an assignment
that is prepared refers to a sheet that exists or is made by the same session; who
locks an event FOR UPDATE is the only one with a lock on it (`LocksApart`).  A row that
is undone to its savepoint takes nothing along that another row rests on.

### Logbooks and series

`Concludes` says what a handler may conclude from the logbook that it read: which
people and answers it may change, from what to what.  Each handler is shown to conclude
no more, and `LogbooksInv` to be kept by a conclusion, written at once or by the slow
transaction over what others did since.  `AwaitInv`: work in review was submitted once
more than it was reviewed, also when a slow review is about to be written, because
its assignment is locked.  `FrozenInv`: before any raced commit, frozen work is
untouched, and shared work is in review as a whole.

`ExceptionsStay` and `NothingLeftBehind` are inductive with the types of the rows
(`SeriesInv`).  Completing the window is the one step that could break both, so what
`Generated` makes of any row is a lemma of its own.

### Reports

`ReportsInv`: a figure that nobody overrode follows its source in the report and in
every stored revision (`FiguresInv`); an editor who missed a save has loaded an older
version than the report's, and his slow transaction, if he has one, read an older one
(`VersionsInv`), so the optimistic check refuses him; every publication has its own
key and, while no answer was lost, its PDF (`PublicationsInv`).  A slow commit can
write back an older version number, so section identifiers and links are natural
numbers without a bound.

### Only model-checked

The four liveness properties, `EveryRequestEnds`, `EveryItemEnds`, `EveryBatchEnds`
and `WindowCompleted`: they rest on fairness, hence on ENABLED, which is outside the
prover's reach.  The disagreement of `phantom` is a counterexample, found by TLC.  No
module uses recursion.

## 7. Not modelled

- Logistics evidence, warehouses and the catalogue: rows that gate other handlers,
  which show as refusals.
- Public event forms: a response is one transaction, and publishing or closing sets
  one field that was read without a lock.  Event sessions, tasks and incidents: tables
  of allowed transitions of one field.  Waste and collection points: records and sums.
- The older catalogue orders, superseded by the logistics orders.
- Carbon and environmental calculation: decimal arithmetic over factors from the
  database, without transitions.  Report rendering: what pages look like.
- Assistance by language models: calls to providers; what an accepted proposal
  writes is in `ReportEditing`.
- Audit log, dashboards, the client portal, users, clients, services, zones and
  surveys: writes of single rows, reads, and permission predicates.
- The web client and the history of migrations.
