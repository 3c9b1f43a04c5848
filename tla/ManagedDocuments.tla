-------------------------- MODULE ManagedDocuments --------------------------
(***************************************************************************)
(* Contracts and EPP records: drafts that are frozen and sent for signing  *)
(* through a public link, or frozen and printed to be signed on paper;     *)
(* cancelled; replaced by a new version.  The two documents of a person    *)
(* are usually sent together, as a bundle whose signed copies are e-mailed *)
(* once, when both are signed.                                             *)
(*                                                                         *)
(* Handlers that lock the document's row before they read it are one step. *)
(* The others are sessions: they read, and what they write later rests on  *)
(* what they read.  When two handlers overlap on one document that is      *)
(* counted in races, and several properties are about the time before.     *)
(***************************************************************************)
EXTENDS Integers, FiniteSets

CONSTANTS
    Contracts, Epps,  \* identifiers of documents of either kind
    Fresh,            \* those that are made as such, not as a new version of another
    Pair,             \* Pair[c]: the EPP record of the person of contract c
    Sessions,         \* database sessions of requests that read before they lock
    MaxRequests,      \* bound on the signature requests of a document
    MaxBundles,       \* bound on the times pairs are sent together
    MaxData,          \* bound on the changes of what a document says
    MaxFaults,        \* bound on the faults
    MaxRaces          \* bound on the overlaps of handlers on one document

ASSUME DocumentsAssumption ==
    /\ Contracts \cap Epps = {}
    /\ DOMAIN Pair \subseteq Contracts
    /\ Pair \in [DOMAIN Pair -> Epps]
    /\ Fresh \subseteq Contracts \cup Epps
    /\ {MaxRequests, MaxBundles, MaxData, MaxFaults, MaxRaces} \subseteq Nat

VARIABLES
    doc,      \* doc[d]: a row of managed_documents
    request,  \* request[d][n]: the n-th row of document_signature_requests of d
    bundles,  \* how many bundles were made
    copies,   \* copies[b]: joint copies that signing e-mailed for bundle b
    session,  \* what each session has read, and how far it is
    faults,   \* how many sessions died, answers of the provider were lost, and copies
              \* sent again failed
    races     \* how often two handlers overlapped on one document

documentVars == <<doc, request, bundles, copies, session, faults, races>>

Documents == Contracts \cup Epps
Numbers == 1..MaxRequests
Bundles == 1..MaxBundles

Unset == -1

\* data stands for all that the text of a document is made of: its own data and
\* what it quotes of the person, the event and the signer.
NoDocument == [status |-> "ABSENT", signature_method |-> "NONE", paper_status |-> "NONE",
               data |-> 0, frozen_snapshot |-> Unset, signed_pdf |-> Unset,
               supersedes |-> {}]

NoRequest == [issued |-> FALSE, revoked |-> FALSE, late |-> FALSE, signed |-> FALSE,
              bundle |-> 0, copy |-> "NONE"]

Idle == [handler |-> "none", docs |-> {}]

DocumentsInit ==
    /\ doc = [d \in Documents |-> NoDocument]
    /\ request = [d \in Documents |-> [n \in Numbers |-> NoRequest]]
    /\ bundles = 0
    /\ copies = [b \in Bundles |-> 0]
    /\ session = [t \in Sessions |-> Idle]
    /\ faults = 0
    /\ races = 0

-----------------------------------------------------------------------------
(* Helpers.                                                                 *)

Issued(d) == {n \in Numbers : request[d][n].issued}
Live(d) == {n \in Issued(d) : ~request[d][n].revoked}
Latest(S) == CHOOSE n \in S : \A k \in S : k <= n

\* The status shown for a document: that of its link while it is sent.  (One that
\* was opened is shown as VIEWED, which nothing tells from SENT.)
ReadStatus(d) ==
    IF doc[d].status # "SENT" \/ Live(d) = {} THEN doc[d].status
    ELSE LET r == request[d][Latest(Live(d))]
         IN CASE r.late               -> "EXPIRED"
              [] ~r.late /\ r.signed  -> "PARTIALLY_SIGNED"
              [] ~r.late /\ ~r.signed -> "SENT"

\* A link works while it is neither revoked nor expired.
Valid(d, n) == n \in Live(d) /\ ~request[d][n].late

Revoked(requests) == [n \in Numbers |-> [requests[n] EXCEPT !.revoked = requests[n].issued]]

Add(requests, bundle) ==
    LET next == 1 + Cardinality({n \in Numbers : requests[n].issued})
    IN [requests EXCEPT ![next] = [NoRequest EXCEPT !.issued = TRUE, !.bundle = bundle]]

\* Mutant: the links that were out keep working when a new one is made.
RenewedOnly(requests, bundle) == Add(requests, bundle)

\* The requests of a document after a new one was issued.
Renewed(requests, bundle) == Add(Revoked(requests), bundle)

CanIssue(d) == Cardinality(Issued(d)) < MaxRequests

Changed(row) == [row EXCEPT !.data = IF @ < MaxData THEN @ + 1 ELSE @]

\* What sending freezes or printing freezes, the first time.
Frozen(row) == IF row.frozen_snapshot = Unset THEN row.data ELSE row.frozen_snapshot

\* A session writes the fields that it changed.
Written(row, read, new) ==
    [field \in DOMAIN row |-> IF read[field] = new[field] THEN row[field] ELSE new[field]]

At(t, handler, step) == session[t].handler = handler /\ session[t].step = step

\* The document of a session that has one.
Only(t) == CHOOSE d \in session[t].docs : TRUE

BundleOf(t) == request[Only(t)][session[t].number].bundle

\* The session goes on to a step, or ends.
Go(t, step) ==
    session' = [session EXCEPT ![t] = IF step = "end" THEN Idle ELSE [@ EXCEPT !.step = step]]

\* A handler works on documents ds: are others already at it?
Touch(ds) ==
    LET overlap == \E t \in Sessions : session[t].docs \cap ds # {}
    IN /\ overlap => races < MaxRaces
       /\ races' = IF overlap THEN races + 1 ELSE races

\* What a handler that is a single step leaves alone.
NoSession == UNCHANGED <<bundles, copies, session, faults>>

\* What a step of a session leaves alone, documents and requests apart.
InSession == UNCHANGED <<bundles, copies, faults, races>>

-----------------------------------------------------------------------------
(* The rows of a bundle are locked while its copy is e-mailed.              *)

\* The requests of bundle b, as <<document, number>>.
Bundle(b) == {r \in Documents \X Numbers :
                 request[r[1]][r[2]].issued /\ request[r[1]][r[2]].bundle = b}

\* Mutant: the requests of a bundle are read without a lock.
BundleFreeAlways(b) == TRUE

BundleFree(b) ==
    \A t \in Sessions : At(t, "sign", "mailing") \/ At(t, "sign", "mailed") => BundleOf(t) # b

\* Nobody holds a lock on a request of d that still works.
RequestsFree(d) ==
    \A n \in Live(d) : request[d][n].bundle # 0 => BundleFree(request[d][n].bundle)

-----------------------------------------------------------------------------
(* Drafts and sending.                                                      *)

CreateDocument(d) ==
    /\ d \in Fresh
    /\ doc[d].status = "ABSENT"
    /\ doc' = [doc EXCEPT ![d].status = "DRAFT"]
    /\ UNCHANGED <<request, races>>
    /\ NoSession

\* What documents quote of the person, the event or the signer changes.  (Bound: of
\* documents that may still be sent; others are not frozen any more.)
FactsChange(ds) ==
    /\ ds # {}
    /\ \A d \in ds : doc[d].status \in {"DRAFT", "READY", "SENT"} /\ doc[d].data < MaxData
    /\ doc' = [d \in Documents |-> IF d \in ds THEN Changed(doc[d]) ELSE doc[d]]
    /\ UNCHANGED <<request, races>>
    /\ NoSession

\* Drafts, all of one kind, are filled: contracts with the employer's data that they
\* lack, EPP records with the elements of the event.
FillDrafts(kind, ds) ==
    /\ ds # {}
    /\ ds \subseteq kind
    /\ \A d \in ds : doc[d].status = "DRAFT" /\ doc[d].data < MaxData
    /\ doc' = [d \in Documents |-> IF d \in ds THEN Changed(doc[d]) ELSE doc[d]]
    /\ Touch(ds)
    /\ UNCHANGED request
    /\ NoSession

PrepareDocument(d) ==
    /\ doc[d].signature_method # "PAPER"
    /\ doc[d].status = "DRAFT"
    /\ doc' = [doc EXCEPT ![d].status = "READY"]
    /\ Touch({d})
    /\ UNCHANGED request
    /\ NoSession

\* Mutant: sending stores the status that a link which was opened shows.
SentViewed(row) == [row EXCEPT !.status = "VIEWED", !.frozen_snapshot = Frozen(row)]

\* A row as sending leaves it.
Sent(row) == [row EXCEPT !.status = "SENT", !.signature_method = "ELECTRONIC",
                         !.frozen_snapshot = Frozen(row)]

SendForSignature(d) ==
    /\ doc[d].signature_method # "PAPER"
    /\ doc[d].status \in {"READY", "SENT"}
    /\ CanIssue(d)
    /\ RequestsFree(d)
    /\ doc' = [doc EXCEPT ![d] = Sent(@)]
    /\ request' = [request EXCEPT ![d] = Renewed(@, 0)]
    /\ Touch({d})
    /\ NoSession

\* Mutant: a document that was replaced can be replaced again.
CanVersionAgain(d) == doc[d].status \notin {"ABSENT", "DRAFT", "READY", "CANCELLED"}

CanVersion(d) ==
    \/ /\ doc[d].signature_method = "PAPER"
       /\ doc[d].status \in {"DRAFT", "READY", "CANCELLED"}
    \/ ReadStatus(d) \in {"SENT", "PARTIALLY_SIGNED", "COMPLETED", "EXPIRED"}

\* d is replaced by a draft in a new row.
CreateNewVersion(d, new) ==
    /\ CanVersion(d)
    /\ doc[new].status = "ABSENT"
    /\ (d \in Contracts) = (new \in Contracts)
    /\ RequestsFree(d)
    /\ doc' = [doc EXCEPT ![d].status = "SUPERSEDED",
                          ![new] = [NoDocument EXCEPT !.status = "DRAFT",
                                       !.data = doc[d].data, !.supersedes = {d}]]
    /\ request' = [request EXCEPT ![d] = Revoked(@)]
    /\ Touch({d})
    /\ NoSession

-----------------------------------------------------------------------------
(* Paper that was printed.  None of these handlers reads the status.        *)

\* A batch is printed: of its documents, those that were prepared.
MarkPaperBatchPrinted(batch) ==
    /\ batch # {}
    /\ \A d \in batch : doc[d].signature_method = "PAPER" /\ doc[d].paper_status = "PREPARED"
    /\ doc' = [d \in Documents |->
          IF d \in batch THEN [doc[d] EXCEPT !.paper_status = "PRINTED"] ELSE doc[d]]
    /\ Touch(batch)
    /\ UNCHANGED request
    /\ NoSession

MarkPaperSignedReceived(d) ==
    /\ doc[d].signature_method = "PAPER"
    /\ doc[d].paper_status \in {"PREPARED", "PRINTED"}
    /\ doc' = [doc EXCEPT ![d].paper_status = "SIGNED_RECEIVED"]
    /\ Touch({d})
    /\ UNCHANGED request
    /\ NoSession

\* The signed sheet is archived, for good.
UploadPaperSignedCopy(d) ==
    /\ doc[d].signature_method = "PAPER"
    /\ doc[d].paper_status \in {"PRINTED", "SIGNED_RECEIVED"}
    /\ doc' = [doc EXCEPT ![d].paper_status = "ARCHIVED"]
    /\ Touch({d})
    /\ UNCHANGED request
    /\ NoSession

-----------------------------------------------------------------------------
(* Sessions that read first.  rows holds what was read, where it is used.   *)

Begin(t, handler, ds, rows) ==
    /\ session[t] = Idle
    /\ session' = [session EXCEPT ![t] =
           [handler |-> handler, docs |-> ds, step |-> "read", rows |-> rows,
            number |-> 0, signed |-> FALSE]]
    /\ Touch(ds)
    /\ UNCHANGED <<doc, request, bundles, copies, faults>>

BeginUpdate(t, d) ==
    /\ doc[d].signature_method # "PAPER"
    /\ doc[d].status \in {"DRAFT", "READY"}
    /\ Begin(t, "update", {d}, [e \in {d} |-> doc[e].status])

CommitUpdate(t) ==
    /\ At(t, "update", "read")
    /\ LET d == Only(t)
           new == Changed(doc[d])
       IN doc' = [doc EXCEPT ![d] =
             [new EXCEPT !.status = IF session[t].rows[d] = "READY" THEN "DRAFT" ELSE @]]
    /\ Go(t, "end")
    /\ UNCHANGED request
    /\ InSession

\* Mutant: a completed document can be cancelled.
CancellableAny == {"DRAFT", "READY", "SENT", "COMPLETED"}

Cancellable == {"DRAFT", "READY", "SENT"}

BeginCancel(t, d) ==
    /\ doc[d].status \in Cancellable
    /\ Begin(t, "cancel", {d}, <<>>)

CommitCancel(t) ==
    /\ At(t, "cancel", "read")
    /\ LET d == Only(t)
       IN /\ RequestsFree(d)
          /\ doc' = [doc EXCEPT ![d].status = "CANCELLED"]
          /\ request' = [request EXCEPT ![d] = Revoked(@)]
    /\ Go(t, "end")
    /\ InSession

Printable(d, reprint) ==
    /\ doc[d].status \in {"DRAFT", "READY"}
    /\ doc[d].signature_method \in {"NONE", "PAPER"}
    /\ doc[d].paper_status = "NONE" \/ reprint

\* The printable documents of a selection are read; then their PDFs are made.
BeginPrint(t, selection, reprint) ==
    LET printed == {d \in selection : Printable(d, reprint)}
    IN /\ printed = selection
       /\ printed # {}
       /\ Begin(t, "print", printed, [d \in printed |-> doc[d]])

Printed(row) ==
    [row EXCEPT !.signature_method = "PAPER",
                !.paper_status = IF @ = "NONE" THEN "PREPARED" ELSE @,
                !.frozen_snapshot = Frozen(row)]

CommitPrint(t) ==
    /\ At(t, "print", "read")
    /\ LET read == session[t].rows
       IN doc' = [d \in Documents |->
             IF d \in session[t].docs THEN Written(doc[d], read[d], Printed(read[d]))
             ELSE doc[d]]
    /\ Go(t, "end")
    /\ UNCHANGED request
    /\ InSession

-----------------------------------------------------------------------------
(* Signing, and the signed copy.                                            *)

\* The worker signs through link n: the request is read, and the document's row is
\* awaited.
BeginSign(t, d, n) ==
    /\ Valid(d, n)
    /\ session[t] = Idle
    /\ session' = [session EXCEPT ![t] =
           [handler |-> "sign", docs |-> {d}, step |-> "read", rows |-> <<>>,
            number |-> n, signed |-> request[d][n].signed]]
    /\ Touch({d})
    /\ UNCHANGED <<doc, request, bundles, copies, faults>>

AlreadySigned(t) ==
    /\ At(t, "sign", "read")
    /\ session[t].signed
    /\ Go(t, "end")
    /\ UNCHANGED <<doc, request>>
    /\ InSession

\* Mutant: the document waits for the office's signature.
SignedByWorker == "SENT"

SignedStatus == "COMPLETED"

CommitSign(t) ==
    /\ At(t, "sign", "read")
    /\ ~session[t].signed
    /\ LET d == Only(t)
       IN /\ RequestsFree(d)
          /\ doc' = [doc EXCEPT ![d].status = SignedStatus,
                                ![d].signed_pdf = doc[d].frozen_snapshot]
          /\ request' = [request EXCEPT ![d][session[t].number].signed = TRUE]
    /\ Go(t, "signed")
    /\ InSession

Copied(rs, outcome) ==
    [d \in Documents |-> [n \in Numbers |->
        IF <<d, n>> \in rs THEN [request[d][n] EXCEPT !.copy = outcome]
        ELSE request[d][n]]]

\* A document that was sent alone: its copy is e-mailed, or that fails.
CopyAlone(t, outcome) ==
    /\ At(t, "sign", "signed")
    /\ BundleOf(t) = 0
    /\ request' = Copied({<<Only(t), session[t].number>>}, outcome)
    /\ Go(t, "end")
    /\ UNCHANGED doc
    /\ InSession

\* The requests of the bundle are locked and looked at.
LookAtBundle(t) ==
    /\ At(t, "sign", "signed")
    /\ BundleOf(t) # 0
    /\ BundleFree(BundleOf(t))
    /\ LET rs == Bundle(BundleOf(t))
           unsigned == \E r \in rs : ~request[r[1]][r[2]].signed
           sent == \E r \in rs : request[r[1]][r[2]].copy = "SENT"
       IN /\ request' = IF unsigned THEN Copied({<<Only(t), session[t].number>>}, "WAITING")
                        ELSE request
          /\ Go(t, IF unsigned \/ sent THEN "end" ELSE "mailing")
    /\ UNCHANGED doc
    /\ InSession

\* Both documents of the bundle are there and signed.
Complete(b) ==
    /\ Cardinality(Bundle(b)) = 2
    /\ \A r \in Bundle(b) : doc[r[1]].status = "COMPLETED"

MailBundle(t) ==
    /\ At(t, "sign", "mailing")
    /\ Complete(BundleOf(t))
    /\ copies' = [copies EXCEPT ![BundleOf(t)] = @ + 1]
    /\ Go(t, "mailed")
    /\ UNCHANGED <<doc, request, bundles, faults, races>>

\* The result is recorded in every request of the bundle.  When the answer of the
\* provider is lost after it accepted the copy, that is recorded as a failure too.
RecordBundle(t, outcome) ==
    /\ \/ /\ At(t, "sign", IF outcome = "SENT" THEN "mailed" ELSE "mailing")
          /\ UNCHANGED faults
       \/ /\ outcome = "FAILED"
          /\ At(t, "sign", "mailed")
          /\ faults < MaxFaults
          /\ faults' = faults + 1
    /\ request' = Copied(Bundle(BundleOf(t)), outcome)
    /\ Go(t, "end")
    /\ UNCHANGED <<doc, bundles, copies, races>>

\* The office sends the copy of a completed document again.  If that fails the copy
\* counts as not sent, even if it was sent before.
ResendSignedCopy(d, outcome) ==
    /\ doc[d].status = "COMPLETED"
    /\ Issued(d) # {}
    /\ LET n == Latest(Issued(d))
           b == request[d][n].bundle
       IN \/ /\ b = 0
             /\ request' = Copied({<<d, n>>}, outcome)
          \/ /\ b # 0
             /\ BundleFree(b)
             /\ Cardinality(Bundle(b)) = 2
             /\ \A r \in Bundle(b) : request[r[1]][r[2]].signed
             /\ outcome = "SENT" => Complete(b)
             /\ request' = Copied(Bundle(b), outcome)
    /\ outcome = "FAILED" => faults < MaxFaults
    /\ faults' = IF outcome = "FAILED" THEN faults + 1 ELSE faults
    /\ UNCHANGED <<doc, bundles, copies, session, races>>

\* A link expires.
Expire(d, n) ==
    /\ Valid(d, n)
    /\ request' = [request EXCEPT ![d][n].late = TRUE]
    /\ UNCHANGED <<doc, races>>
    /\ NoSession

-----------------------------------------------------------------------------
(* Sending both documents of a person together: up to four commits, all of  *)
(* them on the rows as they were read before the first.                     *)

BeginTogether(t, c) ==
    LET ds == {c, Pair[c]}
    IN /\ \A d \in ds : /\ doc[d].signature_method # "PAPER"
                        /\ doc[d].status \in {"DRAFT", "READY", "SENT"}
                        /\ CanIssue(d)
       /\ bundles < MaxBundles
       /\ bundles' = bundles + 1
       /\ session[t] = Idle
       /\ session' = [session EXCEPT ![t] =
              [handler |-> "together", docs |-> ds, step |-> "read",
               rows |-> [d \in ds |-> doc[d]], number |-> bundles + 1, signed |-> FALSE]]
       /\ Touch(ds)
       /\ UNCHANGED <<doc, request, copies, faults>>

\* A commit of the session writes what it changed of either document.
WriteRows(t, new) ==
    doc' = [e \in Documents |->
        IF e \in session[t].docs THEN Written(doc[e], session[t].rows[e], new[e]) ELSE doc[e]]

Readied(row) == [row EXCEPT !.status = IF @ = "DRAFT" THEN "READY" ELSE @]

\* Once a document was prepared, or needed not be, it is to be signed through a link:
\* the next commit writes that.
Marked(row) == [row EXCEPT !.signature_method = "ELECTRONIC"]

\* A document that was read as a draft is prepared: the contract first.
PrepareOne(t, d, step, next) ==
    LET rows == session[t].rows
        marks == step = "prepare" /\ rows[d].status = "DRAFT"
        new == [e \in session[t].docs |->
                  IF e = d THEN Readied(rows[e]) ELSE IF marks THEN Marked(rows[e]) ELSE rows[e]]
    IN /\ At(t, "together", step)
       /\ d \in session[t].docs
       /\ WriteRows(t, new)
       /\ session' = [session EXCEPT ![t] = [@ EXCEPT !.rows = new, !.step = next]]
       /\ UNCHANGED request
       /\ InSession

SendOne(t, d, step, next) ==
    LET rows == session[t].rows
        new == [e \in session[t].docs |-> IF e = d THEN Sent(rows[e]) ELSE Marked(rows[e])]
    IN /\ At(t, "together", step)
       /\ d \in session[t].docs
       /\ CanIssue(d)
       /\ RequestsFree(d)
       /\ WriteRows(t, new)
       /\ request' = [request EXCEPT ![d] = Renewed(@, session[t].number)]
       /\ session' = [session EXCEPT ![t] =
              IF next = "end" THEN Idle ELSE [@ EXCEPT !.rows = new, !.step = next]]
       /\ InSession

SendTogether(t) ==
    \/ \E c \in DOMAIN Pair : BeginTogether(t, c)
    \/ \E c \in Contracts : PrepareOne(t, c, "read", "prepare")
    \/ \E e \in Epps : PrepareOne(t, e, "prepare", "contract")
    \/ \E c \in Contracts : SendOne(t, c, "contract", "epp")
    \/ \E e \in Epps : SendOne(t, e, "epp", "end")

\* A session dies, or is refused; its locks go with it.
Die(t) ==
    /\ session[t] # Idle
    /\ faults < MaxFaults
    /\ faults' = faults + 1
    /\ session' = [session EXCEPT ![t] = Idle]
    /\ UNCHANGED <<doc, request, bundles, copies, races>>

-----------------------------------------------------------------------------
(* The specification.                                                       *)

OfficeNext ==
    \/ \E d \in Documents :
          \/ CreateDocument(d)
          \/ PrepareDocument(d)
          \/ SendForSignature(d)
          \/ \E new \in Documents : CreateNewVersion(d, new)
          \/ MarkPaperSignedReceived(d)
          \/ UploadPaperSignedCopy(d)
          \/ \E outcome \in {"SENT", "FAILED"} : ResendSignedCopy(d, outcome)
          \/ \E n \in Numbers : Expire(d, n)
    \/ \E ds \in SUBSET Documents :
          \/ FactsChange(ds)
          \/ \E kind \in {Contracts, Epps} : FillDrafts(kind, ds)
          \/ MarkPaperBatchPrinted(ds)

SessionNext ==
    \E t \in Sessions :
        \/ \E d \in Documents :
              \/ BeginUpdate(t, d)
              \/ BeginCancel(t, d)
              \/ \E n \in Numbers : BeginSign(t, d, n)
        \/ \E ds \in SUBSET Documents, reprint \in BOOLEAN : BeginPrint(t, ds, reprint)
        \/ CommitUpdate(t)
        \/ CommitCancel(t)
        \/ CommitPrint(t)
        \/ AlreadySigned(t)
        \/ CommitSign(t)
        \/ \E outcome \in {"SENT", "FAILED"} : CopyAlone(t, outcome) \/ RecordBundle(t, outcome)
        \/ LookAtBundle(t)
        \/ MailBundle(t)
        \/ SendTogether(t)
        \/ Die(t)

DocumentsNext == OfficeNext \/ SessionNext

DocumentsSpec == DocumentsInit /\ [][DocumentsNext]_documentVars

-----------------------------------------------------------------------------
(* Properties.                                                              *)

\* Every row has values its columns allow; the statuses VIEWED, EXPIRED and
\* PARTIALLY_SIGNED are only ever shown, never stored.  models/documents.py:126-201
DocumentsTypeOK ==
    /\ \A d \in Documents :
          /\ doc[d].status \in {"ABSENT", "DRAFT", "READY", "SENT", "COMPLETED",
                                "CANCELLED", "SUPERSEDED"}
          /\ doc[d].signature_method \in {"NONE", "ELECTRONIC", "PAPER"}
          /\ doc[d].paper_status \in {"NONE", "PREPARED", "PRINTED", "SIGNED_RECEIVED",
                                      "ARCHIVED"}
          /\ doc[d].data \in 0..MaxData
          /\ {doc[d].frozen_snapshot, doc[d].signed_pdf} \subseteq {Unset} \cup (0..MaxData)
          /\ doc[d].supersedes \subseteq Documents
    /\ \A d \in Documents, n \in Numbers :
          /\ request[d][n].bundle \in {0} \cup Bundles
          /\ request[d][n].copy \in {"NONE", "WAITING", "SENT", "FAILED"}
    /\ bundles \in {0} \cup Bundles

\* At most one link of a document works, whatever overlaps; and, as long as nothing
\* overlapped on a document, none of one that was cancelled, replaced or printed.
\* managed_documents_service.py:1070-1076, 1932-1938, 1954-1960
LinksRevoked ==
    \A d \in Documents :
        /\ Cardinality(Live(d)) <= 1
        /\ races = 0 /\ (\/ doc[d].status \in {"CANCELLED", "SUPERSEDED"}
                      \/ doc[d].signature_method = "PAPER") => Live(d) = {}

\* A worker's signature completes the document at once, so the state in which the
\* office countersigns (supervisor_sign) is never reached, not even by handlers that
\* overlap.  managed_documents_service.py:656-664, 1414, 1613.  The manual, which has the
\* office complete what the worker signed (docs/DOCUMENTOS_LOCAL.md:60), says otherwise.
NeverPartiallySigned == \A d \in Documents : ReadStatus(d) # "PARTIALLY_SIGNED"

\* No document is replaced by two, as long as nothing overlapped on one; and the one
\* that is replaced is shown as such.  managed_documents_service.py:1943-1983
OneSuccessor ==
    races = 0 => \A d \in Documents :
        LET successors == {e \in Documents : d \in doc[e].supersedes}
        IN /\ Cardinality(successors) <= 1
           /\ successors # {} <=> doc[d].status = "SUPERSEDED"

\* Signing e-mails the joint copy of a bundle once, although both signatures may
\* come at the same time; once more only for a session that died after sending it, for
\* an answer of the provider that was lost, which is recorded as a failure, or for a
\* failed attempt of the office to send it again, which forgets that it was sent.
\* managed_documents_service.py:1425-1456, 1549-1566
CopiedOnce == \A b \in Bundles : copies[b] <= 1 + faults

\* What was frozen stays, and a completed document stays what was signed: unless
\* handlers overlapped on one, a frozen snapshot and a signed copy never change, and
\* a completed document can only be replaced.
\* managed_documents_service.py:1053, 1410-1415, 1928
SignedForGood ==
    [][races' = 0 => \A d \in Documents :
          /\ doc[d].frozen_snapshot # Unset =>
                doc'[d].frozen_snapshot = doc[d].frozen_snapshot
          /\ doc[d].status = "COMPLETED" =>
                /\ doc'[d].status \in {"COMPLETED", "SUPERSEDED"}
                /\ doc'[d].signed_pdf = doc[d].signed_pdf]_documentVars
=============================================================================
