-------------------------- MODULE ReportPublications --------------------------
(***************************************************************************)
(* Publications of a report: PDFs that are made, kept in a private store,  *)
(* delivered to the client or archived.  The row of the report is locked   *)
(* while a PDF is made; deliveries and archivings lock nothing.            *)
(***************************************************************************)
EXTENDS ReportEditing

CONSTANTS
    MaxPublications,    \* bound on the publications of the report
    MaxRequests,        \* bound on the idempotency keys of those who ask for one
    MaxLost             \* bound on the answers of the database that get lost

ASSUME PublicationsAssumption ==
    MaxPublications \in Nat /\ MaxRequests \in Nat /\ MaxLost \in Nat

\* publications: those made, in their order; files: those whose PDF is in the store;
\* lost: commits whose answer got lost.
PublicationsInit ==
    /\ EditingInit
    /\ publications = <<>>
    /\ files = {}
    /\ lost = 0

-----------------------------------------------------------------------------

EditorUnchanged ==
    UNCHANGED <<source, revisions, template, loaded, stale, blind>>

Keys == {publications[i].key : i \in DOMAIN publications}

Live == {i \in DOMAIN publications : publications[i].status # "ARCHIVED"}

\* latest_publication: the newest that is not archived, 0 if there is none.
Latest == IF Live = {} THEN 0 ELSE CHOOSE i \in Live : \A j \in Live : j <= i

\* generate: with a key that was used before it gives the publication there is.
MakePdf(key) ==
    /\ slow = Idle
    /\ doc.status # "ARCHIVED"
    /\ key \notin Keys
    /\ Len(publications) < MaxPublications
    /\ slow' = [Idle EXCEPT !.kind = "pdf", !.key = key]
    /\ EditorUnchanged
    /\ UNCHANGED <<doc, races, publicationVars>>

Generate == \E n \in 1..MaxRequests : MakePdf([deliver |-> FALSE, n |-> n])

\* The row is committed after the PDF is in the store.  Who wanted it delivered
\* delivers it in another transaction.
Append1 == Append(publications, [status |-> "GENERATED", key |-> slow.key])

Finish ==
    /\ slow.kind = "pdf"
    /\ publications' = Append1
    /\ files' = files \cup {Len(Append1)}
    /\ doc' = [doc EXCEPT !.status = "GENERATED"]
    /\ slow' = IF slow.key.deliver
               THEN [Idle EXCEPT !.kind = "deliver", !.item = Len(Append1),
                                 !.status = "GENERATED", !.read = doc']
               ELSE Idle
    /\ EditorUnchanged
    /\ UNCHANGED <<races, lost>>

\* The store or the database refuses, or the process dies: no row is there.
PdfFails ==
    /\ slow.kind = "pdf"
    /\ slow' = Idle
    /\ EditorUnchanged
    /\ UNCHANGED <<doc, races, publicationVars>>

\* The row is committed, and then the connection lost: the PDF is taken for one that
\* could not be saved and deleted, unless the store fails too.
AnswerLost ==
    /\ slow.kind = "pdf"
    /\ lost < MaxLost
    /\ lost' = lost + 1
    /\ publications' = Append1
    /\ files' \in {files, files \cup {Len(Append1)}}
    /\ doc' = [doc EXCEPT !.status = "GENERATED"]
    /\ slow' = Idle
    /\ EditorUnchanged
    /\ UNCHANGED races

-----------------------------------------------------------------------------
(* Deliveries and archivings: at once, or as the slow one.                  *)

\* Only what was found otherwise is written, of the publication and of the report.
DeliveredFrom(i, status, read) ==
    /\ publications' = [publications EXCEPT ![i].status =
                           IF status = "DELIVERED" THEN @ ELSE "DELIVERED"]
    /\ doc' = [doc EXCEPT !.status = IF read.status = "DELIVERED" THEN @ ELSE "DELIVERED"]

ArchivedFrom(i, status) ==
    publications' = [publications EXCEPT ![i].status =
                        IF status = "ARCHIVED" THEN @ ELSE "ARCHIVED"]

Begin(kind, i) ==
    /\ slow = Idle /\ races < MaxRaces
    /\ slow' = [Idle EXCEPT !.kind = kind, !.item = i, !.status = publications[i].status,
                            !.read = doc]
    /\ UNCHANGED <<doc, publications>>

\* Whatever the status of the report: one that was archived is DELIVERED again.
Deliver(i) ==
    /\ publications[i].status # "ARCHIVED"
    /\ \/ slow.kind \in {"NONE", "deliver", "archive"}
          /\ DeliveredFrom(i, publications[i].status, doc)
          /\ UNCHANGED slow
       \/ Begin("deliver", i)
    /\ EditorUnchanged
    /\ UNCHANGED <<races, files, lost>>

\* The newest is delivered if it was not; if all are archived, one is made for it, once
\* for every version of the report.
DeliverLatest ==
    /\ doc.status # "ARCHIVED"
    /\ IF Latest = 0 THEN MakePdf([deliver |-> TRUE, n |-> doc.version])
       ELSE publications[Latest].status # "DELIVERED" /\ Deliver(Latest)

\* Mutant: what was delivered can be archived.
ArchivableAny(status) == TRUE

Archivable(status) == status # "DELIVERED"

ArchivePublication(i) ==
    /\ Archivable(publications[i].status)
    /\ \/ slow.kind # "edit"
          /\ ArchivedFrom(i, publications[i].status)
          /\ UNCHANGED <<doc, slow>>
       \/ Begin("archive", i)
    /\ EditorUnchanged
    /\ UNCHANGED <<races, files, lost>>

CommitStatus ==
    /\ \/ slow.kind = "deliver" /\ DeliveredFrom(slow.item, slow.status, slow.read)
       \/ slow.kind = "archive" /\ ArchivedFrom(slow.item, slow.status) /\ UNCHANGED doc
    /\ races' = races + IF /\ slow.read.status = doc.status
                           /\ slow.status = publications[slow.item].status THEN 0 ELSE 1
    /\ races' <= MaxRaces
    /\ slow' = Idle
    /\ EditorUnchanged
    /\ UNCHANGED <<files, lost>>

StatusFails ==
    /\ slow.kind \in {"deliver", "archive"}
    /\ slow' = Idle
    /\ EditorUnchanged
    /\ UNCHANGED <<doc, races, publicationVars>>

PublicationsNext ==
    \/ Generate \/ Finish \/ PdfFails \/ AnswerLost
    \/ DeliverLatest \/ CommitStatus \/ StatusFails
    \/ \E i \in DOMAIN publications : Deliver(i) \/ ArchivePublication(i)

ReportsNext == EditingNext \/ PublicationsNext

ReportsSpec == PublicationsInit /\ [][ReportsNext]_reportVars

-----------------------------------------------------------------------------
(* Properties.                                                              *)

\* The rows have the values of their columns, and no key made two publications.
ReportsTypeOK ==
    /\ EditingTypeOK
    /\ \A i \in DOMAIN publications :
          /\ publications[i].status \in {"GENERATED", "DELIVERED", "ARCHIVED"}
          /\ \A j \in DOMAIN publications :
                publications[i].key = publications[j].key => i = j
    /\ files \subseteq DOMAIN publications
    /\ lost \in 0..MaxLost

\* A report that is shown to the client as delivered has a publication that he may
\* open, with its PDF in the store: whatever is published again, archived or failed,
\* as long as handlers do not overlap and no answer of the database gets lost.
DeliveredCanBeOpened ==
    (races = 0 /\ lost = 0 /\ doc.status = "DELIVERED") =>
        \E i \in files : publications[i].status = "DELIVERED"
=============================================================================
