----------------------- MODULE ManagedDocuments_proofs -----------------------
(***************************************************************************)
(* Documents, links and signed copies, for any documents, pairs, sessions  *)
(* and bounds: DocumentsTypeOK, LinksRevoked, NeverPartiallySigned,        *)
(* OneSuccessor, CopiedOnce and SignedForGood.                             *)
(*                                                                         *)
(* The invariant has two halves.  One holds whatever overlaps: how rows    *)
(* and links belong together, and who may be e-mailing the copy of a       *)
(* bundle.  The other is about the time before anything overlapped: then   *)
(* no two sessions have a document in common, and what a session read of a *)
(* document is still what is stored, but for the data that others change.  *)
(***************************************************************************)
EXTENDS ManagedDocuments, TLAPS, FiniteSetTheorems, WellFoundedInduction

Stored == {"ABSENT", "DRAFT", "READY", "SENT", "COMPLETED", "CANCELLED", "SUPERSEDED"}

Snapshots == {Unset} \cup (0..MaxData)

RowType ==
    [status : Stored, signature_method : {"NONE", "ELECTRONIC", "PAPER"},
     paper_status : {"NONE", "PREPARED", "PRINTED", "SIGNED_RECEIVED", "ARCHIVED"},
     data : 0..MaxData, frozen_snapshot : Snapshots, signed_pdf : Snapshots,
     supersedes : SUBSET Documents]

RequestType ==
    [issued : BOOLEAN, revoked : BOOLEAN, late : BOOLEAN, signed : BOOLEAN,
     bundle : {0} \cup Bundles, copy : {"NONE", "WAITING", "SENT", "FAILED"}]

\* The requests that work, of a document with these.
Working(requests) == {n \in Numbers : requests[n].issued /\ ~requests[n].revoked}

-----------------------------------------------------------------------------
(* Whatever overlaps.                                                       *)

\* A document and its requests: issued one after the other, one of them at work, and
\* that one not signed while the document is sent.
RowOK(row, requests) ==
    /\ row \in RowType
    /\ requests \in [Numbers -> RequestType]
    /\ \A n, m \in Numbers : requests[n].issued /\ m <= n => requests[m].issued
    /\ \A n, m \in Working(requests) : n = m
    /\ row.status = "SENT" => \A n \in Working(requests) : ~requests[n].signed
    /\ row.status = "ABSENT" => row = NoDocument /\ \A n \in Numbers : ~requests[n].issued

RowsOK ==
    /\ doc \in [Documents -> RowType]
    /\ request \in [Documents -> [Numbers -> RequestType]]
    /\ \A d \in Documents : RowOK(doc[d], request[d])
    /\ bundles \in {0} \cup Bundles
    /\ copies \in [Bundles -> Nat]
    /\ faults \in Nat
    /\ races \in Nat

Fields == {"handler", "docs", "step", "rows", "number", "signed"}

\* What a session is at, given the documents and requests there are.
SessionOK(s, row, requests) ==
    /\ DOMAIN s = Fields
    /\ s.docs \subseteq Documents
    /\ \A d \in s.docs : row[d].status # "ABSENT"
    /\ s.handler \in {"update", "cancel", "print", "sign", "together"}
    /\ s.handler # "together" /\ s.handler # "sign" => s.step = "read"
    /\ s.handler \in {"update", "cancel", "sign"} => \E d \in Documents : s.docs = {d}
    /\ s.handler = "update" => s.rows \in [s.docs -> {"DRAFT", "READY"}]
    /\ s.handler \in {"print", "together"} => s.rows \in [s.docs -> RowType]
    /\ s.handler = "sign" =>
          /\ s.step \in {"read", "signed", "mailing", "mailed"}
          /\ s.number \in Numbers
          /\ s.signed \in BOOLEAN
          /\ \A d \in s.docs :
                /\ requests[d][s.number].issued
                /\ s.step # "read" => requests[d][s.number].signed
                /\ s.step \in {"mailing", "mailed"} => requests[d][s.number].bundle # 0
    /\ s.handler = "together" =>
          /\ s.step \in {"read", "prepare", "contract", "epp"}
          /\ s.number \in Bundles
          /\ \E c \in DOMAIN Pair : s.docs = {c, Pair[c]}

SessionsOK ==
    /\ session = [t \in Sessions |-> session[t]]
    /\ \A t \in Sessions : session[t] # Idle => SessionOK(session[t], doc, request)

\* The n-th request of d belongs to bundle b.
In(d, n, b) == request[d][n].issued /\ request[d][n].bundle = b

\* Session t has locked the requests of bundle b.
Mails(t, b) ==
    /\ session[t].handler = "sign"
    /\ session[t].step \in {"mailing", "mailed"}
    /\ \A d \in session[t].docs : request[d][session[t].number].bundle = b

Together(t, b) == session[t].handler = "together" /\ session[t].number = b

\* The copy of bundle b counts as sent.
Recorded(b) == \E d \in Documents, n \in Numbers : In(d, n, b) /\ request[d][n].copy = "SENT"

\* Two requests belong to bundle b.
Both(b) ==
    \E d, e \in Documents, n, m \in Numbers :
        In(d, n, b) /\ In(e, m, b) /\ <<d, n>> # <<e, m>>

\* A copy that was e-mailed is recorded, or is about to be by the only session that may,
\* unless there was a fault; who signs later finds it recorded.
BundleOK(b) ==
    /\ copies[b] <= 1 + faults
    /\ \/ copies[b] <= faults
       \/ Recorded(b)
       \/ \E t \in Sessions : Mails(t, b) /\ session[t].step = "mailed"
    /\ Recorded(b) =>
          /\ Both(b)
          /\ \A d \in Documents, n \in Numbers :
                In(d, n, b) /\ ~request[d][n].signed => request[d][n].copy = "SENT"
    /\ \A t \in Sessions : Mails(t, b) =>
          /\ ~Recorded(b)
          /\ session[t].step = "mailed" => Both(b)
          /\ \A u \in Sessions : Mails(u, b) => t = u
    /\ \A t \in Sessions : Together(t, b) =>
          /\ b <= bundles
          /\ \A u \in Sessions : Together(u, b) => t = u
          /\ \A d \in Documents, n \in Numbers : In(d, n, b) => session[t].step = "epp"
          /\ ~Both(b)
    /\ \A d \in Documents, n \in Numbers : In(d, n, b) => b <= bundles

BundlesOK == \A b \in Bundles : BundleOK(b)

-----------------------------------------------------------------------------
(* As long as nothing overlapped.                                           *)

\* A link works only of a document that is sent or signed, and not on paper; what was
\* signed is what was frozen.
RowQuiet(row, requests) ==
    /\ Working(requests) # {} =>
          row.status \in {"SENT", "COMPLETED"} /\ row.signature_method = "ELECTRONIC"
    /\ row.status = "COMPLETED" => row.signed_pdf = row.frozen_snapshot

SameButData(a, b) == \A field \in DOMAIN NoDocument \ {"data"} : a[field] = b[field]

\* What a session read is still so.
Fresh1(s, row, requests) ==
    /\ s.handler = "update" => \A d \in s.docs : row[d].status = s.rows[d]
    /\ s.handler = "cancel" => \A d \in s.docs : row[d].status \in Cancellable
    /\ s.handler = "print" => \A d \in s.docs :
          /\ SameButData(row[d], s.rows[d])
          /\ row[d].status \in {"DRAFT", "READY"}
    /\ s.handler = "sign" /\ s.step = "read" => \A d \in s.docs : s.number \in Working(requests[d])
    /\ s.handler = "together" => \A d \in s.docs :
          /\ SameButData(row[d], s.rows[d])
          /\ row[d].signature_method # "PAPER"
          /\ row[d].status \in {"DRAFT", "READY", "SENT"}

\* Replaced documents are those with a successor, and it is the only one.
Successors ==
    \A d \in Documents :
        /\ \A e, f \in Documents : d \in doc[e].supersedes /\ d \in doc[f].supersedes => e = f
        /\ (\E e \in Documents : d \in doc[e].supersedes) <=> doc[d].status = "SUPERSEDED"

Quiet ==
    /\ \A d \in Documents : RowQuiet(doc[d], request[d])
    /\ \A t \in Sessions : session[t] # Idle => Fresh1(session[t], doc, request)
    /\ \A t, u \in Sessions : t # u => session[t].docs \cap session[u].docs = {}
    /\ Successors

DocumentsInv ==
    /\ RowsOK
    /\ SessionsOK
    /\ BundlesOK
    /\ races = 0 => Quiet

-----------------------------------------------------------------------------
(* What a step does to one document, as a function of its row and requests. *)

\* Whatever overlaps.
RowKept(row, requests, row2, requests2) ==
    /\ RowOK(row2, requests2)
    /\ row.status # "ABSENT" => row2.status # "ABSENT"
    /\ \A n \in Numbers : requests[n].issued =>
          /\ requests2[n].issued
          /\ requests2[n].bundle = requests[n].bundle
          /\ requests[n].signed => requests2[n].signed

\* As long as nothing overlapped: new versions apart, nobody replaces it.
RowQuietKept(row, row2, requests2) ==
    /\ RowQuiet(row2, requests2)
    /\ row2.supersedes = row.supersedes
    /\ row2.status = "SUPERSEDED" <=> row.status = "SUPERSEDED"

\* What SignedForGood says of one document.
SignedKept(row, row2) ==
    /\ row.frozen_snapshot # Unset => row2.frozen_snapshot = row.frozen_snapshot
    /\ row.status = "COMPLETED" =>
          /\ row2.status \in {"COMPLETED", "SUPERSEDED"}
          /\ row2.signed_pdf = row.signed_pdf

LEMMA NumbersAreNatural == MaxRequests \in Nat /\ MaxBundles \in Nat /\ MaxData \in Nat
                           /\ Numbers \subseteq Nat /\ Bundles \subseteq Nat
BY DocumentsAssumption DEF Numbers, Bundles

\* Requests are issued one after the other.
LEMMA IssuedPrefix ==
    ASSUME NEW requests \in [Numbers -> RequestType],
           \A n, m \in Numbers : requests[n].issued /\ m <= n => requests[m].issued
    PROVE  \E k \in 0..MaxRequests : /\ {n \in Numbers : requests[n].issued} = 1..k
                                     /\ Cardinality(1..k) = k
<1> DEFINE free == {j \in Nat \ {0} : j \in Numbers => ~requests[j].issued}
<1>1. MaxRequests + 1 \in free BY NumbersAreNatural DEF Numbers
<1>2. free \in SUBSET Nat OBVIOUS
<1>3. PICK j \in free : \A y \in free : ~(<<y, j>> \in OpToRel(<, Nat))
  <2> HIDE DEF free
  <2> QED BY <1>1, <1>2, NatLessThanWellFounded, WFMin
<1>4. ASSUME NEW y \in free PROVE j <= y
  <2>1. j \in Nat /\ y \in Nat OBVIOUS
  <2>2. OpToRel(<, Nat) = {ss \in Nat \X Nat : ss[1] < ss[2]} BY Zenon DEF OpToRel
  <2>3. ~(y < j) BY <1>3, <2>1, <2>2
  <2> QED BY <2>1, <2>3
<1>5. j \in Nat \ {0} /\ j <= MaxRequests + 1
  BY <1>1, <1>4
<1>6. \A m \in 1..(j - 1) : m \in Numbers /\ requests[m].issued
  <2> TAKE m \in 1..(j - 1)
  <2>1. m \in Numbers BY <1>5, NumbersAreNatural DEF Numbers
  <2>2. m \notin free BY <1>4, <1>5
  <2> QED BY <2>1, <2>2, <1>5
<1>7. \A n \in Numbers : requests[n].issued => n < j
  <2> TAKE n \in Numbers
  <2>1. CASE n < j BY <2>1
  <2>2. CASE ~(n < j)
    <3>1. j <= n /\ j \in Numbers BY <1>5, <2>2, NumbersAreNatural DEF Numbers
    <3>2. ~requests[j].issued BY <3>1
    <3> QED BY <3>1, <3>2
  <2> QED BY <2>1, <2>2
<1>8. {n \in Numbers : requests[n].issued} = 1..(j - 1)
  BY <1>5, <1>6, <1>7 DEF Numbers
<1>9. Cardinality(1..(j - 1)) = j - 1 BY <1>5, FS_Interval
<1>10. j - 1 \in 0..MaxRequests BY <1>5, NumbersAreNatural
<1> QED BY <1>8, <1>9, <1>10

LEMMA NewRequest ==
    ASSUME NEW b \in {0} \cup Bundles
    PROVE  LET r == [NoRequest EXCEPT !.issued = TRUE, !.bundle = b]
           IN r \in RequestType /\ r.issued /\ ~r.revoked /\ ~r.late /\ ~r.signed
              /\ r.bundle = b /\ r.copy = "NONE"
<1> DEFINE r == [NoRequest EXCEPT !.issued = TRUE]
<1>1. NoRequest \in RequestType BY DEF NoRequest, RequestType
<1>2. /\ r \in RequestType /\ r.issued = TRUE /\ r.revoked = NoRequest.revoked
      /\ r.late = NoRequest.late /\ r.signed = NoRequest.signed /\ r.copy = NoRequest.copy
  BY <1>1 DEF RequestType
<1> HIDE DEF r
<1>3. /\ [r EXCEPT !.bundle = b] \in RequestType /\ [r EXCEPT !.bundle = b].issued = r.issued
      /\ [r EXCEPT !.bundle = b].revoked = r.revoked /\ [r EXCEPT !.bundle = b].late = r.late
      /\ [r EXCEPT !.bundle = b].signed = r.signed /\ [r EXCEPT !.bundle = b].bundle = b
      /\ [r EXCEPT !.bundle = b].copy = r.copy
  BY <1>2 DEF RequestType
<1>4. [NoRequest EXCEPT !.issued = TRUE, !.bundle = b] = [r EXCEPT !.bundle = b] BY DEF r
<1>5. ~NoRequest.revoked /\ ~NoRequest.late /\ ~NoRequest.signed /\ NoRequest.copy = "NONE"
  BY DEF NoRequest
<1> QED BY <1>2, <1>3, <1>4, <1>5

\* A new request of bundle b, after those that were issued, of which none works now.
LEMMA RenewedIs ==
    ASSUME NEW requests \in [Numbers -> RequestType], NEW b,
           \A n, m \in Numbers : requests[n].issued /\ m <= n => requests[m].issued,
           Cardinality({n \in Numbers : requests[n].issued}) < MaxRequests
    PROVE  \E k \in Numbers :
              /\ \A m \in Numbers : requests[m].issued <=> m < k
              /\ Renewed(requests, b) =
                    [n \in Numbers |-> IF n = k
                        THEN [NoRequest EXCEPT !.issued = TRUE, !.bundle = b]
                        ELSE [requests[n] EXCEPT !.revoked = requests[n].issued]]
<1>1. PICK j \in 0..MaxRequests : /\ {n \in Numbers : requests[n].issued} = 1..j
                                  /\ Cardinality(1..j) = j
  BY IssuedPrefix
<1> DEFINE old == Revoked(requests)
           k == 1 + j
<1>2. k \in Numbers
  <2>1. j < MaxRequests BY <1>1
  <2> QED BY <2>1, NumbersAreNatural DEF Numbers
<1>3. \A m \in Numbers : requests[m].issued <=> m < k
  BY <1>1, NumbersAreNatural DEF Numbers
<1>4. \A n \in Numbers : old[n].issued = requests[n].issued
  BY DEF Revoked, RequestType
<1>5. {n \in Numbers : old[n].issued} = {n \in Numbers : requests[n].issued}
  BY <1>4
<1>6. 1 + Cardinality({n \in Numbers : old[n].issued}) = k
  BY <1>1, <1>5
<1>7. Renewed(requests, b) = [old EXCEPT ![k] = [NoRequest EXCEPT !.issued = TRUE, !.bundle = b]]
  BY <1>6 DEF Renewed, Add
<1> DEFINE new == [NoRequest EXCEPT !.issued = TRUE, !.bundle = b]
<1> HIDE DEF k, new
<1>8. [old EXCEPT ![k] = new] =
         [n \in Numbers |-> IF n = k THEN new
                        ELSE [requests[n] EXCEPT !.revoked = requests[n].issued]]
  BY <1>2 DEF Revoked
<1> HIDE DEF old
<1> QED BY <1>2, <1>3, <1>7, <1>8 DEF new

\* One request of those of a document is rewritten.
LEMMA RevokedRequest ==
    ASSUME NEW r \in RequestType
    PROVE  LET r2 == [r EXCEPT !.revoked = r.issued]
           IN r2 \in RequestType /\ r2.issued = r.issued /\ r2.revoked = r.issued
              /\ r2.late = r.late /\ r2.signed = r.signed /\ r2.bundle = r.bundle
              /\ r2.copy = r.copy
BY DEF RequestType

\* The row changes, and no request.
LEMMA RowOnly ==
    ASSUME NEW row, NEW requests, RowOK(row, requests), NEW row2 \in RowType,
           row2.status # "ABSENT", row2.status = "SENT" => row.status = "SENT"
    PROVE  RowKept(row, requests, row2, requests)
BY DEF RowKept, RowOK

LEMMA RowSame ==
    ASSUME NEW row, NEW requests, RowOK(row, requests)
    PROVE  RowKept(row, requests, row, requests)
BY DEF RowKept, RowOK

\* All requests are revoked.
LEMMA RowRevoked ==
    ASSUME NEW row, NEW requests, RowOK(row, requests), NEW row2 \in RowType,
           row2.status # "ABSENT"
    PROVE  /\ RowKept(row, requests, row2, Revoked(requests))
           /\ Working(Revoked(requests)) = {}
           /\ \A n \in Numbers : LET r == requests[n]
                                     r2 == Revoked(requests)[n]
                                 IN r2.issued = r.issued /\ r2.signed = r.signed
                                    /\ r2.bundle = r.bundle /\ r2.copy = r.copy
<1> DEFINE rs == Revoked(requests)
<1>1. \A n \in Numbers : /\ rs[n] \in RequestType /\ rs[n].issued = requests[n].issued
                         /\ rs[n].revoked = requests[n].issued /\ rs[n].signed = requests[n].signed
                         /\ rs[n].bundle = requests[n].bundle /\ rs[n].copy = requests[n].copy
  <2> TAKE n \in Numbers
  <2>1. requests[n] \in RequestType BY DEF RowOK
  <2>2. rs[n] = [requests[n] EXCEPT !.revoked = requests[n].issued] BY DEF Revoked
  <2> QED BY <2>1, <2>2, RevokedRequest
<1>2. rs \in [Numbers -> RequestType]
  <2>1. rs = [n \in Numbers |-> rs[n]] BY DEF Revoked
  <2> QED BY <2>1, <1>1
<1>3. Working(rs) = {} BY <1>1 DEF Working
<1> HIDE DEF rs
<1>4. RowOK(row2, rs)
  BY <1>1, <1>2, <1>3 DEF RowOK
<1>5. RowKept(row, requests, row2, rs)
  BY <1>1, <1>4 DEF RowKept
<1> QED BY <1>1, <1>3, <1>5 DEF rs

\* All requests are revoked, and a new one is issued.
LEMMA RowRenewed ==
    ASSUME NEW row, NEW requests, RowOK(row, requests), NEW row2 \in RowType,
           row2.status # "ABSENT", NEW b \in {0} \cup Bundles,
           Cardinality({n \in Numbers : requests[n].issued}) < MaxRequests
    PROVE  /\ RowKept(row, requests, row2, Renewed(requests, b))
           /\ \E k \in Numbers :
                 /\ ~requests[k].issued
                 /\ LET r2 == Renewed(requests, b)[k]
                    IN r2.issued /\ r2.bundle = b /\ r2.copy = "NONE" /\ ~r2.signed
                 /\ \A n \in Numbers \ {k} :
                       LET r == requests[n]
                           r2 == Renewed(requests, b)[n]
                       IN r2.issued = r.issued /\ r2.signed = r.signed
                          /\ r2.bundle = r.bundle /\ r2.copy = r.copy
<1> DEFINE rs == Renewed(requests, b)
<1>1. requests \in [Numbers -> RequestType]
      /\ \A n, m \in Numbers : requests[n].issued /\ m <= n => requests[m].issued
  BY DEF RowOK
<1>2. PICK k \in Numbers :
              /\ \A m \in Numbers : requests[m].issued <=> m < k
              /\ rs = [n \in Numbers |-> IF n = k
                        THEN [NoRequest EXCEPT !.issued = TRUE, !.bundle = b]
                        ELSE [requests[n] EXCEPT !.revoked = requests[n].issued]]
  BY <1>1, RenewedIs
<1> HIDE DEF rs
<1>3. /\ rs[k] \in RequestType /\ rs[k].issued /\ ~rs[k].revoked /\ ~rs[k].signed
      /\ rs[k].bundle = b /\ rs[k].copy = "NONE"
  <2>1. rs[k] = [NoRequest EXCEPT !.issued = TRUE, !.bundle = b] BY <1>2
  <2> QED BY <2>1, NewRequest
<1>4. \A n \in Numbers \ {k} :
         /\ rs[n] \in RequestType /\ rs[n].issued = requests[n].issued
         /\ rs[n].revoked = requests[n].issued /\ rs[n].signed = requests[n].signed
         /\ rs[n].bundle = requests[n].bundle /\ rs[n].copy = requests[n].copy
  <2> TAKE n \in Numbers \ {k}
  <2>1. requests[n] \in RequestType BY <1>1
  <2>2. rs[n] = [requests[n] EXCEPT !.revoked = requests[n].issued] BY <1>2
  <2> QED BY <2>1, <2>2, RevokedRequest
<1>5. rs \in [Numbers -> RequestType]
  <2>1. rs = [n \in Numbers |-> rs[n]] BY <1>2
  <2> QED BY <2>1, <1>3, <1>4
<1>6. Working(rs) = {k} BY <1>3, <1>4 DEF Working
<1>7. \A n, m \in Numbers : rs[n].issued /\ m <= n => rs[m].issued
  BY <1>2, <1>3, <1>4, NumbersAreNatural
<1>8. ~requests[k].issued BY <1>2, NumbersAreNatural
<1>9. RowOK(row2, rs) BY <1>3, <1>5, <1>6, <1>7 DEF RowOK
<1>10. RowKept(row, requests, row2, rs)
  <2>1. \A n \in Numbers : requests[n].issued =>
          rs[n].issued /\ rs[n].bundle = requests[n].bundle /\ (requests[n].signed => rs[n].signed)
    BY <1>4, <1>8
  <2> QED BY <1>9, <2>1 DEF RowKept
<1>11. /\ ~requests[k].issued
       /\ rs[k].issued /\ rs[k].bundle = b /\ rs[k].copy = "NONE" /\ ~rs[k].signed
       /\ \A n \in Numbers \ {k} : /\ rs[n].issued = requests[n].issued
                                   /\ rs[n].signed = requests[n].signed
                                   /\ rs[n].bundle = requests[n].bundle
                                   /\ rs[n].copy = requests[n].copy
  BY <1>3, <1>4, <1>8
<1> QED BY <1>10, <1>11 DEF rs

\* Requests expire, or the result of e-mailing their copies is noted.
LEMMA RowNoted ==
    ASSUME NEW row, NEW requests, RowOK(row, requests), NEW requests2 \in [Numbers -> RequestType],
           \A n \in Numbers : /\ requests2[n].issued = requests[n].issued
                              /\ requests2[n].revoked = requests[n].revoked
                              /\ requests2[n].signed = requests[n].signed
                              /\ requests2[n].bundle = requests[n].bundle
    PROVE  RowKept(row, requests, row, requests2) /\ Working(requests2) = Working(requests)
<1>1. Working(requests2) = Working(requests) BY DEF Working
<1>2. RowOK(row, requests2)
  <2>1. \A n \in Working(requests) : n \in Numbers BY DEF Working
  <2> QED BY <1>1, <2>1 DEF RowOK
<1> QED BY <1>1, <1>2 DEF RowKept

\* A request is signed.
LEMMA RowSigned ==
    ASSUME NEW row, NEW requests, RowOK(row, requests), NEW row2 \in RowType,
           row2.status = "COMPLETED", NEW n \in Numbers
    PROVE  LET requests2 == [requests EXCEPT ![n].signed = TRUE]
           IN /\ RowKept(row, requests, row2, requests2)
              /\ Working(requests2) = Working(requests)
              /\ requests2[n].signed
              /\ \A m \in Numbers : /\ requests2[m].issued = requests[m].issued
                                    /\ requests2[m].bundle = requests[m].bundle
                                    /\ requests2[m].copy = requests[m].copy
                                    /\ requests[m].signed => requests2[m].signed
<1> DEFINE rs == [requests EXCEPT ![n].signed = TRUE]
<1>1. requests \in [Numbers -> RequestType] BY DEF RowOK
<1>2. rs[n] = [requests[n] EXCEPT !.signed = TRUE] BY <1>1
<1>3. /\ rs[n] \in RequestType /\ rs[n].signed /\ rs[n].issued = requests[n].issued
      /\ rs[n].revoked = requests[n].revoked
      /\ rs[n].bundle = requests[n].bundle /\ rs[n].copy = requests[n].copy
  <2>1. requests[n] \in RequestType BY <1>1
  <2> HIDE DEF rs
  <2> QED BY <1>2, <2>1 DEF RequestType
<1>4. \A m \in Numbers \ {n} : rs[m] = requests[m] BY <1>1
<1>5. rs \in [Numbers -> RequestType]
  <2>1. rs = [m \in Numbers |-> rs[m]] BY <1>1
  <2>2. \A m \in Numbers : rs[m] \in RequestType BY <1>1, <1>3, <1>4
  <2> HIDE DEF rs
  <2> QED BY <2>1, <2>2
<1> HIDE DEF rs
<1>6. \A m \in Numbers : /\ rs[m].issued = requests[m].issued
                         /\ rs[m].revoked = requests[m].revoked
                         /\ rs[m].bundle = requests[m].bundle
                         /\ rs[m].copy = requests[m].copy
                         /\ requests[m].signed => rs[m].signed
  BY <1>3, <1>4
<1>7. Working(rs) = Working(requests) BY <1>6 DEF Working
<1>8. RowOK(row2, rs) BY <1>5, <1>6, <1>7 DEF RowOK
<1>9. RowKept(row, requests, row2, rs) BY <1>6, <1>8 DEF RowKept
<1>10. /\ RowKept(row, requests, row2, rs)
       /\ Working(rs) = Working(requests)
       /\ rs[n].signed
       /\ \A m \in Numbers : /\ rs[m].issued = requests[m].issued
                             /\ rs[m].bundle = requests[m].bundle
                             /\ rs[m].copy = requests[m].copy
                             /\ requests[m].signed => rs[m].signed
  BY <1>3, <1>6, <1>7, <1>9
<1> QED BY <1>10 DEF rs

-----------------------------------------------------------------------------
(* What a step does to all documents, and to the sessions.                  *)

AllSigned == \A d \in Documents : SignedKept(doc[d], doc'[d])

AllKept ==
    /\ doc' = [d \in Documents |-> doc'[d]]
    /\ request' = [d \in Documents |-> request'[d]]
    /\ \A d \in Documents : RowKept(doc[d], request[d], doc'[d], request'[d])

\* Only documents of ds change, but for data and for links that expire or are e-mailed.
Elsewhere(ds) ==
    \A d \in Documents \ ds :
        SameButData(doc'[d], doc[d]) /\ Working(request'[d]) = Working(request[d])

\* As long as nothing overlapped, only documents of ds change.
QuietlyChanged(ds) ==
    /\ \A d \in ds : RowQuietKept(doc[d], doc'[d], request'[d]) /\ SignedKept(doc[d], doc'[d])
    /\ Elsewhere(ds)

\* The invariant after a step, bundles apart, and what the step keeps of signatures.
StepKept ==
    /\ RowsOK'
    /\ SessionsOK'
    /\ races' = 0 => Quiet' /\ AllSigned

LEMMA RowsAfter ==
    ASSUME AllKept, bundles' \in {0} \cup Bundles, copies' \in [Bundles -> Nat],
           faults' \in Nat, races' \in Nat
    PROVE  RowsOK'
<1>1. \A d \in Documents : /\ RowOK(doc'[d], request'[d])
                           /\ doc'[d] \in RowType /\ request'[d] \in [Numbers -> RequestType]
  BY DEF AllKept, RowKept, RowOK
<1>2. doc' \in [Documents -> RowType] /\ request' \in [Documents -> [Numbers -> RequestType]]
  BY <1>1 DEF AllKept
<1> QED BY <1>1, <1>2 DEF RowsOK

LEMMA SessionStays ==
    ASSUME NEW s, SessionOK(s, doc, request), AllKept
    PROVE  SessionOK(s, doc', request')
<1>1. \A d \in s.docs : d \in Documents BY DEF SessionOK
<1>2. \A d \in s.docs : doc'[d].status # "ABSENT"
  BY <1>1 DEF SessionOK, AllKept, RowKept
<1>3. s.handler = "sign" => s.number \in Numbers /\ \A d \in s.docs :
                /\ request'[d][s.number].issued
                /\ s.step # "read" => request'[d][s.number].signed
                /\ s.step \in {"mailing", "mailed"} => request'[d][s.number].bundle # 0
  BY <1>1 DEF SessionOK, AllKept, RowKept
<1> QED BY <1>2, <1>3 DEF SessionOK

LEMMA SessionsAfter ==
    ASSUME SessionsOK, AllKept, session' = [t \in Sessions |-> session'[t]],
           \A t \in Sessions : \/ session'[t] = Idle
                               \/ session'[t] = session[t]
                               \/ SessionOK(session'[t], doc', request')
    PROVE  SessionsOK'
<1>1. ASSUME NEW t \in Sessions, session'[t] # Idle
      PROVE  SessionOK(session'[t], doc', request')
  <2>1. CASE session'[t] = session[t]
    <3>1. SessionOK(session[t], doc, request) BY <1>1, <2>1 DEF SessionsOK
    <3>2. SessionOK(session[t], doc', request') BY <3>1, SessionStays
    <3> QED BY <2>1, <3>2
  <2> QED BY <1>1, <2>1
<1> QED BY <1>1 DEF SessionsOK

\* What a session read stays so while the documents it is at stay.
LEMMA FreshStays ==
    ASSUME NEW s, NEW ds, SessionOK(s, doc, request), Fresh1(s, doc, request),
           s.docs \cap ds = {}, Elsewhere(ds)
    PROVE  Fresh1(s, doc', request')
<1>1. \A d \in s.docs : d \in Documents \ ds BY DEF SessionOK
<1>2. \A d \in s.docs : SameButData(doc'[d], doc[d]) /\ Working(request'[d]) = Working(request[d])
  BY <1>1 DEF Elsewhere
<1>3. \A d \in s.docs : /\ doc'[d].status = doc[d].status
                        /\ doc'[d].signature_method = doc[d].signature_method
                        /\ \A x : SameButData(doc[d], x) => SameButData(doc'[d], x)
  BY <1>2 DEF SameButData, NoDocument
<1> QED BY <1>2, <1>3 DEF Fresh1

LEMMA SuccessorsStay ==
    ASSUME Successors,
           \A d \in Documents : /\ doc'[d].supersedes = doc[d].supersedes
                                /\ doc'[d].status = "SUPERSEDED" <=> doc[d].status = "SUPERSEDED"
    PROVE  Successors'
BY DEF Successors

LEMMA QuietAfter ==
    ASSUME Quiet, SessionsOK, NEW ds \in SUBSET Documents, QuietlyChanged(ds),
           \A t, u \in Sessions : t # u => session'[t].docs \cap session'[u].docs = {},
           \A t \in Sessions : \/ session'[t] = Idle
                               \/ session'[t] = session[t] /\ session[t].docs \cap ds = {}
                               \/ Fresh1(session'[t], doc', request')
    PROVE  Quiet' /\ AllSigned
<1>1. \A d \in Documents \ ds :
         /\ SameButData(doc'[d], doc[d]) /\ Working(request'[d]) = Working(request[d])
         /\ doc'[d].status = doc[d].status /\ doc'[d].supersedes = doc[d].supersedes
         /\ doc'[d].signature_method = doc[d].signature_method
         /\ doc'[d].frozen_snapshot = doc[d].frozen_snapshot
         /\ doc'[d].signed_pdf = doc[d].signed_pdf
  BY DEF QuietlyChanged, Elsewhere, SameButData, NoDocument
<1>2. \A d \in Documents : RowQuiet(doc'[d], request'[d])
  <2>1. \A d \in Documents \ ds : RowQuiet(doc'[d], request'[d])
    BY <1>1 DEF Quiet, RowQuiet
  <2> QED BY <2>1 DEF QuietlyChanged, RowQuietKept
<1>3. Successors'
  <2>1. \A d \in Documents : /\ doc'[d].supersedes = doc[d].supersedes
                             /\ doc'[d].status = "SUPERSEDED" <=> doc[d].status = "SUPERSEDED"
    BY <1>1 DEF QuietlyChanged, RowQuietKept
  <2> QED BY <2>1, SuccessorsStay DEF Quiet
<1>4. ASSUME NEW t \in Sessions, session'[t] # Idle
      PROVE  Fresh1(session'[t], doc', request')
  <2>1. CASE session'[t] = session[t] /\ session[t].docs \cap ds = {}
    <3>1. SessionOK(session[t], doc, request) /\ Fresh1(session[t], doc, request)
      BY <1>4, <2>1 DEF SessionsOK, Quiet
    <3>2. Fresh1(session[t], doc', request')
      BY <2>1, <3>1, FreshStays DEF QuietlyChanged
    <3> QED BY <2>1, <3>2
  <2> QED BY <1>4, <2>1
<1>5. AllSigned
  <2>1. \A d \in Documents \ ds : SignedKept(doc[d], doc'[d]) BY <1>1 DEF SignedKept
  <2> QED BY <2>1 DEF AllSigned, QuietlyChanged
<1> QED BY <1>2, <1>3, <1>4, <1>5 DEF Quiet

-----------------------------------------------------------------------------
(* The three sorts of steps.                                                *)

LEMMA Touched ==
    ASSUME NEW ds \in SUBSET Documents, Touch(ds), races \in Nat
    PROVE  races' \in Nat /\ (races' = 0 => races = 0 /\ \A t \in Sessions : session[t].docs \cap ds = {})
<1> DEFINE overlap == \E t \in Sessions : session[t].docs \cap ds # {}
<1>1. races' = IF overlap THEN races + 1 ELSE races BY DEF Touch
<1>2. CASE overlap BY <1>1, <1>2
<1>3. CASE ~overlap BY <1>1, <1>3
<1> QED BY <1>2, <1>3

\* A handler that is one step, on documents ds.
LEMMA HandlerStep ==
    ASSUME DocumentsInv, NEW ds \in SUBSET Documents, AllKept,
           UNCHANGED <<bundles, copies, session>>, faults' \in Nat, races' \in Nat,
           races' = 0 => races = 0 /\ \A t \in Sessions : session[t].docs \cap ds = {},
           races = 0 => QuietlyChanged(ds)
    PROVE  StepKept
<1>1. RowsOK' BY RowsAfter DEF DocumentsInv, RowsOK
<1>2. SessionsOK' BY SessionsAfter DEF DocumentsInv, SessionsOK
<1>3. ASSUME races' = 0 PROVE Quiet' /\ AllSigned
  <2>1. Quiet /\ SessionsOK /\ QuietlyChanged(ds) BY <1>3 DEF DocumentsInv
  <2>2. \A t, u \in Sessions : t # u => session'[t].docs \cap session'[u].docs = {}
    BY <2>1 DEF Quiet
  <2>3. \A t \in Sessions : session'[t] = session[t] /\ session[t].docs \cap ds = {}
    BY <1>3
  <2> QED BY <2>1, <2>2, <2>3, QuietAfter
<1> QED BY <1>1, <1>2, <1>3 DEF StepKept

\* A step of a session, which goes on as s or ends.
LEMMA SessionStep ==
    ASSUME DocumentsInv, NEW t \in Sessions, session[t] # Idle, NEW s, AllKept,
           session' = [session EXCEPT ![t] = s], UNCHANGED <<bundles, races>>,
           copies' \in [Bundles -> Nat], faults' \in Nat,
           s # Idle => s.docs = session[t].docs /\ SessionOK(s, doc', request'),
           races = 0 => QuietlyChanged(session[t].docs),
           races = 0 /\ s # Idle => Fresh1(s, doc', request')
    PROVE  StepKept
<1> DEFINE ds == session[t].docs
<1>1. RowsOK' BY RowsAfter DEF DocumentsInv, RowsOK
<1>2. session = [u \in Sessions |-> session[u]] BY DEF DocumentsInv, SessionsOK
<1>3. /\ session' = [u \in Sessions |-> session'[u]] /\ session'[t] = s
      /\ \A u \in Sessions \ {t} : session'[u] = session[u]
  BY <1>2
<1>4. SessionsOK' BY <1>3, SessionsAfter DEF DocumentsInv
<1>5. ASSUME races' = 0 PROVE Quiet' /\ AllSigned
  <2>1. Quiet /\ SessionsOK /\ QuietlyChanged(ds) BY <1>5 DEF DocumentsInv
  <2>2. ds \in SUBSET Documents BY <2>1 DEF SessionsOK, SessionOK
  <2>3. \A u \in Sessions : session'[u].docs \subseteq session[u].docs
    BY <1>3 DEF Idle
  <2>4. \A u, v \in Sessions : u # v => session'[u].docs \cap session'[v].docs = {}
    BY <2>1, <2>3 DEF Quiet
  <2>5. \A u \in Sessions \ {t} : session[u].docs \cap ds = {} BY <2>1 DEF Quiet
  <2>6. \A u \in Sessions : \/ session'[u] = Idle
                            \/ session'[u] = session[u] /\ session[u].docs \cap ds = {}
                            \/ Fresh1(session'[u], doc', request')
    BY <1>3, <1>5, <2>5
  <2> HIDE DEF ds
  <2> QED BY <2>1, <2>2, <2>4, <2>6, QuietAfter
<1> QED BY <1>1, <1>4, <1>5 DEF StepKept

\* A session begins as s.
LEMMA BeginStep ==
    ASSUME DocumentsInv, NEW t \in Sessions, session[t] = Idle, NEW s,
           session' = [session EXCEPT ![t] = s], UNCHANGED <<doc, request, copies, faults>>,
           bundles' \in {0} \cup Bundles,
           SessionOK(s, doc, request), Touch(s.docs), races = 0 => Fresh1(s, doc, request)
    PROVE  StepKept
<1>1. s.docs \in SUBSET Documents BY DEF SessionOK
<1>2. races' \in Nat
      /\ (races' = 0 => races = 0 /\ \A u \in Sessions : session[u].docs \cap s.docs = {})
  BY <1>1, Touched DEF DocumentsInv, RowsOK
<1>3. AllKept
  <2>1. \A d \in Documents : RowKept(doc[d], request[d], doc'[d], request'[d])
    BY RowSame DEF DocumentsInv, RowsOK
  <2>2. doc' = [d \in Documents |-> doc'[d]] /\ request' = [d \in Documents |-> request'[d]]
    BY DEF DocumentsInv, RowsOK
  <2> QED BY <2>1, <2>2 DEF AllKept
<1>4. RowsOK' BY <1>2, <1>3, RowsAfter DEF DocumentsInv, RowsOK
<1>5. session = [u \in Sessions |-> session[u]] BY DEF DocumentsInv, SessionsOK
<1>6. /\ session' = [u \in Sessions |-> session'[u]] /\ session'[t] = s
      /\ \A u \in Sessions \ {t} : session'[u] = session[u]
  BY <1>5
<1>7. SessionsOK'
  <2>1. SessionOK(s, doc', request') OBVIOUS
  <2> QED BY <1>3, <1>6, <2>1, SessionsAfter DEF DocumentsInv
<1>8. ASSUME races' = 0 PROVE Quiet' /\ AllSigned
  <2>1. Quiet /\ SessionsOK /\ Fresh1(s, doc', request') BY <1>2, <1>8 DEF DocumentsInv
  <2>2. QuietlyChanged({}) BY DEF QuietlyChanged, Elsewhere, SameButData
  <2>3. \A u, v \in Sessions : u # v => session'[u].docs \cap session'[v].docs = {}
    BY <1>2, <1>6, <1>8, <2>1 DEF Quiet
  <2>4. \A u \in Sessions : \/ session'[u] = Idle
                            \/ session'[u] = session[u] /\ session[u].docs \cap {} = {}
                            \/ Fresh1(session'[u], doc', request')
    BY <1>6, <2>1
  <2> QED BY <2>1, <2>2, <2>3, <2>4, QuietAfter
<1> QED BY <1>4, <1>7, <1>8 DEF StepKept

-----------------------------------------------------------------------------
(* Rows as the handlers write them.                                         *)

LEMMA StatusGiven ==
    ASSUME NEW row \in RowType, NEW status \in Stored
    PROVE  LET r == [row EXCEPT !.status = status]
           IN /\ r \in RowType /\ r.status = status /\ r.signature_method = row.signature_method
              /\ r.supersedes = row.supersedes /\ r.frozen_snapshot = row.frozen_snapshot
              /\ r.signed_pdf = row.signed_pdf /\ r.data = row.data
              /\ r.paper_status = row.paper_status
BY DEF RowType

LEMMA PaperGiven ==
    ASSUME NEW row \in RowType, NEW paper \in {"PRINTED", "SIGNED_RECEIVED", "ARCHIVED"}
    PROVE  LET r == [row EXCEPT !.paper_status = paper]
           IN /\ r \in RowType /\ r.status = row.status
              /\ r.signature_method = row.signature_method
              /\ r.supersedes = row.supersedes /\ r.frozen_snapshot = row.frozen_snapshot
              /\ r.signed_pdf = row.signed_pdf
BY DEF RowType

LEMMA ChangedRow ==
    ASSUME NEW row \in RowType
    PROVE  Changed(row) \in RowType /\ SameButData(Changed(row), row)
<1>1. (IF row.data < MaxData THEN row.data + 1 ELSE row.data) \in 0..MaxData
  BY NumbersAreNatural DEF RowType
<1> DEFINE data == IF row.data < MaxData THEN row.data + 1 ELSE row.data
<1>2. Changed(row) = [row EXCEPT !.data = data] BY DEF Changed
<1> HIDE DEF data
<1>3. [row EXCEPT !.data = data] \in RowType BY <1>1 DEF data, RowType
<1>4. SameButData([row EXCEPT !.data = data], row) BY DEF SameButData, NoDocument, RowType
<1> QED BY <1>2, <1>3, <1>4

LEMMA SameButDataFields ==
    ASSUME NEW a, NEW b, SameButData(a, b)
    PROVE  /\ a.status = b.status /\ a.signature_method = b.signature_method
           /\ a.paper_status = b.paper_status /\ a.frozen_snapshot = b.frozen_snapshot
           /\ a.signed_pdf = b.signed_pdf /\ a.supersedes = b.supersedes
BY DEF SameButData, NoDocument

LEMMA FrozenSnapshot ==
    ASSUME NEW row \in RowType
    PROVE  /\ Frozen(row) \in Snapshots
           /\ row.frozen_snapshot # Unset => Frozen(row) = row.frozen_snapshot
BY DEF Frozen, RowType, Snapshots

LEMMA SentRow ==
    ASSUME NEW row \in RowType
    PROVE  LET r == Sent(row)
           IN /\ r \in RowType /\ r.status = "SENT" /\ r.signature_method = "ELECTRONIC"
              /\ r.frozen_snapshot = Frozen(row) /\ r.supersedes = row.supersedes
              /\ r.signed_pdf = row.signed_pdf /\ r.data = row.data
              /\ r.paper_status = row.paper_status
<1> DEFINE a == [row EXCEPT !.status = "SENT"]
           b == [a EXCEPT !.signature_method = "ELECTRONIC"]
           f == Frozen(row)
<1>1. /\ a \in RowType /\ a.status = "SENT" /\ a.signature_method = row.signature_method
      /\ a.supersedes = row.supersedes /\ a.frozen_snapshot = row.frozen_snapshot
      /\ a.signed_pdf = row.signed_pdf /\ a.data = row.data /\ a.paper_status = row.paper_status
  BY StatusGiven DEF Stored
<1> HIDE DEF a
<1>2. /\ b \in RowType /\ b.status = a.status /\ b.signature_method = "ELECTRONIC"
      /\ b.supersedes = a.supersedes /\ b.signed_pdf = a.signed_pdf /\ b.data = a.data
      /\ b.paper_status = a.paper_status
  BY <1>1 DEF RowType
<1>3. f \in Snapshots BY FrozenSnapshot
<1>4. Sent(row) = [b EXCEPT !.frozen_snapshot = f] BY DEF Sent, a
<1> HIDE DEF b, f
<1>5. /\ [b EXCEPT !.frozen_snapshot = f] \in RowType
      /\ [b EXCEPT !.frozen_snapshot = f].status = b.status
      /\ [b EXCEPT !.frozen_snapshot = f].signature_method = b.signature_method
      /\ [b EXCEPT !.frozen_snapshot = f].frozen_snapshot = f
      /\ [b EXCEPT !.frozen_snapshot = f].supersedes = b.supersedes
      /\ [b EXCEPT !.frozen_snapshot = f].signed_pdf = b.signed_pdf
      /\ [b EXCEPT !.frozen_snapshot = f].data = b.data
      /\ [b EXCEPT !.frozen_snapshot = f].paper_status = b.paper_status
  BY <1>2, <1>3 DEF RowType
<1> QED BY <1>1, <1>2, <1>4, <1>5 DEF f

LEMMA PrintedRow ==
    ASSUME NEW row \in RowType
    PROVE  LET r == Printed(row)
           IN /\ r \in RowType /\ r.status = row.status
              /\ r.frozen_snapshot = Frozen(row) /\ r.supersedes = row.supersedes
              /\ r.signed_pdf = row.signed_pdf /\ r.data = row.data
<1> DEFINE p == IF row.paper_status = "NONE" THEN "PREPARED" ELSE row.paper_status
           a == [row EXCEPT !.signature_method = "PAPER"]
           b == [a EXCEPT !.paper_status = p]
           f == Frozen(row)
<1>1. /\ a \in RowType /\ a.status = row.status /\ a.paper_status = row.paper_status
      /\ a.supersedes = row.supersedes /\ a.signed_pdf = row.signed_pdf /\ a.data = row.data
  BY DEF RowType
<1>2. p \in {"NONE", "PREPARED", "PRINTED", "SIGNED_RECEIVED", "ARCHIVED"} BY DEF RowType
<1>3. Printed(row) = [b EXCEPT !.frozen_snapshot = f] BY DEF Printed, RowType
<1> HIDE DEF a, p
<1>4. /\ b \in RowType /\ b.status = a.status /\ b.supersedes = a.supersedes
      /\ b.signed_pdf = a.signed_pdf /\ b.data = a.data
  BY <1>1, <1>2 DEF RowType
<1>5. f \in Snapshots BY FrozenSnapshot
<1> HIDE DEF b, f
<1>6. /\ [b EXCEPT !.frozen_snapshot = f] \in RowType
      /\ [b EXCEPT !.frozen_snapshot = f].status = b.status
      /\ [b EXCEPT !.frozen_snapshot = f].frozen_snapshot = f
      /\ [b EXCEPT !.frozen_snapshot = f].supersedes = b.supersedes
      /\ [b EXCEPT !.frozen_snapshot = f].signed_pdf = b.signed_pdf
      /\ [b EXCEPT !.frozen_snapshot = f].data = b.data
  BY <1>4, <1>5 DEF RowType
<1> QED BY <1>1, <1>3, <1>4, <1>6 DEF f

\* The row a session leaves, field by field.
LEMMA WrittenRow ==
    ASSUME NEW row \in RowType, NEW read \in RowType, NEW new \in RowType
    PROVE  /\ Written(row, read, new) \in RowType
           /\ \A field \in DOMAIN NoDocument :
                 Written(row, read, new)[field] =
                     IF read[field] = new[field] THEN row[field] ELSE new[field]
<1> DEFINE w == Written(row, read, new)
<1>1. DOMAIN row = DOMAIN NoDocument BY DEF RowType, NoDocument
<1>2. w = [field \in DOMAIN NoDocument |->
              IF read[field] = new[field] THEN row[field] ELSE new[field]]
  BY <1>1 DEF Written
<1>3. DOMAIN NoDocument = {"status", "signature_method", "paper_status", "data",
                           "frozen_snapshot", "signed_pdf", "supersedes"}
  BY DEF NoDocument
<1> HIDE DEF w
<1>4. w = [status |-> w.status, signature_method |-> w.signature_method,
           paper_status |-> w.paper_status, data |-> w.data,
           frozen_snapshot |-> w.frozen_snapshot, signed_pdf |-> w.signed_pdf,
           supersedes |-> w.supersedes]
  BY <1>2, <1>3
<1>5. /\ w.status \in Stored
      /\ w.signature_method \in {"NONE", "ELECTRONIC", "PAPER"}
      /\ w.paper_status \in {"NONE", "PREPARED", "PRINTED", "SIGNED_RECEIVED", "ARCHIVED"}
      /\ w.data \in 0..MaxData /\ w.frozen_snapshot \in Snapshots
      /\ w.signed_pdf \in Snapshots /\ w.supersedes \in SUBSET Documents
  BY <1>2, <1>3 DEF RowType
<1>6. w \in RowType BY <1>4, <1>5 DEF RowType
<1> QED BY <1>2, <1>6 DEF w

LEMMA WrittenStatus ==
    ASSUME NEW row \in RowType, NEW read \in RowType, NEW new \in RowType
    PROVE  Written(row, read, new).status =
               IF read.status = new.status THEN row.status ELSE new.status
<1>1. "status" \in DOMAIN NoDocument BY DEF NoDocument
<1> QED BY <1>1, WrittenRow

\* If nothing changed since it was read, all fields are as the session wants them.
LEMMA WrittenFresh ==
    ASSUME NEW row \in RowType, NEW read \in RowType, NEW new \in RowType,
           SameButData(row, read)
    PROVE  SameButData(Written(row, read, new), new)
BY WrittenRow DEF SameButData

-----------------------------------------------------------------------------
(* Handlers that are one step: rows alone.                                  *)

LEMMA RowsFacts ==
    ASSUME DocumentsInv
    PROVE  /\ doc \in [Documents -> RowType]
           /\ request \in [Documents -> [Numbers -> RequestType]]
           /\ \A d \in Documents : /\ RowOK(doc[d], request[d]) /\ doc[d] \in RowType
                                   /\ doc[d].status = "ABSENT" => doc[d] = NoDocument
           /\ faults \in Nat /\ races \in Nat
BY DEF DocumentsInv, RowsOK, RowOK

\* A document that no session is at, because it is not there.
LEMMA AbsentUnheld ==
    ASSUME DocumentsInv, NEW d \in Documents, doc[d].status = "ABSENT", NEW t \in Sessions
    PROVE  d \notin session[t].docs
BY DEF DocumentsInv, SessionsOK, SessionOK, Idle

\* The rows of some documents change, and no request.
LEMMA RowsChange ==
    ASSUME DocumentsInv, UNCHANGED request, doc' = [d \in Documents |-> doc'[d]],
           \A d \in Documents :
              \/ doc'[d] = doc[d]
              \/ /\ doc'[d] \in RowType /\ doc'[d].status # "ABSENT"
                 /\ doc'[d].status = "SENT" => doc[d].status = "SENT"
    PROVE  AllKept
<1>1. \A d \in Documents : RowKept(doc[d], request[d], doc'[d], request'[d])
  <2> TAKE d \in Documents
  <2>1. RowOK(doc[d], request[d]) BY RowsFacts
  <2>2. CASE doc'[d] = doc[d] BY <2>1, <2>2, RowSame
  <2>3. CASE doc'[d] # doc[d] BY <2>1, <2>3, RowOnly
  <2> QED BY <2>2, <2>3
<1>2. request' = [d \in Documents |-> request'[d]] BY RowsFacts
<1> QED BY <1>1, <1>2 DEF AllKept

LEMMA CreateDocumentStep ==
    ASSUME DocumentsInv, NEW d \in Documents, CreateDocument(d)
    PROVE  StepKept
<1> DEFINE row == [doc[d] EXCEPT !.status = "DRAFT"]
<1>1. /\ row \in RowType /\ row.status = "DRAFT" /\ row.supersedes = doc[d].supersedes
      /\ row.frozen_snapshot = doc[d].frozen_snapshot
  BY RowsFacts, StatusGiven DEF Stored
<1>2. doc' = [doc EXCEPT ![d] = row] BY DEF CreateDocument
<1>3. doc[d].status = "ABSENT" /\ UNCHANGED <<request, races, bundles, copies, session, faults>>
  BY DEF CreateDocument, NoSession
<1> HIDE DEF row
<1>4. doc' = [e \in Documents |-> doc'[e]] /\ doc'[d] = row
      /\ \A e \in Documents \ {d} : doc'[e] = doc[e]
  BY <1>2, RowsFacts
<1>5. AllKept BY <1>1, <1>3, <1>4, RowsChange
<1>6. ASSUME races = 0 PROVE QuietlyChanged({d})
  <2>1. RowQuietKept(doc[d], doc'[d], request'[d])
    BY <1>1, <1>3, <1>4, <1>6 DEF DocumentsInv, Quiet, RowQuiet, RowQuietKept
  <2>2. SignedKept(doc[d], doc'[d]) BY <1>1, <1>3, <1>4 DEF SignedKept
  <2>3. Elsewhere({d}) BY <1>3, <1>4 DEF Elsewhere, SameButData
  <2> QED BY <2>1, <2>2, <2>3 DEF QuietlyChanged
<1>7. \A t \in Sessions : session[t].docs \cap {d} = {} BY <1>3, AbsentUnheld
<1> QED BY <1>3, <1>5, <1>6, <1>7, HandlerStep, RowsFacts

\* Nothing but data changes.
LEMMA DataChange ==
    ASSUME DocumentsInv, NEW ds \in SUBSET Documents,
           \A d \in ds : doc[d].status # "ABSENT",
           doc' = [d \in Documents |-> IF d \in ds THEN Changed(doc[d]) ELSE doc[d]],
           UNCHANGED <<request, bundles, copies, session, faults>>,
           races' \in Nat, races' = 0 => races = 0
    PROVE  StepKept
<1>1. \A d \in Documents : Changed(doc[d]) \in RowType /\ SameButData(Changed(doc[d]), doc[d])
  BY RowsFacts, ChangedRow
<1>2. \A d \in Documents : /\ Changed(doc[d]).status = doc[d].status
                           /\ SameButData(doc'[d], doc[d])
  <2> TAKE d \in Documents
  <2>1. Changed(doc[d]).status = doc[d].status BY <1>1, SameButDataFields
  <2>2. SameButData(doc'[d], doc[d]) BY <1>1 DEF SameButData
  <2> QED BY <2>1, <2>2
<1>3. AllKept BY <1>1, <1>2, RowsChange
<1>4. QuietlyChanged({}) BY <1>2 DEF QuietlyChanged, Elsewhere
<1>5. \A t \in Sessions : session[t].docs \cap {} = {} OBVIOUS
<1> QED BY <1>3, <1>4, <1>5, HandlerStep, RowsFacts

LEMMA FactsChangeStep ==
    ASSUME DocumentsInv, NEW ds \in SUBSET Documents, FactsChange(ds)
    PROVE  StepKept
BY DataChange, RowsFacts DEF FactsChange, NoSession

LEMMA FillDraftsStep ==
    ASSUME DocumentsInv, NEW ds \in SUBSET Documents, NEW kind, FillDrafts(kind, ds)
    PROVE  StepKept
<1>1. races' \in Nat /\ (races' = 0 => races = 0) BY Touched, RowsFacts DEF FillDrafts
<1> QED BY <1>1, DataChange DEF FillDrafts, NoSession

\* Rows of ds get another status among those of drafts, or of their paper.
LEMMA QuietRowsStep ==
    ASSUME DocumentsInv, NEW ds \in SUBSET Documents, Touch(ds),
           UNCHANGED <<request, bundles, copies, session, faults>>,
           doc' = [d \in Documents |-> doc'[d]], \A d \in Documents \ ds : doc'[d] = doc[d],
           \A d \in ds : /\ doc'[d] \in RowType
                         /\ doc[d].status # "ABSENT" /\ doc'[d].status # "ABSENT"
                         /\ \/ doc'[d].status = doc[d].status
                            \/ doc[d].status = "DRAFT" /\ doc'[d].status = "READY"
                         /\ doc'[d].signature_method = doc[d].signature_method
                         /\ doc'[d].supersedes = doc[d].supersedes
                         /\ doc'[d].frozen_snapshot = doc[d].frozen_snapshot
                         /\ doc'[d].signed_pdf = doc[d].signed_pdf
    PROVE  StepKept
<1>1. AllKept BY RowsChange
<1>2. ASSUME races = 0 PROVE QuietlyChanged(ds)
  <2>1. \A d \in ds : RowQuietKept(doc[d], doc'[d], request'[d])
    BY <1>2 DEF DocumentsInv, Quiet, RowQuiet, RowQuietKept
  <2>2. \A d \in ds : SignedKept(doc[d], doc'[d]) BY DEF SignedKept
  <2>3. Elsewhere(ds) BY DEF Elsewhere, SameButData
  <2> QED BY <2>1, <2>2, <2>3 DEF QuietlyChanged
<1>3. races' \in Nat
      /\ (races' = 0 => races = 0 /\ \A t \in Sessions : session[t].docs \cap ds = {})
  BY Touched, RowsFacts
<1> QED BY <1>1, <1>2, <1>3, HandlerStep, RowsFacts

LEMMA PrepareDocumentStep ==
    ASSUME DocumentsInv, NEW d \in Documents, PrepareDocument(d)
    PROVE  StepKept
<1> DEFINE row == [doc[d] EXCEPT !.status = "READY"]
<1>1. /\ row \in RowType /\ row.status = "READY" /\ row.supersedes = doc[d].supersedes
      /\ row.signature_method = doc[d].signature_method /\ row.signed_pdf = doc[d].signed_pdf
      /\ row.frozen_snapshot = doc[d].frozen_snapshot
  BY RowsFacts, StatusGiven DEF Stored
<1>2. doc' = [doc EXCEPT ![d] = row] BY DEF PrepareDocument
<1>3. /\ doc[d].status = "DRAFT" /\ Touch({d})
      /\ UNCHANGED <<request, bundles, copies, session, faults>>
  BY DEF PrepareDocument, NoSession
<1> HIDE DEF row
<1>4. doc' = [e \in Documents |-> doc'[e]] /\ doc'[d] = row
      /\ \A e \in Documents \ {d} : doc'[e] = doc[e]
  BY <1>2, RowsFacts
<1> QED BY <1>1, <1>3, <1>4, QuietRowsStep

\* The paper of some documents goes on.
LEMMA PaperStep ==
    ASSUME DocumentsInv, NEW ds \in SUBSET Documents, Touch(ds),
           UNCHANGED <<request, bundles, copies, session, faults>>,
           NEW paper \in {"PRINTED", "SIGNED_RECEIVED", "ARCHIVED"},
           \A d \in ds : doc[d].signature_method = "PAPER",
           doc' = [d \in Documents |->
                     IF d \in ds THEN [doc[d] EXCEPT !.paper_status = paper] ELSE doc[d]]
    PROVE  StepKept
<1>1. \A d \in ds : LET r == [doc[d] EXCEPT !.paper_status = paper]
                    IN /\ r \in RowType /\ r.status = doc[d].status
                       /\ r.signature_method = doc[d].signature_method
                       /\ r.supersedes = doc[d].supersedes
                       /\ r.frozen_snapshot = doc[d].frozen_snapshot
                       /\ r.signed_pdf = doc[d].signed_pdf
  <2> TAKE d \in ds
  <2>1. doc[d] \in RowType BY RowsFacts
  <2> QED BY <2>1, PaperGiven
<1>2. \A d \in ds : doc[d].status # "ABSENT"
  BY RowsFacts DEF NoDocument
<1>3. \A d \in ds : doc'[d] = [doc[d] EXCEPT !.paper_status = paper] OBVIOUS
<1>4. doc' = [d \in Documents |-> doc'[d]] /\ \A d \in Documents \ ds : doc'[d] = doc[d]
  OBVIOUS
<1> QED BY <1>1, <1>2, <1>3, <1>4, QuietRowsStep

LEMMA PaperHandlers ==
    ASSUME DocumentsInv
    PROVE  /\ \A batch \in SUBSET Documents : MarkPaperBatchPrinted(batch) => StepKept
           /\ \A d \in Documents : MarkPaperSignedReceived(d) => StepKept
           /\ \A d \in Documents : UploadPaperSignedCopy(d) => StepKept
<1>1. ASSUME NEW batch \in SUBSET Documents, MarkPaperBatchPrinted(batch) PROVE StepKept
  BY <1>1, PaperStep DEF MarkPaperBatchPrinted, NoSession
<1>2. ASSUME NEW d \in Documents, MarkPaperSignedReceived(d) PROVE StepKept
  <2>1. doc' = [e \in Documents |->
           IF e \in {d} THEN [doc[e] EXCEPT !.paper_status = "SIGNED_RECEIVED"] ELSE doc[e]]
    BY <1>2, RowsFacts DEF MarkPaperSignedReceived
  <2> QED BY <1>2, <2>1, PaperStep DEF MarkPaperSignedReceived, NoSession
<1>3. ASSUME NEW d \in Documents, UploadPaperSignedCopy(d) PROVE StepKept
  <2>1. doc' = [e \in Documents |->
           IF e \in {d} THEN [doc[e] EXCEPT !.paper_status = "ARCHIVED"] ELSE doc[e]]
    BY <1>3, RowsFacts DEF UploadPaperSignedCopy
  <2> QED BY <1>3, <2>1, PaperStep DEF UploadPaperSignedCopy, NoSession
<1> QED BY <1>1, <1>2, <1>3

-----------------------------------------------------------------------------
(* Handlers that are one step: links.                                       *)

\* One document's row and requests are rewritten.
LEMMA OneDocument ==
    ASSUME DocumentsInv, NEW d \in Documents,
           doc' = [e \in Documents |-> doc'[e]], request' = [e \in Documents |-> request'[e]],
           \A e \in Documents \ {d} : doc'[e] = doc[e] /\ request'[e] = request[e],
           RowKept(doc[d], request[d], doc'[d], request'[d])
    PROVE  AllKept /\ Elsewhere({d})
<1>1. \A e \in Documents : RowKept(doc[e], request[e], doc'[e], request'[e])
  <2> TAKE e \in Documents
  <2>1. CASE e = d BY <2>1
  <2>2. CASE e # d
    <3>1. RowOK(doc[e], request[e]) BY RowsFacts
    <3>2. RowKept(doc[e], request[e], doc[e], request[e]) BY <3>1, RowSame
    <3> QED BY <2>2, <3>2
  <2> QED BY <2>1, <2>2
<1>2. Elsewhere({d}) BY DEF Elsewhere, SameButData
<1> QED BY <1>1, <1>2 DEF AllKept

LEMMA SendForSignatureStep ==
    ASSUME DocumentsInv, NEW d \in Documents, SendForSignature(d)
    PROVE  StepKept
<1> DEFINE row == Sent(doc[d])
           rs == Renewed(request[d], 0)
<1>1. /\ row \in RowType /\ row.status = "SENT" /\ row.signature_method = "ELECTRONIC"
      /\ row.frozen_snapshot = Frozen(doc[d]) /\ row.supersedes = doc[d].supersedes
  BY RowsFacts, SentRow
<1>2. /\ doc[d].status \in {"READY", "SENT"} /\ CanIssue(d) /\ Touch({d})
      /\ UNCHANGED <<bundles, copies, session, faults>>
      /\ doc' = [doc EXCEPT ![d] = row] /\ request' = [request EXCEPT ![d] = rs]
  BY DEF SendForSignature, NoSession
<1>3. RowKept(doc[d], request[d], row, rs)
  <2>1. Cardinality({n \in Numbers : request[d][n].issued}) < MaxRequests
    BY <1>2 DEF CanIssue, Issued
  <2>2. RowOK(doc[d], request[d]) BY RowsFacts
  <2> QED BY <1>1, <2>1, <2>2, RowRenewed
<1> HIDE DEF row, rs
<1>4. AllKept /\ Elsewhere({d}) /\ doc'[d] = row /\ request'[d] = rs
  <2>1. /\ doc' = [e \in Documents |-> doc'[e]] /\ request' = [e \in Documents |-> request'[e]]
        /\ doc'[d] = row /\ request'[d] = rs
        /\ \A e \in Documents \ {d} : doc'[e] = doc[e] /\ request'[e] = request[e]
    BY <1>2, RowsFacts
  <2>2. RowKept(doc[d], request[d], doc'[d], request'[d]) BY <1>3, <2>1
  <2> QED BY <2>1, <2>2, OneDocument
<1>5. QuietlyChanged({d})
  <2>1. RowQuietKept(doc[d], row, rs) BY <1>1, <1>2 DEF RowQuietKept, RowQuiet
  <2>2. SignedKept(doc[d], row) BY <1>1, <1>2, FrozenSnapshot, RowsFacts DEF SignedKept
  <2> QED BY <1>4, <2>1, <2>2 DEF QuietlyChanged
<1>6. races' \in Nat
      /\ (races' = 0 => races = 0 /\ \A t \in Sessions : session[t].docs \cap {d} = {})
  BY <1>2, Touched, RowsFacts
<1> QED BY <1>2, <1>4, <1>5, <1>6, HandlerStep, RowsFacts

\* What can be replaced is there, and was not replaced.
LEMMA CanVersionStatus ==
    ASSUME DocumentsInv, NEW d \in Documents, CanVersion(d)
    PROVE  doc[d].status \in {"DRAFT", "READY", "CANCELLED", "SENT", "COMPLETED"}
<1>1. doc[d].status \in Stored BY RowsFacts DEF RowType
<1>2. CASE doc[d].status = "SENT" BY <1>2
<1>3. CASE doc[d].status # "SENT"
  <2>1. ReadStatus(d) = doc[d].status BY <1>3 DEF ReadStatus
  <2> QED BY <1>1, <2>1 DEF CanVersion, Stored
<1> QED BY <1>2, <1>3

LEMMA NewVersionRow ==
    ASSUME NEW data \in 0..MaxData, NEW d \in Documents
    PROVE  LET r == [NoDocument EXCEPT !.status = "DRAFT", !.data = data, !.supersedes = {d}]
           IN /\ r \in RowType /\ r.status = "DRAFT" /\ r.supersedes = {d}
              /\ r.frozen_snapshot = Unset /\ r.signature_method = "NONE"
<1> DEFINE a == [NoDocument EXCEPT !.status = "DRAFT"]
           b == [a EXCEPT !.data = data]
<1>1. NoDocument \in RowType BY NumbersAreNatural DEF NoDocument, RowType, Stored, Snapshots
<1>2. /\ a \in RowType /\ a.status = "DRAFT"
      /\ a.frozen_snapshot = NoDocument.frozen_snapshot
      /\ a.signature_method = NoDocument.signature_method
  BY <1>1, StatusGiven DEF Stored
<1> HIDE DEF a
<1>3. /\ b \in RowType /\ b.status = a.status /\ b.frozen_snapshot = a.frozen_snapshot
      /\ b.signature_method = a.signature_method
  BY <1>2 DEF RowType
<1>4. [NoDocument EXCEPT !.status = "DRAFT", !.data = data, !.supersedes = {d}] =
         [b EXCEPT !.supersedes = {d}]
  BY DEF a
<1> HIDE DEF b
<1>5. /\ [b EXCEPT !.supersedes = {d}] \in RowType
      /\ [b EXCEPT !.supersedes = {d}].status = b.status
      /\ [b EXCEPT !.supersedes = {d}].supersedes = {d}
      /\ [b EXCEPT !.supersedes = {d}].frozen_snapshot = b.frozen_snapshot
      /\ [b EXCEPT !.supersedes = {d}].signature_method = b.signature_method
  BY <1>3 DEF RowType
<1>6. NoDocument.frozen_snapshot = Unset /\ NoDocument.signature_method = "NONE"
  BY DEF NoDocument
<1> QED BY <1>2, <1>3, <1>4, <1>5, <1>6

LEMMA CreateNewVersionStep ==
    ASSUME DocumentsInv, NEW d \in Documents, NEW new \in Documents, CreateNewVersion(d, new)
    PROVE  StepKept
<1> DEFINE row == [doc[d] EXCEPT !.status = "SUPERSEDED"]
           fresh == [NoDocument EXCEPT !.status = "DRAFT", !.data = doc[d].data,
                                       !.supersedes = {d}]
           rs == Revoked(request[d])
<1>1. doc[d].status \in {"DRAFT", "READY", "CANCELLED", "SENT", "COMPLETED"}
  BY CanVersionStatus DEF CreateNewVersion
<1>2. /\ doc[new].status = "ABSENT" /\ d # new /\ Touch({d})
      /\ UNCHANGED <<bundles, copies, session, faults>>
  BY <1>1 DEF CreateNewVersion, NoSession
<1>3. /\ row \in RowType /\ row.status = "SUPERSEDED" /\ row.supersedes = doc[d].supersedes
      /\ row.frozen_snapshot = doc[d].frozen_snapshot /\ row.signed_pdf = doc[d].signed_pdf
  BY RowsFacts, StatusGiven DEF Stored
<1>4. /\ fresh \in RowType /\ fresh.status = "DRAFT" /\ fresh.supersedes = {d}
      /\ fresh.frozen_snapshot = Unset
  <2>1. doc[d].data \in 0..MaxData BY RowsFacts DEF RowType
  <2> QED BY <2>1, NewVersionRow
<1>5. doc' = [doc EXCEPT ![d] = row, ![new] = fresh] /\ request' = [request EXCEPT ![d] = rs]
  BY DEF CreateNewVersion
<1>6. RowKept(doc[d], request[d], row, rs) /\ Working(rs) = {}
  BY <1>3, RowRevoked, RowsFacts
<1> HIDE DEF row, fresh, rs
<1>7. /\ doc' = [e \in Documents |-> doc'[e]] /\ request' = [e \in Documents |-> request'[e]]
      /\ doc'[d] = row /\ doc'[new] = fresh /\ request'[d] = rs
      /\ \A e \in Documents \ {d, new} : doc'[e] = doc[e]
      /\ \A e \in Documents \ {d} : request'[e] = request[e]
  BY <1>2, <1>5, RowsFacts
<1>8. AllKept
  <2>1. \A e \in Documents : RowKept(doc[e], request[e], doc'[e], request'[e])
    <3> TAKE e \in Documents
    <3>1. CASE e = d BY <1>6, <1>7, <3>1
    <3>2. RowOK(doc[e], request[e]) BY RowsFacts
    <3>3. CASE e = new
      <4>1. RowKept(doc[e], request[e], fresh, request[e])
        BY <1>4, <3>2, RowOnly
      <4> QED BY <1>2, <1>7, <3>3, <4>1
    <3>4. CASE e # d /\ e # new
      <4>1. RowKept(doc[e], request[e], doc[e], request[e]) BY <3>2, RowSame
      <4> QED BY <1>7, <3>4, <4>1
    <3> QED BY <3>1, <3>3, <3>4
  <2> QED BY <1>7, <2>1 DEF AllKept
<1>9. races' \in Nat
      /\ (races' = 0 => races = 0 /\ \A t \in Sessions : session[t].docs \cap {d} = {})
  BY <1>2, Touched, RowsFacts
<1>10. RowsOK'
  <2>1. bundles' \in {0} \cup Bundles /\ copies' \in [Bundles -> Nat] /\ faults' \in Nat
    BY <1>2 DEF DocumentsInv, RowsOK
  <2> QED BY <1>8, <1>9, <2>1, RowsAfter
<1>11. SessionsOK' BY <1>2, <1>8, SessionsAfter DEF DocumentsInv, SessionsOK
<1>12. ASSUME races' = 0 PROVE Quiet' /\ AllSigned
  <2>1. Quiet /\ SessionsOK BY <1>9, <1>12 DEF DocumentsInv
  <2>2. \A e \in Documents : RowQuiet(doc'[e], request'[e])
    <3>1. RowQuiet(row, rs) BY <1>3, <1>6 DEF RowQuiet
    <3>2. RowQuiet(fresh, request[new])
      <4>1. RowQuiet(doc[new], request[new]) BY <2>1 DEF Quiet
      <4> QED BY <1>2, <1>4, <4>1 DEF RowQuiet
    <3>3. \A e \in Documents \ {d, new} : RowQuiet(doc'[e], request'[e])
      BY <1>7, <2>1 DEF Quiet
    <3> QED BY <1>2, <1>7, <3>1, <3>2, <3>3
  <2>3. \A t \in Sessions : session[t].docs \cap {d, new} = {}
    BY <1>2, <1>9, <1>12, AbsentUnheld
  <2>4. Elsewhere({d, new}) BY <1>7 DEF Elsewhere, SameButData
  <2>5. ASSUME NEW t \in Sessions, session'[t] # Idle PROVE Fresh1(session'[t], doc', request')
    <3>1. SessionOK(session[t], doc, request) /\ Fresh1(session[t], doc, request)
      BY <1>2, <2>1, <2>5 DEF SessionsOK, Quiet
    <3>2. Fresh1(session[t], doc', request') BY <2>3, <2>4, <3>1, FreshStays
    <3> QED BY <1>2, <3>2
  <2>6. Successors'
    <3>1. doc[new].supersedes = {} BY <1>2, RowsFacts DEF NoDocument
    <3>2. \A e \in Documents : d \notin doc[e].supersedes BY <1>1, <2>1 DEF Quiet, Successors
    <3>3. \A e \in Documents \ {new} : doc'[e].supersedes = doc[e].supersedes
      BY <1>3, <1>7
    <3>4. \A e \in Documents \ {d} : doc'[e].status = "SUPERSEDED" <=> doc[e].status = "SUPERSEDED"
      BY <1>2, <1>4, <1>7
    <3>5. \A x \in Documents :
        /\ \A e, f \in Documents : x \in doc'[e].supersedes /\ x \in doc'[f].supersedes => e = f
        /\ (\E e \in Documents : x \in doc'[e].supersedes) <=> doc'[x].status = "SUPERSEDED"
      <4> TAKE x \in Documents
      <4>1. CASE x = d
        <5>1. \A e \in Documents : x \in doc'[e].supersedes <=> e = new
          BY <1>4, <1>7, <3>2, <3>3, <4>1
        <5> QED BY <1>3, <1>7, <4>1, <5>1
      <4>2. CASE x # d
        <5>1. \A e \in Documents : x \in doc'[e].supersedes <=> x \in doc[e].supersedes
          BY <1>4, <1>7, <3>1, <3>3, <4>2
        <5> QED BY <2>1, <3>4, <4>2, <5>1 DEF Quiet, Successors
      <4> QED BY <4>1, <4>2
    <3> QED BY <3>5 DEF Successors
  <2>7. AllSigned
    <3>1. SignedKept(doc[d], row) BY <1>3 DEF SignedKept
    <3>2. SignedKept(doc[new], fresh)
      BY <1>2, RowsFacts DEF SignedKept, NoDocument
    <3>3. \A e \in Documents \ {d, new} : SignedKept(doc[e], doc'[e]) BY <1>7 DEF SignedKept
    <3> QED BY <1>2, <1>7, <3>1, <3>2, <3>3 DEF AllSigned
  <2> QED BY <1>2, <2>1, <2>2, <2>5, <2>6, <2>7 DEF Quiet
<1> QED BY <1>10, <1>11, <1>12 DEF StepKept

-----------------------------------------------------------------------------
(* Notes on requests: they expire, and copies are e-mailed.                 *)

\* Nothing but these notes changes.
NotesOnly ==
    /\ UNCHANGED doc
    /\ request' \in [Documents -> [Numbers -> RequestType]]
    /\ \A d \in Documents, n \in Numbers :
          /\ request'[d][n].issued = request[d][n].issued
          /\ request'[d][n].revoked = request[d][n].revoked
          /\ request'[d][n].signed = request[d][n].signed
          /\ request'[d][n].bundle = request[d][n].bundle

LEMMA NotesKept ==
    ASSUME DocumentsInv, NotesOnly
    PROVE  AllKept /\ \A ds \in SUBSET Documents :
                         races = 0 => QuietlyChanged(ds)
<1>1. \A d \in Documents : /\ RowKept(doc[d], request[d], doc[d], request'[d])
                           /\ Working(request'[d]) = Working(request[d])
  <2> TAKE d \in Documents
  <2>1. RowOK(doc[d], request[d]) /\ request'[d] \in [Numbers -> RequestType]
    BY RowsFacts DEF NotesOnly
  <2> QED BY <2>1, RowNoted DEF NotesOnly
<1>2. AllKept
  <2>1. doc' = [d \in Documents |-> doc'[d]] BY RowsFacts DEF NotesOnly
  <2>2. request' = [d \in Documents |-> request'[d]] BY DEF NotesOnly
  <2>3. doc' = doc BY DEF NotesOnly
  <2> QED BY <1>1, <2>1, <2>2, <2>3 DEF AllKept
<1>3. ASSUME NEW ds \in SUBSET Documents, races = 0 PROVE QuietlyChanged(ds)
  <2>1. doc' = doc BY DEF NotesOnly
  <2>2. \A d \in Documents : RowQuiet(doc[d], request'[d])
    BY <1>1, <1>3 DEF DocumentsInv, Quiet, RowQuiet
  <2>3. \A d \in ds : RowQuietKept(doc[d], doc'[d], request'[d]) BY <2>1, <2>2 DEF RowQuietKept
  <2>4. \A d \in ds : SignedKept(doc[d], doc'[d]) BY <2>1 DEF SignedKept
  <2>5. Elsewhere(ds) BY <1>1, <2>1 DEF Elsewhere, SameButData
  <2> QED BY <2>3, <2>4, <2>5 DEF QuietlyChanged
<1> QED BY <1>2, <1>3

LEMMA CopyNoted ==
    ASSUME NEW r \in RequestType, NEW outcome \in {"WAITING", "SENT", "FAILED"}
    PROVE  LET r2 == [r EXCEPT !.copy = outcome]
           IN r2 \in RequestType /\ r2.issued = r.issued /\ r2.revoked = r.revoked
              /\ r2.signed = r.signed /\ r2.bundle = r.bundle /\ r2.copy = outcome
BY DEF RequestType

\* The result is noted in some requests.
LEMMA CopiedOnly ==
    ASSUME DocumentsInv, NEW rs, NEW outcome \in {"WAITING", "SENT", "FAILED"},
           request' = Copied(rs, outcome), UNCHANGED doc
    PROVE  /\ NotesOnly
           /\ \A d \in Documents, n \in Numbers :
                 request'[d][n].copy = IF <<d, n>> \in rs THEN outcome ELSE request[d][n].copy
<1>1. \A d \in Documents, n \in Numbers :
         /\ request'[d][n] \in RequestType
         /\ request'[d][n].issued = request[d][n].issued
         /\ request'[d][n].revoked = request[d][n].revoked
         /\ request'[d][n].signed = request[d][n].signed
         /\ request'[d][n].bundle = request[d][n].bundle
         /\ request'[d][n].copy = IF <<d, n>> \in rs THEN outcome ELSE request[d][n].copy
  <2> TAKE d \in Documents, n \in Numbers
  <2> DEFINE r == [request[d][n] EXCEPT !.copy = outcome]
  <2>1. request[d][n] \in RequestType BY RowsFacts
  <2>2. request'[d][n] = IF <<d, n>> \in rs THEN r ELSE request[d][n]
    BY DEF Copied
  <2>3. /\ r \in RequestType /\ r.issued = request[d][n].issued
        /\ r.revoked = request[d][n].revoked /\ r.signed = request[d][n].signed
        /\ r.bundle = request[d][n].bundle /\ r.copy = outcome
    BY <2>1, CopyNoted
  <2> HIDE DEF r
  <2>4. CASE <<d, n>> \in rs BY <2>2, <2>3, <2>4
  <2>5. CASE <<d, n>> \notin rs BY <2>1, <2>2, <2>5
  <2> QED BY <2>4, <2>5
<1>2. request' = [d \in Documents |-> [n \in Numbers |-> request'[d][n]]]
  BY DEF Copied
<1>3. request' \in [Documents -> [Numbers -> RequestType]]
  BY <1>1, <1>2
<1> QED BY <1>1, <1>3 DEF NotesOnly

LEMMA ExpireNotes ==
    ASSUME DocumentsInv, NEW d \in Documents, NEW n \in Numbers, Expire(d, n)
    PROVE  NotesOnly /\ \A e \in Documents, m \in Numbers :
                           request'[e][m].copy = request[e][m].copy
<1> DEFINE r == [request[d][n] EXCEPT !.late = TRUE]
<1>1. request[d][n] \in RequestType BY RowsFacts
<1>2. r \in RequestType /\ r.issued = request[d][n].issued
      /\ r.revoked = request[d][n].revoked /\ r.signed = request[d][n].signed
      /\ r.bundle = request[d][n].bundle /\ r.copy = request[d][n].copy
  BY <1>1 DEF RequestType
<1>3. request' = [request EXCEPT ![d] = [request[d] EXCEPT ![n] = r]] BY DEF Expire
<1> HIDE DEF r
<1>4. /\ request' = [e \in Documents |-> [m \in Numbers |-> request'[e][m]]]
      /\ request'[d][n] = r
      /\ \A e \in Documents, m \in Numbers : <<e, m>> # <<d, n>> =>
            request'[e][m] = request[e][m]
  BY <1>3, RowsFacts
<1>5. \A e \in Documents, m \in Numbers :
         /\ request'[e][m] \in RequestType
         /\ request'[e][m].issued = request[e][m].issued
         /\ request'[e][m].revoked = request[e][m].revoked
         /\ request'[e][m].signed = request[e][m].signed
         /\ request'[e][m].bundle = request[e][m].bundle
         /\ request'[e][m].copy = request[e][m].copy
  <2> TAKE e \in Documents, m \in Numbers
  <2>1. CASE e = d /\ m = n BY <1>2, <1>4, <2>1
  <2>2. CASE ~(e = d /\ m = n)
    <3>1. request'[e][m] = request[e][m] BY <1>4, <2>2
    <3> QED BY <3>1, RowsFacts
  <2> QED BY <2>1, <2>2
<1>6. request' \in [Documents -> [Numbers -> RequestType]] BY <1>4, <1>5
<1>7. UNCHANGED doc BY DEF Expire
<1> QED BY <1>5, <1>6, <1>7 DEF NotesOnly

\* A handler that only notes such things.
LEMMA NotesStep ==
    ASSUME DocumentsInv, NotesOnly, UNCHANGED <<bundles, copies, session, races>>,
           faults' \in Nat
    PROVE  StepKept
<1>1. AllKept /\ (races = 0 => QuietlyChanged({})) BY NotesKept
<1>2. \A t \in Sessions : session[t].docs \cap {} = {} OBVIOUS
<1> QED BY <1>1, <1>2, HandlerStep, RowsFacts

LEMMA ExpireStep ==
    ASSUME DocumentsInv, NEW d \in Documents, NEW n \in Numbers, Expire(d, n)
    PROVE  StepKept
BY ExpireNotes, NotesStep, RowsFacts DEF Expire, NoSession

\* The last of the requests of a document is one of them.
LEMMA LatestIssued ==
    ASSUME DocumentsInv, NEW d \in Documents, Issued(d) # {}
    PROVE  Latest(Issued(d)) \in Numbers /\ request[d][Latest(Issued(d))].issued
<1>1. /\ request[d] \in [Numbers -> RequestType]
      /\ \A n, m \in Numbers : request[d][n].issued /\ m <= n => request[d][m].issued
  BY RowsFacts DEF RowOK
<1>2. PICK k \in 0..MaxRequests : {n \in Numbers : request[d][n].issued} = 1..k
  BY <1>1, IssuedPrefix
<1>3. Issued(d) = 1..k BY <1>2 DEF Issued
<1>4. k \in 1..k /\ \A j \in 1..k : j <= k BY <1>3
<1>5. Latest(Issued(d)) \in Issued(d) BY <1>3, <1>4 DEF Latest
<1> QED BY <1>5 DEF Issued

LEMMA ResendNotes ==
    ASSUME DocumentsInv, NEW d \in Documents, NEW outcome \in {"SENT", "FAILED"},
           ResendSignedCopy(d, outcome)
    PROVE  NotesOnly /\ faults' \in Nat
<1>1. faults' \in Nat BY RowsFacts DEF ResendSignedCopy
<1>2. UNCHANGED doc /\ \E rs : request' = Copied(rs, outcome) BY DEF ResendSignedCopy
<1> QED BY <1>1, <1>2, CopiedOnly

LEMMA ResendSignedCopyStep ==
    ASSUME DocumentsInv, NEW d \in Documents, NEW outcome \in {"SENT", "FAILED"},
           ResendSignedCopy(d, outcome)
    PROVE  StepKept
BY ResendNotes, NotesStep DEF ResendSignedCopy

-----------------------------------------------------------------------------
(* Sessions begin.                                                          *)

LEMMA SessionBegins ==
    ASSUME DocumentsInv, NEW t \in Sessions, NEW handler \in {"update", "cancel", "print"},
           NEW ds \in SUBSET Documents, NEW rows, Begin(t, handler, ds, rows),
           \A d \in ds : doc[d].status # "ABSENT",
           handler \in {"update", "cancel"} => \E d \in Documents : ds = {d},
           handler = "update" => rows \in [ds -> {"DRAFT", "READY"}],
           handler = "print" => rows \in [ds -> RowType],
           \A s : s.handler = handler /\ s.docs = ds /\ s.rows = rows => Fresh1(s, doc, request)
    PROVE  StepKept
<1> DEFINE s == [handler |-> handler, docs |-> ds, step |-> "read", rows |-> rows,
                 number |-> 0, signed |-> FALSE]
<1>1. /\ DOMAIN s = Fields /\ s.handler = handler /\ s.docs = ds /\ s.step = "read"
      /\ s.rows = rows
  BY DEF Fields
<1>2. /\ session[t] = Idle /\ session' = [session EXCEPT ![t] = s] /\ Touch(ds)
      /\ UNCHANGED <<doc, request, bundles, copies, faults>>
  BY DEF Begin
<1> HIDE DEF s
<1>3. SessionOK(s, doc, request) BY <1>1 DEF SessionOK
<1>4. Fresh1(s, doc, request) BY <1>1
<1>5. bundles' \in {0} \cup Bundles BY <1>2 DEF DocumentsInv, RowsOK
<1> QED BY <1>1, <1>2, <1>3, <1>4, <1>5, BeginStep

LEMMA BeginUpdateStep ==
    ASSUME DocumentsInv, NEW t \in Sessions, NEW d \in Documents, BeginUpdate(t, d)
    PROVE  StepKept
<1> DEFINE rows == [e \in {d} |-> doc[e].status]
<1>1. doc[d].status \in {"DRAFT", "READY"} /\ Begin(t, "update", {d}, rows) BY DEF BeginUpdate
<1>2. rows \in [{d} -> {"DRAFT", "READY"}] /\ rows[d] = doc[d].status BY <1>1
<1> HIDE DEF rows
<1>3. ASSUME NEW s, s.handler = "update", s.docs = {d}, s.rows = rows
      PROVE  Fresh1(s, doc, request)
  BY <1>2, <1>3 DEF Fresh1
<1> QED BY <1>1, <1>2, <1>3, SessionBegins

LEMMA BeginCancelStep ==
    ASSUME DocumentsInv, NEW t \in Sessions, NEW d \in Documents, BeginCancel(t, d)
    PROVE  StepKept
<1>1. doc[d].status \in Cancellable /\ Begin(t, "cancel", {d}, <<>>) BY DEF BeginCancel
<1>2. doc[d].status # "ABSENT" BY <1>1 DEF Cancellable
<1>3. ASSUME NEW s, s.handler = "cancel", s.docs = {d}, s.rows = <<>>
      PROVE  Fresh1(s, doc, request)
  BY <1>1, <1>3 DEF Fresh1
<1> QED BY <1>1, <1>2, <1>3, SessionBegins

LEMMA BeginPrintStep ==
    ASSUME DocumentsInv, NEW t \in Sessions, NEW selection \in SUBSET Documents,
           NEW reprint \in BOOLEAN, BeginPrint(t, selection, reprint)
    PROVE  StepKept
<1> DEFINE rows == [d \in selection |-> doc[d]]
<1>1. /\ \A d \in selection : doc[d].status \in {"DRAFT", "READY"}
      /\ Begin(t, "print", selection, rows)
  BY DEF BeginPrint, Printable
<1>2. rows \in [selection -> RowType] /\ \A d \in selection : rows[d] = doc[d]
  BY RowsFacts
<1> HIDE DEF rows
<1>3. ASSUME NEW s, s.handler = "print", s.docs = selection, s.rows = rows
      PROVE  Fresh1(s, doc, request)
  BY <1>1, <1>2, <1>3 DEF Fresh1, SameButData
<1> QED BY <1>1, <1>2, <1>3, SessionBegins

LEMMA BeginSignStep ==
    ASSUME DocumentsInv, NEW t \in Sessions, NEW d \in Documents, NEW n \in Numbers,
           BeginSign(t, d, n)
    PROVE  StepKept
<1> DEFINE s == [handler |-> "sign", docs |-> {d}, step |-> "read", rows |-> <<>>,
                 number |-> n, signed |-> request[d][n].signed]
<1>1. /\ DOMAIN s = Fields /\ s.handler = "sign" /\ s.docs = {d} /\ s.step = "read"
      /\ s.number = n /\ s.signed = request[d][n].signed
  BY DEF Fields
<1>2. /\ session[t] = Idle /\ session' = [session EXCEPT ![t] = s] /\ Touch({d})
      /\ UNCHANGED <<doc, request, bundles, copies, faults>> /\ Valid(d, n)
  BY DEF BeginSign
<1> HIDE DEF s
<1>3. request[d][n].issued /\ n \in Working(request[d])
  BY <1>2 DEF Valid, Live, Issued, Working
<1>4. doc[d].status # "ABSENT"
  <2>1. RowOK(doc[d], request[d]) BY RowsFacts
  <2> QED BY <1>3, <2>1 DEF RowOK
<1>5. request[d][n].signed \in BOOLEAN
  <2>1. request[d][n] \in RequestType BY RowsFacts
  <2> QED BY <2>1 DEF RequestType
<1>6. SessionOK(s, doc, request) BY <1>1, <1>3, <1>4, <1>5 DEF SessionOK
<1>7. Fresh1(s, doc, request) BY <1>1, <1>3 DEF Fresh1
<1>8. bundles' \in {0} \cup Bundles BY <1>2 DEF DocumentsInv, RowsOK
<1> QED BY <1>1, <1>2, <1>6, <1>7, <1>8, BeginStep

LEMMA BeginTogetherStep ==
    ASSUME DocumentsInv, NEW t \in Sessions, NEW c \in DOMAIN Pair, BeginTogether(t, c)
    PROVE  StepKept
<1> DEFINE ds == {c, Pair[c]}
           rows == [d \in ds |-> doc[d]]
           s == [handler |-> "together", docs |-> ds, step |-> "read",
                 rows |-> rows, number |-> bundles + 1, signed |-> FALSE]
<1>1. ds \in SUBSET Documents
  <2>1. c \in Contracts /\ Pair[c] \in Epps BY DocumentsAssumption
  <2> QED BY <2>1 DEF Documents
<1>2. /\ DOMAIN s = Fields /\ s.handler = "together" /\ s.docs = ds /\ s.step = "read"
      /\ s.rows = rows /\ s.number = bundles + 1
  BY DEF Fields
<1>3. /\ session[t] = Idle /\ session' = [session EXCEPT ![t] = s] /\ Touch(ds)
      /\ UNCHANGED <<doc, request, copies, faults>>
      /\ bundles < MaxBundles /\ bundles' = bundles + 1
      /\ \A d \in ds : /\ doc[d].signature_method # "PAPER"
                       /\ doc[d].status \in {"DRAFT", "READY", "SENT"}
  BY DEF BeginTogether
<1>4. bundles + 1 \in Bundles
  <2>1. bundles \in {0} \cup Bundles BY DEF DocumentsInv, RowsOK
  <2> QED BY <1>3, <2>1, NumbersAreNatural DEF Bundles
<1>5. rows \in [ds -> RowType] /\ \A d \in ds : rows[d] = doc[d]
  BY <1>1, RowsFacts
<1>6. \E k \in DOMAIN Pair : ds = {k, Pair[k]} OBVIOUS
<1> HIDE DEF s, rows, ds
<1>7. SessionOK(s, doc, request) BY <1>1, <1>2, <1>3, <1>4, <1>5, <1>6 DEF SessionOK
<1>8. Fresh1(s, doc, request) BY <1>2, <1>3, <1>5 DEF Fresh1, SameButData
<1> QED BY <1>2, <1>3, <1>4, <1>7, <1>8, BeginStep

-----------------------------------------------------------------------------
(* Sessions go on, and end.                                                 *)

LEMMA SessionAt ==
    ASSUME DocumentsInv, NEW t \in Sessions, NEW handler, NEW step, At(t, handler, step),
           handler # "none"
    PROVE  /\ session[t] # Idle /\ SessionOK(session[t], doc, request)
           /\ session[t].handler = handler /\ session[t].step = step
           /\ session[t].docs \in SUBSET Documents
           /\ races = 0 => Quiet /\ Fresh1(session[t], doc, request)
           /\ session = [u \in Sessions |-> session[u]]
<1>1. session[t].handler = handler /\ session[t].step = step BY DEF At
<1>2. session[t] # Idle BY <1>1 DEF Idle
<1>3. SessionOK(session[t], doc, request) BY <1>2 DEF DocumentsInv, SessionsOK
<1>4. races = 0 => Quiet /\ Fresh1(session[t], doc, request) BY <1>2 DEF DocumentsInv, Quiet
<1> QED BY <1>1, <1>2, <1>3, <1>4 DEF SessionOK, DocumentsInv, SessionsOK

\* The document of a session that has one.
LEMMA OnlyDocument ==
    ASSUME NEW t \in Sessions, SessionOK(session[t], doc, request),
           session[t].handler \in {"update", "cancel", "sign"}
    PROVE  Only(t) \in Documents /\ session[t].docs = {Only(t)}
BY DEF SessionOK, Only

\* A session ends.
LEMMA SessionEnds ==
    ASSUME DocumentsInv, NEW t \in Sessions, session[t] # Idle, AllKept,
           NEW s, s = Idle,
           session' = [session EXCEPT ![t] = s], UNCHANGED <<bundles, copies, races>>,
           faults' \in Nat, races = 0 => QuietlyChanged(session[t].docs)
    PROVE  StepKept
<1>1. copies' \in [Bundles -> Nat] BY DEF DocumentsInv, RowsOK
<1> QED BY <1>1, SessionStep

LEMMA GoEnds ==
    ASSUME NEW t \in Sessions, Go(t, "end")
    PROVE  \E s : s = Idle /\ session' = [session EXCEPT ![t] = s]
BY DEF Go

LEMMA CommitUpdateStep ==
    ASSUME DocumentsInv, NEW t \in Sessions, CommitUpdate(t)
    PROVE  StepKept
<1>1. /\ session[t] # Idle /\ SessionOK(session[t], doc, request)
      /\ session[t].handler = "update"
      /\ races = 0 => Quiet /\ Fresh1(session[t], doc, request)
  BY SessionAt DEF CommitUpdate
<1>2. PICK d \in Documents : session[t].docs = {d} /\ Only(t) = d BY <1>1, OnlyDocument
<1> DEFINE new == Changed(doc[d])
           status == IF session[t].rows[d] = "READY" THEN "DRAFT" ELSE new.status
           row == [new EXCEPT !.status = status]
<1>3. new \in RowType /\ SameButData(new, doc[d]) BY <1>2, RowsFacts, ChangedRow
<1>4. new.status = doc[d].status BY <1>3, SameButDataFields
<1>5. doc' = [doc EXCEPT ![d] = row] /\ UNCHANGED <<request, bundles, copies, faults, races>>
      /\ session' = [session EXCEPT ![t] = Idle]
  <2>1. doc' = [doc EXCEPT ![d] = row] BY <1>2 DEF CommitUpdate
  <2> QED BY <2>1, GoEnds DEF CommitUpdate, InSession
<1>6. status \in Stored /\ status # "ABSENT" /\ (status = "SENT" => doc[d].status = "SENT")
  <2>1. doc[d].status # "ABSENT" BY <1>1, <1>2 DEF SessionOK
  <2>2. doc[d].status \in Stored BY <1>2, RowsFacts DEF RowType
  <2> QED BY <1>4, <2>1, <2>2 DEF Stored
<1> HIDE DEF new
<1>7. /\ row \in RowType /\ row.status = status /\ row.signature_method = new.signature_method
      /\ row.supersedes = new.supersedes /\ row.frozen_snapshot = new.frozen_snapshot
      /\ row.signed_pdf = new.signed_pdf
  <2> HIDE DEF status
  <2> QED BY <1>3, <1>6, StatusGiven
<1> HIDE DEF row
<1>8. RowKept(doc[d], request[d], row, request[d])
  <2> HIDE DEF status
  <2> QED BY <1>2, <1>6, <1>7, RowOnly, RowsFacts
<1>9. AllKept /\ Elsewhere({d}) /\ doc'[d] = row /\ request'[d] = request[d]
  <2>1. /\ doc' = [e \in Documents |-> doc'[e]] /\ request' = [e \in Documents |-> request'[e]]
        /\ doc'[d] = row /\ request'[d] = request[d]
        /\ \A e \in Documents \ {d} : doc'[e] = doc[e] /\ request'[e] = request[e]
    BY <1>5, RowsFacts
  <2>2. RowKept(doc[d], request[d], doc'[d], request'[d]) BY <1>8, <2>1
  <2> QED BY <2>1, <2>2, OneDocument
<1>10. ASSUME races = 0 PROVE QuietlyChanged({d})
  <2>1. doc[d].status = session[t].rows[d] /\ session[t].rows[d] \in {"DRAFT", "READY"}
    BY <1>1, <1>2, <1>10 DEF Fresh1, SessionOK
  <2>2. status = "DRAFT" BY <1>4, <2>1
  <2>3. RowQuiet(doc[d], request[d]) BY <1>1, <1>2, <1>10 DEF Quiet
  <2>4. RowQuietKept(doc[d], row, request[d])
    BY <1>3, <1>7, <2>1, <2>2, <2>3, SameButDataFields DEF RowQuietKept, RowQuiet
  <2>5. SignedKept(doc[d], row)
    BY <1>3, <1>7, <2>1, SameButDataFields DEF SignedKept
  <2> QED BY <1>9, <2>4, <2>5 DEF QuietlyChanged
<1> QED BY <1>1, <1>2, <1>5, <1>9, <1>10, SessionEnds, RowsFacts

LEMMA CommitCancelStep ==
    ASSUME DocumentsInv, NEW t \in Sessions, CommitCancel(t)
    PROVE  StepKept
<1>1. /\ session[t] # Idle /\ SessionOK(session[t], doc, request)
      /\ session[t].handler = "cancel"
      /\ races = 0 => Quiet /\ Fresh1(session[t], doc, request)
  BY SessionAt DEF CommitCancel
<1>2. PICK d \in Documents : session[t].docs = {d} /\ Only(t) = d BY <1>1, OnlyDocument
<1> DEFINE row == [doc[d] EXCEPT !.status = "CANCELLED"]
           rs == Revoked(request[d])
<1>3. /\ doc' = [doc EXCEPT ![d] = row] /\ request' = [request EXCEPT ![d] = rs]
      /\ UNCHANGED <<bundles, copies, faults, races>>
      /\ session' = [session EXCEPT ![t] = Idle]
  BY <1>2, GoEnds DEF CommitCancel, InSession
<1>4. /\ row \in RowType /\ row.status = "CANCELLED" /\ row.supersedes = doc[d].supersedes
      /\ row.frozen_snapshot = doc[d].frozen_snapshot
  BY <1>2, RowsFacts, StatusGiven DEF Stored
<1> HIDE DEF row
<1>5. RowKept(doc[d], request[d], row, rs) /\ Working(rs) = {}
  BY <1>2, <1>4, RowRevoked, RowsFacts
<1> HIDE DEF rs
<1>6. AllKept /\ Elsewhere({d}) /\ doc'[d] = row /\ request'[d] = rs
  <2>1. /\ doc' = [e \in Documents |-> doc'[e]] /\ request' = [e \in Documents |-> request'[e]]
        /\ doc'[d] = row /\ request'[d] = rs
        /\ \A e \in Documents \ {d} : doc'[e] = doc[e] /\ request'[e] = request[e]
    BY <1>3, RowsFacts
  <2>2. RowKept(doc[d], request[d], doc'[d], request'[d]) BY <1>5, <2>1
  <2> QED BY <2>1, <2>2, OneDocument
<1>7. ASSUME races = 0 PROVE QuietlyChanged({d})
  <2>1. doc[d].status \in Cancellable BY <1>1, <1>2, <1>7 DEF Fresh1
  <2>2. RowQuietKept(doc[d], row, rs)
    BY <1>4, <1>5, <2>1 DEF RowQuietKept, RowQuiet, Cancellable
  <2>3. SignedKept(doc[d], row) BY <1>4, <2>1 DEF SignedKept, Cancellable
  <2> QED BY <1>6, <2>2, <2>3 DEF QuietlyChanged
<1> QED BY <1>1, <1>2, <1>3, <1>6, <1>7, SessionEnds, RowsFacts

LEMMA CommitPrintStep ==
    ASSUME DocumentsInv, NEW t \in Sessions, CommitPrint(t)
    PROVE  StepKept
<1>1. /\ session[t] # Idle /\ SessionOK(session[t], doc, request)
      /\ session[t].handler = "print" /\ session[t].docs \in SUBSET Documents
      /\ races = 0 => Quiet /\ Fresh1(session[t], doc, request)
  BY SessionAt DEF CommitPrint
<1> DEFINE ds == session[t].docs
           read == session[t].rows
           new(d) == Written(doc[d], read[d], Printed(read[d]))
<1>2. doc' = [d \in Documents |-> IF d \in ds THEN new(d) ELSE doc[d]]
      /\ UNCHANGED <<request, bundles, copies, faults, races>>
      /\ session' = [session EXCEPT ![t] = Idle]
  BY GoEnds DEF CommitPrint, InSession
<1>3. read \in [ds -> RowType] BY <1>1 DEF SessionOK
<1>4. \A d \in ds : doc[d].status # "ABSENT" BY <1>1 DEF SessionOK
<1>5. \A d \in ds : /\ doc[d] \in RowType /\ read[d] \in RowType /\ Printed(read[d]) \in RowType
                    /\ Printed(read[d]).status = read[d].status
                    /\ Printed(read[d]).frozen_snapshot = Frozen(read[d])
                    /\ Printed(read[d]).supersedes = read[d].supersedes
  BY <1>1, <1>3, PrintedRow, RowsFacts
<1>6. \A d \in ds : new(d) \in RowType /\ new(d).status = doc[d].status
  <2> TAKE d \in ds
  <2> DEFINE printed == Printed(read[d])
             r == read[d]
  <2>1. /\ doc[d] \in RowType /\ r \in RowType /\ printed \in RowType
        /\ printed.status = r.status
    BY <1>5
  <2> HIDE DEF printed, r
  <2>2. Written(doc[d], r, printed) \in RowType BY <2>1, WrittenRow
  <2>3. Written(doc[d], r, printed).status = doc[d].status BY <2>1, WrittenStatus
  <2> QED BY <2>2, <2>3 DEF printed, r
<1>7. /\ doc' = [d \in Documents |-> doc'[d]]
      /\ \A d \in ds : doc'[d] = new(d)
      /\ \A d \in Documents \ ds : doc'[d] = doc[d]
  BY <1>1, <1>2
<1>8. AllKept
  <2> HIDE DEF new, ds
  <2> QED BY <1>2, <1>4, <1>6, <1>7, RowsChange
<1>9. ASSUME races = 0 PROVE QuietlyChanged(ds)
  <2>1. ASSUME NEW d \in ds
        PROVE  RowQuietKept(doc[d], new(d), request[d]) /\ SignedKept(doc[d], new(d))
    <3>1. SameButData(doc[d], read[d]) /\ doc[d].status \in {"DRAFT", "READY"}
      BY <1>1, <1>9, <2>1 DEF Fresh1
    <3>2. SameButData(new(d), Printed(read[d])) BY <1>5, <3>1, WrittenFresh
    <3>3. /\ new(d).frozen_snapshot = Frozen(read[d])
          /\ new(d).supersedes = read[d].supersedes
      BY <1>5, <3>2, SameButDataFields
    <3>4. /\ doc[d].frozen_snapshot = read[d].frozen_snapshot
          /\ doc[d].supersedes = read[d].supersedes
      BY <3>1, SameButDataFields
    <3>5. RowQuiet(doc[d], request[d]) BY <1>1, <1>9 DEF Quiet
    <3>6. new(d).status = doc[d].status BY <1>6
    <3> HIDE DEF new
    <3>7. RowQuietKept(doc[d], new(d), request[d])
      BY <3>1, <3>3, <3>4, <3>5, <3>6 DEF RowQuietKept, RowQuiet
    <3>8. read[d] \in RowType BY <1>5
    <3>9. SignedKept(doc[d], new(d)) BY <3>1, <3>3, <3>4, <3>8, FrozenSnapshot DEF SignedKept
    <3> QED BY <3>7, <3>9
  <2>2. request' = request BY <1>2
  <2>3. Elsewhere(ds) BY <1>7, <2>2 DEF Elsewhere, SameButData
  <2> HIDE DEF new
  <2> QED BY <1>7, <2>1, <2>2, <2>3 DEF QuietlyChanged
<1> QED BY <1>1, <1>2, <1>8, <1>9, SessionEnds, RowsFacts

LEMMA NothingChanges ==
    ASSUME DocumentsInv, UNCHANGED <<doc, request>>
    PROVE  NotesOnly /\ AllKept /\ \A ds \in SUBSET Documents : races = 0 => QuietlyChanged(ds)
<1>1. NotesOnly BY RowsFacts DEF NotesOnly
<1> QED BY <1>1, NotesKept

\* A session ends after noting something, or nothing.
LEMMA SessionEndsNoting ==
    ASSUME DocumentsInv, NEW t \in Sessions, session[t] # Idle, NotesOnly,
           session' = [session EXCEPT ![t] = Idle], UNCHANGED <<bundles, copies, races>>,
           faults' \in Nat
    PROVE  StepKept
<1>1. session[t].docs \in SUBSET Documents BY DEF DocumentsInv, SessionsOK, SessionOK
<1>2. AllKept /\ (races = 0 => QuietlyChanged(session[t].docs)) BY <1>1, NotesKept
<1> QED BY <1>2, SessionEnds

LEMMA AlreadySignedStep ==
    ASSUME DocumentsInv, NEW t \in Sessions, AlreadySigned(t)
    PROVE  StepKept
<1>1. session[t] # Idle BY SessionAt DEF AlreadySigned
<1>2. NotesOnly BY NothingChanges DEF AlreadySigned
<1> QED BY <1>1, <1>2, SessionEndsNoting, GoEnds, RowsFacts DEF AlreadySigned, InSession

LEMMA CopyAloneStep ==
    ASSUME DocumentsInv, NEW t \in Sessions, NEW outcome \in {"SENT", "FAILED"},
           CopyAlone(t, outcome)
    PROVE  StepKept
<1>1. session[t] # Idle BY SessionAt DEF CopyAlone
<1>2. NotesOnly BY CopiedOnly DEF CopyAlone
<1> QED BY <1>1, <1>2, SessionEndsNoting, GoEnds, RowsFacts DEF CopyAlone, InSession

LEMMA RecordBundleStep ==
    ASSUME DocumentsInv, NEW t \in Sessions, NEW outcome \in {"SENT", "FAILED"},
           RecordBundle(t, outcome)
    PROVE  StepKept
<1>1. session[t] # Idle BY SessionAt DEF RecordBundle
<1>2. NotesOnly BY CopiedOnly DEF RecordBundle
<1>3. faults' \in Nat BY RowsFacts DEF RecordBundle
<1> QED BY <1>1, <1>2, <1>3, SessionEndsNoting, GoEnds DEF RecordBundle

LEMMA DieStep ==
    ASSUME DocumentsInv, NEW t \in Sessions, Die(t)
    PROVE  StepKept
<1>1. NotesOnly BY NothingChanges DEF Die
<1>2. faults' \in Nat BY RowsFacts DEF Die
<1> QED BY <1>1, <1>2, SessionEndsNoting DEF Die

\* The steps of a session, one after the other.
LEMMA StepGiven ==
    ASSUME NEW s, DOMAIN s = Fields, NEW step
    PROVE  LET r == [s EXCEPT !.step = step]
           IN /\ DOMAIN r = Fields /\ r.handler = s.handler /\ r.docs = s.docs
              /\ r.step = step /\ r.rows = s.rows /\ r.number = s.number /\ r.signed = s.signed
BY DEF Fields

LEMMA GoOn ==
    ASSUME DocumentsInv, NEW t \in Sessions, NEW step, step # "end", Go(t, step)
    PROVE  session' = [session EXCEPT ![t] = [session[t] EXCEPT !.step = step]]
BY DEF Go, DocumentsInv, SessionsOK

LEMMA CommitSignStep ==
    ASSUME DocumentsInv, NEW t \in Sessions, CommitSign(t)
    PROVE  StepKept
<1>1. /\ session[t] # Idle /\ SessionOK(session[t], doc, request)
      /\ session[t].handler = "sign" /\ session[t].step = "read"
      /\ races = 0 => Quiet /\ Fresh1(session[t], doc, request)
  BY SessionAt DEF CommitSign
<1> DEFINE d == Only(t)
           n == session[t].number
           a == [doc[d] EXCEPT !.status = "COMPLETED"]
           row == [a EXCEPT !.signed_pdf = doc[d].frozen_snapshot]
           rs == [request[d] EXCEPT ![n].signed = TRUE]
           s == [session[t] EXCEPT !.step = "signed"]
<1>2. d \in Documents /\ session[t].docs = {d} /\ n \in Numbers
  BY <1>1, OnlyDocument DEF SessionOK
<1>3. /\ doc' = [doc EXCEPT ![d] = row] /\ request' = [request EXCEPT ![d] = rs]
      /\ UNCHANGED <<bundles, copies, faults, races>>
      /\ session' = [session EXCEPT ![t] = s]
  <2>1. doc' = [doc EXCEPT ![d].status = SignedStatus, ![d].signed_pdf = doc[d].frozen_snapshot]
    BY DEF CommitSign
  <2>2. doc' = [doc EXCEPT ![d] = row] BY <1>2, <2>1, RowsFacts DEF SignedStatus
  <2> QED BY <2>2, GoOn DEF CommitSign, InSession
<1>4. /\ DOMAIN s = Fields /\ s.handler = "sign" /\ s.docs = {d} /\ s.step = "signed"
      /\ s.number = n /\ s.signed = session[t].signed
  BY <1>1, <1>2, StepGiven DEF SessionOK
<1>5. /\ row \in RowType /\ row.status = "COMPLETED" /\ row.supersedes = doc[d].supersedes
      /\ row.frozen_snapshot = doc[d].frozen_snapshot
      /\ row.signature_method = doc[d].signature_method
      /\ row.signed_pdf = doc[d].frozen_snapshot
  <2>1. /\ a \in RowType /\ a.status = "COMPLETED" /\ a.supersedes = doc[d].supersedes
        /\ a.frozen_snapshot = doc[d].frozen_snapshot
        /\ a.signature_method = doc[d].signature_method
    BY <1>2, RowsFacts, StatusGiven DEF Stored
  <2>2. doc[d].frozen_snapshot \in Snapshots BY <1>2, RowsFacts DEF RowType
  <2> HIDE DEF a
  <2> QED BY <2>1, <2>2 DEF RowType
<1> HIDE DEF row, s
<1>6. /\ RowKept(doc[d], request[d], row, rs) /\ rs[n].signed
      /\ rs[n].issued = request[d][n].issued
  <2>1. RowOK(doc[d], request[d]) BY <1>2, RowsFacts
  <2> QED BY <1>2, <1>5, <2>1, RowSigned
<1> HIDE DEF rs, d
<1>7. AllKept /\ Elsewhere({d}) /\ doc'[d] = row /\ request'[d] = rs
  <2>1. /\ doc' = [e \in Documents |-> doc'[e]] /\ request' = [e \in Documents |-> request'[e]]
        /\ doc'[d] = row /\ request'[d] = rs
        /\ \A e \in Documents \ {d} : doc'[e] = doc[e] /\ request'[e] = request[e]
    BY <1>2, <1>3, RowsFacts
  <2>2. RowKept(doc[d], request[d], doc'[d], request'[d]) BY <1>6, <2>1
  <2> QED BY <1>2, <2>1, <2>2, OneDocument
<1>8. ASSUME races = 0 PROVE QuietlyChanged({d})
  <2>1. n \in Working(request[d]) BY <1>1, <1>2, <1>8 DEF Fresh1
  <2>2. RowQuiet(doc[d], request[d]) BY <1>1, <1>2, <1>8 DEF Quiet
  <2>3. doc[d].status \in {"SENT", "COMPLETED"} /\ doc[d].signature_method = "ELECTRONIC"
    BY <2>1, <2>2 DEF RowQuiet
  <2>4. RowQuietKept(doc[d], row, rs) BY <1>5, <2>3 DEF RowQuietKept, RowQuiet
  <2>5. SignedKept(doc[d], row) BY <1>5, <2>2 DEF SignedKept, RowQuiet
  <2> QED BY <1>7, <2>4, <2>5 DEF QuietlyChanged
<1>9. SessionOK(s, doc', request')
  <2>1. request[d][n].issued /\ session[t].signed \in BOOLEAN BY <1>1, <1>2 DEF SessionOK
  <2>2. doc'[d].status # "ABSENT" /\ request'[d][n].issued /\ request'[d][n].signed
    BY <1>5, <1>6, <1>7, <2>1
  <2> QED BY <1>2, <1>4, <2>1, <2>2 DEF SessionOK
<1>10. Fresh1(s, doc', request') BY <1>4 DEF Fresh1
<1> QED BY <1>1, <1>2, <1>3, <1>4, <1>7, <1>8, <1>9, <1>10, SessionStep DEF DocumentsInv, RowsOK
\* A worker's session goes on to e-mail the copy of a bundle.
LEMMA SignGoesOn ==
    ASSUME DocumentsInv, NEW t \in Sessions, session[t] # Idle, session[t].handler = "sign",
           session[t].step # "read", BundleOf(t) # 0,
           NEW step \in {"mailing", "mailed"}, Go(t, step), NotesOnly,
           UNCHANGED <<bundles, faults, races>>, copies' \in [Bundles -> Nat]
    PROVE  StepKept
<1> DEFINE s == [session[t] EXCEPT !.step = step]
<1>1. SessionOK(session[t], doc, request) BY DEF DocumentsInv, SessionsOK
<1>2. PICK d \in Documents : session[t].docs = {d} /\ Only(t) = d BY <1>1, OnlyDocument
<1>3. session' = [session EXCEPT ![t] = s] BY GoOn
<1>4. /\ DOMAIN s = Fields /\ s.handler = "sign" /\ s.docs = {d} /\ s.step = step
      /\ s.number = session[t].number /\ s.signed = session[t].signed
  BY <1>1, <1>2, StepGiven DEF SessionOK
<1> HIDE DEF s
<1>5. session[t].docs \in SUBSET Documents BY <1>2
<1>6. AllKept /\ (races = 0 => QuietlyChanged(session[t].docs)) BY <1>5, NotesKept
<1>7. /\ session[t].number \in Numbers /\ session[t].signed \in BOOLEAN
      /\ request[d][session[t].number].issued /\ request[d][session[t].number].signed
      /\ request[d][session[t].number].bundle # 0
  BY <1>1, <1>2 DEF SessionOK, BundleOf
<1>8. /\ request'[d][s.number].issued /\ request'[d][s.number].signed
      /\ request'[d][s.number].bundle # 0 /\ doc'[d].status # "ABSENT"
  BY <1>1, <1>2, <1>4, <1>7 DEF NotesOnly, SessionOK
<1>9. SessionOK(s, doc', request') BY <1>2, <1>4, <1>7, <1>8 DEF SessionOK
<1>10. Fresh1(s, doc', request') BY <1>4 DEF Fresh1
<1>11. faults' \in Nat BY RowsFacts
<1> QED BY <1>2, <1>3, <1>4, <1>6, <1>9, <1>10, <1>11, SessionStep

LEMMA LookAtBundleNotes ==
    ASSUME DocumentsInv, NEW t \in Sessions, LookAtBundle(t)
    PROVE  NotesOnly
<1>1. UNCHANGED doc
      /\ (request' = Copied({<<Only(t), session[t].number>>}, "WAITING") \/ request' = request)
  BY DEF LookAtBundle
<1>2. CASE request' = request BY <1>1, <1>2, NothingChanges
<1>3. CASE request' # request BY <1>1, <1>3, CopiedOnly
<1> QED BY <1>2, <1>3

LEMMA LookAtBundleStep ==
    ASSUME DocumentsInv, NEW t \in Sessions, LookAtBundle(t)
    PROVE  StepKept
<1>1. /\ session[t] # Idle /\ session[t].handler = "sign" /\ session[t].step = "signed"
      /\ BundleOf(t) # 0 /\ UNCHANGED <<bundles, copies, faults, races>>
      /\ Go(t, "end") \/ Go(t, "mailing")
  BY SessionAt DEF LookAtBundle, InSession
<1>2. NotesOnly BY LookAtBundleNotes
<1>3. faults' \in Nat /\ copies' \in [Bundles -> Nat] BY <1>1 DEF DocumentsInv, RowsOK
<1>4. CASE Go(t, "end") BY <1>1, <1>2, <1>3, <1>4, SessionEndsNoting, GoEnds
<1>5. CASE Go(t, "mailing") BY <1>1, <1>2, <1>3, <1>5, SignGoesOn
<1> QED BY <1>1, <1>4, <1>5

\* What e-mailing a bundle counts.
LEMMA MailBundleCounts ==
    ASSUME DocumentsInv, NEW t \in Sessions, MailBundle(t)
    PROVE  /\ BundleOf(t) \in Bundles
           /\ copies' \in [Bundles -> Nat] /\ copies'[BundleOf(t)] = copies[BundleOf(t)] + 1
           /\ \A b \in Bundles \ {BundleOf(t)} : copies'[b] = copies[b]
<1>1. SessionOK(session[t], doc, request) /\ session[t].handler = "sign"
      /\ session[t].step = "mailing"
  BY SessionAt DEF MailBundle
<1>2. PICK d \in Documents : session[t].docs = {d} /\ Only(t) = d BY <1>1, OnlyDocument
<1>3. session[t].number \in Numbers /\ request[d][session[t].number].bundle # 0
  BY <1>1, <1>2 DEF SessionOK
<1>4. request[d][session[t].number] \in RequestType BY <1>3, RowsFacts
<1>5. BundleOf(t) \in Bundles BY <1>2, <1>3, <1>4 DEF BundleOf, RequestType
<1>6. copies \in [Bundles -> Nat] BY DEF DocumentsInv, RowsOK
<1>7. copies' = [copies EXCEPT ![BundleOf(t)] = @ + 1] BY DEF MailBundle
<1> DEFINE b == BundleOf(t)
<1> HIDE DEF b
<1> QED BY <1>5, <1>6, <1>7

LEMMA MailBundleStep ==
    ASSUME DocumentsInv, NEW t \in Sessions, MailBundle(t)
    PROVE  StepKept
<1>1. session[t] # Idle /\ session[t].handler = "sign" /\ session[t].step = "mailing"
  BY SessionAt DEF MailBundle
<1>2. NotesOnly BY NothingChanges DEF MailBundle
<1>3. BundleOf(t) \in Bundles /\ copies' \in [Bundles -> Nat] BY MailBundleCounts
<1>4. BundleOf(t) # 0 BY <1>3 DEF Bundles
<1> QED BY <1>1, <1>2, <1>3, <1>4, SignGoesOn DEF MailBundle
\* What a session that sends a pair is at.
LEMMA TogetherAt ==
    ASSUME DocumentsInv, NEW t \in Sessions, NEW step, At(t, "together", step),
           NEW d, d \in session[t].docs
    PROVE  /\ session[t] # Idle /\ SessionOK(session[t], doc, request)
           /\ session[t].handler = "together" /\ session[t].step = step
           /\ session[t].docs \in SUBSET Documents /\ d \in Documents
           /\ session[t].rows \in [session[t].docs -> RowType]
           /\ session[t].rows[d] \in RowType /\ session[t].number \in Bundles
           /\ doc[d] \in RowType /\ doc[d].status # "ABSENT" /\ RowOK(doc[d], request[d])
           /\ races = 0 => Quiet /\ Fresh1(session[t], doc, request)
<1>1. /\ session[t] # Idle /\ SessionOK(session[t], doc, request)
      /\ session[t].handler = "together" /\ session[t].step = step
      /\ session[t].docs \in SUBSET Documents
      /\ races = 0 => Quiet /\ Fresh1(session[t], doc, request)
  BY SessionAt
<1>2. /\ session[t].rows \in [session[t].docs -> RowType] /\ session[t].number \in Bundles
      /\ doc[d].status # "ABSENT"
  BY <1>1 DEF SessionOK
<1> QED BY <1>1, <1>2, RowsFacts

\* What a session that sends two documents makes of a row before it sends that one.
Prepares(read, new) ==
    /\ new \in RowType
    /\ new.status = read.status \/ (read.status = "DRAFT" /\ new.status = "READY")
    /\ new.signature_method \in {read.signature_method, "ELECTRONIC"}
    /\ new.supersedes = read.supersedes /\ new.frozen_snapshot = read.frozen_snapshot
    /\ new.signed_pdf = read.signed_pdf

LEMMA ReadiedRow ==
    ASSUME NEW read \in RowType
    PROVE  Prepares(read, Readied(read))
<1> DEFINE status == IF read.status = "DRAFT" THEN "READY" ELSE read.status
<1>1. status \in Stored BY DEF Stored, RowType
<1>2. Readied(read) = [read EXCEPT !.status = status] BY DEF RowType, Readied
<1>3. status = read.status \/ (read.status = "DRAFT" /\ status = "READY") OBVIOUS
<1> HIDE DEF status
<1>4. LET r == [read EXCEPT !.status = status]
      IN /\ r \in RowType /\ r.status = status /\ r.signature_method = read.signature_method
         /\ r.supersedes = read.supersedes /\ r.frozen_snapshot = read.frozen_snapshot
         /\ r.signed_pdf = read.signed_pdf
  BY <1>1, StatusGiven
<1> QED BY <1>2, <1>3, <1>4 DEF Prepares

LEMMA MarkedRow ==
    ASSUME NEW read \in RowType
    PROVE  Prepares(read, Marked(read))
BY DEF Prepares, Marked, RowType

\* As it is written.
LEMMA PreparedRow ==
    ASSUME NEW row \in RowType, NEW read \in RowType, NEW new, Prepares(read, new)
    PROVE  LET w == Written(row, read, new)
           IN /\ w \in RowType /\ w.status \in {row.status, "READY"}
              /\ /\ SameButData(row, read) /\ row.signature_method # "PAPER"
                 /\ row.status \in {"DRAFT", "READY", "SENT"}
                 => /\ SameButData(w, new) /\ w.signature_method # "PAPER"
                    /\ w.status \in {"DRAFT", "READY", "SENT"}
                    /\ row.status # "DRAFT" => w.status = row.status
                    /\ w.signature_method \in {row.signature_method, "ELECTRONIC"}
                    /\ w.supersedes = row.supersedes
                    /\ w.frozen_snapshot = row.frozen_snapshot
                    /\ w.signed_pdf = row.signed_pdf
<1>1. PICK w : w = Written(row, read, new) OBVIOUS
<1>2. new \in RowType BY DEF Prepares
<1>3. w \in RowType /\ w.status = IF read.status = new.status THEN row.status ELSE new.status
  <2>1. Written(row, read, new) \in RowType BY <1>2, WrittenRow
  <2>2. Written(row, read, new).status =
           IF read.status = new.status THEN row.status ELSE new.status
    BY <1>2, WrittenStatus
  <2> QED BY <1>1, <2>1, <2>2
<1>4. w.status \in {row.status, "READY"} BY <1>3 DEF Prepares
<1>5. ASSUME SameButData(row, read), row.signature_method # "PAPER",
             row.status \in {"DRAFT", "READY", "SENT"}
      PROVE  /\ SameButData(w, new) /\ w.signature_method # "PAPER"
             /\ w.status \in {"DRAFT", "READY", "SENT"}
             /\ row.status # "DRAFT" => w.status = row.status
             /\ w.signature_method \in {row.signature_method, "ELECTRONIC"}
             /\ w.supersedes = row.supersedes
             /\ w.frozen_snapshot = row.frozen_snapshot
             /\ w.signed_pdf = row.signed_pdf
  <2>1. SameButData(w, new) BY <1>1, <1>2, <1>5, WrittenFresh
  <2>2. /\ w.status = new.status /\ w.signature_method = new.signature_method
        /\ w.supersedes = new.supersedes /\ w.frozen_snapshot = new.frozen_snapshot
        /\ w.signed_pdf = new.signed_pdf
    BY <2>1, SameButDataFields
  <2>3. /\ row.status = read.status /\ row.signature_method = read.signature_method
        /\ row.supersedes = read.supersedes /\ row.frozen_snapshot = read.frozen_snapshot
        /\ row.signed_pdf = read.signed_pdf
    BY <1>5, SameButDataFields
  <2> QED BY <1>5, <2>1, <2>2, <2>3 DEF Prepares
<1> QED BY <1>1, <1>3, <1>4, <1>5

\* What that keeps.
LEMMA PreparedKept ==
    ASSUME NEW row, NEW requests, NEW w,
           RowQuiet(row, requests), row.signature_method # "PAPER",
           row.status \in {"DRAFT", "READY", "SENT"},
           w.status \in {"DRAFT", "READY", "SENT"},
           row.status # "DRAFT" => w.status = row.status,
           w.signature_method \in {row.signature_method, "ELECTRONIC"},
           w.supersedes = row.supersedes, w.frozen_snapshot = row.frozen_snapshot
    PROVE  RowQuietKept(row, w, requests) /\ SignedKept(row, w)
<1>1. RowQuiet(w, requests) BY DEF RowQuiet
<1> QED BY <1>1 DEF RowQuietKept, SignedKept

\* The session goes on with new rows.
LEMMA RowsGiven ==
    ASSUME NEW s, DOMAIN s = Fields, NEW rows, NEW step
    PROVE  LET r == [s EXCEPT !.rows = rows, !.step = step]
           IN /\ DOMAIN r = Fields /\ r.handler = s.handler /\ r.docs = s.docs
              /\ r.step = step /\ r.rows = rows /\ r.number = s.number
BY DEF Fields

\* Both rows are written.
LEMMA RowsWritten ==
    ASSUME DocumentsInv, NEW t \in Sessions, NEW new, WriteRows(t, new)
    PROVE  /\ doc' = [e \in Documents |-> doc'[e]]
           /\ \A e \in Documents : doc'[e] = IF e \in session[t].docs
                                             THEN Written(doc[e], session[t].rows[e], new[e])
                                             ELSE doc[e]
BY DEF WriteRows

LEMMA PrepareOneStep ==
    ASSUME DocumentsInv, NEW t \in Sessions, NEW d, NEW step,
           NEW next \in {"prepare", "contract"}, step \in {"read", "prepare"},
           PrepareOne(t, d, step, next)
    PROVE  StepKept
<1>1. /\ session[t] # Idle /\ SessionOK(session[t], doc, request)
      /\ session[t].handler = "together"
      /\ session[t].docs \in SUBSET Documents /\ d \in Documents /\ d \in session[t].docs
      /\ session[t].rows \in [session[t].docs -> RowType] /\ session[t].number \in Bundles
      /\ races = 0 => Quiet /\ Fresh1(session[t], doc, request)
  BY TogetherAt DEF PrepareOne
<1>2. PICK ds, rows : ds = session[t].docs /\ rows = session[t].rows OBVIOUS
<1>3. PICK new : /\ \A e \in ds : Prepares(rows[e], new[e])
                 /\ new = [e \in ds |-> new[e]]
                 /\ WriteRows(t, new)
                 /\ session' = [session EXCEPT ![t] = [session[t] EXCEPT !.rows = new,
                                                                       !.step = next]]
  <2> DEFINE marks == step = "prepare" /\ rows[d].status = "DRAFT"
             one(e) == IF e = d THEN Readied(rows[e])
                       ELSE IF marks THEN Marked(rows[e]) ELSE rows[e]
             all == [e \in ds |-> one(e)]
  <2>1. WriteRows(t, all) BY <1>2, Zenon DEF PrepareOne
  <2>1a. session' = [session EXCEPT ![t] = [@ EXCEPT !.rows = all, !.step = next]]
    BY <1>2, Zenon DEF PrepareOne
  <2>2. \A e \in ds : Prepares(rows[e], one(e))
    <3> TAKE e \in ds
    <3>1. rows[e] \in RowType BY <1>1, <1>2
    <3>2. Prepares(rows[e], Readied(rows[e])) BY <3>1, ReadiedRow
    <3>3. Prepares(rows[e], Marked(rows[e])) BY <3>1, MarkedRow
    <3>4. Prepares(rows[e], rows[e]) BY <3>1 DEF Prepares
    <3> QED BY <3>2, <3>3, <3>4
  <2> HIDE DEF one
  <2>3. all = [e \in ds |-> all[e]] /\ \A e \in ds : all[e] = one(e) OBVIOUS
  <2>4. \A e \in ds : Prepares(rows[e], all[e]) BY <2>2, <2>3
  <2> HIDE DEF all
  <2>5. session' = [session EXCEPT ![t] = [session[t] EXCEPT !.rows = all, !.step = next]]
    BY <2>1a DEF DocumentsInv, SessionsOK
  <2> QED BY <2>1, <2>3, <2>4, <2>5
<1>4. UNCHANGED <<request, bundles, copies, faults, races>> BY DEF PrepareOne, InSession
<1>5. /\ doc' = [e \in Documents |-> doc'[e]]
      /\ \A e \in ds : doc'[e] = Written(doc[e], rows[e], new[e])
      /\ \A e \in Documents \ ds : doc'[e] = doc[e]
  BY <1>1, <1>2, <1>3, RowsWritten
<1>6. \A e \in ds : /\ doc'[e] \in RowType /\ doc'[e].status \in {doc[e].status, "READY"}
                    /\ doc[e].status # "ABSENT"
                    /\ /\ SameButData(doc[e], rows[e]) /\ doc[e].signature_method # "PAPER"
                       /\ doc[e].status \in {"DRAFT", "READY", "SENT"}
                       => /\ SameButData(doc'[e], new[e]) /\ doc'[e].signature_method # "PAPER"
                          /\ doc'[e].status \in {"DRAFT", "READY", "SENT"}
                          /\ doc[e].status # "DRAFT" => doc'[e].status = doc[e].status
                          /\ doc'[e].signature_method \in {doc[e].signature_method, "ELECTRONIC"}
                          /\ doc'[e].supersedes = doc[e].supersedes
                          /\ doc'[e].frozen_snapshot = doc[e].frozen_snapshot
                          /\ doc'[e].signed_pdf = doc[e].signed_pdf
  <2> TAKE e \in ds
  <2>1. /\ doc[e] \in RowType /\ rows[e] \in RowType /\ doc[e].status # "ABSENT"
    BY <1>1, <1>2, RowsFacts DEF SessionOK
  <2>2. doc'[e] = Written(doc[e], rows[e], new[e]) /\ Prepares(rows[e], new[e]) BY <1>3, <1>5
  <2> QED BY <2>1, <2>2, PreparedRow
<1>7. AllKept
  <2>1. \A e \in Documents :
           \/ doc'[e] = doc[e]
           \/ /\ doc'[e] \in RowType /\ doc'[e].status # "ABSENT"
              /\ doc'[e].status = "SENT" => doc[e].status = "SENT"
    BY <1>5, <1>6
  <2> QED BY <1>4, <1>5, <2>1, RowsChange
<1>8. PICK s : /\ s = [session[t] EXCEPT !.rows = new, !.step = next]
               /\ session' = [session EXCEPT ![t] = s]
  BY <1>3
<1>9. /\ DOMAIN s = Fields /\ s.handler = "together" /\ s.docs = ds /\ s.step = next
      /\ s.rows = new /\ s.number = session[t].number
  BY <1>1, <1>2, <1>8, RowsGiven DEF SessionOK
<1>10. SessionOK(s, doc', request')
  <2>1. \A e \in ds : doc'[e].status # "ABSENT" BY <1>6
  <2>2. \E c \in DOMAIN Pair : ds = {c, Pair[c]} BY <1>1, <1>2 DEF SessionOK
  <2>3. new \in [ds -> RowType] BY <1>3 DEF Prepares
  <2> QED BY <1>1, <1>2, <1>9, <2>1, <2>2, <2>3 DEF SessionOK
<1>11. ASSUME races = 0
       PROVE  QuietlyChanged(ds) /\ Fresh1(s, doc', request')
  <2>1. \A e \in ds : /\ SameButData(doc[e], rows[e]) /\ doc[e].signature_method # "PAPER"
                      /\ doc[e].status \in {"DRAFT", "READY", "SENT"}
    BY <1>1, <1>2, <1>11 DEF Fresh1
  <2>2. \A e \in ds : RowQuietKept(doc[e], doc'[e], request'[e]) /\ SignedKept(doc[e], doc'[e])
    <3> TAKE e \in ds
    <3>1. RowQuiet(doc[e], request'[e]) BY <1>1, <1>2, <1>4, <1>11 DEF Quiet
    <3> QED BY <1>6, <2>1, <3>1, PreparedKept
  <2>3. Elsewhere(ds) BY <1>4, <1>5 DEF Elsewhere, SameButData
  <2>4. QuietlyChanged(ds) BY <2>2, <2>3 DEF QuietlyChanged
  <2>5. \A e \in ds : /\ SameButData(doc'[e], new[e]) /\ doc'[e].signature_method # "PAPER"
                      /\ doc'[e].status \in {"DRAFT", "READY", "SENT"}
    BY <1>6, <2>1
  <2>6. Fresh1(s, doc', request') BY <1>9, <2>5 DEF Fresh1
  <2> QED BY <2>4, <2>6
<1>12. faults' \in Nat /\ copies' \in [Bundles -> Nat] BY <1>4 DEF DocumentsInv, RowsOK
<1> QED BY <1>1, <1>2, <1>4, <1>7, <1>8, <1>9, <1>10, <1>11, <1>12, SessionStep
LEMMA SendOneStep ==
    ASSUME DocumentsInv, NEW t \in Sessions, NEW d, NEW step, NEW next,
           \/ step = "contract" /\ next = "epp" /\ d \in Contracts
           \/ step = "epp" /\ next = "end" /\ d \in Epps,
           SendOne(t, d, step, next)
    PROVE  StepKept
<1>1. /\ session[t] # Idle /\ SessionOK(session[t], doc, request)
      /\ session[t].handler = "together"
      /\ session[t].docs \in SUBSET Documents /\ d \in Documents /\ d \in session[t].docs
      /\ session[t].rows \in [session[t].docs -> RowType] /\ session[t].number \in Bundles
      /\ doc[d] \in RowType /\ doc[d].status # "ABSENT" /\ RowOK(doc[d], request[d])
      /\ races = 0 => Quiet /\ Fresh1(session[t], doc, request)
  BY TogetherAt DEF SendOne
<1>2. PICK ds, rows : ds = session[t].docs /\ rows = session[t].rows OBVIOUS
<1>3. PICK b : b = session[t].number OBVIOUS
<1>4. PICK rs : rs = Renewed(request[d], b) OBVIOUS
<1>5. PICK sent : sent = Sent(rows[d]) OBVIOUS
<1>6. rows[d] \in RowType BY <1>1, <1>2
<1>7. /\ sent \in RowType /\ sent.status = "SENT" /\ sent.signature_method = "ELECTRONIC"
      /\ sent.frozen_snapshot = Frozen(rows[d]) /\ sent.supersedes = rows[d].supersedes
  BY <1>5, <1>6, SentRow
<1>8. PICK new : /\ new[d] = sent
                 /\ \A e \in ds \ {d} : Prepares(rows[e], new[e])
                 /\ new \in [ds -> RowType]
                 /\ WriteRows(t, new)
                 /\ session' = [session EXCEPT ![t] =
                       IF next = "end" THEN Idle
                       ELSE [session[t] EXCEPT !.rows = new, !.step = next]]
  <2> DEFINE one(e) == IF e = d THEN Sent(rows[e]) ELSE Marked(rows[e])
             all == [e \in ds |-> one(e)]
  <2>1. WriteRows(t, all) BY <1>2, Zenon DEF SendOne
  <2>2. session' = [session EXCEPT ![t] =
            IF next = "end" THEN Idle ELSE [@ EXCEPT !.rows = all, !.step = next]]
    BY <1>2, Zenon DEF SendOne
  <2> HIDE DEF all
  <2>3. session' = [session EXCEPT ![t] =
            IF next = "end" THEN Idle ELSE [session[t] EXCEPT !.rows = all, !.step = next]]
    BY <2>2 DEF DocumentsInv, SessionsOK
  <2>4. one(d) = sent BY <1>5
  <2>5. \A e \in ds \ {d} : Prepares(rows[e], one(e))
    <3> TAKE e \in ds \ {d}
    <3>1. rows[e] \in RowType BY <1>1, <1>2
    <3> QED BY <3>1, MarkedRow
  <2> HIDE DEF one
  <2>6. all = [e \in ds |-> all[e]] /\ \A e \in ds : all[e] = one(e) BY DEF all
  <2>7. all[d] = sent BY <1>1, <1>2, <2>4, <2>6
  <2>8. \A e \in ds \ {d} : Prepares(rows[e], all[e]) BY <2>5, <2>6
  <2>9. \A e \in ds : all[e] \in RowType BY <1>7, <2>7, <2>8 DEF Prepares
  <2>10. all \in [ds -> RowType] BY <2>6, <2>9
  <2> QED BY <2>1, <2>3, <2>7, <2>8, <2>10
<1>9. /\ request' = [request EXCEPT ![d] = rs]
      /\ UNCHANGED <<bundles, copies, faults, races>> /\ CanIssue(d)
  BY <1>3, <1>4 DEF SendOne, InSession
<1>10. PICK row : row = Written(doc[d], rows[d], sent) OBVIOUS
<1>11. /\ doc' = [e \in Documents |-> doc'[e]] /\ request' = [e \in Documents |-> request'[e]]
       /\ doc'[d] = row /\ request'[d] = rs
       /\ \A e \in ds \ {d} : doc'[e] = Written(doc[e], rows[e], new[e])
       /\ \A e \in Documents \ ds : doc'[e] = doc[e]
       /\ \A e \in Documents \ {d} : request'[e] = request[e]
  BY <1>1, <1>2, <1>8, <1>9, <1>10, RowsWritten, RowsFacts
<1>12. row \in RowType /\ row.status = IF rows[d].status = "SENT" THEN doc[d].status ELSE "SENT"
  <2>1. Written(doc[d], rows[d], sent) \in RowType BY <1>1, <1>6, <1>7, WrittenRow
  <2>2. Written(doc[d], rows[d], sent).status =
           IF rows[d].status = sent.status THEN doc[d].status ELSE sent.status
    BY <1>1, <1>6, <1>7, WrittenStatus
  <2> QED BY <1>7, <1>10, <2>1, <2>2
<1>13. \A e \in ds \ {d} :
          /\ doc'[e] \in RowType /\ doc'[e].status \in {doc[e].status, "READY"}
          /\ doc[e].status # "ABSENT"
          /\ /\ SameButData(doc[e], rows[e]) /\ doc[e].signature_method # "PAPER"
             /\ doc[e].status \in {"DRAFT", "READY", "SENT"}
             => /\ SameButData(doc'[e], new[e]) /\ doc'[e].signature_method # "PAPER"
                /\ doc'[e].status \in {"DRAFT", "READY", "SENT"}
                /\ doc[e].status # "DRAFT" => doc'[e].status = doc[e].status
                /\ doc'[e].signature_method \in {doc[e].signature_method, "ELECTRONIC"}
                /\ doc'[e].supersedes = doc[e].supersedes
                /\ doc'[e].frozen_snapshot = doc[e].frozen_snapshot
                /\ doc'[e].signed_pdf = doc[e].signed_pdf
  <2> TAKE e \in ds \ {d}
  <2>1. /\ doc[e] \in RowType /\ rows[e] \in RowType /\ doc[e].status # "ABSENT"
    BY <1>1, <1>2, RowsFacts DEF SessionOK
  <2>2. doc'[e] = Written(doc[e], rows[e], new[e]) /\ Prepares(rows[e], new[e]) BY <1>8, <1>11
  <2> QED BY <2>1, <2>2, PreparedRow
<1>14. AllKept
  <2>1. RowKept(doc[d], request[d], row, rs)
    <3>1. Cardinality({n \in Numbers : request[d][n].issued}) < MaxRequests
      BY <1>9 DEF CanIssue, Issued
    <3>2. row.status # "ABSENT" BY <1>1, <1>12
    <3>3. b \in {0} \cup Bundles BY <1>1, <1>3
    <3> QED BY <1>1, <1>4, <1>12, <3>1, <3>2, <3>3, RowRenewed
  <2>2. \A e \in ds \ {d} : RowKept(doc[e], request[e], doc'[e], request'[e])
    <3> TAKE e \in ds \ {d}
    <3>1. RowOK(doc[e], request[e]) /\ request'[e] = request[e] BY <1>1, <1>2, <1>11, RowsFacts
    <3>2. /\ doc'[e] \in RowType /\ doc'[e].status # "ABSENT"
          /\ doc'[e].status = "SENT" => doc[e].status = "SENT"
      BY <1>13
    <3> QED BY <3>1, <3>2, RowOnly
  <2>3. \A e \in Documents \ ds : RowKept(doc[e], request[e], doc'[e], request'[e])
    <3> TAKE e \in Documents \ ds
    <3>1. RowOK(doc[e], request[e]) BY RowsFacts
    <3>2. e # d BY <1>1, <1>2
    <3>3. doc'[e] = doc[e] /\ request'[e] = request[e] BY <1>11, <3>2
    <3> QED BY <3>1, <3>3, RowSame
  <2>4. \A e \in Documents : RowKept(doc[e], request[e], doc'[e], request'[e])
    BY <1>11, <2>1, <2>2, <2>3
  <2> QED BY <1>11, <2>4 DEF AllKept
<1>15. races = 0 => /\ \A e \in ds : /\ SameButData(doc[e], rows[e])
                                     /\ doc[e].signature_method # "PAPER"
                                     /\ doc[e].status \in {"DRAFT", "READY", "SENT"}
                    /\ \A e \in Documents : RowQuiet(doc[e], request[e])
  BY <1>1, <1>2 DEF Fresh1, Quiet
<1>16. ASSUME races = 0
       PROVE  /\ QuietlyChanged(ds)
              /\ \A e \in ds : /\ SameButData(doc'[e], new[e])
                               /\ doc'[e].signature_method # "PAPER"
                               /\ doc'[e].status \in {"DRAFT", "READY", "SENT"}
  <2>1. SameButData(doc[d], rows[d]) /\ doc[d].status \in {"DRAFT", "READY", "SENT"}
    BY <1>1, <1>2, <1>15, <1>16
  <2>2. SameButData(row, sent) BY <1>1, <1>6, <1>7, <1>10, <2>1, WrittenFresh
  <2>3. /\ row.status = "SENT" /\ row.signature_method = "ELECTRONIC"
        /\ row.supersedes = doc[d].supersedes
        /\ row.frozen_snapshot = Frozen(rows[d])
        /\ rows[d].frozen_snapshot = doc[d].frozen_snapshot
    BY <1>7, <2>1, <2>2, SameButDataFields
  <2>4. RowQuietKept(doc[d], row, rs) BY <2>1, <2>3 DEF RowQuietKept, RowQuiet
  <2>5. SignedKept(doc[d], row) BY <1>6, <2>1, <2>3, FrozenSnapshot DEF SignedKept
  <2>6. \A e \in ds \ {d} : RowQuietKept(doc[e], doc'[e], request'[e])
                            /\ SignedKept(doc[e], doc'[e])
    <3> TAKE e \in ds \ {d}
    <3>1. RowQuiet(doc[e], request'[e]) BY <1>1, <1>2, <1>11, <1>15, <1>16
    <3>2. SameButData(doc[e], rows[e]) /\ doc[e].signature_method # "PAPER"
          /\ doc[e].status \in {"DRAFT", "READY", "SENT"}
      BY <1>15, <1>16
    <3> QED BY <1>13, <3>1, <3>2, PreparedKept
  <2>7. Elsewhere(ds)
    <3>1. \A e \in Documents \ ds : doc'[e] = doc[e] /\ request'[e] = request[e]
      BY <1>1, <1>2, <1>11
    <3> QED BY <3>1 DEF Elsewhere, SameButData
  <2>8. QuietlyChanged(ds) BY <1>11, <2>4, <2>5, <2>6, <2>7 DEF QuietlyChanged
  <2>9. \A e \in ds : /\ SameButData(doc'[e], new[e]) /\ doc'[e].signature_method # "PAPER"
                      /\ doc'[e].status \in {"DRAFT", "READY", "SENT"}
    BY <1>8, <1>11, <1>13, <1>15, <1>16, <2>2, <2>3
  <2> QED BY <2>8, <2>9
<1>17. faults' \in Nat /\ copies' \in [Bundles -> Nat] BY <1>9 DEF DocumentsInv, RowsOK
<1>18. PICK s : /\ s = IF next = "end" THEN Idle
                       ELSE [session[t] EXCEPT !.rows = new, !.step = next]
                /\ session' = [session EXCEPT ![t] = s]
  BY <1>8
<1>19. CASE next = "end" BY <1>1, <1>2, <1>9, <1>14, <1>16, <1>17, <1>18, <1>19, SessionEnds
<1>20. CASE next = "epp"
  <2>1. /\ DOMAIN s = Fields /\ s.handler = "together" /\ s.docs = ds /\ s.step = "epp"
        /\ s.rows = new /\ s.number = session[t].number
    BY <1>1, <1>2, <1>18, <1>20, RowsGiven DEF SessionOK
  <2>2. SessionOK(s, doc', request')
    <3>1. \A e \in ds : doc'[e].status # "ABSENT"
      BY <1>1, <1>11, <1>12, <1>13
    <3>2. \E c \in DOMAIN Pair : ds = {c, Pair[c]} BY <1>1, <1>2 DEF SessionOK
    <3> QED BY <1>1, <1>2, <1>8, <2>1, <3>1, <3>2 DEF SessionOK
  <2>3. races = 0 => Fresh1(s, doc', request') BY <1>16, <2>1 DEF Fresh1
  <2> QED BY <1>1, <1>2, <1>9, <1>14, <1>16, <1>17, <1>18, <2>1, <2>2, <2>3, SessionStep
<1> QED BY <1>19, <1>20

LEMMA SendTogetherStep ==
    ASSUME DocumentsInv, NEW t \in Sessions, SendTogether(t)
    PROVE  StepKept
<1>1. ASSUME NEW c \in DOMAIN Pair, BeginTogether(t, c) PROVE StepKept
  BY <1>1, BeginTogetherStep
<1>2. ASSUME NEW c \in Contracts, PrepareOne(t, c, "read", "prepare") PROVE StepKept
  BY <1>2, PrepareOneStep
<1>3. ASSUME NEW e \in Epps, PrepareOne(t, e, "prepare", "contract") PROVE StepKept
  BY <1>3, PrepareOneStep
<1>4. ASSUME NEW c \in Contracts, SendOne(t, c, "contract", "epp") PROVE StepKept
  BY <1>4, SendOneStep
<1>5. ASSUME NEW e \in Epps, SendOne(t, e, "epp", "end") PROVE StepKept
  BY <1>5, SendOneStep
<1> QED BY <1>1, <1>2, <1>3, <1>4, <1>5 DEF SendTogether
-----------------------------------------------------------------------------
(* Bundles: steps that leave one as it is.                                  *)

\* No request joins bundle b, and those in it are only signed, if anything.
RequestsKept(b) ==
    \A d \in Documents, n \in Numbers :
        /\ request[d][n].issued =>
              /\ request'[d][n].issued
              /\ request'[d][n].bundle = request[d][n].bundle
              /\ request[d][n].signed => request'[d][n].signed
        /\ In(d, n, b) => request'[d][n].copy = request[d][n].copy
        /\ request'[d][n].issued /\ ~request[d][n].issued => request'[d][n].bundle # b

\* No session takes up bundle b, and none that e-mailed its copy is lost without a fault.
SessionsKept(b) ==
    \A t \in Sessions :
        \/ session'[t] = session[t]
        \/ /\ ~Mails(t, b)'
           /\ Mails(t, b) /\ session[t].step = "mailed" => faults < faults'
           /\ Together(t, b)' => /\ Together(t, b)
                                 /\ session[t].step = "epp" => session'[t].step = "epp"

LEMMA BundleFacts ==
    ASSUME DocumentsInv, NEW b \in Bundles
    PROVE  /\ BundleOK(b) /\ copies[b] \in Nat /\ faults \in Nat /\ bundles \in Nat /\ b \in Nat
           /\ b # 0
<1>1. BundleOK(b) /\ copies[b] \in Nat BY DEF DocumentsInv, BundlesOK, RowsOK
<1>2. bundles \in {0} \cup Bundles BY DEF DocumentsInv, RowsOK
<1>3. b # 0 BY DEF Bundles
<1> QED BY <1>1, <1>2, <1>3, NumbersAreNatural, RowsFacts

\* The requests of a bundle are those that were in it.
LEMMA RequestsOfBundle ==
    ASSUME NEW b, RequestsKept(b)
    PROVE  /\ \A d \in Documents, n \in Numbers : In(d, n, b)' <=> In(d, n, b)
           /\ Recorded(b)' <=> Recorded(b)
           /\ Both(b)' <=> Both(b)
<1>1. \A d \in Documents, n \in Numbers : In(d, n, b)' <=> In(d, n, b)
  BY DEF RequestsKept, In
<1>2. \A d \in Documents, n \in Numbers :
         In(d, n, b) => request'[d][n].copy = request[d][n].copy
  BY DEF RequestsKept
<1>3. Recorded(b)' <=> Recorded(b) BY <1>1, <1>2 DEF Recorded
<1>4. Both(b)' <=> Both(b) BY <1>1 DEF Both
<1> QED BY <1>1, <1>3, <1>4

\* A session that mails a bundle signed a request of it.
LEMMA MailerSigned ==
    ASSUME DocumentsInv, NEW t \in Sessions, NEW b, Mails(t, b)
    PROVE  \E d \in Documents : /\ session[t].docs = {d} /\ Only(t) = d
                                /\ session[t].number \in Numbers
                                /\ In(d, session[t].number, b)
                                /\ BundleOf(t) = b
                                /\ SessionOK(session[t], doc, request)
<1>1. session[t] # Idle /\ session[t].handler = "sign" BY DEF Mails, Idle
<1>2. SessionOK(session[t], doc, request) BY <1>1 DEF DocumentsInv, SessionsOK
<1>3. PICK d \in Documents : session[t].docs = {d} /\ Only(t) = d BY <1>1, <1>2, OnlyDocument
<1>4. session[t].number \in Numbers /\ request[d][session[t].number].issued
  BY <1>1, <1>2, <1>3 DEF SessionOK
<1>5. request[d][session[t].number].bundle = b BY <1>3 DEF Mails
<1> QED BY <1>2, <1>3, <1>4, <1>5 DEF In, BundleOf

\* A session that stays mails what it mailed.
LEMMA MailerStays ==
    ASSUME DocumentsInv, NEW t \in Sessions, session'[t] = session[t], NEW b,
           \A d \in Documents, n \in Numbers : request[d][n].issued =>
              request'[d][n].bundle = request[d][n].bundle
    PROVE  Mails(t, b)' <=> Mails(t, b)
<1>1. CASE session[t].handler # "sign" BY <1>1 DEF Mails
<1>2. CASE session[t].handler = "sign"
  <2>1. SessionOK(session[t], doc, request)
    BY <1>2 DEF DocumentsInv, SessionsOK, Idle
  <2>2. \A d \in session[t].docs : d \in Documents /\ session[t].number \in Numbers
                                   /\ request[d][session[t].number].issued
    BY <1>2, <2>1 DEF SessionOK
  <2>3. \A d \in session[t].docs : request'[d][session[t].number].bundle =
                                   request[d][session[t].number].bundle
    BY <2>2
  <2> QED BY <2>3 DEF Mails
<1> QED BY <1>1, <1>2

LEMMA BundleStays ==
    ASSUME DocumentsInv, NEW b \in Bundles, RequestsKept(b), SessionsKept(b),
           copies'[b] = copies[b], faults' \in Nat, faults <= faults',
           bundles' \in Nat, bundles <= bundles'
    PROVE  BundleOK(b)'
<1>1. BundleOK(b) /\ copies[b] \in Nat /\ faults \in Nat /\ bundles \in Nat /\ b \in Nat
  BY BundleFacts
<1>2. /\ \A d \in Documents, n \in Numbers : In(d, n, b)' <=> In(d, n, b)
      /\ Recorded(b)' <=> Recorded(b)
      /\ Both(b)' <=> Both(b)
  BY RequestsOfBundle
<1>3. \A d \in Documents, n \in Numbers : request[d][n].issued =>
              request'[d][n].bundle = request[d][n].bundle
  BY DEF RequestsKept
<1>4. \A t \in Sessions : session'[t] = session[t] => (Mails(t, b)' <=> Mails(t, b))
  BY <1>3, MailerStays
<1>5. \A t \in Sessions : Mails(t, b)' => Mails(t, b) /\ session'[t] = session[t]
  BY <1>4 DEF SessionsKept
<1>6. \A t \in Sessions : Together(t, b)' =>
         Together(t, b) /\ (session[t].step = "epp" => session'[t].step = "epp")
  BY DEF SessionsKept, Together
<1>7. copies'[b] <= 1 + faults' BY <1>1 DEF BundleOK
<1>8. \/ copies'[b] <= faults'
      \/ Recorded(b)'
      \/ \E t \in Sessions : Mails(t, b)' /\ session'[t].step = "mailed"
  <2>1. CASE copies[b] <= faults BY <1>1, <2>1
  <2>2. CASE Recorded(b) BY <1>2, <2>2
  <2>3. ASSUME NEW t \in Sessions, Mails(t, b), session[t].step = "mailed"
        PROVE  copies'[b] <= faults' \/ (Mails(t, b)' /\ session'[t].step = "mailed")
    <3>1. CASE session'[t] = session[t] BY <1>4, <2>3, <3>1
    <3>2. CASE session'[t] # session[t]
      <4>1. faults < faults' BY <2>3, <3>2 DEF SessionsKept
      <4>2. copies[b] <= 1 + faults BY <1>1 DEF BundleOK
      <4> QED BY <1>1, <4>1, <4>2
    <3> QED BY <3>1, <3>2
  <2> QED BY <1>1, <2>1, <2>2, <2>3 DEF BundleOK
<1>9. Recorded(b)' =>
          /\ Both(b)'
          /\ \A d \in Documents, n \in Numbers :
                In(d, n, b)' /\ ~request'[d][n].signed => request'[d][n].copy = "SENT"
  <2>1. \A d \in Documents, n \in Numbers : In(d, n, b) =>
           /\ request[d][n].signed => request'[d][n].signed
           /\ request'[d][n].copy = request[d][n].copy
    BY DEF RequestsKept, In
  <2> QED BY <1>1, <1>2, <2>1 DEF BundleOK
<1>10. \A t \in Sessions : Mails(t, b)' =>
          /\ ~Recorded(b)'
          /\ session'[t].step = "mailed" => Both(b)'
          /\ \A u \in Sessions : Mails(u, b)' => t = u
  BY <1>1, <1>2, <1>5 DEF BundleOK
<1>11. \A t \in Sessions : Together(t, b)' =>
          /\ b <= bundles'
          /\ \A u \in Sessions : Together(u, b)' => t = u
          /\ \A d \in Documents, n \in Numbers : In(d, n, b)' => session'[t].step = "epp"
          /\ ~Both(b)'
  <2>1. \A t \in Sessions : Together(t, b) =>
          /\ b <= bundles
          /\ \A u \in Sessions : Together(u, b) => t = u
          /\ \A d \in Documents, n \in Numbers : In(d, n, b) => session[t].step = "epp"
          /\ ~Both(b)
    BY <1>1 DEF BundleOK
  <2> QED BY <1>1, <1>2, <1>6, <2>1
<1>12. \A d \in Documents, n \in Numbers : In(d, n, b)' => b <= bundles'
  <2>1. \A d \in Documents, n \in Numbers : In(d, n, b) => b <= bundles BY <1>1 DEF BundleOK
  <2> QED BY <1>1, <1>2, <2>1
<1> QED BY <1>7, <1>8, <1>9, <1>10, <1>11, <1>12 DEF BundleOK
LEMMA SameRequests ==
    ASSUME UNCHANGED request, NEW b
    PROVE  RequestsKept(b)
BY DEF RequestsKept, In

\* A handler that is one step, and adds no request to a bundle.
LEMMA HandlerBundles ==
    ASSUME DocumentsInv, UNCHANGED <<bundles, copies, session>>,
           faults' \in Nat, faults <= faults', \A b \in Bundles : RequestsKept(b)
    PROVE  BundlesOK'
<1>1. ASSUME NEW b \in Bundles PROVE BundleOK(b)'
  <2>1. SessionsKept(b) BY DEF SessionsKept
  <2> QED BY <2>1, BundleStays, BundleFacts
<1> QED BY <1>1 DEF BundlesOK

\* A session goes on as s, or ends, and takes up no bundle.
LEMMA SessionBundles ==
    ASSUME DocumentsInv, NEW t \in Sessions, NEW s, session' = [session EXCEPT ![t] = s],
           s.handler = "sign" => s.step \notin {"mailing", "mailed"},
           session[t].handler = "sign" /\ session[t].step = "mailed" => faults < faults',
           s.handler = "together" => /\ session[t].handler = "together"
                                     /\ s.number = session[t].number
                                     /\ session[t].step = "epp" => s.step = "epp",
           UNCHANGED <<bundles, copies>>, faults' \in Nat, faults <= faults',
           \A b \in Bundles : RequestsKept(b)
    PROVE  BundlesOK'
<1>1. session = [u \in Sessions |-> session[u]] BY DEF DocumentsInv, SessionsOK
<1>2. session'[t] = s /\ \A u \in Sessions \ {t} : session'[u] = session[u] BY <1>1
<1>3. ASSUME NEW b \in Bundles PROVE BundleOK(b)'
  <2>1. ~Mails(t, b)' BY <1>2 DEF Mails
  <2>2. Mails(t, b) /\ session[t].step = "mailed" => faults < faults' BY DEF Mails
  <2>3. Together(t, b)' => Together(t, b) /\ (session[t].step = "epp" => session'[t].step = "epp")
    BY <1>2 DEF Together
  <2>4. SessionsKept(b) BY <1>2, <2>1, <2>2, <2>3 DEF SessionsKept
  <2> QED BY <1>3, <2>4, BundleStays, BundleFacts
<1> QED BY <1>3 DEF BundlesOK

LEMMA RowsBundles ==
    ASSUME DocumentsInv, UNCHANGED <<request, bundles, copies, session, faults>>
    PROVE  BundlesOK'
BY SameRequests, HandlerBundles, RowsFacts

LEMMA OfficeRowsBundles ==
    ASSUME DocumentsInv
    PROVE  /\ \A d \in Documents : CreateDocument(d) => BundlesOK'
           /\ \A ds \in SUBSET Documents : FactsChange(ds) => BundlesOK'
           /\ \A ds \in SUBSET Documents : \A kind : FillDrafts(kind, ds) => BundlesOK'
           /\ \A d \in Documents : PrepareDocument(d) => BundlesOK'
           /\ \A ds \in SUBSET Documents : MarkPaperBatchPrinted(ds) => BundlesOK'
           /\ \A d \in Documents : MarkPaperSignedReceived(d) => BundlesOK'
           /\ \A d \in Documents : UploadPaperSignedCopy(d) => BundlesOK'
BY RowsBundles DEF CreateDocument, FactsChange, FillDrafts, PrepareDocument,
   MarkPaperBatchPrinted, MarkPaperSignedReceived, UploadPaperSignedCopy, NoSession

\* The requests of one document change.
LEMMA OneDocumentsRequests ==
    ASSUME NEW d \in Documents, NEW b,
           \A e \in Documents \ {d} : request'[e] = request[e],
           \A n \in Numbers :
              /\ request[d][n].issued =>
                    /\ request'[d][n].issued /\ request'[d][n].bundle = request[d][n].bundle
                    /\ request'[d][n].copy = request[d][n].copy
                    /\ request[d][n].signed => request'[d][n].signed
              /\ request'[d][n].issued /\ ~request[d][n].issued => request'[d][n].bundle # b
    PROVE  RequestsKept(b)
<1>1. ASSUME NEW e \in Documents, NEW n \in Numbers
      PROVE  /\ request[e][n].issued =>
                    /\ request'[e][n].issued /\ request'[e][n].bundle = request[e][n].bundle
                    /\ request'[e][n].copy = request[e][n].copy
                    /\ request[e][n].signed => request'[e][n].signed
             /\ request'[e][n].issued /\ ~request[e][n].issued => request'[e][n].bundle # b
  <2>1. CASE e = d BY <2>1
  <2>2. CASE e # d
    <3>1. request'[e] = request[e] BY <2>2
    <3> QED BY <3>1
  <2> QED BY <2>1, <2>2
<1> QED BY <1>1 DEF RequestsKept, In

LEMMA RevokedBundles ==
    ASSUME DocumentsInv, NEW d \in Documents, request' = [request EXCEPT ![d] = Revoked(@)],
           NEW b
    PROVE  RequestsKept(b)
<1> DEFINE rs == Revoked(request[d])
<1>1. request' = [request EXCEPT ![d] = rs] OBVIOUS
<1>2. \A n \in Numbers : /\ rs[n].issued = request[d][n].issued
                         /\ rs[n].bundle = request[d][n].bundle
                         /\ rs[n].copy = request[d][n].copy
                         /\ rs[n].signed = request[d][n].signed
  <2> TAKE n \in Numbers
  <2>1. request[d][n] \in RequestType BY RowsFacts
  <2>2. rs[n] = [request[d][n] EXCEPT !.revoked = request[d][n].issued] BY DEF Revoked
  <2> QED BY <2>1, <2>2, RevokedRequest
<1> HIDE DEF rs
<1>3. request'[d] = rs /\ \A e \in Documents \ {d} : request'[e] = request[e]
  BY <1>1, RowsFacts
<1> QED BY <1>2, <1>3, OneDocumentsRequests

\* A new request of d, in bundle c, is in no other.
LEMMA RenewedBundles ==
    ASSUME DocumentsInv, NEW d \in Documents, NEW c \in {0} \cup Bundles,
           request' = [request EXCEPT ![d] = Renewed(@, c)], CanIssue(d)
    PROVE  /\ \A b : b # c => RequestsKept(b)
           /\ \E k \in Numbers :
                 /\ ~request[d][k].issued
                 /\ In(d, k, c)' /\ request'[d][k].copy = "NONE" /\ ~request'[d][k].signed
                 /\ \A e \in Documents, n \in Numbers : <<e, n>> # <<d, k>> =>
                       /\ request'[e][n].issued = request[e][n].issued
                       /\ request'[e][n].bundle = request[e][n].bundle
                       /\ request'[e][n].copy = request[e][n].copy
                       /\ request'[e][n].signed = request[e][n].signed
<1> DEFINE rs == Renewed(request[d], c)
<1>1. request' = [request EXCEPT ![d] = rs] OBVIOUS
<1>2. RowOK(doc[d], request[d]) /\ doc[d] \in RowType BY RowsFacts
<1>3. Cardinality({n \in Numbers : request[d][n].issued}) < MaxRequests
  BY DEF CanIssue, Issued
<1>4. PICK k \in Numbers :
                 /\ ~request[d][k].issued
                 /\ rs[k].issued /\ rs[k].bundle = c /\ rs[k].copy = "NONE" /\ ~rs[k].signed
                 /\ \A n \in Numbers \ {k} : /\ rs[n].issued = request[d][n].issued
                                             /\ rs[n].signed = request[d][n].signed
                                             /\ rs[n].bundle = request[d][n].bundle
                                             /\ rs[n].copy = request[d][n].copy
  <2>1. PICK row \in RowType : row.status # "ABSENT"
    <3>1. Sent(doc[d]) \in RowType /\ Sent(doc[d]).status = "SENT" BY <1>2, SentRow
    <3> QED BY <3>1
  <2> QED BY <1>2, <1>3, <2>1, RowRenewed
<1> HIDE DEF rs
<1>5. request'[d] = rs /\ \A e \in Documents \ {d} : request'[e] = request[e]
  BY <1>1, RowsFacts
<1>6. ASSUME NEW b, b # c PROVE RequestsKept(b)
  <2>1. \A n \in Numbers :
              /\ request[d][n].issued =>
                    /\ request'[d][n].issued /\ request'[d][n].bundle = request[d][n].bundle
                    /\ request'[d][n].copy = request[d][n].copy
                    /\ request[d][n].signed => request'[d][n].signed
              /\ request'[d][n].issued /\ ~request[d][n].issued => request'[d][n].bundle # b
    BY <1>4, <1>5, <1>6
  <2> QED BY <1>5, <2>1, OneDocumentsRequests
<1>7. In(d, k, c)' /\ request'[d][k].copy = "NONE" /\ ~request'[d][k].signed
  BY <1>4, <1>5 DEF In
<1>8. ASSUME NEW e \in Documents, NEW n \in Numbers, <<e, n>> # <<d, k>>
      PROVE  /\ request'[e][n].issued = request[e][n].issued
             /\ request'[e][n].bundle = request[e][n].bundle
             /\ request'[e][n].copy = request[e][n].copy
             /\ request'[e][n].signed = request[e][n].signed
  <2>1. CASE e = d BY <1>4, <1>5, <1>8, <2>1
  <2>2. CASE e # d
    <3>1. request'[e] = request[e] BY <1>5, <2>2
    <3> QED BY <3>1
  <2> QED BY <2>1, <2>2
<1> QED BY <1>4, <1>6, <1>7, <1>8
LEMMA LinksBundles ==
    ASSUME DocumentsInv
    PROVE  /\ \A d \in Documents : SendForSignature(d) => BundlesOK'
           /\ \A d, new \in Documents : CreateNewVersion(d, new) => BundlesOK'
           /\ \A d \in Documents, n \in Numbers : Expire(d, n) => BundlesOK'
<1>1. ASSUME NEW d \in Documents, SendForSignature(d) PROVE BundlesOK'
  <2>1. /\ request' = [request EXCEPT ![d] = Renewed(@, 0)] /\ CanIssue(d)
        /\ UNCHANGED <<bundles, copies, session, faults>>
    BY <1>1 DEF SendForSignature, NoSession
  <2>2. \A b : b # 0 => RequestsKept(b) BY <2>1, RenewedBundles
  <2>3. \A b \in Bundles : RequestsKept(b) BY <2>2 DEF Bundles
  <2> QED BY <2>1, <2>3, HandlerBundles, RowsFacts
<1>2. ASSUME NEW d \in Documents, NEW new \in Documents, CreateNewVersion(d, new)
      PROVE  BundlesOK'
  <2>1. /\ request' = [request EXCEPT ![d] = Revoked(@)]
        /\ UNCHANGED <<bundles, copies, session, faults>>
    BY <1>2 DEF CreateNewVersion, NoSession
  <2>2. \A b \in Bundles : RequestsKept(b) BY <2>1, RevokedBundles
  <2> QED BY <2>1, <2>2, HandlerBundles, RowsFacts
<1>3. ASSUME NEW d \in Documents, NEW n \in Numbers, Expire(d, n) PROVE BundlesOK'
  <2>1. NotesOnly /\ \A e \in Documents, m \in Numbers : request'[e][m].copy = request[e][m].copy
    BY <1>3, ExpireNotes
  <2>2. \A b \in Bundles : RequestsKept(b) BY <2>1 DEF NotesOnly, RequestsKept, In
  <2>3. UNCHANGED <<bundles, copies, session, faults>> BY <1>3 DEF Expire, NoSession
  <2> QED BY <2>2, <2>3, HandlerBundles, RowsFacts
<1> QED BY <1>1, <1>2, <1>3

\* A session begins, other than one that sends a pair.
LEMMA BeginBundles ==
    ASSUME DocumentsInv, NEW t \in Sessions
    PROVE  /\ \A d \in Documents : BeginUpdate(t, d) => BundlesOK'
           /\ \A d \in Documents : BeginCancel(t, d) => BundlesOK'
           /\ \A ds \in SUBSET Documents, reprint \in BOOLEAN :
                 BeginPrint(t, ds, reprint) => BundlesOK'
           /\ \A d \in Documents, n \in Numbers : BeginSign(t, d, n) => BundlesOK'
<1>1. ASSUME NEW s, s.handler # "together", s.step = "read", session[t] = Idle,
             session' = [session EXCEPT ![t] = s],
             UNCHANGED <<request, bundles, copies, faults>>
      PROVE  BundlesOK'
  <2>1. \A b \in Bundles : RequestsKept(b) BY <1>1, SameRequests
  <2>2. session[t].handler # "sign" BY <1>1 DEF Idle
  <2>3. s.handler = "sign" => s.step \notin {"mailing", "mailed"} BY <1>1
  <2>4. faults' \in Nat /\ faults <= faults' BY <1>1, RowsFacts
  <2> QED BY <1>1, <2>1, <2>2, <2>3, <2>4, SessionBundles
<1>2. ASSUME NEW handler \in {"update", "cancel", "print"}, NEW ds, NEW rows,
             Begin(t, handler, ds, rows)
      PROVE  BundlesOK'
  <2> DEFINE s == [handler |-> handler, docs |-> ds, step |-> "read", rows |-> rows,
                   number |-> 0, signed |-> FALSE]
  <2>1. s.handler # "together" /\ s.step = "read" BY <1>2
  <2>2. /\ session[t] = Idle /\ session' = [session EXCEPT ![t] = s]
        /\ UNCHANGED <<request, bundles, copies, faults>>
    BY <1>2 DEF Begin
  <2> HIDE DEF s
  <2> QED BY <1>1, <2>1, <2>2
<1>3. ASSUME NEW d \in Documents, NEW n \in Numbers, BeginSign(t, d, n) PROVE BundlesOK'
  <2> DEFINE s == [handler |-> "sign", docs |-> {d}, step |-> "read", rows |-> <<>>,
                   number |-> n, signed |-> request[d][n].signed]
  <2>1. s.handler # "together" /\ s.step = "read" OBVIOUS
  <2>2. /\ session[t] = Idle /\ session' = [session EXCEPT ![t] = s]
        /\ UNCHANGED <<request, bundles, copies, faults>>
    BY <1>3 DEF BeginSign
  <2> HIDE DEF s
  <2> QED BY <1>1, <2>1, <2>2
<1>4. ASSUME NEW d \in Documents, BeginUpdate(t, d) PROVE BundlesOK'
  BY <1>2, <1>4 DEF BeginUpdate
<1>5. ASSUME NEW d \in Documents, BeginCancel(t, d) PROVE BundlesOK'
  BY <1>2, <1>5 DEF BeginCancel
<1>6. ASSUME NEW ds \in SUBSET Documents, NEW reprint \in BOOLEAN, BeginPrint(t, ds, reprint)
      PROVE  BundlesOK'
  BY <1>2, <1>6 DEF BeginPrint
<1> QED BY <1>3, <1>4, <1>5, <1>6

\* A session ends, and was not about to record that a copy was e-mailed.
LEMMA EndBundles ==
    ASSUME DocumentsInv, NEW t \in Sessions, NEW s, s = Idle,
           session' = [session EXCEPT ![t] = s],
           session[t].handler = "sign" /\ session[t].step = "mailed" => faults < faults',
           UNCHANGED <<bundles, copies>>, faults' \in Nat, faults <= faults',
           \A b \in Bundles : RequestsKept(b)
    PROVE  BundlesOK'
<1>1. s.handler = "none" BY DEF Idle
<1> QED BY <1>1, SessionBundles

LEMMA CommitBundles ==
    ASSUME DocumentsInv, NEW t \in Sessions
    PROVE  /\ CommitUpdate(t) => BundlesOK'
           /\ CommitCancel(t) => BundlesOK'
           /\ CommitPrint(t) => BundlesOK'
           /\ AlreadySigned(t) => BundlesOK'
           /\ \A outcome \in {"SENT", "FAILED"} : CopyAlone(t, outcome) => BundlesOK'
           /\ Die(t) => BundlesOK'
<1>1. ASSUME session[t].step \in {"read", "signed"}, Go(t, "end"), InSession,
             \A b \in Bundles : RequestsKept(b)
      PROVE  BundlesOK'
  BY <1>1, EndBundles, GoEnds, RowsFacts DEF InSession
<1>2. ASSUME CommitUpdate(t) PROVE BundlesOK'
  BY <1>1, <1>2, SameRequests DEF CommitUpdate, At
<1>3. ASSUME CommitPrint(t) PROVE BundlesOK'
  BY <1>1, <1>3, SameRequests DEF CommitPrint, At
<1>4. ASSUME AlreadySigned(t) PROVE BundlesOK'
  BY <1>1, <1>4, SameRequests DEF AlreadySigned, At
<1>5. ASSUME CommitCancel(t) PROVE BundlesOK'
  <2>1. SessionOK(session[t], doc, request) /\ session[t].handler = "cancel"
        /\ session[t].step = "read"
    BY <1>5, SessionAt DEF CommitCancel
  <2>2. Only(t) \in Documents BY <2>1, OnlyDocument
  <2>3. request' = [request EXCEPT ![Only(t)] = Revoked(@)] /\ Go(t, "end") /\ InSession
    BY <1>5 DEF CommitCancel
  <2>4. \A b \in Bundles : RequestsKept(b) BY <2>2, <2>3, RevokedBundles
  <2> QED BY <1>1, <2>1, <2>3, <2>4
<1>6. ASSUME NEW outcome \in {"SENT", "FAILED"}, CopyAlone(t, outcome) PROVE BundlesOK'
  <2>1. /\ session[t].step = "signed" /\ BundleOf(t) = 0
        /\ request' = Copied({<<Only(t), session[t].number>>}, outcome)
        /\ UNCHANGED doc /\ Go(t, "end") /\ InSession
    BY <1>6 DEF CopyAlone, At
  <2>2. /\ NotesOnly
        /\ \A d \in Documents, n \in Numbers :
              request'[d][n].copy = IF <<d, n>> \in {<<Only(t), session[t].number>>}
                                    THEN outcome ELSE request[d][n].copy
    <3> DEFINE rs == {<<Only(t), session[t].number>>}
    <3>1. request' = Copied(rs, outcome) /\ outcome \in {"WAITING", "SENT", "FAILED"}
      BY <2>1
    <3> HIDE DEF rs
    <3>2. /\ NotesOnly
          /\ \A d \in Documents, n \in Numbers :
                request'[d][n].copy = IF <<d, n>> \in rs THEN outcome ELSE request[d][n].copy
      BY <2>1, <3>1, CopiedOnly
    <3> QED BY <3>2 DEF rs
  <2>3. ASSUME NEW b \in Bundles, NEW d \in Documents, NEW n \in Numbers, In(d, n, b)
        PROVE  request'[d][n].copy = request[d][n].copy
    <3>1. request[d][n].bundle # 0 BY <2>3 DEF In, Bundles
    <3>2. <<d, n>> # <<Only(t), session[t].number>> BY <2>1, <3>1 DEF BundleOf
    <3> QED BY <2>2, <3>2
  <2>4. \A b \in Bundles : RequestsKept(b) BY <2>2, <2>3 DEF NotesOnly, RequestsKept
  <2> QED BY <1>1, <2>1, <2>4
<1>7. ASSUME Die(t) PROVE BundlesOK'
  <2>1. /\ faults' \in Nat /\ faults < faults' /\ UNCHANGED <<request, bundles, copies>>
        /\ \E s : s = Idle /\ session' = [session EXCEPT ![t] = s]
    <3>1. \E s : s = Idle /\ session' = [session EXCEPT ![t] = s] BY <1>7 DEF Die
    <3>2. faults' = faults + 1 /\ UNCHANGED <<request, bundles, copies>> BY <1>7 DEF Die
    <3>3. faults \in Nat BY RowsFacts
    <3>4. faults' \in Nat /\ faults < faults' BY <3>2, <3>3
    <3> QED BY <3>1, <3>2, <3>4
  <2>2. \A b \in Bundles : RequestsKept(b) BY <2>1, SameRequests
  <2>3. faults <= faults' BY <2>1, RowsFacts
  <2> QED BY <2>1, <2>2, <2>3, EndBundles
<1> QED BY <1>2, <1>3, <1>4, <1>5, <1>6, <1>7

LEMMA CommitSignBundles ==
    ASSUME DocumentsInv, NEW t \in Sessions, CommitSign(t)
    PROVE  BundlesOK'
<1>1. SessionOK(session[t], doc, request) /\ session[t].handler = "sign"
      /\ session[t].step = "read"
  BY SessionAt DEF CommitSign
<1> DEFINE d == Only(t)
           n == session[t].number
           rs == [request[d] EXCEPT ![n].signed = TRUE]
           s == [session[t] EXCEPT !.step = "signed"]
<1>2. d \in Documents /\ n \in Numbers BY <1>1, OnlyDocument DEF SessionOK
<1>3. /\ request' = [request EXCEPT ![d] = rs] /\ UNCHANGED <<bundles, copies, faults>>
      /\ session' = [session EXCEPT ![t] = s]
  BY GoOn DEF CommitSign, InSession
<1>4. s.handler = "sign" /\ s.step = "signed" BY <1>1, StepGiven DEF SessionOK
<1> HIDE DEF s
<1>5. RowOK(doc[d], request[d]) BY <1>2, RowsFacts
<1>6. /\ \A m \in Numbers : /\ rs[m].issued = request[d][m].issued
                            /\ rs[m].bundle = request[d][m].bundle
                            /\ rs[m].copy = request[d][m].copy
                            /\ request[d][m].signed => rs[m].signed
  <2>1. request[d] \in [Numbers -> RequestType] BY <1>2, RowsFacts
  <2>2. rs[n] = [request[d][n] EXCEPT !.signed = TRUE] BY <1>2, <2>1
  <2>3. request[d][n] \in RequestType BY <1>2, <2>1
  <2>4. \A m \in Numbers \ {n} : rs[m] = request[d][m] BY <2>1
  <2> HIDE DEF rs
  <2>5. /\ rs[n].issued = request[d][n].issued /\ rs[n].bundle = request[d][n].bundle
        /\ rs[n].copy = request[d][n].copy /\ rs[n].signed
    BY <2>2, <2>3 DEF RequestType
  <2> QED BY <2>4, <2>5
<1> HIDE DEF rs, d
<1>7. request'[d] = rs /\ \A e \in Documents \ {d} : request'[e] = request[e]
  BY <1>2, <1>3, RowsFacts
<1>8. \A b \in Bundles : RequestsKept(b) BY <1>2, <1>6, <1>7, OneDocumentsRequests
<1>9. faults' \in Nat /\ faults <= faults' BY <1>3, RowsFacts
<1>10. s.handler = "sign" => s.step \notin {"mailing", "mailed"} BY <1>4
<1>11. s.handler # "together" /\ session[t].step # "mailed" BY <1>1, <1>4
<1> QED BY <1>3, <1>8, <1>9, <1>10, <1>11, SessionBundles

LEMMA PrepareOneBundles ==
    ASSUME DocumentsInv, NEW t \in Sessions, NEW d, NEW step,
           NEW next, step \in {"read", "prepare"},
           PrepareOne(t, d, step, next)
    PROVE  BundlesOK'
<1>1. /\ session[t].handler = "together" /\ session[t].step = step
      /\ SessionOK(session[t], doc, request)
  BY TogetherAt DEF PrepareOne
<1>2. /\ UNCHANGED <<request, bundles, copies, faults>>
      /\ \E new : session' = [session EXCEPT ![t] = [@ EXCEPT !.rows = new, !.step = next]]
  BY Zenon DEF PrepareOne, InSession
<1>3. PICK s : /\ session' = [session EXCEPT ![t] = s]
               /\ s.handler = "together" /\ s.number = session[t].number
  <2>1. PICK new : session' = [session EXCEPT ![t] = [@ EXCEPT !.rows = new, !.step = next]]
    BY <1>2
  <2>2. session' = [session EXCEPT ![t] = [session[t] EXCEPT !.rows = new, !.step = next]]
    BY <2>1 DEF DocumentsInv, SessionsOK
  <2>3. PICK s : s = [session[t] EXCEPT !.rows = new, !.step = next] OBVIOUS
  <2>4. s.handler = "together" /\ s.number = session[t].number
    BY <1>1, <2>3, RowsGiven DEF SessionOK
  <2> QED BY <2>2, <2>3, <2>4
<1>4. s.handler = "together" /\ s.number = session[t].number BY <1>3
<1>5. \A b \in Bundles : RequestsKept(b) BY <1>2, SameRequests
<1>6. faults' \in Nat /\ faults <= faults' BY <1>2, RowsFacts
<1>7. s.handler # "sign" /\ session[t].handler # "sign" /\ session[t].step # "epp"
  BY <1>1, <1>4
<1> QED BY <1>1, <1>2, <1>3, <1>4, <1>5, <1>6, <1>7, SessionBundles
-----------------------------------------------------------------------------
(* Bundles: steps that are about one.                                       *)

\* Nobody mails a bundle whose requests can be locked.
LEMMA FreeUnmailed ==
    ASSUME DocumentsInv, NEW b, BundleFree(b), NEW t \in Sessions
    PROVE  ~Mails(t, b)
<1>1. ASSUME Mails(t, b) PROVE FALSE
  <2>1. BundleOf(t) = b BY <1>1, MailerSigned
  <2>2. At(t, "sign", "mailing") \/ At(t, "sign", "mailed") BY <1>1 DEF Mails, At
  <2> QED BY <2>1, <2>2 DEF BundleFree
<1> QED BY <1>1

\* A bundle of two requests has two.
LEMMA TwoAreBoth ==
    ASSUME NEW b, Cardinality(Bundle(b)) = 2
    PROVE  Both(b)
<1>1. \A d \in Documents, n \in Numbers : <<d, n>> \in Bundle(b) <=> In(d, n, b)
  BY DEF Bundle, In
<1>2. Bundle(b) \subseteq Documents \X Numbers BY DEF Bundle
<1>3. Bundle(b) # {}
  <2>1. Cardinality({}) = 0 BY FS_EmptySet
  <2> QED BY <2>1
<1>4. PICK d \in Documents, n \in Numbers : <<d, n>> \in Bundle(b) BY <1>2, <1>3
<1>5. Bundle(b) # {<<d, n>>}
  <2>1. Cardinality({<<d, n>>}) = 1 BY FS_Singleton
  <2> QED BY <2>1
<1>6. PICK e \in Documents, m \in Numbers : <<e, m>> \in Bundle(b) /\ <<e, m>> # <<d, n>>
  BY <1>2, <1>4, <1>5
<1> QED BY <1>1, <1>4, <1>6 DEF Both

\* What is said of a bundle's numbers, and of the session that sends it.
LEMMA BundleRest ==
    ASSUME DocumentsInv, NEW b \in Bundles, bundles' = bundles,
           \A d \in Documents, n \in Numbers : In(d, n, b)' <=> In(d, n, b),
           \A t \in Sessions : Together(t, b)' => Together(t, b) /\ session'[t] = session[t]
    PROVE  /\ Both(b)' <=> Both(b)
           /\ \A t \in Sessions : Together(t, b)' =>
                 /\ b <= bundles'
                 /\ \A u \in Sessions : Together(u, b)' => t = u
                 /\ \A d \in Documents, n \in Numbers : In(d, n, b)' => session'[t].step = "epp"
                 /\ ~Both(b)'
           /\ \A d \in Documents, n \in Numbers : In(d, n, b)' => b <= bundles'
<1>1. Both(b)' <=> Both(b) BY DEF Both
<1>2. \A t \in Sessions : Together(t, b) =>
                 /\ b <= bundles
                 /\ \A u \in Sessions : Together(u, b) => t = u
                 /\ \A d \in Documents, n \in Numbers : In(d, n, b) => session[t].step = "epp"
                 /\ ~Both(b)
  BY BundleFacts DEF BundleOK
<1>3. \A d \in Documents, n \in Numbers : In(d, n, b) => b <= bundles
  BY BundleFacts DEF BundleOK
<1> QED BY <1>1, <1>2, <1>3

LEMMA BeginTogetherBundles ==
    ASSUME DocumentsInv, NEW t \in Sessions, NEW c \in DOMAIN Pair, BeginTogether(t, c)
    PROVE  BundlesOK'
<1> DEFINE ds == {c, Pair[c]}
           k == bundles + 1
           s == [handler |-> "together", docs |-> ds, step |-> "read",
                 rows |-> [d \in ds |-> doc[d]], number |-> k, signed |-> FALSE]
<1>1. /\ s.handler = "together" /\ s.step = "read" /\ s.number = k OBVIOUS
<1>2. /\ session[t] = Idle /\ session' = [session EXCEPT ![t] = s]
      /\ UNCHANGED <<request, copies, faults>> /\ bundles < MaxBundles /\ bundles' = k
  BY DEF BeginTogether
<1> HIDE DEF s
<1>3. session'[t] = s /\ \A u \in Sessions \ {t} : session'[u] = session[u]
  BY <1>2 DEF DocumentsInv, SessionsOK
<1>4. bundles \in {0} \cup Bundles /\ bundles \in Nat /\ bundles' \in Nat /\ bundles < bundles'
  <2>1. bundles \in {0} \cup Bundles BY DEF DocumentsInv, RowsOK
  <2> QED BY <1>2, <2>1, NumbersAreNatural
<1>5. ASSUME NEW b \in Bundles, b # k PROVE BundleOK(b)'
  <2>1. ~Mails(t, b)' /\ ~Together(t, b)' /\ ~Mails(t, b)
    BY <1>1, <1>2, <1>3, <1>5 DEF Mails, Together, Idle
  <2>2. SessionsKept(b) BY <1>3, <2>1 DEF SessionsKept
  <2>3. RequestsKept(b) BY <1>2, SameRequests
  <2>4. bundles <= bundles' /\ faults' \in Nat /\ faults <= faults' BY <1>2, <1>4, RowsFacts
  <2> QED BY <1>2, <1>4, <1>5, <2>2, <2>3, <2>4, BundleStays
<1>6. ASSUME NEW b \in Bundles, b = k PROVE BundleOK(b)'
  <2>1. BundleOK(b) /\ ~(b <= bundles) BY <1>4, <1>6, BundleFacts
  <2>2. \A d \in Documents, n \in Numbers : ~In(d, n, b) BY <2>1 DEF BundleOK
  <2>3. \A u \in Sessions : ~Mails(u, b) /\ ~Together(u, b)
    <3> TAKE u \in Sessions
    <3>1. ~Mails(u, b) BY <2>2, MailerSigned
    <3>2. ~Together(u, b) BY <2>1 DEF BundleOK
    <3> QED BY <3>1, <3>2
  <2>4. ~Recorded(b) BY <2>2 DEF Recorded
  <2>5. copies[b] <= faults /\ copies[b] <= 1 + faults BY <2>1, <2>3, <2>4 DEF BundleOK
  <2>6. \A d \in Documents, n \in Numbers : ~In(d, n, b)' BY <1>2, <2>2 DEF In
  <2>7. ~Recorded(b)' /\ ~Both(b)' BY <2>6 DEF Recorded, Both
  <2>8. \A u \in Sessions : ~Mails(u, b)' /\ (Together(u, b)' => u = t)
    <3> TAKE u \in Sessions
    <3>1. CASE u = t BY <1>1, <1>3, <3>1 DEF Mails
    <3>2. CASE u # t BY <1>2, <1>3, <2>3, <3>2 DEF Mails, Together
    <3> QED BY <3>1, <3>2
  <2>9. b <= bundles' BY <1>2, <1>4, <1>6
  <2> QED BY <1>2, <2>5, <2>6, <2>7, <2>8, <2>9 DEF BundleOK
<1> QED BY <1>5, <1>6 DEF BundlesOK

LEMMA SendOneBundles ==
    ASSUME DocumentsInv, NEW t \in Sessions, NEW d, NEW step, NEW next,
           \/ step = "contract" /\ next = "epp"
           \/ step = "epp" /\ next = "end",
           SendOne(t, d, step, next)
    PROVE  BundlesOK'
<1>1. /\ session[t] # Idle /\ SessionOK(session[t], doc, request)
      /\ session[t].handler = "together" /\ session[t].step = step
      /\ d \in Documents /\ session[t].number \in Bundles
  BY TogetherAt DEF SendOne
<1>1a. PICK c \in Bundles : c = session[t].number BY <1>1
<1>2. /\ request' = [request EXCEPT ![d] = Renewed(@, c)]
      /\ UNCHANGED <<bundles, copies, faults>> /\ CanIssue(d)
  BY <1>1a DEF SendOne, InSession
<1>2a. \E new : session' = [session EXCEPT ![t] =
            IF next = "end" THEN Idle ELSE [@ EXCEPT !.rows = new, !.step = next]]
  BY Zenon DEF SendOne
<1>3. /\ \A u \in Sessions \ {t} : session'[u] = session[u]
      /\ IF next = "end" THEN session'[t] = Idle
                         ELSE /\ session'[t].handler = "together" /\ session'[t].number = c
                              /\ session'[t].step = next
  <2>1. session = [u \in Sessions |-> session[u]] BY DEF DocumentsInv, SessionsOK
  <2>1a. PICK new : session' = [session EXCEPT ![t] =
            IF next = "end" THEN Idle ELSE [@ EXCEPT !.rows = new, !.step = next]]
    BY <1>2a
  <2>1b. session' = [session EXCEPT ![t] =
            IF next = "end" THEN Idle ELSE [session[t] EXCEPT !.rows = new, !.step = next]]
    BY <2>1, <2>1a
  <2>2. CASE next = "end"
    <3>1. PICK s : s = Idle /\ session' = [session EXCEPT ![t] = s] BY <2>1b, <2>2
    <3> QED BY <2>1, <2>2, <3>1
  <2>3. CASE next # "end"
    <3>1. PICK s : s = [session[t] EXCEPT !.rows = new, !.step = next] OBVIOUS
    <3>2. session' = [session EXCEPT ![t] = s] BY <2>1b, <2>3, <3>1
    <3>3. s.handler = "together" /\ s.number = c /\ s.step = next
      BY <1>1a, <1>1, <3>1, RowsGiven DEF SessionOK
    <3> QED BY <2>1, <2>3, <3>2, <3>3
  <2> QED BY <2>2, <2>3
<1>4. /\ \A b : b # c => RequestsKept(b)
      /\ \E k \in Numbers :
            /\ ~request[d][k].issued
            /\ In(d, k, c)' /\ request'[d][k].copy = "NONE" /\ ~request'[d][k].signed
            /\ \A e \in Documents, n \in Numbers : <<e, n>> # <<d, k>> =>
                  /\ request'[e][n].issued = request[e][n].issued
                  /\ request'[e][n].bundle = request[e][n].bundle
                  /\ request'[e][n].copy = request[e][n].copy
                  /\ request'[e][n].signed = request[e][n].signed
  <2>1. c \in {0} \cup Bundles OBVIOUS
  <2>2. request' = [request EXCEPT ![d] = Renewed(@, c)] /\ CanIssue(d) /\ d \in Documents
    BY <1>1, <1>2
  <2> QED BY <2>1, <2>2, RenewedBundles, Zenon
<1>5. ASSUME NEW b \in Bundles, b # c PROVE BundleOK(b)'
  <2>1. RequestsKept(b) BY <1>4, <1>5
  <2>2. ~Mails(t, b)' /\ ~Together(t, b)' BY <1>3, <1>5 DEF Mails, Together, Idle
  <2>3. ~Mails(t, b) BY <1>1 DEF Mails
  <2>4. SessionsKept(b) BY <1>3, <2>2, <2>3 DEF SessionsKept
  <2>5. bundles \in Nat /\ faults \in Nat BY <1>5, BundleFacts
  <2> QED BY <1>2, <1>5, <2>1, <2>4, <2>5, BundleStays
<1>6. BundleOK(c)'
  <2>1. BundleOK(c) /\ Together(t, c) BY <1>1a, <1>1, BundleFacts DEF Together
  <2>2. /\ c <= bundles /\ \A u \in Sessions : Together(u, c) => t = u
        /\ \A e \in Documents, n \in Numbers : In(e, n, c) => step = "epp"
        /\ ~Both(c)
    BY <1>1, <2>1 DEF BundleOK
  <2>3. ~Recorded(c) BY <2>1, <2>2 DEF BundleOK
  <2>4. \A u \in Sessions : Mails(u, c) => session[u].step = "mailing"
    BY <2>1, <2>2 DEF BundleOK, Mails
  <2>5. copies[c] <= faults BY <2>1, <2>3, <2>4 DEF BundleOK
  <2>6. copies'[c] <= 1 + faults' /\ copies'[c] <= faults'
    BY <1>1, <1>2, <2>1, <2>5 DEF BundleOK
  <2>7. PICK k \in Numbers :
            /\ ~request[d][k].issued
            /\ In(d, k, c)' /\ request'[d][k].copy = "NONE" /\ ~request'[d][k].signed
            /\ \A e \in Documents, n \in Numbers : <<e, n>> # <<d, k>> =>
                  /\ request'[e][n].issued = request[e][n].issued
                  /\ request'[e][n].bundle = request[e][n].bundle
                  /\ request'[e][n].copy = request[e][n].copy
                  /\ request'[e][n].signed = request[e][n].signed
    BY <1>4
  <2>8. \A e \in Documents, n \in Numbers : <<e, n>> # <<d, k>> =>
           /\ In(e, n, c)' <=> In(e, n, c)
           /\ request'[e][n].copy = request[e][n].copy
    BY <2>7 DEF In
  <2>9. ~Recorded(c)' BY <2>3, <2>7, <2>8 DEF Recorded
  <2>10. \A e \in Documents, n \in Numbers : request[e][n].issued =>
            request'[e][n].bundle = request[e][n].bundle
    BY <2>7
  <2>11. \A u \in Sessions : Mails(u, c)' => Mails(u, c) /\ session'[u] = session[u]
    <3> TAKE u \in Sessions
    <3>1. CASE u = t BY <1>3, <3>1 DEF Mails, Idle
    <3>2. CASE u # t
      <4>1. session'[u] = session[u] BY <1>3, <3>2
      <4> QED BY <2>10, <4>1, MailerStays
    <3> QED BY <3>1, <3>2
  <2>12. \A u \in Sessions : Mails(u, c)' =>
            /\ session'[u].step # "mailed" /\ \A v \in Sessions : Mails(v, c)' => u = v
    <3>1. \A u, v \in Sessions : Mails(u, c) /\ Mails(v, c) => u = v BY <2>1 DEF BundleOK
    <3> QED BY <2>4, <2>11, <3>1
  <2>13. \A u \in Sessions : Together(u, c)' => u = t /\ next = "epp" /\ step = "contract"
    BY <1>3, <2>2 DEF Together, Idle
  <2>14. step = "contract" => ~Both(c)'
    <3>1. step = "contract" => \A e \in Documents, n \in Numbers : ~In(e, n, c) BY <2>2
    <3>2. step = "contract" => \A e \in Documents, n \in Numbers :
                                  In(e, n, c)' => <<e, n>> = <<d, k>>
      BY <2>8, <3>1
    <3> QED BY <3>2 DEF Both
  <2>15. \A u \in Sessions : Together(u, c)' =>
            /\ c <= bundles'
            /\ \A v \in Sessions : Together(v, c)' => u = v
            /\ \A e \in Documents, n \in Numbers : In(e, n, c)' => session'[u].step = "epp"
            /\ ~Both(c)'
    BY <1>2, <1>3, <2>2, <2>13, <2>14
  <2>16. c <= bundles' BY <1>2, <2>2
  <2> QED BY <2>6, <2>9, <2>12, <2>15, <2>16, <2>11 DEF BundleOK
<1> QED BY <1>5, <1>6 DEF BundlesOK
\* A session that signed, and its bundle.
LEMMA SignerAt ==
    ASSUME DocumentsInv, NEW t \in Sessions, NEW step \in {"signed", "mailing", "mailed"},
           At(t, "sign", step), BundleOf(t) # 0
    PROVE  \E d \in Documents :
              /\ session[t].docs = {d} /\ Only(t) = d /\ session[t].number \in Numbers
              /\ In(d, session[t].number, BundleOf(t)) /\ request[d][session[t].number].signed
              /\ BundleOf(t) \in Bundles /\ SessionOK(session[t], doc, request)
              /\ session[t] # Idle
<1>1. /\ session[t] # Idle /\ SessionOK(session[t], doc, request)
      /\ session[t].handler = "sign" /\ session[t].step = step
  BY SessionAt
<1>2. PICK d \in Documents : session[t].docs = {d} /\ Only(t) = d BY <1>1, OnlyDocument
<1>3. /\ session[t].number \in Numbers
      /\ request[d][session[t].number].issued /\ request[d][session[t].number].signed
  BY <1>1, <1>2 DEF SessionOK
<1>4. request[d][session[t].number] \in RequestType BY <1>3, RowsFacts
<1>5. BundleOf(t) \in Bundles BY <1>2, <1>4 DEF BundleOf, RequestType
<1> QED BY <1>1, <1>2, <1>3, <1>5 DEF In, BundleOf

\* Where a session that goes on, or ends, is then.
LEMMA GoneTo ==
    ASSUME DocumentsInv, NEW t \in Sessions, NEW step, Go(t, step),
           SessionOK(session[t], doc, request)
    PROVE  /\ \A u \in Sessions \ {t} : session'[u] = session[u]
           /\ step = "end" => session'[t] = Idle
           /\ step # "end" => /\ session'[t].handler = session[t].handler
                              /\ session'[t].docs = session[t].docs
                              /\ session'[t].number = session[t].number
                              /\ session'[t].step = step
<1>1. session = [u \in Sessions |-> session[u]] BY DEF DocumentsInv, SessionsOK
<1>2. CASE step = "end"
  <2>1. Go(t, "end") BY <1>2
  <2>2. PICK s : s = Idle /\ session' = [session EXCEPT ![t] = s] BY <2>1, GoEnds
  <2> QED BY <1>1, <1>2, <2>2
<1>3. CASE step # "end"
  <2> DEFINE s == [session[t] EXCEPT !.step = step]
  <2>1. session' = [session EXCEPT ![t] = s] BY <1>3, GoOn
  <2>2. /\ s.handler = session[t].handler /\ s.docs = session[t].docs
        /\ s.number = session[t].number /\ s.step = step
    BY StepGiven DEF SessionOK
  <2> HIDE DEF s
  <2> QED BY <1>1, <1>3, <2>1, <2>2
<1> QED BY <1>2, <1>3

\* A session that goes on mailing bundle b mails no other.
LEMMA OtherBundles ==
    ASSUME DocumentsInv, NEW t \in Sessions, NEW step, Go(t, step),
           NEW d \in Documents, session[t].docs = {d}, session[t].handler = "sign",
           session[t].number \in Numbers, SessionOK(session[t], doc, request),
           request'[d][session[t].number].bundle = request[d][session[t].number].bundle,
           NEW b, request[d][session[t].number].bundle # b
    PROVE  SessionsKept(b)
<1>1. /\ \A u \in Sessions \ {t} : session'[u] = session[u]
      /\ step = "end" => session'[t] = Idle
      /\ step # "end" => /\ session'[t].handler = session[t].handler
                         /\ session'[t].docs = session[t].docs
                         /\ session'[t].number = session[t].number
  BY GoneTo
<1>2. ~Mails(t, b) BY DEF Mails
<1>3. ~Mails(t, b)' /\ ~Together(t, b)'
  <2>1. CASE step = "end" BY <1>1, <2>1 DEF Mails, Together, Idle
  <2>2. CASE step # "end" BY <1>1, <2>2 DEF Mails, Together
  <2> QED BY <2>1, <2>2
<1> QED BY <1>1, <1>2, <1>3 DEF SessionsKept

LEMMA LookAtBundleBundles ==
    ASSUME DocumentsInv, NEW t \in Sessions, LookAtBundle(t)
    PROVE  BundlesOK'
<1>1. At(t, "sign", "signed") /\ BundleOf(t) # 0 /\ BundleFree(BundleOf(t))
      /\ UNCHANGED <<bundles, copies, faults>> /\ UNCHANGED doc
  BY DEF LookAtBundle, InSession
<1>2. PICK d \in Documents :
              /\ session[t].docs = {d} /\ Only(t) = d /\ session[t].number \in Numbers
              /\ In(d, session[t].number, BundleOf(t)) /\ request[d][session[t].number].signed
              /\ BundleOf(t) \in Bundles /\ SessionOK(session[t], doc, request)
              /\ session[t] # Idle
  BY <1>1, SignerAt
<1>3. PICK n \in Numbers : n = session[t].number BY <1>2
<1>4. PICK c \in Bundles : c = BundleOf(t) BY <1>2
<1>5. NotesOnly BY LookAtBundleNotes
<1>6. In(d, n, c) /\ request[d][n].signed /\ BundleFree(c) BY <1>1, <1>2, <1>3, <1>4
<1>7. \A r : r \in Bundle(c) <=> \E e \in Documents, m \in Numbers : r = <<e, m>> /\ In(e, m, c)
  BY DEF Bundle, In
<1> DEFINE unsigned == \E e \in Documents, m \in Numbers : In(e, m, c) /\ ~request[e][m].signed
<1>8. /\ unsigned => request' = Copied({<<d, n>>}, "WAITING")
      /\ ~unsigned => request' = request
      /\ Go(t, IF unsigned \/ Recorded(c) THEN "end" ELSE "mailing")
  <2> DEFINE rs == Bundle(c)
             u1 == \E r \in rs : ~request[r[1]][r[2]].signed
             s1 == \E r \in rs : request[r[1]][r[2]].copy = "SENT"
  <2>1. /\ request' = IF u1 THEN Copied({<<d, n>>}, "WAITING") ELSE request
        /\ Go(t, IF u1 \/ s1 THEN "end" ELSE "mailing")
    BY <1>2, <1>3, <1>4 DEF LookAtBundle
  <2>0a. \A r \in rs : r[1] \in Documents /\ r[2] \in Numbers /\ In(r[1], r[2], c)
    BY DEF Bundle, In
  <2>0b. \A e \in Documents, m \in Numbers : In(e, m, c) =>
           \E r \in rs : r[1] = e /\ r[2] = m
    <3> TAKE e \in Documents, m \in Numbers
    <3>1. <<e, m>>[1] = e /\ <<e, m>>[2] = m OBVIOUS
    <3>2. In(e, m, c) => <<e, m>> \in rs BY <1>7
    <3> QED BY <3>1, <3>2
  <2> HIDE DEF rs
  <2>2. u1 <=> unsigned BY <2>0a, <2>0b
  <2>3. s1 <=> Recorded(c) BY <2>0a, <2>0b DEF Recorded
  <2> HIDE DEF u1, s1, unsigned
  <2>4. (u1 \/ s1) <=> (unsigned \/ Recorded(c)) BY <2>2, <2>3
  <2>5. CASE u1 \/ s1 BY <2>1, <2>2, <2>4, <2>5
  <2>6. CASE ~(u1 \/ s1) BY <2>1, <2>2, <2>4, <2>6
  <2> QED BY <2>5, <2>6
<1>9. \A e \in Documents, m \in Numbers :
         request'[e][m].copy = IF unsigned /\ e = d /\ m = n THEN "WAITING" ELSE request[e][m].copy
  <2>1. CASE unsigned
    <3> DEFINE rs == {<<d, n>>}
    <3>1. request' = Copied(rs, "WAITING") BY <1>8, <2>1
    <3>2. \A e \in Documents, m \in Numbers : <<e, m>> \in rs <=> (e = d /\ m = n) OBVIOUS
    <3> HIDE DEF rs, unsigned
    <3>3. \A e \in Documents, m \in Numbers :
             request'[e][m].copy = IF <<e, m>> \in rs THEN "WAITING" ELSE request[e][m].copy
      BY <1>1, <3>1, CopiedOnly
    <3> QED BY <2>1, <3>2, <3>3
  <2>2. CASE ~unsigned
    <3>1. request' = request BY <1>8, <2>2
    <3> HIDE DEF unsigned
    <3> QED BY <2>2, <3>1
  <2> QED BY <2>1, <2>2
<1>10. \A e \in Documents, m \in Numbers, b \in Bundles : In(e, m, b)' <=> In(e, m, b)
  BY <1>5 DEF NotesOnly, In
<1>11. PICK step \in {"end", "mailing"} :
          /\ Go(t, step)
          /\ step = "end" <=> (unsigned \/ Recorded(c))
  <2> HIDE DEF unsigned
  <2>1. CASE unsigned \/ Recorded(c) BY <1>8, <2>1
  <2>2. CASE ~(unsigned \/ Recorded(c)) BY <1>8, <2>2
  <2> QED BY <2>1, <2>2
<1>12. ASSUME NEW b \in Bundles, b # c PROVE BundleOK(b)'
  <2>1. \A e \in Documents, m \in Numbers : In(e, m, b) => <<e, m>> # <<d, n>>
    BY <1>6, <1>12 DEF In
  <2>2. RequestsKept(b)
    <3> HIDE DEF unsigned
    <3> QED BY <1>5, <1>9, <2>1 DEF NotesOnly, RequestsKept
  <2>3. SessionsKept(b)
    <3>1. request'[d][n].bundle = request[d][n].bundle /\ request[d][n].bundle # b
      BY <1>5, <1>6, <1>12 DEF NotesOnly, In
    <3>2. session[t].handler = "sign" BY <1>1 DEF At
    <3> QED BY <1>2, <1>3, <1>11, <3>1, <3>2, OtherBundles
  <2>4. bundles \in Nat /\ faults \in Nat BY <1>12, BundleFacts
  <2> QED BY <1>1, <1>12, <2>2, <2>3, <2>4, BundleStays
<1>13. BundleOK(c)'
  <2>1. BundleOK(c) /\ \A u \in Sessions : ~Mails(u, c) BY <1>6, BundleFacts, FreeUnmailed
  <2>2. /\ \A u \in Sessions \ {t} : session'[u] = session[u]
        /\ step = "end" => session'[t] = Idle
        /\ step # "end" => /\ session'[t].handler = session[t].handler
                           /\ session'[t].step = step
    BY <1>2, <1>11, GoneTo
  <2>3. session[t].handler = "sign" BY <1>1 DEF At
  <2>4. \A u \in Sessions : Together(u, c)' => Together(u, c) /\ session'[u] = session[u]
    <3> TAKE u \in Sessions
    <3>1. CASE u = t BY <1>11, <2>2, <2>3, <3>1 DEF Together, Idle
    <3>2. CASE u # t BY <2>2, <3>2 DEF Together
    <3> QED BY <3>1, <3>2
  <2>5. /\ Both(c)' <=> Both(c)
        /\ \A u \in Sessions : Together(u, c)' =>
              /\ c <= bundles'
              /\ \A v \in Sessions : Together(v, c)' => u = v
              /\ \A e \in Documents, m \in Numbers : In(e, m, c)' => session'[u].step = "epp"
              /\ ~Both(c)'
        /\ \A e \in Documents, m \in Numbers : In(e, m, c)' => c <= bundles'
    BY <1>1, <1>10, <2>4, BundleRest
  <2>6. \A u \in Sessions : Mails(u, c)' => u = t /\ step = "mailing"
    <3> TAKE u \in Sessions
    <3>1. CASE u = t BY <1>11, <2>2, <3>1 DEF Mails, Idle
    <3>2. CASE u # t
      <4>1. session'[u] = session[u] BY <2>2, <3>2
      <4>2. Mails(u, c)' <=> Mails(u, c)
        BY <1>5, <4>1, MailerStays DEF NotesOnly
      <4> QED BY <2>1, <4>2
    <3> QED BY <3>1, <3>2
  <2>7. Recorded(c)' <=> Recorded(c)
    <3>1. CASE ~unsigned BY <1>9, <1>10, <3>1 DEF Recorded
    <3>2. CASE unsigned
      <4>1. Recorded(c)' => Recorded(c) BY <1>9, <1>10, <3>2 DEF Recorded
      <4>2. ASSUME Recorded(c) PROVE Recorded(c)'
        <5>1. PICK e \in Documents, m \in Numbers : In(e, m, c) /\ ~request[e][m].signed BY <3>2
        <5>2. request[e][m].copy = "SENT" BY <2>1, <4>2, <5>1 DEF BundleOK
        <5>3. ~(e = d /\ m = n) BY <1>6, <5>1
        <5>4. request'[e][m].copy = "SENT" BY <1>9, <5>2, <5>3
        <5> QED BY <1>10, <5>1, <5>4 DEF Recorded
      <4> QED BY <4>1, <4>2
    <3> QED BY <3>1, <3>2
  <2>8. \A e \in Documents, m \in Numbers : request'[e][m].signed = request[e][m].signed
    BY <1>5 DEF NotesOnly
  <2>9. Recorded(c)' =>
           /\ Both(c)'
           /\ \A e \in Documents, m \in Numbers :
                 In(e, m, c)' /\ ~request'[e][m].signed => request'[e][m].copy = "SENT"
    <3>1. \A e \in Documents, m \in Numbers : ~request[e][m].signed =>
             request'[e][m].copy = request[e][m].copy
      BY <1>6, <1>9
    <3>2. Recorded(c) =>
             /\ Both(c)
             /\ \A e \in Documents, m \in Numbers :
                   In(e, m, c) /\ ~request[e][m].signed => request[e][m].copy = "SENT"
      BY <2>1 DEF BundleOK
    <3> QED BY <1>10, <2>5, <2>7, <2>8, <3>1, <3>2
  <2>10. copies'[c] <= 1 + faults' /\ (copies'[c] <= faults' \/ Recorded(c)')
    BY <1>1, <2>1, <2>7 DEF BundleOK
  <2>11. \A u \in Sessions : Mails(u, c)' =>
            /\ ~Recorded(c)'
            /\ session'[u].step = "mailed" => Both(c)'
            /\ \A v \in Sessions : Mails(v, c)' => u = v
    BY <1>11, <2>2, <2>6, <2>7
  <2> QED BY <2>5, <2>9, <2>10, <2>11 DEF BundleOK
<1> QED BY <1>12, <1>13 DEF BundlesOK
LEMMA MailBundleBundles ==
    ASSUME DocumentsInv, NEW t \in Sessions, MailBundle(t)
    PROVE  BundlesOK'
<1>1. /\ At(t, "sign", "mailing") /\ Go(t, "mailed") /\ Cardinality(Bundle(BundleOf(t))) = 2
      /\ UNCHANGED <<doc, request, bundles, faults, races>>
  BY DEF MailBundle, Complete
<1>2. /\ BundleOf(t) \in Bundles
      /\ copies'[BundleOf(t)] = copies[BundleOf(t)] + 1
      /\ \A b \in Bundles \ {BundleOf(t)} : copies'[b] = copies[b]
  BY MailBundleCounts
<1>3. BundleOf(t) # 0 BY <1>2 DEF Bundles
<1>4. PICK d \in Documents :
              /\ session[t].docs = {d} /\ Only(t) = d /\ session[t].number \in Numbers
              /\ In(d, session[t].number, BundleOf(t))
              /\ SessionOK(session[t], doc, request)
  BY <1>1, <1>3, SignerAt
<1>5. PICK c \in Bundles : c = BundleOf(t) BY <1>2
<1>6. session[t].handler = "sign" /\ session[t].step = "mailing" BY <1>1 DEF At
<1>7. request[d][session[t].number].bundle = c BY <1>4, <1>5 DEF In
<1>8. /\ \A u \in Sessions \ {t} : session'[u] = session[u]
      /\ session'[t].handler = "sign" /\ session'[t].docs = {d}
      /\ session'[t].number = session[t].number /\ session'[t].step = "mailed"
  BY <1>1, <1>4, <1>6, GoneTo
<1>9. ASSUME NEW b \in Bundles, b # c PROVE BundleOK(b)'
  <2>1. RequestsKept(b) BY <1>1, SameRequests
  <2>2. SessionsKept(b)
    <3>1. request'[d][session[t].number].bundle = request[d][session[t].number].bundle
      BY <1>1
    <3> QED BY <1>1, <1>4, <1>6, <1>7, <1>9, <3>1, OtherBundles
  <2>3. bundles \in Nat /\ faults \in Nat BY <1>9, BundleFacts
  <2>4. copies'[b] = copies[b] BY <1>2, <1>5, <1>9
  <2> QED BY <1>1, <1>9, <2>1, <2>2, <2>3, <2>4, BundleStays
<1>10. BundleOK(c)'
  <2>1. BundleOK(c) /\ copies[c] \in Nat /\ faults \in Nat BY BundleFacts
  <2>2. Mails(t, c) BY <1>4, <1>6, <1>7 DEF Mails
  <2>3. ~Recorded(c) /\ \A u \in Sessions : Mails(u, c) => u = t BY <2>1, <2>2 DEF BundleOK
  <2>4. copies[c] <= faults BY <1>6, <2>1, <2>3 DEF BundleOK
  <2>5. copies'[c] <= 1 + faults' BY <1>1, <1>2, <1>5, <2>1, <2>4
  <2>6. \A e \in Documents, m \in Numbers : In(e, m, c)' <=> In(e, m, c) BY <1>1 DEF In
  <2>7. ~Recorded(c)' BY <1>1, <2>3, <2>6 DEF Recorded
  <2>8. \A u \in Sessions : Together(u, c)' => Together(u, c) /\ session'[u] = session[u]
    BY <1>8 DEF Together
  <2>9. /\ Both(c)' <=> Both(c)
        /\ \A u \in Sessions : Together(u, c)' =>
              /\ c <= bundles'
              /\ \A v \in Sessions : Together(v, c)' => u = v
              /\ \A e \in Documents, m \in Numbers : In(e, m, c)' => session'[u].step = "epp"
              /\ ~Both(c)'
        /\ \A e \in Documents, m \in Numbers : In(e, m, c)' => c <= bundles'
    BY <1>1, <2>6, <2>8, BundleRest
  <2>10. Both(c) BY <1>1, <1>5, TwoAreBoth
  <2>11. \A u \in Sessions : Mails(u, c)' => u = t
    <3> TAKE u \in Sessions
    <3>1. CASE u # t
      <4>1. session'[u] = session[u] BY <1>8, <3>1
      <4> QED BY <1>1, <2>3, <4>1, MailerStays
    <3> QED BY <3>1
  <2>12. Mails(t, c)' BY <1>1, <1>7, <1>8 DEF Mails
  <2> QED BY <1>8, <2>5, <2>7, <2>9, <2>10, <2>11, <2>12 DEF BundleOK
<1> QED BY <1>9, <1>10 DEF BundlesOK

\* The result of e-mailing a bundle's copy is noted in all its requests.
LEMMA BundleNoted ==
    ASSUME DocumentsInv, NEW c \in Bundles, NEW outcome \in {"SENT", "FAILED"},
           request' = Copied(Bundle(c), outcome), UNCHANGED doc
    PROVE  /\ NotesOnly
           /\ \A b : b # c => RequestsKept(b)
           /\ \A d \in Documents, n \in Numbers :
                 /\ In(d, n, c)' <=> In(d, n, c)
                 /\ In(d, n, c) => request'[d][n].copy = outcome
<1>1. /\ NotesOnly
      /\ \A d \in Documents, n \in Numbers :
            request'[d][n].copy = IF <<d, n>> \in Bundle(c) THEN outcome ELSE request[d][n].copy
  <2> DEFINE rs == Bundle(c)
  <2>1. request' = Copied(rs, outcome) /\ outcome \in {"WAITING", "SENT", "FAILED"} OBVIOUS
  <2> HIDE DEF rs
  <2>2. /\ NotesOnly
        /\ \A d \in Documents, n \in Numbers :
              request'[d][n].copy = IF <<d, n>> \in rs THEN outcome ELSE request[d][n].copy
    BY <2>1, CopiedOnly
  <2> QED BY <2>2 DEF rs
<1>2. \A d \in Documents, n \in Numbers : <<d, n>> \in Bundle(c) <=> In(d, n, c)
  BY DEF Bundle, In
<1>3. \A d \in Documents, n \in Numbers : In(d, n, c)' <=> In(d, n, c)
  BY <1>1 DEF NotesOnly, In
<1>4. ASSUME NEW b, b # c PROVE RequestsKept(b)
  <2>1. \A d \in Documents, n \in Numbers : In(d, n, b) => ~In(d, n, c) BY <1>4 DEF In
  <2>2. \A d \in Documents, n \in Numbers :
           In(d, n, b) => request'[d][n].copy = request[d][n].copy
    BY <1>1, <1>2, <2>1
  <2> QED BY <1>1, <2>2 DEF NotesOnly, RequestsKept
<1> QED BY <1>1, <1>2, <1>3, <1>4

\* Once it is noted, and nobody mails the bundle, all is well.
LEMMA NotedBundle ==
    ASSUME DocumentsInv, NEW c \in Bundles, NEW outcome \in {"SENT", "FAILED"},
           request' = Copied(Bundle(c), outcome), UNCHANGED <<doc, bundles, copies>>,
           faults' \in Nat, faults <= faults',
           outcome = "SENT" => Both(c),
           outcome = "FAILED" => copies[c] <= faults',
           \A t \in Sessions : ~Mails(t, c)',
           \A t \in Sessions : Together(t, c)' => Together(t, c) /\ session'[t] = session[t]
    PROVE  BundleOK(c)'
<1>1. BundleOK(c) /\ copies[c] \in Nat /\ faults \in Nat BY BundleFacts
<1>2. \A d \in Documents, n \in Numbers :
         /\ In(d, n, c)' <=> In(d, n, c)
         /\ In(d, n, c) => request'[d][n].copy = outcome
  BY BundleNoted
<1>3. /\ Both(c)' <=> Both(c)
      /\ \A u \in Sessions : Together(u, c)' =>
            /\ c <= bundles'
            /\ \A v \in Sessions : Together(v, c)' => u = v
            /\ \A e \in Documents, m \in Numbers : In(e, m, c)' => session'[u].step = "epp"
            /\ ~Both(c)'
      /\ \A e \in Documents, m \in Numbers : In(e, m, c)' => c <= bundles'
  BY <1>2, BundleRest
<1>4. copies'[c] <= 1 + faults' BY <1>1 DEF BundleOK
<1>5. outcome = "SENT" => Recorded(c)'
  <2>1. ASSUME outcome = "SENT" PROVE Recorded(c)'
    <3>1. PICK d \in Documents, n \in Numbers : In(d, n, c) BY <2>1 DEF Both
    <3> QED BY <1>2, <2>1, <3>1 DEF Recorded
  <2> QED BY <2>1
<1>6. outcome = "FAILED" => ~Recorded(c)' BY <1>2 DEF Recorded
<1>7. copies'[c] <= faults' \/ Recorded(c)' BY <1>1, <1>5
<1>8. Recorded(c)' =>
         /\ Both(c)'
         /\ \A d \in Documents, n \in Numbers :
               In(d, n, c)' /\ ~request'[d][n].signed => request'[d][n].copy = "SENT"
  <2>1. CASE outcome = "SENT" BY <1>2, <1>3, <2>1
  <2>2. CASE outcome = "FAILED" BY <1>6, <2>2
  <2> QED BY <2>1, <2>2
<1> QED BY <1>3, <1>4, <1>7, <1>8 DEF BundleOK

LEMMA RecordBundleBundles ==
    ASSUME DocumentsInv, NEW t \in Sessions, NEW outcome \in {"SENT", "FAILED"},
           RecordBundle(t, outcome)
    PROVE  BundlesOK'
<1>0. PICK step \in {"mailing", "mailed"} :
         /\ session[t].handler = "sign" /\ session[t].step = step
         /\ \/ outcome = "SENT" /\ step = "mailed" /\ faults' = faults
            \/ outcome = "FAILED" /\ step = "mailing" /\ faults' = faults
            \/ outcome = "FAILED" /\ step = "mailed" /\ faults' = faults + 1
  <2>1. CASE At(t, "sign", IF outcome = "SENT" THEN "mailed" ELSE "mailing") /\ faults' = faults
    BY <2>1 DEF At
  <2>2. CASE outcome = "FAILED" /\ At(t, "sign", "mailed") /\ faults' = faults + 1
    BY <2>2 DEF At
  <2> QED BY <2>1, <2>2 DEF RecordBundle
<1>1. /\ session[t].handler = "sign" /\ session[t].step = step
      /\ request' = Copied(Bundle(BundleOf(t)), outcome)
      /\ Go(t, "end") /\ UNCHANGED <<doc, bundles, copies>>
  BY <1>0 DEF RecordBundle
<1>2. session[t] # Idle /\ SessionOK(session[t], doc, request)
  BY <1>1 DEF Idle, DocumentsInv, SessionsOK
<1>3. PICK d \in Documents : session[t].docs = {d} /\ Only(t) = d BY <1>1, <1>2, OnlyDocument
<1>4. /\ session[t].number \in Numbers /\ request[d][session[t].number].bundle # 0
      /\ step \in {"mailing", "mailed"}
  BY <1>1, <1>2, <1>3 DEF SessionOK
<1>5. request[d][session[t].number] \in RequestType BY <1>4, RowsFacts
<1>6. PICK c \in Bundles : c = BundleOf(t) /\ request[d][session[t].number].bundle = c
  BY <1>3, <1>4, <1>5 DEF BundleOf, RequestType
<1>7. /\ \A u \in Sessions \ {t} : session'[u] = session[u]
      /\ session'[t] = Idle
  BY <1>1, <1>2, GoneTo
<1>8. Mails(t, c) BY <1>1, <1>3, <1>4, <1>6 DEF Mails
<1>9. BundleOK(c) /\ faults \in Nat /\ bundles \in Nat /\ copies[c] \in Nat BY BundleFacts
<1>9a. faults' \in Nat /\ faults <= faults' BY <1>0, <1>9
<1>10. request' = Copied(Bundle(c), outcome) BY <1>1, <1>6
<1>11. NotesOnly /\ \A b : b # c => RequestsKept(b) BY <1>1, <1>10, BundleNoted
<1>12. ASSUME NEW b \in Bundles, b # c PROVE BundleOK(b)'
  <2>1. ~Mails(t, b)' /\ ~Together(t, b)' BY <1>7 DEF Mails, Together, Idle
  <2>2. ~Mails(t, b) BY <1>3, <1>6, <1>12 DEF Mails
  <2>3. SessionsKept(b) BY <1>7, <2>1, <2>2 DEF SessionsKept
  <2> QED BY <1>1, <1>9, <1>9a, <1>11, <1>12, <2>3, BundleStays
<1>13. BundleOK(c)'
  <2>1. ~Recorded(c) /\ (\A u \in Sessions : Mails(u, c) => u = t)
        /\ (outcome = "SENT" => Both(c))
    BY <1>0, <1>8, <1>9 DEF BundleOK
  <2>2. outcome = "FAILED" => copies[c] <= faults'
    <3>1. CASE step = "mailing" BY <1>0, <1>9, <2>1, <3>1 DEF BundleOK
    <3>2. CASE step = "mailed" BY <1>0, <1>9, <3>2 DEF BundleOK
    <3> QED BY <3>1, <3>2
  <2>3. \A u \in Sessions : ~Mails(u, c)'
    <3> TAKE u \in Sessions
    <3>1. CASE u = t BY <1>7, <3>1 DEF Mails, Idle
    <3>2. CASE u # t
      <4>1. session'[u] = session[u] BY <1>7, <3>2
      <4>2. Mails(u, c)' <=> Mails(u, c) BY <1>11, <4>1, MailerStays DEF NotesOnly
      <4> QED BY <2>1, <3>2, <4>2
    <3> QED BY <3>1, <3>2
  <2>4. \A u \in Sessions : Together(u, c)' => Together(u, c) /\ session'[u] = session[u]
    BY <1>7 DEF Together, Idle
  <2> QED BY <1>1, <1>9, <1>9a, <1>10, <2>1, <2>2, <2>3, <2>4, NotedBundle
<1> QED BY <1>12, <1>13 DEF BundlesOK

LEMMA ResendBundles ==
    ASSUME DocumentsInv, NEW d \in Documents, NEW outcome \in {"SENT", "FAILED"},
           ResendSignedCopy(d, outcome)
    PROVE  BundlesOK'
<1> DEFINE n == Latest(Issued(d))
<1>1. /\ Issued(d) # {} /\ UNCHANGED <<doc, bundles, copies, session>>
      /\ faults' = IF outcome = "FAILED" THEN faults + 1 ELSE faults
  BY DEF ResendSignedCopy
<1>2. faults \in Nat /\ faults' \in Nat /\ faults <= faults'
      /\ (outcome = "FAILED" => faults' = faults + 1)
  <2>1. faults \in Nat BY RowsFacts
  <2>2. CASE outcome = "FAILED" BY <1>1, <2>1, <2>2
  <2>3. CASE outcome # "FAILED" BY <1>1, <2>1, <2>3
  <2> QED BY <2>1, <2>2, <2>3
<1>3. n \in Numbers /\ request[d][n].issued BY <1>1, LatestIssued
<1>4. request[d][n] \in RequestType BY <1>3, RowsFacts
<1>5. CASE request[d][n].bundle = 0
  <2> DEFINE rs == {<<d, n>>}
  <2>1. request' = Copied(rs, outcome) BY <1>5 DEF ResendSignedCopy
  <2>2. \A e \in Documents, m \in Numbers : <<e, m>> \in rs => request[e][m].bundle = 0
    BY <1>5
  <2> HIDE DEF rs
  <2>3. /\ NotesOnly
        /\ \A e \in Documents, m \in Numbers :
              request'[e][m].copy = IF <<e, m>> \in rs THEN outcome ELSE request[e][m].copy
    BY <1>1, <2>1, CopiedOnly
  <2>4. ASSUME NEW b \in Bundles PROVE RequestsKept(b)
    <3>1. b # 0 BY DEF Bundles
    <3>2. \A e \in Documents, m \in Numbers :
             In(e, m, b) => request'[e][m].copy = request[e][m].copy
      BY <2>2, <2>3, <3>1 DEF In
    <3> QED BY <2>3, <3>2 DEF NotesOnly, RequestsKept
  <2> QED BY <1>1, <1>2, <2>4, HandlerBundles
<1>6. CASE request[d][n].bundle # 0
  <2>1. PICK c \in Bundles : c = request[d][n].bundle BY <1>4, <1>6 DEF RequestType
  <2>2. /\ BundleFree(c) /\ Cardinality(Bundle(c)) = 2
        /\ request' = Copied(Bundle(c), outcome)
    BY <1>6, <2>1 DEF ResendSignedCopy
  <2>3. NotesOnly /\ \A b : b # c => RequestsKept(b) BY <1>1, <2>2, BundleNoted
  <2>4. Both(c) BY <2>2, TwoAreBoth
  <2>5. BundleOK(c) /\ bundles \in Nat BY BundleFacts
  <2>6. outcome = "FAILED" => copies[c] <= faults' BY <1>2, <2>5 DEF BundleOK
  <2>7. \A u \in Sessions : ~Mails(u, c)'
    <3> TAKE u \in Sessions
    <3>1. ~Mails(u, c) BY <2>2, FreeUnmailed
    <3>2. Mails(u, c)' <=> Mails(u, c) BY <1>1, <2>3, MailerStays DEF NotesOnly
    <3> QED BY <3>1, <3>2
  <2>8. \A u \in Sessions : Together(u, c)' => Together(u, c) /\ session'[u] = session[u]
    BY <1>1 DEF Together
  <2>9. BundleOK(c)' BY <1>1, <1>2, <2>2, <2>4, <2>6, <2>7, <2>8, NotedBundle
  <2>10. ASSUME NEW b \in Bundles, b # c PROVE BundleOK(b)'
    <3>1. SessionsKept(b) BY <1>1 DEF SessionsKept
    <3> QED BY <1>1, <1>2, <2>3, <2>5, <2>10, <3>1, BundleStays
  <2> QED BY <2>9, <2>10 DEF BundlesOK
<1> QED BY <1>5, <1>6
-----------------------------------------------------------------------------
(* The invariant.                                                           *)

LEMMA InitialDocuments == DocumentsInit => DocumentsInv
<1> SUFFICES ASSUME DocumentsInit PROVE DocumentsInv OBVIOUS
<1>1. /\ doc = [d \in Documents |-> NoDocument]
      /\ request = [d \in Documents |-> [n \in Numbers |-> NoRequest]]
      /\ bundles = 0 /\ faults = 0 /\ races = 0
      /\ copies = [b \in Bundles |-> 0]
      /\ session = [t \in Sessions |-> Idle]
  BY DEF DocumentsInit
<1>2. NoDocument \in RowType BY NumbersAreNatural DEF NoDocument, RowType, Stored, Snapshots
<1>3. NoRequest \in RequestType BY DEF NoRequest, RequestType
<1>4. /\ NoDocument.status = "ABSENT" /\ NoDocument.supersedes = {}
      /\ ~NoRequest.issued
  BY DEF NoDocument, NoRequest
<1>5. \A d \in Documents, n \in Numbers : ~request[d][n].issued BY <1>1, <1>4
<1>6. \A d \in Documents : Working(request[d]) = {} BY <1>5 DEF Working
<1>7. \A d \in Documents : RowOK(doc[d], request[d])
  <2> TAKE d \in Documents
  <2>1. doc[d] = NoDocument /\ request[d] \in [Numbers -> RequestType] BY <1>1, <1>3
  <2> QED BY <1>2, <1>4, <1>5, <1>6, <2>1 DEF RowOK
<1>8. RowsOK BY <1>1, <1>2, <1>3, <1>7 DEF RowsOK
<1>9. SessionsOK BY <1>1 DEF SessionsOK
<1>10. ASSUME NEW b \in Bundles PROVE BundleOK(b)
  <2>1. \A d \in Documents, n \in Numbers : ~In(d, n, b) BY <1>5 DEF In
  <2>2. ~Recorded(b) BY <2>1 DEF Recorded
  <2>3. \A t \in Sessions : ~Mails(t, b) /\ ~Together(t, b) BY <1>1 DEF Mails, Together, Idle
  <2>4. copies[b] <= faults /\ copies[b] <= 1 + faults BY <1>1
  <2> QED BY <2>1, <2>2, <2>3, <2>4 DEF BundleOK
<1>11. Quiet
  <2>1. \A d \in Documents : RowQuiet(doc[d], request[d]) BY <1>1, <1>4, <1>6 DEF RowQuiet
  <2>2. \A t, u \in Sessions : session[t].docs \cap session[u].docs = {} BY <1>1 DEF Idle
  <2>3. \A d \in Documents : doc[d].status # "SUPERSEDED" /\ doc[d].supersedes = {}
    BY <1>1, <1>4
  <2>4. Successors BY <2>3 DEF Successors
  <2> QED BY <1>1, <2>1, <2>2, <2>4 DEF Quiet
<1> QED BY <1>8, <1>9, <1>10, <1>11 DEF DocumentsInv, BundlesOK

LEMMA OfficeKeeps ==
    ASSUME DocumentsInv, OfficeNext
    PROVE  StepKept /\ BundlesOK'
<1>1. ASSUME NEW d \in Documents, CreateDocument(d) PROVE StepKept /\ BundlesOK'
  BY <1>1, CreateDocumentStep, OfficeRowsBundles
<1>2. ASSUME NEW d \in Documents, PrepareDocument(d) PROVE StepKept /\ BundlesOK'
  BY <1>2, PrepareDocumentStep, OfficeRowsBundles
<1>3. ASSUME NEW d \in Documents, SendForSignature(d) PROVE StepKept /\ BundlesOK'
  BY <1>3, SendForSignatureStep, LinksBundles
<1>4. ASSUME NEW d \in Documents, NEW new \in Documents, CreateNewVersion(d, new)
      PROVE  StepKept /\ BundlesOK'
  BY <1>4, CreateNewVersionStep, LinksBundles
<1>5. ASSUME NEW d \in Documents, MarkPaperSignedReceived(d) PROVE StepKept /\ BundlesOK'
  BY <1>5, PaperHandlers, OfficeRowsBundles
<1>6. ASSUME NEW d \in Documents, UploadPaperSignedCopy(d) PROVE StepKept /\ BundlesOK'
  BY <1>6, PaperHandlers, OfficeRowsBundles
<1>7. ASSUME NEW d \in Documents, NEW outcome \in {"SENT", "FAILED"},
             ResendSignedCopy(d, outcome)
      PROVE  StepKept /\ BundlesOK'
  BY <1>7, ResendSignedCopyStep, ResendBundles
<1>8. ASSUME NEW d \in Documents, NEW n \in Numbers, Expire(d, n) PROVE StepKept /\ BundlesOK'
  BY <1>8, ExpireStep, LinksBundles
<1>9. ASSUME NEW ds \in SUBSET Documents, FactsChange(ds) PROVE StepKept /\ BundlesOK'
  BY <1>9, FactsChangeStep, OfficeRowsBundles
<1>10. ASSUME NEW ds \in SUBSET Documents, NEW kind \in {Contracts, Epps}, FillDrafts(kind, ds)
       PROVE  StepKept /\ BundlesOK'
  BY <1>10, FillDraftsStep, OfficeRowsBundles
<1>11. ASSUME NEW ds \in SUBSET Documents, MarkPaperBatchPrinted(ds) PROVE StepKept /\ BundlesOK'
  BY <1>11, PaperHandlers, OfficeRowsBundles
<1> QED BY <1>1, <1>2, <1>3, <1>4, <1>5, <1>6, <1>7, <1>8, <1>9, <1>10, <1>11 DEF OfficeNext

LEMMA SendTogetherBundles ==
    ASSUME DocumentsInv, NEW t \in Sessions, SendTogether(t)
    PROVE  BundlesOK'
<1>1. ASSUME NEW c \in DOMAIN Pair, BeginTogether(t, c) PROVE BundlesOK'
  BY <1>1, BeginTogetherBundles
<1>2. ASSUME NEW c \in Contracts, PrepareOne(t, c, "read", "prepare") PROVE BundlesOK'
  BY <1>2, PrepareOneBundles
<1>3. ASSUME NEW e \in Epps, PrepareOne(t, e, "prepare", "contract") PROVE BundlesOK'
  BY <1>3, PrepareOneBundles
<1>4. ASSUME NEW c \in Contracts, SendOne(t, c, "contract", "epp") PROVE BundlesOK'
  BY <1>4, SendOneBundles
<1>5. ASSUME NEW e \in Epps, SendOne(t, e, "epp", "end") PROVE BundlesOK'
  BY <1>5, SendOneBundles
<1> QED BY <1>1, <1>2, <1>3, <1>4, <1>5 DEF SendTogether

LEMMA SessionKeeps ==
    ASSUME DocumentsInv, SessionNext
    PROVE  StepKept /\ BundlesOK'
<1>1. ASSUME NEW t \in Sessions, NEW d \in Documents, BeginUpdate(t, d)
      PROVE  StepKept /\ BundlesOK'
  BY <1>1, BeginUpdateStep, BeginBundles
<1>2. ASSUME NEW t \in Sessions, NEW d \in Documents, BeginCancel(t, d)
      PROVE  StepKept /\ BundlesOK'
  BY <1>2, BeginCancelStep, BeginBundles
<1>3. ASSUME NEW t \in Sessions, NEW d \in Documents, NEW n \in Numbers, BeginSign(t, d, n)
      PROVE  StepKept /\ BundlesOK'
  BY <1>3, BeginSignStep, BeginBundles
<1>4. ASSUME NEW t \in Sessions, NEW ds \in SUBSET Documents, NEW reprint \in BOOLEAN,
             BeginPrint(t, ds, reprint)
      PROVE  StepKept /\ BundlesOK'
  BY <1>4, BeginPrintStep, BeginBundles
<1>5. ASSUME NEW t \in Sessions, CommitUpdate(t) PROVE StepKept /\ BundlesOK'
  BY <1>5, CommitUpdateStep, CommitBundles
<1>6. ASSUME NEW t \in Sessions, CommitCancel(t) PROVE StepKept /\ BundlesOK'
  BY <1>6, CommitCancelStep, CommitBundles
<1>7. ASSUME NEW t \in Sessions, CommitPrint(t) PROVE StepKept /\ BundlesOK'
  BY <1>7, CommitPrintStep, CommitBundles
<1>8. ASSUME NEW t \in Sessions, AlreadySigned(t) PROVE StepKept /\ BundlesOK'
  BY <1>8, AlreadySignedStep, CommitBundles
<1>9. ASSUME NEW t \in Sessions, CommitSign(t) PROVE StepKept /\ BundlesOK'
  BY <1>9, CommitSignStep, CommitSignBundles
<1>10. ASSUME NEW t \in Sessions, NEW outcome \in {"SENT", "FAILED"}, CopyAlone(t, outcome)
       PROVE  StepKept /\ BundlesOK'
  BY <1>10, CopyAloneStep, CommitBundles
<1>11. ASSUME NEW t \in Sessions, NEW outcome \in {"SENT", "FAILED"}, RecordBundle(t, outcome)
       PROVE  StepKept /\ BundlesOK'
  BY <1>11, RecordBundleStep, RecordBundleBundles
<1>12. ASSUME NEW t \in Sessions, LookAtBundle(t) PROVE StepKept /\ BundlesOK'
  BY <1>12, LookAtBundleStep, LookAtBundleBundles
<1>13. ASSUME NEW t \in Sessions, MailBundle(t) PROVE StepKept /\ BundlesOK'
  BY <1>13, MailBundleStep, MailBundleBundles
<1>14. ASSUME NEW t \in Sessions, SendTogether(t) PROVE StepKept /\ BundlesOK'
  BY <1>14, SendTogetherStep, SendTogetherBundles
<1>15. ASSUME NEW t \in Sessions, Die(t) PROVE StepKept /\ BundlesOK'
  BY <1>15, DieStep, CommitBundles
<1> QED BY <1>1, <1>2, <1>3, <1>4, <1>5, <1>6, <1>7, <1>8, <1>9, <1>10, <1>11, <1>12, <1>13,
           <1>14, <1>15 DEF SessionNext

LEMMA StepKeeps ==
    ASSUME DocumentsInv, [DocumentsNext]_documentVars
    PROVE  DocumentsInv' /\ (races' = 0 => AllSigned)
<1>1. CASE OfficeNext BY <1>1, OfficeKeeps DEF StepKept, DocumentsInv
<1>2. CASE SessionNext BY <1>2, SessionKeeps DEF StepKept, DocumentsInv
<1>3. CASE UNCHANGED documentVars
  <2>1. UNCHANGED <<doc, request, bundles, copies, session, faults, races>>
    BY <1>3 DEF documentVars
  <2>2. NotesOnly BY <2>1, NothingChanges
  <2>3. faults' \in Nat BY <2>1, RowsFacts
  <2>4. StepKept BY <2>1, <2>2, <2>3, NotesStep
  <2>5. BundlesOK' BY <2>1, RowsBundles
  <2> QED BY <2>4, <2>5 DEF StepKept, DocumentsInv
<1> QED BY <1>1, <1>2, <1>3 DEF DocumentsNext

LEMMA DocumentsInvariant == DocumentsSpec => []DocumentsInv
<1>1. DocumentsInv /\ [DocumentsNext]_documentVars => DocumentsInv' BY StepKeeps
<1> QED BY <1>1, InitialDocuments, PTL DEF DocumentsSpec
-----------------------------------------------------------------------------
(* The theorems.                                                            *)

LEMMA AtMostOne ==
    ASSUME NEW S, \A x, y \in S : x = y
    PROVE  Cardinality(S) <= 1
<1>1. CASE S = {}
  <2>1. Cardinality(S) = 0 BY <1>1, FS_EmptySet
  <2> QED BY <2>1
<1>2. CASE S # {}
  <2>1. PICK x \in S : TRUE BY <1>2
  <2>2. S = {x} BY <2>1
  <2>3. Cardinality(S) = 1 BY <2>2, FS_Singleton
  <2> QED BY <2>3
<1> QED BY <1>1, <1>2

LEMMA LiveWorks ==
    ASSUME NEW d \in Documents
    PROVE  Live(d) = Working(request[d])
BY DEF Live, Issued, Working

\* Every stored row has values that its columns allow, and no status that is only ever
\* shown, whatever the handlers do and however they overlap.
THEOREM DocumentsTyped == DocumentsSpec => []DocumentsTypeOK
<1>1. ASSUME DocumentsInv PROVE DocumentsTypeOK
  <2>1. \A d \in Documents :
          /\ doc[d].status \in {"ABSENT", "DRAFT", "READY", "SENT", "COMPLETED",
                                "CANCELLED", "SUPERSEDED"}
          /\ doc[d].signature_method \in {"NONE", "ELECTRONIC", "PAPER"}
          /\ doc[d].paper_status \in {"NONE", "PREPARED", "PRINTED", "SIGNED_RECEIVED",
                                      "ARCHIVED"}
          /\ doc[d].data \in 0..MaxData
          /\ {doc[d].frozen_snapshot, doc[d].signed_pdf} \subseteq {Unset} \cup (0..MaxData)
          /\ doc[d].supersedes \subseteq Documents
    <3> TAKE d \in Documents
    <3>1. doc[d] \in RowType BY <1>1, RowsFacts
    <3> QED BY <3>1 DEF RowType, Stored, Snapshots
  <2>2. \A d \in Documents, n \in Numbers :
          /\ request[d][n].bundle \in {0} \cup Bundles
          /\ request[d][n].copy \in {"NONE", "WAITING", "SENT", "FAILED"}
    <3> TAKE d \in Documents, n \in Numbers
    <3>1. request[d][n] \in RequestType BY <1>1, RowsFacts
    <3> QED BY <3>1 DEF RequestType
  <2>3. bundles \in {0} \cup Bundles BY <1>1 DEF DocumentsInv, RowsOK
  <2> QED BY <2>1, <2>2, <2>3 DEF DocumentsTypeOK
<1> QED BY <1>1, DocumentsInvariant, PTL

\* At most one link of a document works, whatever overlaps: a new one revokes the others
\* in the transaction that issues it.  As long as nothing overlapped on a document, none
\* works of one that was cancelled, replaced or printed.
THEOREM LinksAreRevoked == DocumentsSpec => []LinksRevoked
<1>1. ASSUME DocumentsInv PROVE LinksRevoked
  <2> SUFFICES ASSUME NEW d \in Documents
               PROVE  /\ Cardinality(Live(d)) <= 1
                      /\ races = 0 /\ (\/ doc[d].status \in {"CANCELLED", "SUPERSEDED"}
                                       \/ doc[d].signature_method = "PAPER") => Live(d) = {}
    BY DEF LinksRevoked
  <2>1. Live(d) = Working(request[d]) BY LiveWorks
  <2>2. \A n, m \in Working(request[d]) : n = m
    <3>1. RowOK(doc[d], request[d]) BY <1>1, RowsFacts
    <3> QED BY <3>1 DEF RowOK
  <2>3. Cardinality(Live(d)) <= 1 BY <2>1, <2>2, AtMostOne
  <2>4. races = 0 => RowQuiet(doc[d], request[d]) BY <1>1 DEF DocumentsInv, Quiet
  <2> QED BY <2>1, <2>3, <2>4 DEF RowQuiet
<1> QED BY <1>1, DocumentsInvariant, PTL

\* No document is ever shown as partly signed, whatever overlaps: the worker's signature
\* completes it, and a link that was signed works only of a document that is not sent.
THEOREM NeverHalfSigned == DocumentsSpec => []NeverPartiallySigned
<1>1. ASSUME DocumentsInv PROVE NeverPartiallySigned
  <2> SUFFICES ASSUME NEW d \in Documents PROVE ReadStatus(d) # "PARTIALLY_SIGNED"
    BY DEF NeverPartiallySigned
  <2>1. RowOK(doc[d], request[d]) /\ doc[d] \in RowType BY <1>1, RowsFacts
  <2>2. CASE doc[d].status # "SENT" \/ Live(d) = {}
    <3>1. ReadStatus(d) = doc[d].status BY <2>2 DEF ReadStatus
    <3> QED BY <2>1, <3>1 DEF RowType, Stored
  <2>3. CASE doc[d].status = "SENT" /\ Live(d) # {}
    <3>1. PICK n \in Numbers : Live(d) = {n} /\ ~request[d][n].signed
      BY <2>1, <2>3, LiveWorks DEF RowOK, Working
    <3>2. Latest(Live(d)) = n BY <3>1, NumbersAreNatural DEF Latest
    <3>3. request[d][n] \in RequestType BY <1>1, <3>1, RowsFacts
    <3>4. request[d][n].late \in BOOLEAN /\ request[d][n].signed \in BOOLEAN
      BY <3>3 DEF RequestType
    <3> DEFINE r == request[d][n]
    <3>5. ReadStatus(d) = CASE r.late               -> "EXPIRED"
                            [] ~r.late /\ r.signed  -> "PARTIALLY_SIGNED"
                            [] ~r.late /\ ~r.signed -> "SENT"
      BY <2>3, <3>2 DEF ReadStatus
    <3> QED BY <3>1, <3>4, <3>5
  <2> QED BY <2>2, <2>3
<1> QED BY <1>1, DocumentsInvariant, PTL

\* As long as nothing overlapped on a document, none is replaced by two, and those that
\* were replaced are the ones with a successor.
THEOREM ReplacedOnce == DocumentsSpec => []OneSuccessor
<1>1. ASSUME DocumentsInv PROVE OneSuccessor
  <2> SUFFICES ASSUME races = 0, NEW d \in Documents
               PROVE  LET successors == {e \in Documents : d \in doc[e].supersedes}
                      IN /\ Cardinality(successors) <= 1
                         /\ successors # {} <=> doc[d].status = "SUPERSEDED"
    BY DEF OneSuccessor
  <2> DEFINE successors == {e \in Documents : d \in doc[e].supersedes}
  <2>1. Successors BY <1>1 DEF DocumentsInv, Quiet
  <2>2. \A e, f \in successors : e = f BY <2>1 DEF Successors
  <2>3. successors # {} <=> doc[d].status = "SUPERSEDED" BY <2>1 DEF Successors
  <2> HIDE DEF successors
  <2>4. Cardinality(successors) <= 1 BY <2>2, AtMostOne
  <2> QED BY <2>3, <2>4 DEF successors
<1> QED BY <1>1, DocumentsInvariant, PTL

\* The joint copy of a bundle is e-mailed by signing once, and once more at most for each
\* fault: although both documents may be signed at the same time, only one session holds
\* the locks on its requests, and it finds out whether the copy was sent.
THEOREM CopiedOnceOnly == DocumentsSpec => []CopiedOnce
<1>1. DocumentsInv => CopiedOnce BY DEF DocumentsInv, BundlesOK, BundleOK, CopiedOnce
<1> QED BY <1>1, DocumentsInvariant, PTL

\* As long as nothing overlapped on a document, no step changes a snapshot that was
\* frozen or a copy that was signed, and a completed document can only be replaced.
THEOREM SignedStaysSigned == DocumentsSpec => SignedForGood
<1>1. ASSUME DocumentsInv, [DocumentsNext]_documentVars, races' = 0
      PROVE  \A d \in Documents :
                /\ doc[d].frozen_snapshot # Unset =>
                      doc'[d].frozen_snapshot = doc[d].frozen_snapshot
                /\ doc[d].status = "COMPLETED" =>
                      /\ doc'[d].status \in {"COMPLETED", "SUPERSEDED"}
                      /\ doc'[d].signed_pdf = doc[d].signed_pdf
  BY <1>1, StepKeeps DEF AllSigned, SignedKept
<1>2. DocumentsInv /\ [DocumentsNext]_documentVars =>
         [races' = 0 => \A d \in Documents :
             /\ doc[d].frozen_snapshot # Unset =>
                   doc'[d].frozen_snapshot = doc[d].frozen_snapshot
             /\ doc[d].status = "COMPLETED" =>
                   /\ doc'[d].status \in {"COMPLETED", "SUPERSEDED"}
                   /\ doc'[d].signed_pdf = doc[d].signed_pdf]_documentVars
  BY <1>1
<1> QED BY <1>2, DocumentsInvariant, PTL DEF DocumentsSpec, SignedForGood

==============================================================================
