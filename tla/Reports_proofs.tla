--------------------------- MODULE Reports_proofs ---------------------------
(***************************************************************************)
(* A report that is edited, made into PDFs and delivered, for any number   *)
(* of editors, versions, revisions, publications and overlaps:             *)
(* ReportsTypeOK, SavesSeeAll, FiguresFollowSource, DeliveredCanBeOpened.  *)
(*                                                                         *)
(* They are proved together, from one inductive invariant that adds to     *)
(* them what the slow transaction may conclude from the report it read,    *)
(* and how the versions in the editors compare with that of the report.    *)
(***************************************************************************)
EXTENDS ReportPublications, SequenceTheorems, WellFoundedInduction, TLAPS

\* A report of any version: the bound is looked at before one is saved.
AnyDocType ==
    [status : {"DRAFT", "GENERATED", "DELIVERED", "ARCHIVED"},
     version : Nat \ {0},
     section : [id : Nat \ {0}, auto : 0..1, value : 0..2, overridden : BOOLEAN],
     custom : {"NONE", "THERE"},
     evidence : {"NONE", "LOOSE", "PLACED"},
     mode : {"AUTO", "FREEFORM"},
     canvas : [kind : {"NONE", "BLANK", "OWN", "AUTO"}, link : Nat]]

KeyType == [deliver : BOOLEAN, n : Nat]

PublicationType == [status : {"GENERATED", "DELIVERED", "ARCHIVED"}, key : KeyType]

SlowType ==
    [kind : {"NONE", "edit", "pdf", "deliver", "archive"}, who : Editors \cup {Others},
     read : DocType, new : DocType, item : Nat,
     status : {"NONE", "GENERATED", "DELIVERED", "ARCHIVED"}, key : KeyType]

PlacedOK(d) == d.evidence = "PLACED" => d.custom # "NONE"

Follows(d) == d.section.overridden \/ d.section.value = d.section.auto

\* The rows, those of the slow transaction among them.
RowsTyped ==
    /\ doc \in DocType /\ PlacedOK(doc)
    /\ source \in 0..1
    /\ revisions \in Seq(DocType) /\ Len(revisions) <= MaxRevisions
    /\ \A i \in DOMAIN revisions : PlacedOK(revisions[i])
    /\ template \in [kind : {"NONE", "BLANK", "OWN", "AUTO"}, link : Nat]
    /\ loaded \in [Editors -> 0..MaxVersion]
    /\ stale \in [Editors -> BOOLEAN]
    /\ blind \in BOOLEAN
    /\ slow \in SlowType
    /\ races \in 0..MaxRaces

\* What somebody makes of a report that he read is its next version, published as it
\* was; and its figures follow their source if no commit rested on what was overtaken.
NextVersion(d, new) ==
    /\ new \in AnyDocType /\ PlacedOK(new)
    /\ new.version = d.version + 1 /\ new.status = d.status
    /\ races = 0 => Follows(new)

FiguresInv ==
    races = 0 => Follows(doc) /\ \A i \in DOMAIN revisions : Follows(revisions[i])

SlowInv ==
    /\ slow.kind = "edit" => NextVersion(slow.read, slow.new) /\ races < MaxRaces
    /\ slow.kind # "edit" => slow.who = Others

\* Who is stale has loaded, or as the slow one read, an older version than there is.
VersionsInv ==
    races = 0 =>
        /\ ~blind
        /\ \A e \in Editors :
              /\ loaded[e] <= doc.version
              /\ stale[e] => loaded[e] < doc.version
              /\ stale[e] /\ slow.who = e => slow.read.version < doc.version
        /\ slow.kind = "edit" => slow.read.version <= doc.version

EditingInv == RowsTyped /\ FiguresInv /\ SlowInv /\ VersionsInv

\* Every publication has its own key and, while no answer got lost, its PDF.  What is
\* archived was not delivered when it was looked at.
PublicationsInv ==
    /\ publications \in Seq(PublicationType)
    /\ \A i, j \in DOMAIN publications : publications[i].key = publications[j].key => i = j
    /\ files \subseteq DOMAIN publications
    /\ lost \in 0..MaxLost
    /\ lost = 0 => files = DOMAIN publications
    /\ slow.kind = "pdf" => slow.key \notin Keys
    /\ slow.kind \in {"deliver", "archive"} => slow.item \in DOMAIN publications
    /\ slow.kind = "archive" => slow.status # "DELIVERED"

ReportsInv == EditingInv /\ PublicationsInv /\ DeliveredCanBeOpened

-----------------------------------------------------------------------------
(* The rows that handlers make.                                             *)

LEMMA BoundedDoc ==
    ASSUME NEW d \in AnyDocType, d.version <= MaxVersion
    PROVE  d \in DocType
BY ReportsAssumption DEF AnyDocType, DocType

LEMMA DocIsAnyDoc ==
    ASSUME NEW d \in DocType
    PROVE  d \in AnyDocType
BY ReportsAssumption DEF AnyDocType, DocType

LEMMA IdleTyped ==
    /\ Draft \in DocType /\ PlacedOK(Draft) /\ Follows(Draft)
    /\ Idle \in SlowType /\ Idle.kind = "NONE" /\ Idle.who = Others
<1>1. Draft \in DocType /\ PlacedOK(Draft) /\ Follows(Draft)
  BY ReportsAssumption DEF Draft, DocType, NoCanvas, PlacedOK, Follows
<1>2. Idle \in SlowType /\ Idle.kind = "NONE" /\ Idle.who = Others
  BY <1>1 DEF Idle, SlowType, KeyType, Others
<1> QED BY <1>1, <1>2

LEMMA TouchedNext ==
    ASSUME NEW d \in DocType, NEW e \in AnyDocType,
           e.version = d.version, e.status = d.status, PlacedOK(e), races = 0 => Follows(e)
    PROVE  NextVersion(d, Touch(e))
<1>1. /\ Touch(e) \in AnyDocType
      /\ Touch(e).version = e.version + 1
      /\ Touch(e).status = e.status /\ Touch(e).section = e.section
      /\ Touch(e).custom = e.custom /\ Touch(e).evidence = e.evidence
  BY DEF Touch, AnyDocType
<1> QED BY <1>1 DEF NextVersion, PlacedOK, Follows

\* What update_section and an object linked to the section make of the section.
LEMMA SectionEdited ==
    ASSUME NEW d \in DocType, PlacedOK(d), NEW value \in 0..2, NEW flag \in BOOLEAN,
           races = 0 => flag \/ value = d.section.auto
    PROVE  LET e == [d EXCEPT !.section.value = value, !.section.overridden = flag]
           IN /\ e \in AnyDocType /\ e.version = d.version /\ e.status = d.status
              /\ PlacedOK(e) /\ (races = 0 => Follows(e))
<1> DEFINE e == [d EXCEPT !.section.value = value, !.section.overridden = flag]
<1>1. d \in AnyDocType BY DocIsAnyDoc
<1>2. e \in AnyDocType
  BY <1>1 DEF AnyDocType
<1>3. /\ e.version = d.version /\ e.status = d.status
      /\ e.custom = d.custom /\ e.evidence = d.evidence
      /\ e.section.value = value /\ e.section.overridden = flag
      /\ e.section.auto = d.section.auto
  BY <1>1 DEF AnyDocType
<1> QED BY <1>2, <1>3 DEF PlacedOK, Follows

LEMMA EditedNext ==
    ASSUME NEW d \in DocType, PlacedOK(d), NEW value \in 0..2
    PROVE  NextVersion(d, Edited(d, value))
<1> DEFINE flag == (value # d.section.auto)
           e == [d EXCEPT !.section.value = value, !.section.overridden = flag]
<1>1. flag \in BOOLEAN /\ (flag \/ value = d.section.auto) OBVIOUS
<1>2. /\ e \in AnyDocType /\ e.version = d.version /\ e.status = d.status
      /\ PlacedOK(e) /\ (races = 0 => Follows(e))
  <2> HIDE DEF flag
  <2> QED BY <1>1, SectionEdited
<1>3. Edited(d, value) = Touch(e) BY DEF Edited
<1> HIDE DEF e
<1> QED BY <1>2, <1>3, TouchedNext

LEMMA ElementNext ==
    ASSUME NEW d \in DocType, PlacedOK(d), races = 0 => Follows(d), NEW value \in 0..2
    PROVE  NextVersion(d, ElementEdited(d, value))
<1> DEFINE e == [d EXCEPT !.section.value = value, !.section.overridden = TRUE]
<1>1. /\ e \in AnyDocType /\ e.version = d.version /\ e.status = d.status
      /\ PlacedOK(e) /\ (races = 0 => Follows(e))
  BY SectionEdited
<1>2. ElementEdited(d, value) = Touch(e) \/ ElementEdited(d, value) = Touch(d)
  BY DEF ElementEdited
<1> HIDE DEF e
<1>3. d \in AnyDocType BY DocIsAnyDoc
<1> QED BY <1>1, <1>2, <1>3, TouchedNext

LEMMA RefreshedNext ==
    ASSUME NEW d \in DocType, PlacedOK(d), races = 0 => Follows(d), NEW fresh \in 0..1
    PROVE  NextVersion(d, Touch([d EXCEPT !.section = Merged(@, fresh)]))
<1> DEFINE m == Merged(d.section, fresh)
           e == [d EXCEPT !.section = m]
<1>1. d \in AnyDocType BY DocIsAnyDoc
<1>2. /\ m \in [id : Nat \ {0}, auto : 0..1, value : 0..2, overridden : BOOLEAN]
      /\ races = 0 => m.overridden \/ m.value = m.auto
  <2> DEFINE s == d.section
  <2>1. s \in [id : Nat \ {0}, auto : 0..1, value : 0..2, overridden : BOOLEAN]
    BY DEF DocType
  <2> HIDE DEF s
  <2>2. /\ Merged(s, fresh) \in [id : Nat \ {0}, auto : 0..1, value : 0..2, overridden : BOOLEAN]
        /\ Merged(s, fresh).auto = fresh
        /\ Merged(s, fresh).overridden = s.overridden
        /\ ~s.overridden => Merged(s, fresh).value = fresh
    <3> DEFINE v == IF s.overridden THEN s.value ELSE fresh
    <3>1. v \in 0..2 /\ (~s.overridden => v = fresh) BY <2>1
    <3>2. Merged(s, fresh) = [s EXCEPT !.auto = fresh, !.value = v] BY <2>1 DEF Merged
    <3> HIDE DEF v
    <3> QED BY <2>1, <3>1, <3>2
  <2>3. races = 0 => Merged(s, fresh).overridden \/ Merged(s, fresh).value = Merged(s, fresh).auto
    BY <2>2
  <2> QED BY <2>2, <2>3 DEF s
<1> HIDE DEF m
<1>3. /\ e \in AnyDocType /\ e.version = d.version /\ e.status = d.status
      /\ e.custom = d.custom /\ e.evidence = d.evidence /\ e.section = m
  BY <1>1, <1>2 DEF AnyDocType
<1>4. PlacedOK(e) /\ (races = 0 => Follows(e))
  BY <1>2, <1>3 DEF PlacedOK, Follows
<1>5. NextVersion(d, Touch(e))
  <2> HIDE DEF e
  <2> QED BY <1>3, <1>4, TouchedNext
<1> QED BY <1>5 DEF m

\* A restored revision is of the version after that of the report, not of its own.
LEMMA RestoredNext ==
    ASSUME NEW d \in DocType, NEW r \in DocType, PlacedOK(r), races = 0 => Follows(r)
    PROVE  NextVersion(d, Restored(d, r))
<1> DEFINE e == Restored(d, r)
<1>1. r \in AnyDocType /\ d \in AnyDocType BY DocIsAnyDoc
<1>2. e \in AnyDocType
  <2> DEFINE id == d.section.id + 1
             c == [r.section EXCEPT !.id = id]
             w == d.version + 1
  <2>1. id \in Nat \ {0} /\ w \in Nat \ {0} BY <1>1 DEF AnyDocType
  <2>2. c \in [id : Nat \ {0}, auto : 0..1, value : 0..2, overridden : BOOLEAN]
    <3> HIDE DEF id
    <3> QED BY <1>1, <2>1 DEF AnyDocType
  <2>3. e = [r EXCEPT !.status = d.status, !.version = w, !.section = c]
    BY <1>1 DEF AnyDocType, Restored
  <2> HIDE DEF c, w, e
  <2>4. [r EXCEPT !.status = d.status, !.version = w, !.section = c] \in AnyDocType
    BY <1>1, <2>1, <2>2 DEF AnyDocType
  <2> QED BY <2>3, <2>4
<1>3. /\ e.version = d.version + 1 /\ e.status = d.status
      /\ e.custom = r.custom /\ e.evidence = r.evidence
      /\ e.section.value = r.section.value /\ e.section.auto = r.section.auto
      /\ e.section.overridden = r.section.overridden
  BY <1>1 DEF AnyDocType, Restored
<1> QED BY <1>2, <1>3 DEF NextVersion, PlacedOK, Follows

-----------------------------------------------------------------------------
(* Transactions of the editor.                                              *)

\* What editing leaves to ReportPublications.
Aside ==
    /\ slow' = slow \/ slow'.kind \in {"NONE", "edit"}
    /\ doc'.status \in {doc.status, "ARCHIVED"}
    /\ races' = 0 => races = 0
    /\ UNCHANGED publicationVars

\* A commit that makes a newer version, by somebody who had loaded the newest or with
\* no editor open, leaves stale whoever else has the report open.
LEMMA CommittedStep ==
    ASSUME EditingInv, NEW who \in Editors \cup {Others}, Committed(who),
           doc' \in DocType, races' = 0 => races = 0,
           races' = 0 => doc'.version > doc.version,
           races' = 0 => (who \in Editors => ~stale[who]),
           \/ slow' = slow
           \/ slow'.kind = "NONE" /\ slow'.who = Others
           \/ slow'.who = who /\ slow'.read.version <= doc'.version
    PROVE  VersionsInv' /\ loaded' \in [Editors -> 0..MaxVersion]
                        /\ stale' \in [Editors -> BOOLEAN] /\ blind' \in BOOLEAN
<1>1. /\ stale' = [e \in Editors |-> e # who /\ (loaded[e] # 0 \/ slow.who = e)]
      /\ loaded' = [e \in Editors |-> IF e = who THEN 0 ELSE loaded[e]]
      /\ blind' = (blind \/ (who \in Editors /\ stale[who]))
  BY DEF Committed
<1>2. /\ loaded \in [Editors -> 0..MaxVersion] /\ stale \in [Editors -> BOOLEAN]
      /\ blind \in BOOLEAN /\ doc \in DocType /\ slow \in SlowType
  BY DEF EditingInv, RowsTyped
<1>3. doc.version \in 1..MaxVersion /\ doc'.version \in 1..MaxVersion /\ MaxVersion \in Nat
  BY <1>2, ReportsAssumption DEF DocType
<1>4. /\ loaded' \in [Editors -> 0..MaxVersion] /\ stale' \in [Editors -> BOOLEAN]
      /\ blind' \in BOOLEAN
  BY <1>1, <1>2, <1>3
<1>5. ASSUME races' = 0
      PROVE  VersionsInv'
  <2>1. /\ ~blind /\ races = 0 /\ doc'.version > doc.version
        /\ who \in Editors => ~stale[who]
        /\ \A e \in Editors :
              /\ loaded[e] <= doc.version
              /\ stale[e] => loaded[e] < doc.version
              /\ stale[e] /\ slow.who = e => slow.read.version < doc.version
        /\ slow.kind = "edit" => slow.read.version <= doc.version
    BY <1>5 DEF EditingInv, VersionsInv
  <2>2. ~blind' BY <1>1, <2>1
  <2>3. ASSUME NEW e \in Editors
        PROVE  /\ loaded'[e] <= doc'.version
               /\ stale'[e] => loaded'[e] < doc'.version
    BY <1>1, <1>2, <1>3, <2>1
  <2>4. slow.read.version \in 1..MaxVersion
    BY <1>2 DEF SlowType, DocType
  <2>5. ASSUME NEW e \in Editors, stale'[e], slow'.who = e
        PROVE  slow'.read.version < doc'.version
    <3>1. e # who BY <1>1, <2>5
    <3>2. e # Others BY ReportsAssumption DEF Others
    <3>3. slow' = slow BY <2>5, <3>1, <3>2
    <3>4. slow.kind = "edit" BY <2>5, <3>2, <3>3 DEF EditingInv, SlowInv
    <3> QED BY <1>3, <2>1, <2>4, <3>3, <3>4
  <2>6. slow'.kind = "edit" => slow'.read.version <= doc'.version
    BY <1>3, <2>1, <2>4
  <2> QED BY <2>2, <2>3, <2>5, <2>6 DEF VersionsInv
<1> QED BY <1>4, <1>5 DEF VersionsInv

\* Somebody makes the next version of the report, at once or as the slow one.
LEMMA HandleStep ==
    ASSUME EditingInv, NEW who \in Editors \cup {Others},
           who \in Editors => loaded[who] = doc.version,
           NEW new, NextVersion(doc, new), Handle(who, new)
    PROVE  EditingInv' /\ Aside
<1>1. /\ new \in AnyDocType /\ PlacedOK(new) /\ new.version = doc.version + 1
      /\ new.status = doc.status /\ (races = 0 => Follows(new))
  BY DEF NextVersion
<1>2. new.version <= MaxVersion /\ UNCHANGED <<source, revisions, template, races, publicationVars>>
  BY DEF Handle
<1>3. new \in DocType BY <1>1, <1>2, BoundedDoc
<1>4. RowsTyped /\ FiguresInv /\ SlowInv /\ VersionsInv BY DEF EditingInv
<1>5. doc.version \in Nat /\ new.version \in Nat /\ new.version > doc.version
  BY <1>1, <1>4, ReportsAssumption DEF RowsTyped, DocType
<1>6. CASE doc' = new /\ Committed(who) /\ UNCHANGED slow
  <2>1. /\ VersionsInv' /\ loaded' \in [Editors -> 0..MaxVersion]
        /\ stale' \in [Editors -> BOOLEAN] /\ blind' \in BOOLEAN
    <3>1. races = 0 => (who \in Editors => ~stale[who])
      BY <1>4, <1>5 DEF VersionsInv
    <3> QED BY <1>2, <1>3, <1>5, <1>6, <3>1, CommittedStep
  <2>2. RowsTyped' BY <1>1, <1>2, <1>3, <1>4, <1>6, <2>1 DEF RowsTyped, PlacedOK
  <2>3. FiguresInv' BY <1>1, <1>2, <1>4, <1>6 DEF FiguresInv, Follows
  <2>4. SlowInv' BY <1>2, <1>4, <1>6 DEF SlowInv, NextVersion
  <2>5. Aside BY <1>1, <1>2, <1>6 DEF Aside
  <2> QED BY <2>1, <2>2, <2>3, <2>4, <2>5 DEF EditingInv
<1>7. CASE /\ slow = Idle /\ races < MaxRaces
           /\ slow' = [Idle EXCEPT !.kind = "edit", !.who = who, !.read = doc, !.new = new]
           /\ UNCHANGED <<doc, loaded, stale, blind>>
  <2>1. /\ slow' \in SlowType /\ slow'.kind = "edit" /\ slow'.who = who
        /\ slow'.read = doc /\ slow'.new = new
    BY <1>3, <1>4, <1>7, IdleTyped DEF SlowType, RowsTyped
  <2>2. RowsTyped' BY <1>2, <1>4, <1>7, <2>1 DEF RowsTyped, PlacedOK
  <2>3. FiguresInv' BY <1>2, <1>4, <1>7 DEF FiguresInv, Follows
  <2>4. SlowInv' BY <1>1, <1>2, <1>7, <2>1 DEF SlowInv, NextVersion
  <2>5. VersionsInv'
    <3>1. races' = races /\ doc' = doc /\ loaded' = loaded /\ stale' = stale /\ blind' = blind
      BY <1>2, <1>7
    <3>2. ASSUME NEW e \in Editors, races = 0, stale[e], slow'.who = e PROVE FALSE
      BY <1>4, <1>5, <2>1, <3>2 DEF VersionsInv
    <3> QED BY <1>4, <1>5, <2>1, <3>1, <3>2 DEF VersionsInv
  <2>6. Aside BY <1>2, <1>7, <2>1 DEF Aside
  <2> QED BY <2>2, <2>3, <2>4, <2>5, <2>6 DEF EditingInv
<1> QED BY <1>6, <1>7 DEF Handle

LEMMA SaveStep ==
    ASSUME EditingInv, NEW e \in Editors, NEW new, NextVersion(doc, new), Save(e, new)
    PROVE  EditingInv' /\ Aside
BY HandleStep DEF Save, Editable

\* The slow one makes the next version of what it read, and that is the next version
\* of the report if it found the report as it had read it.
LEMMA CommitStep ==
    ASSUME EditingInv, Commit
    PROVE  EditingInv' /\ Aside
<1> DEFINE read == slow.read
           new == slow.new
           written == [f \in DOMAIN doc |-> IF read[f] = new[f] THEN doc[f] ELSE new[f]]
<1>1. /\ slow.kind = "edit"
      /\ doc' = IF written.custom = "NONE" THEN WithoutCustom(written) ELSE written
      /\ races' = races + IF read = doc THEN 0 ELSE 1
      /\ Committed(slow.who) /\ slow' = Idle
      /\ UNCHANGED <<source, revisions, template, publicationVars>>
  BY DEF Commit
<1>2. RowsTyped /\ FiguresInv /\ SlowInv /\ VersionsInv BY DEF EditingInv
<1>3. /\ doc \in DocType /\ read \in DocType /\ new \in DocType /\ PlacedOK(new)
      /\ slow.who \in Editors \cup {Others}
      /\ new.version = read.version + 1 /\ new.status = read.status
      /\ races = 0 => Follows(new)
  BY <1>1, <1>2 DEF RowsTyped, SlowType, SlowInv, NextVersion
<1>4. /\ written \in DocType
      /\ written.version = IF read.version = new.version THEN doc.version ELSE new.version
      /\ written.status = IF read.status = new.status THEN doc.status ELSE new.status
      /\ written.section = IF read.section = new.section THEN doc.section ELSE new.section
      /\ written.custom = IF read.custom = new.custom THEN doc.custom ELSE new.custom
      /\ written.evidence = IF read.evidence = new.evidence THEN doc.evidence ELSE new.evidence
  <2> HIDE DEF read, new
  <2> QED BY <1>3 DEF DocType
<1> HIDE DEF written
<1>5. /\ doc' \in DocType /\ PlacedOK(doc')
      /\ doc'.version = written.version /\ doc'.status = written.status
      /\ doc'.section = written.section
  BY <1>1, <1>4 DEF WithoutCustom, DocType, PlacedOK
<1>6. doc'.version = new.version /\ doc'.status = doc.status
  <2>1. read.version # new.version BY <1>3 DEF DocType
  <2> QED BY <1>3, <1>4, <1>5, <2>1
<1>7. slow' \in SlowType /\ slow'.kind = "NONE" /\ slow'.who = Others
  BY <1>1, IdleTyped
<1>8. races' = 0 => races = 0 /\ read = doc
  BY <1>1, <1>2 DEF RowsTyped
<1>9. races' \in 0..MaxRaces
  BY <1>1, <1>2, ReportsAssumption DEF RowsTyped, SlowInv
<1>10. /\ VersionsInv' /\ loaded' \in [Editors -> 0..MaxVersion]
       /\ stale' \in [Editors -> BOOLEAN] /\ blind' \in BOOLEAN
  <2>1. races' = 0 => doc'.version > doc.version
    BY <1>3, <1>6, <1>8 DEF DocType
  <2>2. ASSUME races' = 0, slow.who \in Editors, stale[slow.who] PROVE FALSE
    <3>1. slow.read.version < doc.version BY <1>8, <1>2, <2>2 DEF VersionsInv
    <3> QED BY <1>8, <1>3, <2>2, <3>1 DEF DocType
  <2> QED BY <1>1, <1>3, <1>5, <1>7, <1>8, <2>1, <2>2, CommittedStep
<1>11. RowsTyped' BY <1>1, <1>2, <1>5, <1>7, <1>9, <1>10 DEF RowsTyped, PlacedOK
<1>12. FiguresInv'
  <2>1. ASSUME races' = 0 PROVE doc'.section = new.section
    BY <1>4, <1>5, <1>8, <2>1
  <2> QED BY <1>1, <1>2, <1>3, <1>8, <2>1 DEF FiguresInv, Follows
<1>13. SlowInv' BY <1>7 DEF SlowInv
<1>14. Aside BY <1>1, <1>6, <1>7, <1>8 DEF Aside
<1> QED BY <1>10, <1>11, <1>12, <1>13, <1>14 DEF EditingInv

LEMMA FailStep ==
    ASSUME EditingInv, Fail
    PROVE  EditingInv' /\ Aside
<1>1. /\ slow' = Idle
      /\ UNCHANGED <<doc, source, revisions, template, loaded, stale, blind, races,
                     publicationVars>>
  BY DEF Fail
<1>2. RowsTyped /\ FiguresInv /\ SlowInv /\ VersionsInv BY DEF EditingInv
<1>3. slow' \in SlowType /\ slow'.kind = "NONE" /\ slow'.who = Others BY <1>1, IdleTyped
<1>4. RowsTyped' BY <1>1, <1>2, <1>3 DEF RowsTyped, PlacedOK
<1>5. FiguresInv' BY <1>1, <1>2 DEF FiguresInv, Follows
<1>6. SlowInv' BY <1>3 DEF SlowInv
<1>7. VersionsInv' BY <1>1, <1>2, <1>3, ReportsAssumption DEF VersionsInv, Others
<1>8. Aside BY <1>1, <1>3 DEF Aside
<1> QED BY <1>4, <1>5, <1>6, <1>7, <1>8 DEF EditingInv

-----------------------------------------------------------------------------
(* The handlers of the editor.                                              *)

\* What a save leaves of a figure: the section is as it was.
LEMMA SameSectionNext ==
    ASSUME EditingInv, NEW e \in AnyDocType,
           e.version = doc.version, e.status = doc.status, e.section = doc.section,
           PlacedOK(e)
    PROVE  NextVersion(doc, Touch(e))
<1>1. doc \in DocType /\ (races = 0 => Follows(doc))
  BY DEF EditingInv, RowsTyped, FiguresInv
<1>2. races = 0 => Follows(e) BY <1>1 DEF Follows
<1> QED BY <1>1, <1>2, TouchedNext

LEMMA SectionSaved ==
    ASSUME EditingInv, NEW e \in Editors,
           \/ UpdateReport(e) \/ UpdateSection(e) \/ Refresh(e) \/ ResetField(e)
           \/ RestoreRevision(e)
    PROVE  EditingInv' /\ Aside
<1>1. /\ doc \in DocType /\ doc \in AnyDocType /\ PlacedOK(doc) /\ (races = 0 => Follows(doc))
      /\ source \in 0..1
  BY DocIsAnyDoc DEF EditingInv, RowsTyped, FiguresInv
<1>2. CASE UpdateReport(e)
  <2>1. NextVersion(doc, Touch(doc)) BY <1>1, SameSectionNext
  <2> QED BY <1>2, <2>1, SaveStep DEF UpdateReport
<1>3. CASE UpdateSection(e)
  BY <1>1, <1>3, EditedNext, SaveStep DEF UpdateSection
<1>4. CASE Refresh(e)
  <2>1. NextVersion(doc, Touch([doc EXCEPT !.section = Merged(@, source)]))
    BY <1>1, RefreshedNext
  <2> QED BY <1>4, <2>1, SaveStep DEF Refresh
<1>5. CASE ResetField(e)
  <2>1. doc.section.auto \in 0..2 BY <1>1 DEF DocType
  <2> QED BY <1>1, <1>5, <2>1, EditedNext, SaveStep DEF ResetField
<1>6. CASE RestoreRevision(e)
  <2>1. PICK i \in DOMAIN revisions : Save(e, Restored(doc, revisions[i]))
    BY <1>6 DEF RestoreRevision
  <2>2. /\ revisions[i] \in DocType /\ PlacedOK(revisions[i])
        /\ (races = 0 => Follows(revisions[i]))
    BY DEF EditingInv, RowsTyped, FiguresInv
  <2> QED BY <1>1, <2>1, <2>2, RestoredNext, SaveStep
<1> QED BY <1>2, <1>3, <1>4, <1>5, <1>6

LEMMA ContentsSaved ==
    ASSUME EditingInv, NEW e \in Editors,
           \/ AddCustomSection(e) \/ RemoveCustomSection(e)
           \/ AddEvidence(e) \/ UpdateEvidence(e) \/ RemoveEvidence(e)
    PROVE  EditingInv' /\ Aside
<1>1. /\ doc \in DocType /\ doc \in AnyDocType /\ PlacedOK(doc)
  BY DocIsAnyDoc DEF EditingInv, RowsTyped
<1>2. CASE AddCustomSection(e)
  <2> DEFINE d == [doc EXCEPT !.custom = "THERE"]
  <2>1. /\ d \in AnyDocType /\ d.version = doc.version /\ d.status = doc.status
        /\ d.section = doc.section /\ PlacedOK(d)
    BY <1>1 DEF AnyDocType, PlacedOK
  <2>2. NextVersion(doc, Touch(d))
    <3> HIDE DEF d
    <3> QED BY <2>1, SameSectionNext
  <2> QED BY <1>2, <2>2, SaveStep DEF AddCustomSection
<1>3. CASE RemoveCustomSection(e)
  <2> DEFINE d == WithoutCustom(doc)
  <2>1. /\ d \in AnyDocType /\ d.version = doc.version /\ d.status = doc.status
        /\ d.section = doc.section /\ PlacedOK(d)
    BY <1>1 DEF AnyDocType, PlacedOK, WithoutCustom
  <2>2. NextVersion(doc, Touch(d))
    <3> HIDE DEF d
    <3> QED BY <2>1, SameSectionNext
  <2> QED BY <1>3, <2>2, SaveStep DEF RemoveCustomSection
<1>4. ASSUME NEW place \in Places \cup {"NONE"}
      PROVE  NextVersion(doc, Touch([doc EXCEPT !.evidence = place]))
  <2> DEFINE d == [doc EXCEPT !.evidence = place]
  <2>1. place \in {"NONE", "LOOSE", "PLACED"} /\ (place = "PLACED" => doc.custom # "NONE")
    BY DEF Places
  <2>2. /\ d \in AnyDocType /\ d.version = doc.version /\ d.status = doc.status
        /\ d.section = doc.section /\ PlacedOK(d)
    BY <1>1, <2>1 DEF AnyDocType, PlacedOK
  <2> HIDE DEF d
  <2>3. NextVersion(doc, Touch(d)) BY <2>2, SameSectionNext
  <2> QED BY <2>3 DEF d
<1>5. CASE AddEvidence(e) BY <1>4, <1>5, SaveStep DEF AddEvidence
<1>6. CASE UpdateEvidence(e) BY <1>4, <1>6, SaveStep DEF UpdateEvidence
<1>7. CASE RemoveEvidence(e) BY <1>4, <1>7, SaveStep DEF RemoveEvidence
<1> QED BY <1>2, <1>3, <1>5, <1>6, <1>7

\* Whoever loads the report has its version.
LEMMA LoadStep ==
    ASSUME EditingInv, NEW e \in Editors, Load(e)
    PROVE  EditingInv' /\ Aside
<1>1. /\ slow.who # e
      /\ loaded' = [loaded EXCEPT ![e] = doc.version]
      /\ stale' = [stale EXCEPT ![e] = FALSE]
      /\ UNCHANGED <<doc, source, revisions, template, blind, slow, races, publicationVars>>
  BY DEF Load
<1>2. RowsTyped /\ FiguresInv /\ SlowInv /\ VersionsInv BY DEF EditingInv
<1>3. doc.version \in 0..MaxVersion BY <1>2, ReportsAssumption DEF RowsTyped, DocType
<1>4. RowsTyped' BY <1>1, <1>2, <1>3 DEF RowsTyped, PlacedOK
<1>5. FiguresInv' BY <1>1, <1>2 DEF FiguresInv, Follows
<1>6. SlowInv' BY <1>1, <1>2 DEF SlowInv, NextVersion
<1>7. VersionsInv' BY <1>1, <1>2, <1>3 DEF RowsTyped, VersionsInv
<1>8. Aside BY <1>1 DEF Aside
<1> QED BY <1>4, <1>5, <1>6, <1>7, <1>8 DEF EditingInv

\* A revision is the report as it was, and the report a version on.
LEMMA KeepStep ==
    ASSUME EditingInv, NEW e \in Editors, Keep(e)
    PROVE  /\ doc' \in DocType /\ PlacedOK(doc')
           /\ doc'.version = doc.version + 1 /\ doc'.status = doc.status
           /\ doc'.section = doc.section /\ doc'.custom = doc.custom
           /\ doc'.evidence = doc.evidence
           /\ revisions' \in Seq(DocType) /\ Len(revisions') <= MaxRevisions
           /\ \A i \in DOMAIN revisions' : revisions'[i] \in {doc} \cup {revisions[j] : j \in DOMAIN revisions}
           /\ races = 0 => ~stale[e]
<1>1. /\ loaded[e] = doc.version /\ doc.version < MaxVersion
      /\ Len(revisions) < MaxRevisions
      /\ revisions' = Append(revisions, doc)
      /\ doc' = Touch(doc)
  BY DEF Keep, Editable
<1>2. /\ doc \in DocType /\ PlacedOK(doc) /\ revisions \in Seq(DocType)
      /\ loaded \in [Editors -> 0..MaxVersion] /\ stale \in [Editors -> BOOLEAN]
      /\ races = 0 => (stale[e] => loaded[e] < doc.version)
  BY DEF EditingInv, RowsTyped, VersionsInv
<1>3. /\ doc' \in DocType /\ PlacedOK(doc')
      /\ doc'.version = doc.version + 1 /\ doc'.status = doc.status
      /\ doc'.section = doc.section /\ doc'.custom = doc.custom
      /\ doc'.evidence = doc.evidence
  <2> DEFINE w == doc.version + 1
  <2>1. w \in 1..MaxVersion BY <1>1, <1>2, ReportsAssumption DEF DocType
  <2>2. doc' = [doc EXCEPT !.version = w] BY <1>1 DEF Touch
  <2>3. doc'.version = w BY <1>2, <2>2 DEF DocType
  <2> HIDE DEF w
  <2>4. doc' \in DocType BY <1>2, <2>1, <2>2 DEF DocType
  <2>5. /\ doc'.status = doc.status /\ doc'.section = doc.section
        /\ doc'.custom = doc.custom /\ doc'.evidence = doc.evidence
    BY <1>2, <2>2 DEF DocType
  <2> QED BY <1>2, <2>3, <2>4, <2>5 DEF PlacedOK, w
<1>4. /\ revisions' \in Seq(DocType) /\ Len(revisions') = Len(revisions) + 1
      /\ \A i \in 1..Len(revisions) : revisions'[i] = revisions[i]
      /\ revisions'[Len(revisions) + 1] = doc
  BY <1>1, <1>2, AppendProperties
<1>5. Len(revisions') <= MaxRevisions BY <1>1, <1>2, <1>4, ReportsAssumption
<1>6. \A i \in DOMAIN revisions' :
         revisions'[i] \in {doc} \cup {revisions[j] : j \in DOMAIN revisions}
  BY <1>2, <1>4
<1>7. races = 0 => ~stale[e] BY <1>1, <1>2 DEF DocType
<1> QED BY <1>3, <1>4, <1>5, <1>6, <1>7

LEMMA CreateRevisionStep ==
    ASSUME EditingInv, NEW e \in Editors, CreateRevision(e)
    PROVE  EditingInv' /\ Aside
<1>1. /\ Keep(e) /\ Committed(e)
      /\ UNCHANGED <<source, template, slow, races, publicationVars>>
  BY DEF CreateRevision
<1>2. RowsTyped /\ FiguresInv /\ SlowInv /\ VersionsInv BY DEF EditingInv
<1>3. /\ doc' \in DocType /\ PlacedOK(doc')
      /\ doc'.version = doc.version + 1 /\ doc'.status = doc.status
      /\ doc'.section = doc.section
      /\ revisions' \in Seq(DocType) /\ Len(revisions') <= MaxRevisions
      /\ \A i \in DOMAIN revisions' :
            revisions'[i] \in {doc} \cup {revisions[j] : j \in DOMAIN revisions}
      /\ races = 0 => ~stale[e]
  BY <1>1, KeepStep
<1>4. doc.version \in Nat BY <1>2 DEF RowsTyped, DocType
<1>5. /\ VersionsInv' /\ loaded' \in [Editors -> 0..MaxVersion]
      /\ stale' \in [Editors -> BOOLEAN] /\ blind' \in BOOLEAN
  BY <1>1, <1>3, <1>4, CommittedStep
<1>6. RowsTyped'
  <2>1. \A i \in DOMAIN revisions' : PlacedOK(revisions'[i])
    BY <1>2, <1>3 DEF RowsTyped
  <2> QED BY <1>1, <1>2, <1>3, <1>5, <2>1 DEF RowsTyped, PlacedOK
<1>7. FiguresInv' BY <1>1, <1>2, <1>3 DEF FiguresInv, Follows
<1>8. SlowInv' BY <1>1, <1>2 DEF SlowInv, NextVersion
<1>9. Aside BY <1>1, <1>3 DEF Aside
<1> QED BY <1>5, <1>6, <1>7, <1>8, <1>9 DEF EditingInv

\* A proposal is one revision, and then the slow one, which read the report with it.
LEMMA ApplyProposalStep ==
    ASSUME EditingInv, NEW e \in Editors, ApplyProposal(e)
    PROVE  EditingInv' /\ Aside
<1>1. /\ Keep(e) /\ Committed(e) /\ slow = Idle /\ races < MaxRaces
      /\ doc.version + 1 < MaxVersion
      /\ UNCHANGED <<source, template, races, publicationVars>>
  BY DEF ApplyProposal
<1>2. PICK place \in IF doc.evidence = "NONE" THEN {"NONE"} ELSE Places :
         slow' = [Idle EXCEPT !.kind = "edit", !.who = e, !.read = doc',
                              !.new = Touch([doc' EXCEPT !.evidence = place])]
  BY DEF ApplyProposal
<1>3. RowsTyped /\ FiguresInv /\ SlowInv /\ VersionsInv BY DEF EditingInv
<1>4. /\ doc' \in DocType /\ PlacedOK(doc')
      /\ doc'.version = doc.version + 1 /\ doc'.status = doc.status
      /\ doc'.section = doc.section /\ doc'.custom = doc.custom
      /\ revisions' \in Seq(DocType) /\ Len(revisions') <= MaxRevisions
      /\ \A i \in DOMAIN revisions' :
            revisions'[i] \in {doc} \cup {revisions[j] : j \in DOMAIN revisions}
      /\ races = 0 => ~stale[e]
  BY <1>1, KeepStep
<1>5. doc.version \in Nat /\ MaxVersion \in Nat
  BY <1>3, ReportsAssumption DEF RowsTyped, DocType
<1>6. /\ FiguresInv' /\ \A i \in DOMAIN revisions' : PlacedOK(revisions'[i])
  BY <1>1, <1>3, <1>4 DEF FiguresInv, Follows, RowsTyped
<1> DEFINE d == [doc' EXCEPT !.evidence = place]
           new == Touch(d)
<1>7. NextVersion(doc', new)
  <2>1. place \in {"NONE", "LOOSE", "PLACED"} /\ (place = "PLACED" => doc'.custom # "NONE")
    BY <1>4 DEF Places
  <2>2. doc' \in AnyDocType BY <1>4, DocIsAnyDoc
  <2>3. /\ d \in AnyDocType /\ d.version = doc'.version /\ d.status = doc'.status
        /\ d.section = doc'.section /\ PlacedOK(d)
    BY <2>1, <2>2 DEF AnyDocType, PlacedOK
  <2>4. races = 0 => Follows(d) BY <1>3, <1>4, <2>3 DEF FiguresInv, Follows
  <2> HIDE DEF d
  <2> QED BY <1>4, <2>3, <2>4, TouchedNext
<1>8. new \in DocType
  BY <1>1, <1>4, <1>5, <1>7, BoundedDoc DEF NextVersion
<1> HIDE DEF new
<1>9. slow' = [Idle EXCEPT !.kind = "edit", !.who = e, !.read = doc', !.new = new]
  BY <1>2 DEF new
<1>10. /\ slow' \in SlowType /\ slow'.kind = "edit" /\ slow'.who = e
       /\ slow'.read = doc' /\ slow'.new = new
  BY <1>4, <1>8, <1>9, IdleTyped DEF SlowType
<1>11. /\ VersionsInv' /\ loaded' \in [Editors -> 0..MaxVersion]
       /\ stale' \in [Editors -> BOOLEAN] /\ blind' \in BOOLEAN
  BY <1>1, <1>4, <1>5, <1>10, CommittedStep
<1>12. RowsTyped' BY <1>1, <1>3, <1>4, <1>6, <1>10, <1>11 DEF RowsTyped, PlacedOK
<1>13. SlowInv' BY <1>1, <1>7, <1>10 DEF SlowInv, NextVersion
<1>14. Aside BY <1>1, <1>4, <1>10 DEF Aside
<1> QED BY <1>6, <1>11, <1>12, <1>13, <1>14 DEF EditingInv

-----------------------------------------------------------------------------
(* The handlers of the pages.                                               *)

LEMMA PagesSaved ==
    ASSUME EditingInv,
           \/ Override \/ CreatePage \/ DeletePage
           \/ CreateElement \/ UpdateElement \/ DeleteElement
    PROVE  EditingInv' /\ Aside
<1>1. /\ doc \in DocType /\ doc \in AnyDocType /\ PlacedOK(doc) /\ (races = 0 => Follows(doc))
  BY DocIsAnyDoc DEF EditingInv, RowsTyped, FiguresInv
<1>2. ASSUME NEW new, NextVersion(doc, new), Handle(Others, new)
      PROVE  EditingInv' /\ Aside
  <2>1. Others \notin Editors BY ReportsAssumption DEF Others
  <2> QED BY <1>2, <2>1, HandleStep
<1>3. ASSUME NEW mode \in {"AUTO", "FREEFORM"},
             NEW canvas \in [kind : {"NONE", "BLANK", "OWN", "AUTO"}, link : Nat],
             NEW d, d = [doc EXCEPT !.mode = mode, !.canvas = canvas]
      PROVE  NextVersion(doc, Touch(d))
  <2>1. /\ d \in AnyDocType /\ d.version = doc.version /\ d.status = doc.status
        /\ d.section = doc.section /\ PlacedOK(d)
    BY <1>1, <1>3 DEF AnyDocType, PlacedOK
  <2> QED BY <2>1, SameSectionNext
<1>4. NextVersion(doc, Touch(doc)) BY <1>1, SameSectionNext
<1>5. /\ doc.mode \in {"AUTO", "FREEFORM"}
      /\ doc.canvas \in [kind : {"NONE", "BLANK", "OWN", "AUTO"}, link : Nat]
  BY <1>1 DEF DocType
<1>6. ASSUME NEW kind \in {"NONE", "BLANK", "OWN", "AUTO"}
      PROVE  [doc.canvas EXCEPT !.kind = kind] \in [kind : {"NONE", "BLANK", "OWN", "AUTO"}, link : Nat]
  BY <1>5
<1>7. CASE Override BY <1>2, <1>4, <1>7 DEF Override
<1>8. CASE CreatePage
  <2> DEFINE kind == IF doc.canvas.kind = "NONE" THEN "BLANK" ELSE doc.canvas.kind
             d == [doc EXCEPT !.mode = "FREEFORM", !.canvas.kind = kind]
  <2>1. Handle(Others, Touch(d)) BY <1>1, <1>8 DEF CreatePage, DocType
  <2>2. kind \in {"NONE", "BLANK", "OWN", "AUTO"} BY <1>5
  <2> HIDE DEF kind
  <2>3. d = [doc EXCEPT !.mode = "FREEFORM", !.canvas = [doc.canvas EXCEPT !.kind = kind]]
    BY <1>1 DEF DocType
  <2> HIDE DEF d
  <2> QED BY <1>2, <1>3, <1>6, <2>1, <2>2, <2>3
<1>9. CASE DeletePage
  <2>1. NoCanvas \in [kind : {"NONE", "BLANK", "OWN", "AUTO"}, link : Nat] BY DEF NoCanvas
  <2>2. NextVersion(doc, Touch([doc EXCEPT !.mode = "AUTO", !.canvas = NoCanvas]))
    BY <1>3, <2>1
  <2> QED BY <1>2, <1>4, <1>9, <2>2 DEF DeletePage
<1>10. CASE CreateElement
  <2>1. PICK kind \in {doc.canvas.kind, IF doc.canvas.kind = "BLANK" THEN "OWN" ELSE doc.canvas.kind} :
           Handle(Others, Touch([doc EXCEPT !.canvas.kind = kind]))
    BY <1>10 DEF CreateElement
  <2> DEFINE d == [doc EXCEPT !.canvas.kind = kind]
  <2>2. kind \in {"NONE", "BLANK", "OWN", "AUTO"} BY <1>5
  <2>3. d = [doc EXCEPT !.mode = doc.mode, !.canvas = [doc.canvas EXCEPT !.kind = kind]]
    BY <1>1 DEF DocType
  <2>4. Handle(Others, Touch(d)) BY <2>1
  <2> HIDE DEF d
  <2> QED BY <1>2, <1>3, <1>5, <1>6, <2>2, <2>3, <2>4
<1>11. CASE UpdateElement BY <1>1, <1>2, <1>11, ElementNext DEF UpdateElement
<1>12. CASE DeleteElement
  <2> DEFINE d == [doc EXCEPT !.canvas.link = 0]
  <2>1. [doc.canvas EXCEPT !.link = 0] \in [kind : {"NONE", "BLANK", "OWN", "AUTO"}, link : Nat]
    BY <1>5
  <2>2. d = [doc EXCEPT !.mode = doc.mode, !.canvas = [doc.canvas EXCEPT !.link = 0]]
    BY <1>1 DEF DocType
  <2>3. Handle(Others, Touch(d)) BY <1>12 DEF DeleteElement
  <2> HIDE DEF d
  <2> QED BY <1>2, <1>3, <1>5, <2>1, <2>2, <2>3
<1> QED BY <1>7, <1>8, <1>9, <1>10, <1>11, <1>12

LEMMA MaterializeStep ==
    ASSUME EditingInv, MaterializeAuto
    PROVE  EditingInv' /\ Aside
<1> DEFINE d == [doc EXCEPT !.mode = "FREEFORM",
                            !.canvas = [kind |-> "AUTO", link |-> doc.section.id]]
<1>1. /\ doc' = Touch(d) /\ doc.version < MaxVersion /\ Committed(Others)
      /\ UNCHANGED <<source, revisions, template, slow, races, publicationVars>>
  BY DEF MaterializeAuto
<1>2. RowsTyped /\ FiguresInv /\ SlowInv /\ VersionsInv BY DEF EditingInv
<1>3. doc \in DocType /\ PlacedOK(doc) /\ doc \in AnyDocType
  BY <1>2, DocIsAnyDoc DEF RowsTyped
<1>4. /\ d \in AnyDocType /\ d.version = doc.version /\ d.status = doc.status
      /\ d.section = doc.section /\ PlacedOK(d)
  BY <1>3 DEF AnyDocType, PlacedOK
<1> HIDE DEF d
<1>5. NextVersion(doc, doc') BY <1>1, <1>4, SameSectionNext
<1>6. doc' \in DocType /\ doc'.version > doc.version
  <2>1. doc.version \in Nat /\ MaxVersion \in Nat
    BY <1>3, ReportsAssumption DEF AnyDocType
  <2>2. doc' \in AnyDocType /\ doc'.version = doc.version + 1 BY <1>5 DEF NextVersion
  <2> QED BY <1>1, <2>1, <2>2, BoundedDoc
<1>7. /\ VersionsInv' /\ loaded' \in [Editors -> 0..MaxVersion]
      /\ stale' \in [Editors -> BOOLEAN] /\ blind' \in BOOLEAN
  <2>1. Others \notin Editors BY ReportsAssumption DEF Others
  <2> QED BY <1>1, <1>6, <2>1, CommittedStep
<1>8. RowsTyped' BY <1>1, <1>2, <1>5, <1>6, <1>7 DEF RowsTyped, NextVersion, PlacedOK
<1>9. FiguresInv' BY <1>1, <1>2, <1>5 DEF FiguresInv, NextVersion, Follows
<1>10. SlowInv' BY <1>1, <1>2 DEF SlowInv, NextVersion
<1>11. Aside BY <1>1, <1>5 DEF Aside, NextVersion
<1> QED BY <1>7, <1>8, <1>9, <1>10, <1>11 DEF EditingInv

\* What changes neither the version nor the figures of the report.
LEMMA QuietStep ==
    ASSUME EditingInv, doc' \in DocType, PlacedOK(doc'), doc'.version = doc.version,
           doc'.section = doc.section, doc'.status \in {doc.status, "ARCHIVED"},
           source' \in 0..1,
           template' \in [kind : {"NONE", "BLANK", "OWN", "AUTO"}, link : Nat],
           UNCHANGED <<revisions, loaded, stale, blind, slow, races, publicationVars>>
    PROVE  EditingInv' /\ Aside
<1>1. RowsTyped /\ FiguresInv /\ SlowInv /\ VersionsInv BY DEF EditingInv
<1>2. RowsTyped' BY <1>1 DEF RowsTyped, PlacedOK
<1>3. FiguresInv' BY <1>1 DEF FiguresInv, Follows
<1>4. SlowInv' BY <1>1 DEF SlowInv, NextVersion
<1>5. VersionsInv' BY <1>1 DEF VersionsInv
<1>6. Aside BY DEF Aside
<1> QED BY <1>2, <1>3, <1>4, <1>5, <1>6 DEF EditingInv

LEMMA OthersStep ==
    ASSUME EditingInv, SourceChanges \/ SaveTemplate \/ ApplyTemplate \/ ArchiveReport
    PROVE  EditingInv' /\ Aside
<1>1. /\ doc \in DocType /\ PlacedOK(doc) /\ source \in 0..1
      /\ template \in [kind : {"NONE", "BLANK", "OWN", "AUTO"}, link : Nat]
  BY DEF EditingInv, RowsTyped
<1>2. CASE SourceChanges BY <1>1, <1>2, QuietStep DEF SourceChanges
<1>3. CASE SaveTemplate
  <2>1. doc.canvas \in [kind : {"NONE", "BLANK", "OWN", "AUTO"}, link : Nat]
    BY <1>1 DEF DocType
  <2> QED BY <1>1, <1>3, <2>1, QuietStep DEF SaveTemplate
<1>4. CASE ApplyTemplate
  <2>1. /\ doc' = [doc EXCEPT !.mode = "FREEFORM", !.canvas = template]
        /\ UNCHANGED <<source, revisions, template, loaded, stale, blind, slow, races,
                       publicationVars>>
    BY <1>4 DEF ApplyTemplate
  <2>2. /\ doc' \in DocType /\ PlacedOK(doc') /\ doc'.version = doc.version
        /\ doc'.section = doc.section /\ doc'.status = doc.status
    BY <1>1, <2>1 DEF DocType, PlacedOK
  <2> QED BY <1>1, <2>1, <2>2, QuietStep
<1>5. CASE ArchiveReport
  <2>1. /\ doc' = [doc EXCEPT !.status = "ARCHIVED"]
        /\ UNCHANGED <<source, revisions, template, loaded, stale, blind, slow, races,
                       publicationVars>>
    BY <1>5 DEF ArchiveReport
  <2>2. /\ doc' \in DocType /\ PlacedOK(doc') /\ doc'.version = doc.version
        /\ doc'.section = doc.section /\ doc'.status = "ARCHIVED"
    BY <1>1, <2>1 DEF DocType, PlacedOK
  <2> QED BY <1>1, <2>1, <2>2, QuietStep
<1> QED BY <1>2, <1>3, <1>4, <1>5

LEMMA EditingStep ==
    ASSUME EditingInv, EditingNext
    PROVE  EditingInv' /\ Aside
<1>1. CASE SourceChanges \/ SaveTemplate \/ ApplyTemplate \/ ArchiveReport
  BY <1>1, OthersStep
<1>2. CASE Commit BY <1>2, CommitStep
<1>3. CASE Fail BY <1>3, FailStep
<1>4. CASE \/ Override \/ CreatePage \/ DeletePage
           \/ CreateElement \/ UpdateElement \/ DeleteElement
  BY <1>4, PagesSaved
<1>5. CASE MaterializeAuto BY <1>5, MaterializeStep
<1>6. ASSUME NEW e \in Editors,
             \/ Load(e) \/ UpdateReport(e) \/ UpdateSection(e)
             \/ AddCustomSection(e) \/ RemoveCustomSection(e)
             \/ Refresh(e) \/ ResetField(e)
             \/ AddEvidence(e) \/ UpdateEvidence(e) \/ RemoveEvidence(e)
             \/ CreateRevision(e) \/ RestoreRevision(e) \/ ApplyProposal(e)
      PROVE  EditingInv' /\ Aside
  <2>1. CASE \/ UpdateReport(e) \/ UpdateSection(e) \/ Refresh(e) \/ ResetField(e)
             \/ RestoreRevision(e)
    BY <2>1, SectionSaved
  <2>2. CASE \/ AddCustomSection(e) \/ RemoveCustomSection(e)
             \/ AddEvidence(e) \/ UpdateEvidence(e) \/ RemoveEvidence(e)
    BY <2>2, ContentsSaved
  <2>3. CASE Load(e) BY <2>3, LoadStep
  <2>4. CASE CreateRevision(e) BY <2>4, CreateRevisionStep
  <2>5. CASE ApplyProposal(e) BY <2>5, ApplyProposalStep
  <2> QED BY <1>6, <2>1, <2>2, <2>3, <2>4, <2>5
<1> QED BY <1>1, <1>2, <1>3, <1>4, <1>5, <1>6 DEF EditingNext

-----------------------------------------------------------------------------
(* Publications.                                                            *)

\* Editing archives a report, or leaves it published as it was.
LEMMA EditingKeepsPublications ==
    ASSUME ReportsInv, Aside
    PROVE  PublicationsInv' /\ DeliveredCanBeOpened'
<1>1. PublicationsInv /\ DeliveredCanBeOpened BY DEF ReportsInv
<1>2. /\ slow' = slow \/ slow'.kind \in {"NONE", "edit"}
      /\ doc'.status \in {doc.status, "ARCHIVED"}
      /\ races' = 0 => races = 0
      /\ publications' = publications /\ files' = files /\ lost' = lost
  BY DEF Aside, publicationVars
<1>3. PublicationsInv' BY <1>1, <1>2 DEF PublicationsInv, Keys
<1>4. DeliveredCanBeOpened' BY <1>1, <1>2 DEF DeliveredCanBeOpened
<1> QED BY <1>3, <1>4

\* Publishing changes nothing of the report but its status.
LEMMA PublishingKeepsEditing ==
    ASSUME EditingInv, EditorUnchanged, slow.kind # "edit",
           \/ doc' = doc
           \/ \E status \in {"GENERATED", "DELIVERED"} : doc' = [doc EXCEPT !.status = status],
           slow' \in SlowType, slow'.kind # "edit", slow'.who = Others,
           races' \in 0..MaxRaces, races' = 0 => races = 0
    PROVE  EditingInv' /\ doc' \in DocType
<1>1. RowsTyped /\ FiguresInv /\ SlowInv /\ VersionsInv BY DEF EditingInv
<1>2. UNCHANGED <<source, revisions, template, loaded, stale, blind>> BY DEF EditorUnchanged
<1>3. /\ doc' \in DocType /\ PlacedOK(doc') /\ doc'.version = doc.version
      /\ doc'.section = doc.section
  BY <1>1 DEF RowsTyped, DocType, PlacedOK
<1>4. RowsTyped' BY <1>1, <1>2, <1>3 DEF RowsTyped, PlacedOK
<1>5. FiguresInv' BY <1>1, <1>2, <1>3 DEF FiguresInv, Follows
<1>6. SlowInv' BY DEF SlowInv
<1>7. VersionsInv' BY <1>1, <1>2, <1>3, ReportsAssumption DEF VersionsInv, Others
<1> QED BY <1>3, <1>4, <1>5, <1>6, <1>7 DEF EditingInv

\* The newest publication that is not archived is one of them.
LEMMA LatestIsLive ==
    ASSUME publications \in Seq(PublicationType), Latest # 0
    PROVE  Latest \in DOMAIN publications
<1> DEFINE n == Len(publications)
           S == {k \in Nat : k <= n /\ n - k \in Live}
<1>1. n \in Nat /\ DOMAIN publications = 1..n /\ Live \subseteq 1..n /\ Live # {}
  BY DEF Live, Latest
<1>2. S \subseteq Nat /\ S # {}
  <2>1. PICK i \in Live : TRUE BY <1>1
  <2>2. n - i \in S BY <1>1, <2>1
  <2> QED BY <2>2
<1>3. PICK k \in S : \A y \in S : ~(<<y, k>> \in OpToRel(<, Nat))
  <2> HIDE DEF S
  <2> QED BY <1>2, NatLessThanWellFounded, WFMin
<1>4. ASSUME NEW j \in Live PROVE j <= n - k
  <2>1. k \in Nat /\ j \in Nat /\ n - j \in S BY <1>1
  <2>2. OpToRel(<, Nat) = {ss \in Nat \X Nat : ss[1] < ss[2]} BY Zenon DEF OpToRel
  <2>3. n - j \in Nat BY <2>1
  <2>4. ~(n - j < k) BY <1>3, <2>1, <2>2, <2>3
  <2> QED BY <1>1, <2>1, <2>4
<1>5. n - k \in Live OBVIOUS
<1>6. Latest \in Live BY <1>1, <1>4, <1>5 DEF Latest
<1> QED BY <1>1, <1>6

\* A publication is made under a key that no other has.
LEMMA AppendedPublication ==
    ASSUME publications \in Seq(PublicationType), slow.key \in KeyType,
           slow.key \notin Keys,
           \A i, j \in DOMAIN publications : publications[i].key = publications[j].key => i = j,
           publications' = Append1
    PROVE  /\ publications' \in Seq(PublicationType)
           /\ DOMAIN publications' = DOMAIN publications \cup {Len(Append1)}
           /\ publications'[Len(Append1)].status = "GENERATED"
           /\ \A i, j \in DOMAIN publications' :
                 publications'[i].key = publications'[j].key => i = j
<1> DEFINE p == [status |-> "GENERATED", key |-> slow.key]
           n == Len(publications)
<1>1. p \in PublicationType /\ p.key = slow.key /\ p.status = "GENERATED"
  BY DEF PublicationType
<1>2. publications' = Append(publications, p) /\ Append1 = publications'
  BY DEF Append1
<1> HIDE DEF p
<1>3. /\ publications' \in Seq(PublicationType) /\ Len(publications') = n + 1
      /\ \A i \in 1..n : publications'[i] = publications[i]
      /\ publications'[n + 1] = p
  BY <1>1, <1>2, AppendProperties
<1>4. /\ n \in Nat /\ DOMAIN publications = 1..n /\ DOMAIN publications' = 1..(n + 1)
      /\ Len(Append1) = n + 1
  BY <1>2, <1>3
<1>5. ASSUME NEW i \in DOMAIN publications', NEW j \in DOMAIN publications',
             publications'[i].key = publications'[j].key
      PROVE  i = j
  <2>1. ASSUME NEW k \in 1..n PROVE publications'[k].key # p.key
    BY <1>1, <1>3, <1>4, <2>1 DEF Keys
  <2>2. CASE i \in 1..n /\ j \in 1..n BY <1>3, <1>4, <1>5, <2>2
  <2>3. CASE i = n + 1 /\ j \in 1..n BY <1>3, <1>5, <2>1, <2>3
  <2>4. CASE i \in 1..n /\ j = n + 1 BY <1>3, <1>5, <2>1, <2>4
  <2> QED BY <1>4, <2>2, <2>3, <2>4
<1> QED BY <1>1, <1>3, <1>4, <1>5

\* One publication is given another status.
LEMMA StatusGiven ==
    ASSUME publications \in Seq(PublicationType), NEW i \in DOMAIN publications,
           \A j, k \in DOMAIN publications : publications[j].key = publications[k].key => j = k,
           NEW status \in {"GENERATED", "DELIVERED", "ARCHIVED"},
           publications' = [publications EXCEPT ![i].status = status]
    PROVE  /\ publications' \in Seq(PublicationType)
           /\ DOMAIN publications' = DOMAIN publications
           /\ publications'[i].status = status
           /\ \A j \in DOMAIN publications : j # i => publications'[j] = publications[j]
           /\ \A j, k \in DOMAIN publications' :
                 publications'[j].key = publications'[k].key => j = k
           /\ Keys' = Keys
<1> DEFINE p == [publications[i] EXCEPT !.status = status]
<1>1. publications[i] \in PublicationType OBVIOUS
<1>2. p \in PublicationType /\ p.status = status /\ p.key = publications[i].key
  BY <1>1 DEF PublicationType
<1>3. publications' = [publications EXCEPT ![i] = p] OBVIOUS
<1> HIDE DEF p
<1>4. /\ publications' \in Seq(PublicationType) /\ Len(publications') = Len(publications)
      /\ \A j \in 1..Len(publications) : publications'[j] = IF j = i THEN p ELSE publications[j]
  BY <1>2, <1>3, ExceptSeq
<1>5. DOMAIN publications' = DOMAIN publications /\ DOMAIN publications = 1..Len(publications)
  BY <1>4
<1>6. \A j \in DOMAIN publications : publications'[j].key = publications[j].key
  BY <1>2, <1>4, <1>5
<1>7. Keys' = Keys BY <1>5, <1>6 DEF Keys
<1> QED BY <1>2, <1>4, <1>5, <1>6, <1>7

LEMMA MakePdfStep ==
    ASSUME ReportsInv, NEW key \in KeyType, MakePdf(key)
    PROVE  ReportsInv'
<1>1. /\ slow = Idle /\ key \notin Keys
      /\ slow' = [Idle EXCEPT !.kind = "pdf", !.key = key]
      /\ EditorUnchanged /\ UNCHANGED <<doc, races, publicationVars>>
  BY DEF MakePdf
<1>2. EditingInv /\ PublicationsInv /\ DeliveredCanBeOpened BY DEF ReportsInv
<1>3. races \in 0..MaxRaces /\ doc \in DocType BY <1>2 DEF EditingInv, RowsTyped
<1>4. /\ slow' \in SlowType /\ slow'.kind = "pdf" /\ slow'.who = Others /\ slow'.key = key
      /\ slow.kind = "NONE"
  BY <1>1, IdleTyped DEF SlowType
<1>5. EditingInv' BY <1>1, <1>2, <1>3, <1>4, PublishingKeepsEditing
<1>6. publications' = publications /\ files' = files /\ lost' = lost
  BY <1>1 DEF publicationVars
<1>7. PublicationsInv' BY <1>1, <1>2, <1>4, <1>6 DEF PublicationsInv, Keys
<1>8. DeliveredCanBeOpened' BY <1>1, <1>2, <1>6 DEF DeliveredCanBeOpened
<1> QED BY <1>5, <1>7, <1>8 DEF ReportsInv

\* The PDF is made, and whoever wanted it delivered goes on to deliver it.
LEMMA FinishStep ==
    ASSUME ReportsInv, Finish
    PROVE  ReportsInv'
<1>1. /\ slow.kind = "pdf"
      /\ publications' = Append1
      /\ files' = files \cup {Len(Append1)}
      /\ doc' = [doc EXCEPT !.status = "GENERATED"]
      /\ EditorUnchanged /\ UNCHANGED <<races, lost>>
  BY DEF Finish
<1>2. EditingInv /\ PublicationsInv BY DEF ReportsInv
<1>3. slow \in SlowType /\ doc \in DocType /\ races \in 0..MaxRaces
  BY <1>2 DEF EditingInv, RowsTyped
<1>4. slow.key \in KeyType /\ slow.key \notin Keys
  BY <1>1, <1>2, <1>3 DEF SlowType, PublicationsInv
<1>5. /\ publications' \in Seq(PublicationType)
      /\ DOMAIN publications' = DOMAIN publications \cup {Len(Append1)}
      /\ \A i, j \in DOMAIN publications' :
            publications'[i].key = publications'[j].key => i = j
  BY <1>1, <1>2, <1>4, AppendedPublication DEF PublicationsInv
<1>6. doc' \in DocType /\ doc'.status = "GENERATED" BY <1>1, <1>3 DEF DocType
<1>7. Len(Append1) \in Nat BY <1>1, <1>5, LenProperties
<1>8. /\ slow' \in SlowType /\ slow'.kind \in {"NONE", "deliver"} /\ slow'.who = Others
      /\ slow'.kind = "deliver" => slow'.item = Len(Append1)
  <2>1. CASE slow.key.deliver
    <3>1. slow' = [Idle EXCEPT !.kind = "deliver", !.item = Len(Append1),
                               !.status = "GENERATED", !.read = doc']
      BY <2>1 DEF Finish
    <3> QED BY <1>6, <1>7, <3>1, IdleTyped DEF SlowType
  <2>2. CASE ~slow.key.deliver
    <3>1. slow' = Idle BY <2>2 DEF Finish
    <3> QED BY <3>1, IdleTyped
  <2> QED BY <2>1, <2>2
<1>9. EditingInv' BY <1>1, <1>2, <1>3, <1>8, PublishingKeepsEditing
<1>10. PublicationsInv'
  BY <1>1, <1>2, <1>5, <1>8 DEF PublicationsInv
<1>11. DeliveredCanBeOpened' BY <1>6 DEF DeliveredCanBeOpened
<1> QED BY <1>9, <1>10, <1>11 DEF ReportsInv

LEMMA AnswerLostStep ==
    ASSUME ReportsInv, AnswerLost
    PROVE  ReportsInv'
<1>1. /\ slow.kind = "pdf" /\ lost < MaxLost /\ lost' = lost + 1
      /\ publications' = Append1
      /\ files' \in {files, files \cup {Len(Append1)}}
      /\ doc' = [doc EXCEPT !.status = "GENERATED"]
      /\ slow' = Idle
      /\ EditorUnchanged /\ UNCHANGED races
  BY DEF AnswerLost
<1>2. EditingInv /\ PublicationsInv BY DEF ReportsInv
<1>3. slow \in SlowType /\ doc \in DocType /\ races \in 0..MaxRaces
  BY <1>2 DEF EditingInv, RowsTyped
<1>4. slow.key \in KeyType /\ slow.key \notin Keys
  BY <1>1, <1>2, <1>3 DEF SlowType, PublicationsInv
<1>5. /\ publications' \in Seq(PublicationType)
      /\ DOMAIN publications' = DOMAIN publications \cup {Len(Append1)}
      /\ \A i, j \in DOMAIN publications' :
            publications'[i].key = publications'[j].key => i = j
  BY <1>1, <1>2, <1>4, AppendedPublication DEF PublicationsInv
<1>6. doc' \in DocType /\ doc'.status = "GENERATED" BY <1>1, <1>3 DEF DocType
<1>7. slow' \in SlowType /\ slow'.kind = "NONE" /\ slow'.who = Others
  BY <1>1, IdleTyped
<1>8. EditingInv' BY <1>1, <1>2, <1>3, <1>7, PublishingKeepsEditing
<1>9. lost' \in 0..MaxLost /\ lost' # 0
  BY <1>1, <1>2, PublicationsAssumption DEF PublicationsInv
<1>10. PublicationsInv'
  BY <1>1, <1>2, <1>5, <1>7, <1>9 DEF PublicationsInv
<1>11. DeliveredCanBeOpened' BY <1>6 DEF DeliveredCanBeOpened
<1> QED BY <1>8, <1>10, <1>11 DEF ReportsInv

\* A handler of PDFs or statuses ends and leaves everything as it was.
LEMMA AbandonedStep ==
    ASSUME ReportsInv, PdfFails \/ StatusFails
    PROVE  ReportsInv'
<1>1. /\ slow.kind # "edit" /\ slow' = Idle
      /\ EditorUnchanged /\ UNCHANGED <<doc, races, publicationVars>>
  BY DEF PdfFails, StatusFails
<1>2. EditingInv /\ PublicationsInv /\ DeliveredCanBeOpened BY DEF ReportsInv
<1>3. races \in 0..MaxRaces BY <1>2 DEF EditingInv, RowsTyped
<1>4. slow' \in SlowType /\ slow'.kind = "NONE" /\ slow'.who = Others
  BY <1>1, IdleTyped
<1>5. EditingInv' BY <1>1, <1>2, <1>3, <1>4, PublishingKeepsEditing
<1>6. publications' = publications /\ files' = files /\ lost' = lost
  BY <1>1 DEF publicationVars
<1>7. PublicationsInv' BY <1>2, <1>4, <1>6 DEF PublicationsInv, Keys
<1>8. DeliveredCanBeOpened' BY <1>1, <1>2, <1>6 DEF DeliveredCanBeOpened
<1> QED BY <1>5, <1>7, <1>8 DEF ReportsInv

\* A delivery or an archiving begins as the slow one.
LEMMA BeginStep ==
    ASSUME ReportsInv, NEW kind \in {"deliver", "archive"}, NEW i \in DOMAIN publications,
           kind = "archive" => publications[i].status # "DELIVERED",
           Begin(kind, i), EditorUnchanged, UNCHANGED <<races, files, lost>>
    PROVE  ReportsInv'
<1>1. /\ slow = Idle
      /\ slow' = [Idle EXCEPT !.kind = kind, !.item = i, !.status = publications[i].status,
                              !.read = doc]
      /\ UNCHANGED <<doc, publications>>
  BY DEF Begin
<1>2. EditingInv /\ PublicationsInv /\ DeliveredCanBeOpened BY DEF ReportsInv
<1>3. /\ races \in 0..MaxRaces /\ doc \in DocType
      /\ publications[i].status \in {"GENERATED", "DELIVERED", "ARCHIVED"} /\ i \in Nat
  <2>1. publications[i] \in PublicationType /\ i \in Nat BY <1>2 DEF PublicationsInv
  <2> QED BY <1>2, <2>1 DEF EditingInv, RowsTyped, PublicationType
<1>4. /\ slow' \in SlowType /\ slow'.kind = kind /\ slow'.who = Others
      /\ slow'.item = i /\ slow'.status = publications[i].status
      /\ slow.kind = "NONE"
  BY <1>1, <1>3, IdleTyped DEF SlowType
<1>5. EditingInv' BY <1>1, <1>2, <1>3, <1>4, PublishingKeepsEditing
<1>6. PublicationsInv' BY <1>1, <1>2, <1>4 DEF PublicationsInv, Keys
<1>7. DeliveredCanBeOpened' BY <1>1, <1>2 DEF DeliveredCanBeOpened
<1> QED BY <1>5, <1>6, <1>7 DEF ReportsInv

\* One publication is given a status, and the report none or that it is delivered.
\* Unless a publication with a file is delivered then, this was not a delivery, and
\* the one that was there already is another.
LEMMA StatusStep ==
    ASSUME ReportsInv, slow.kind # "edit", NEW i \in DOMAIN publications,
           NEW status \in {"GENERATED", "DELIVERED", "ARCHIVED"},
           publications' = [publications EXCEPT ![i].status = status],
           \/ doc' = doc
           \/ doc' = [doc EXCEPT !.status = "DELIVERED"],
           races' = 0 => \/ status = "DELIVERED"
                         \/ doc' = doc /\ publications[i].status # "DELIVERED",
           slow' = slow \/ slow' = Idle,
           races' \in 0..MaxRaces, races' = 0 => races = 0,
           EditorUnchanged, UNCHANGED <<files, lost>>
    PROVE  ReportsInv'
<1>1. EditingInv /\ PublicationsInv /\ DeliveredCanBeOpened BY DEF ReportsInv
<1>2. slow \in SlowType /\ slow.who = Others
  BY <1>1 DEF EditingInv, RowsTyped, SlowInv
<1>3. slow' \in SlowType /\ slow'.who = Others /\ slow'.kind # "edit"
  BY <1>2, IdleTyped
<1>4. EditingInv' BY <1>1, <1>3, PublishingKeepsEditing
<1>5. /\ publications' \in Seq(PublicationType)
      /\ DOMAIN publications' = DOMAIN publications
      /\ publications'[i].status = status
      /\ \A j \in DOMAIN publications : j # i => publications'[j] = publications[j]
      /\ \A j, k \in DOMAIN publications' :
            publications'[j].key = publications'[k].key => j = k
      /\ Keys' = Keys
  BY <1>1, StatusGiven DEF PublicationsInv
<1>6. PublicationsInv'
  <2>1. slow' = slow \/ slow'.kind = "NONE" BY IdleTyped
  <2> QED BY <1>1, <1>5, <2>1 DEF PublicationsInv
<1>7. ASSUME races' = 0, lost' = 0, doc'.status = "DELIVERED"
      PROVE  \E j \in files' : publications'[j].status = "DELIVERED"
  <2>1. races = 0 /\ lost = 0 /\ files' = files /\ files = DOMAIN publications
    BY <1>1, <1>7 DEF PublicationsInv
  <2>2. CASE status = "DELIVERED" BY <1>5, <2>1, <2>2
  <2>3. CASE doc' = doc /\ publications[i].status # "DELIVERED"
    <3>1. PICK j \in files : publications[j].status = "DELIVERED"
      BY <1>1, <1>7, <2>1, <2>3 DEF DeliveredCanBeOpened
    <3> QED BY <1>5, <2>1, <2>3, <3>1
  <2> QED BY <1>7, <2>2, <2>3
<1>8. DeliveredCanBeOpened' BY <1>7 DEF DeliveredCanBeOpened
<1> QED BY <1>4, <1>6, <1>8 DEF ReportsInv

LEMMA DeliverStep ==
    ASSUME ReportsInv, NEW i \in DOMAIN publications, Deliver(i)
    PROVE  ReportsInv'
<1>1. /\ \/ slow.kind \in {"NONE", "deliver", "archive"}
            /\ DeliveredFrom(i, publications[i].status, doc)
            /\ UNCHANGED slow
         \/ Begin("deliver", i)
      /\ EditorUnchanged /\ UNCHANGED <<races, files, lost>>
  BY DEF Deliver
<1>2. races \in 0..MaxRaces /\ doc \in DocType /\ publications \in Seq(PublicationType)
  BY DEF ReportsInv, EditingInv, RowsTyped, PublicationsInv
<1>3. CASE /\ slow.kind \in {"NONE", "deliver", "archive"}
           /\ DeliveredFrom(i, publications[i].status, doc)
           /\ UNCHANGED slow
  <2>1. publications' = [publications EXCEPT ![i].status = "DELIVERED"]
    <3>1. publications' = [publications EXCEPT ![i].status =
                              IF publications[i].status = "DELIVERED" THEN publications[i].status
                              ELSE "DELIVERED"]
      BY <1>2, <1>3 DEF DeliveredFrom
    <3>2. (IF publications[i].status = "DELIVERED" THEN publications[i].status
                                                   ELSE "DELIVERED") = "DELIVERED"
      OBVIOUS
    <3> QED BY <3>1, <3>2
  <2>2. doc' = doc \/ doc' = [doc EXCEPT !.status = "DELIVERED"]
    <3>1. doc' = [doc EXCEPT !.status = IF doc.status = "DELIVERED" THEN @ ELSE "DELIVERED"]
      BY <1>3 DEF DeliveredFrom
    <3> QED BY <1>2, <3>1 DEF DocType
  <2> QED BY <1>1, <1>2, <1>3, <2>1, <2>2, StatusStep
<1>4. CASE Begin("deliver", i) BY <1>1, <1>4, BeginStep
<1> QED BY <1>1, <1>3, <1>4

LEMMA DeliverLatestStep ==
    ASSUME ReportsInv, DeliverLatest
    PROVE  ReportsInv'
<1>1. CASE Latest = 0
  <2>1. MakePdf([deliver |-> TRUE, n |-> doc.version]) BY <1>1 DEF DeliverLatest
  <2>2. [deliver |-> TRUE, n |-> doc.version] \in KeyType
    BY DEF KeyType, ReportsInv, EditingInv, RowsTyped, DocType
  <2> QED BY <2>1, <2>2, MakePdfStep
<1>2. CASE Latest # 0
  <2>1. Deliver(Latest) BY <1>2 DEF DeliverLatest
  <2>2. Latest \in DOMAIN publications
    BY <1>2, LatestIsLive DEF ReportsInv, PublicationsInv
  <2> QED BY <2>1, <2>2, DeliverStep
<1> QED BY <1>1, <1>2

LEMMA ArchivePublicationStep ==
    ASSUME ReportsInv, NEW i \in DOMAIN publications, ArchivePublication(i)
    PROVE  ReportsInv'
<1>1. /\ publications[i].status # "DELIVERED"
      /\ \/ slow.kind # "edit"
            /\ ArchivedFrom(i, publications[i].status)
            /\ UNCHANGED <<doc, slow>>
         \/ Begin("archive", i)
      /\ EditorUnchanged /\ UNCHANGED <<races, files, lost>>
  BY DEF ArchivePublication, Archivable
<1>2. races \in 0..MaxRaces /\ publications \in Seq(PublicationType)
  BY DEF ReportsInv, EditingInv, RowsTyped, PublicationsInv
<1>3. CASE /\ slow.kind # "edit"
           /\ ArchivedFrom(i, publications[i].status)
           /\ UNCHANGED <<doc, slow>>
  <2>1. publications' = [publications EXCEPT ![i].status = "ARCHIVED"]
    <3>1. publications' = [publications EXCEPT ![i].status =
                              IF publications[i].status = "ARCHIVED" THEN publications[i].status
                              ELSE "ARCHIVED"]
      BY <1>2, <1>3 DEF ArchivedFrom
    <3>2. (IF publications[i].status = "ARCHIVED" THEN publications[i].status
                                                  ELSE "ARCHIVED") = "ARCHIVED"
      OBVIOUS
    <3> QED BY <3>1, <3>2
  <2> QED BY <1>1, <1>2, <1>3, <2>1, StatusStep
<1>4. CASE Begin("archive", i) BY <1>1, <1>4, BeginStep
<1> QED BY <1>1, <1>3, <1>4

\* The slow delivery or archiving is over.  One that was not overtaken found what it
\* had read, so it writes what it concluded.
LEMMA CommitStatusStep ==
    ASSUME ReportsInv, CommitStatus
    PROVE  ReportsInv'
<1> DEFINE i == slow.item
           kept == slow.read.status = doc.status /\ slow.status = publications[i].status
<1>1. /\ \/ slow.kind = "deliver" /\ DeliveredFrom(i, slow.status, slow.read)
         \/ slow.kind = "archive" /\ ArchivedFrom(i, slow.status) /\ UNCHANGED doc
      /\ races' = races + IF kept THEN 0 ELSE 1
      /\ races' <= MaxRaces
      /\ slow' = Idle
      /\ EditorUnchanged /\ UNCHANGED <<files, lost>>
  BY DEF CommitStatus
<1>2. EditingInv /\ PublicationsInv BY DEF ReportsInv
<1>3. /\ races \in 0..MaxRaces /\ doc \in DocType /\ publications \in Seq(PublicationType)
      /\ i \in DOMAIN publications
      /\ slow.kind = "archive" => slow.status # "DELIVERED"
  BY <1>1, <1>2 DEF EditingInv, RowsTyped, PublicationsInv
<1>4. /\ publications[i] \in PublicationType
      /\ publications[i].status \in {"GENERATED", "DELIVERED", "ARCHIVED"}
  <2>1. publications[i] \in PublicationType BY <1>3
  <2> QED BY <2>1 DEF PublicationType
<1>5. races' \in 0..MaxRaces /\ (races' = 0 => races = 0 /\ kept)
  BY <1>1, <1>3, ReportsAssumption
<1> HIDE DEF kept, i
<1>6. ASSUME NEW status \in {"DELIVERED", "ARCHIVED"},
             publications' = [publications EXCEPT ![i].status =
                                 IF slow.status = status THEN @ ELSE status]
      PROVE  \E final \in {"GENERATED", "DELIVERED", "ARCHIVED"} :
                /\ publications' = [publications EXCEPT ![i].status = final]
                /\ kept => final = status
  <2> DEFINE final == IF slow.status = status THEN publications[i].status ELSE status
  <2>1. final \in {"GENERATED", "DELIVERED", "ARCHIVED"} BY <1>4
  <2>2. publications' = [publications EXCEPT ![i].status = final] BY <1>3, <1>6
  <2>3. kept => final = status BY DEF kept
  <2> QED BY <2>1, <2>2, <2>3
<1>7. CASE slow.kind = "deliver" /\ DeliveredFrom(i, slow.status, slow.read)
  <2>1. PICK final \in {"GENERATED", "DELIVERED", "ARCHIVED"} :
           /\ publications' = [publications EXCEPT ![i].status = final]
           /\ kept => final = "DELIVERED"
    BY <1>6, <1>7 DEF DeliveredFrom
  <2>2. doc' = doc \/ doc' = [doc EXCEPT !.status = "DELIVERED"]
    <3>1. doc' = [doc EXCEPT !.status =
                     IF slow.read.status = "DELIVERED" THEN @ ELSE "DELIVERED"]
      BY <1>7 DEF DeliveredFrom
    <3> QED BY <1>3, <3>1 DEF DocType
  <2> QED BY <1>1, <1>3, <1>5, <1>7, <2>1, <2>2, StatusStep
<1>8. CASE slow.kind = "archive" /\ ArchivedFrom(i, slow.status) /\ UNCHANGED doc
  <2>1. PICK final \in {"GENERATED", "DELIVERED", "ARCHIVED"} :
           /\ publications' = [publications EXCEPT ![i].status = final]
           /\ kept => final = "ARCHIVED"
    BY <1>6, <1>8 DEF ArchivedFrom
  <2>2. kept => publications[i].status # "DELIVERED" BY <1>3, <1>8 DEF kept, i
  <2> QED BY <1>1, <1>3, <1>5, <1>8, <2>1, <2>2, StatusStep
<1> QED BY <1>1, <1>7, <1>8 DEF i

-----------------------------------------------------------------------------
(* The theorems.                                                            *)

LEMMA ReportsInit ==
    ASSUME PublicationsInit
    PROVE  ReportsInv
<1>1. /\ doc = Draft /\ source = 0 /\ revisions = <<>> /\ template = NoCanvas
      /\ loaded = [e \in Editors |-> 0] /\ stale = [e \in Editors |-> FALSE]
      /\ blind = FALSE /\ slow = Idle /\ races = 0
      /\ publications = <<>> /\ files = {} /\ lost = 0
  BY DEF PublicationsInit, EditingInit
<1>2. RowsTyped
  <2>1. MaxVersion \in Nat /\ MaxRevisions \in Nat /\ MaxRaces \in Nat
    BY ReportsAssumption
  <2>2. revisions \in Seq(DocType) /\ Len(revisions) = 0 BY <1>1
  <2>3. template \in [kind : {"NONE", "BLANK", "OWN", "AUTO"}, link : Nat]
    BY <1>1 DEF NoCanvas
  <2>4. doc \in DocType /\ PlacedOK(doc) /\ slow \in SlowType BY <1>1, IdleTyped
  <2>5. /\ loaded \in [Editors -> 0..MaxVersion] /\ stale \in [Editors -> BOOLEAN]
        /\ blind \in BOOLEAN /\ races \in 0..MaxRaces /\ source \in 0..1
    <3>1. 0 \in 0..MaxVersion /\ 0 \in 0..MaxRaces /\ 0 \in 0..1 BY <2>1
    <3> QED BY <1>1, <3>1, Zenon
  <2>6. Len(revisions) <= MaxRevisions /\ \A n \in DOMAIN revisions : PlacedOK(revisions[n])
    BY <1>1, <2>1
  <2> QED BY <2>2, <2>3, <2>4, <2>5, <2>6 DEF RowsTyped
<1>3. FiguresInv BY <1>1, IdleTyped DEF FiguresInv
<1>4. SlowInv BY <1>1, IdleTyped DEF SlowInv
<1>5. VersionsInv
  <2>1. doc.version = 1 BY <1>1 DEF Draft
  <2> QED BY <1>1, <2>1, IdleTyped DEF VersionsInv
<1>6. PublicationsInv
  <2>1. MaxLost \in Nat BY PublicationsAssumption
  <2> QED BY <1>1, <2>1, IdleTyped DEF PublicationsInv
<1>7. DeliveredCanBeOpened BY <1>1 DEF DeliveredCanBeOpened, Draft
<1> QED BY <1>2, <1>3, <1>4, <1>5, <1>6, <1>7 DEF ReportsInv, EditingInv

LEMMA ReportsStep ==
    ASSUME ReportsInv, [ReportsNext]_reportVars
    PROVE  ReportsInv'
<1>1. CASE EditingNext
  BY <1>1, EditingStep, EditingKeepsPublications DEF ReportsInv
<1>2. CASE Generate
  <2>1. PICK n \in 1..MaxRequests : MakePdf([deliver |-> FALSE, n |-> n])
    BY <1>2 DEF Generate
  <2>2. [deliver |-> FALSE, n |-> n] \in KeyType BY DEF KeyType
  <2> QED BY <2>1, <2>2, MakePdfStep
<1>3. CASE Finish BY <1>3, FinishStep
<1>4. CASE PdfFails \/ StatusFails BY <1>4, AbandonedStep
<1>5. CASE AnswerLost BY <1>5, AnswerLostStep
<1>6. CASE DeliverLatest BY <1>6, DeliverLatestStep
<1>7. CASE CommitStatus BY <1>7, CommitStatusStep
<1>8. ASSUME NEW i \in DOMAIN publications, Deliver(i) \/ ArchivePublication(i)
      PROVE  ReportsInv'
  BY <1>8, DeliverStep, ArchivePublicationStep
<1>9. CASE UNCHANGED reportVars
  <2>1. /\ UNCHANGED <<doc, source, revisions, template, loaded, stale, blind, slow, races>>
        /\ UNCHANGED <<publications, files, lost>>
    BY <1>9 DEF reportVars, publicationVars
  <2>2. EditingInv'
    BY <2>1 DEF ReportsInv, EditingInv, RowsTyped, PlacedOK, FiguresInv, Follows, SlowInv,
                NextVersion, VersionsInv
  <2>3. PublicationsInv' /\ DeliveredCanBeOpened'
    BY <2>1 DEF ReportsInv, PublicationsInv, Keys, DeliveredCanBeOpened
  <2> QED BY <2>2, <2>3 DEF ReportsInv
<1> QED
  BY <1>1, <1>2, <1>3, <1>4, <1>5, <1>6, <1>7, <1>8, <1>9 DEF ReportsNext, PublicationsNext

LEMMA ReportsInvariant == ReportsSpec => []ReportsInv
BY ReportsInit, ReportsStep, PTL DEF ReportsSpec

LEMMA InvariantSaysTypes ==
    ASSUME ReportsInv
    PROVE  ReportsTypeOK
<1>1. EditingTypeOK
  BY DEF ReportsInv, EditingInv, RowsTyped, EditingTypeOK, PlacedOK, SlowType
<1>2. ASSUME NEW i \in DOMAIN publications
      PROVE  publications[i].status \in {"GENERATED", "DELIVERED", "ARCHIVED"}
  <2>1. publications[i] \in PublicationType BY DEF ReportsInv, PublicationsInv
  <2> QED BY <2>1 DEF PublicationType
<1> QED BY <1>1, <1>2 DEF ReportsTypeOK, ReportsInv, PublicationsInv

\* The rows of a report, of its revisions and of its publications keep the values of
\* their columns, an evidence is only placed in a section that is there, and no
\* idempotency key makes two publications, whatever overlaps, fails or gets lost.
THEOREM ReportsTyped == ReportsSpec => []ReportsTypeOK
BY ReportsInvariant, InvariantSaysTypes, PTL

\* As long as no commit rests on what was overtaken, no save of an editor is accepted
\* over a version that he has not seen.
THEOREM SavesAreSeen == ReportsSpec => []SavesSeeAll
<1>1. ReportsInv => SavesSeeAll BY DEF ReportsInv, EditingInv, VersionsInv, SavesSeeAll
<1> QED BY <1>1, ReportsInvariant, PTL

\* As long as no commit rests on what was overtaken, a figure that is not overridden is
\* the automatic one, through edits, refreshes, resets, revisions and linked objects.
THEOREM FiguresAreKept == ReportsSpec => []FiguresFollowSource
<1>1. ReportsInv => FiguresFollowSource
  BY DEF ReportsInv, EditingInv, FiguresInv, Follows, FiguresFollowSource
<1> QED BY <1>1, ReportsInvariant, PTL

\* As long as no commit rests on what was overtaken and no answer gets lost, a report
\* that is shown as delivered has a delivered publication with its PDF.
THEOREM DeliveredStaysOpen == ReportsSpec => []DeliveredCanBeOpened
<1>1. ReportsInv => DeliveredCanBeOpened BY DEF ReportsInv
<1> QED BY <1>1, ReportsInvariant, PTL

==============================================================================
