---------------------------- MODULE ReportEditing ----------------------------
(***************************************************************************)
(* The draft of a report: its sections, evidences, pages and revisions,    *)
(* edited by several administrators.  Whoever saves from the editor says   *)
(* which version he loaded, and is refused if the report has another now;  *)
(* pages are changed without that check.                                   *)
(*                                                                         *)
(* The check and the save are not one step in the database.  A handler may *)
(* be over before another begins, or be the slow one: it has read the      *)
(* report, and others commit before it does.                               *)
(***************************************************************************)
EXTENDS Integers, Sequences

CONSTANTS
    Editors,        \* administrators with the editor open
    MaxVersion,     \* bound on the edit_version of the report
    MaxRevisions,   \* bound on the revisions kept
    MaxOvertaken,   \* bound on the commits that overtake a slow one
    MaxRaces        \* bound on the commits that rest on what was overtaken: after
                    \* so many none is slow

ASSUME ReportsAssumption ==
    /\ 0 \notin Editors
    /\ MaxVersion \in Nat \ {0} /\ MaxRevisions \in Nat
    /\ MaxOvertaken \in Nat \ {0} /\ MaxRaces \in Nat

VARIABLES
    doc,        \* the rows of the report, its sections, evidences and pages
    source,     \* the figure that the operation of the event would give now
    revisions,  \* snapshots kept of the report
    template,   \* pages saved to be put on any report
    loaded,     \* loaded[e]: the version in e's editor, 0 when it must be loaded
    stale,      \* stale[e]: somebody else saved since e loaded the report
    blind,      \* a save of somebody whose editor was stale was accepted
    slow,       \* the transaction that is slow
    races,      \* how often it committed after others had
    publications, files, lost   \* see ReportPublications

publicationVars == <<publications, files, lost>>
reportVars == <<doc, source, revisions, template, loaded, stale, blind,
                slow, races, publicationVars>>

Others == 0     \* whoever changes the pages; no version is asked for

\* Pages are the BLANK ones of the first editor, the user's OWN, or those made from
\* the sections: AUTO, with an object linked to the section of some id.
NoCanvas == [kind |-> "NONE", link |-> 0]

\* One automatic section with one figure, perhaps a custom section, and one evidence,
\* loose or placed in the custom section.
Draft == [status |-> "DRAFT", version |-> 1,
          section |-> [id |-> 1, auto |-> 0, value |-> 0, overridden |-> FALSE],
          custom |-> "NONE", evidence |-> "NONE",
          mode |-> "AUTO", canvas |-> NoCanvas]

\* The slow one edits, publishes, delivers or archives (the last three are for
\* ReportPublications).
Idle == [kind |-> "NONE", who |-> 0, read |-> Draft, new |-> Draft,
         item |-> 0, status |-> "NONE", key |-> [deliver |-> FALSE, n |-> 0]]

EditingInit ==
    /\ doc = Draft
    /\ source = 0
    /\ revisions = <<>>
    /\ template = NoCanvas
    /\ loaded = [e \in Editors |-> 0]
    /\ stale = [e \in Editors |-> FALSE]
    /\ blind = FALSE
    /\ slow = Idle
    /\ races = 0

-----------------------------------------------------------------------------
(* What the handlers make of the report.                                    *)

Touch(d) == [d EXCEPT !.version = @ + 1]

\* update_section: what is the same as the automatic figure is not an override.
Edited(d, value) ==
    Touch([d EXCEPT !.section.value = value, !.section.overridden = (value # d.section.auto)])

\* Mutant: the merge takes the flag of the fresh field.
MergedUnflagged(s, fresh) ==
    [s EXCEPT !.auto = fresh, !.overridden = FALSE, !.value = IF s.overridden THEN @ ELSE fresh]

\* merge_preserving_overrides
Merged(s, fresh) ==
    [s EXCEPT !.auto = fresh, !.value = IF s.overridden THEN @ ELSE fresh]

\* Mutant: the evidence stays with the section that is gone.
WithoutCustomKept(d) == [d EXCEPT !.custom = "NONE"]

WithoutCustom(d) ==
    [d EXCEPT !.custom = "NONE", !.evidence = IF @ = "PLACED" THEN "LOOSE" ELSE @]

\* The sections are made anew, so that objects linked to the old ones are no longer.
Restored(d, r) ==
    [r EXCEPT !.status = d.status, !.version = d.version + 1, !.section.id = d.section.id + 1]

\* Mutant: the version tells nothing of a figure that was changed on its page.
ElementEditedUnseen(d, value) ==
    IF d.canvas.link = d.section.id
    THEN [d EXCEPT !.section.value = value, !.section.overridden = TRUE]
    ELSE d

\* An object that is changed takes its section along, if it is linked to it.
ElementEdited(d, value) ==
    Touch(IF d.canvas.link = d.section.id
          THEN [d EXCEPT !.section.value = value, !.section.overridden = TRUE]
          ELSE d)

-----------------------------------------------------------------------------
(* Transactions.                                                            *)

\* The row of the report is locked while its PDF is made.  Deliveries and archivings
\* write other columns than edits, so that their overlaps with edits are left out; and
\* a slow edit is overtaken by MaxOvertaken others at most.
Unlocked ==
    \/ slow = Idle
    \/ slow.kind = "edit" /\ doc.version < slow.read.version + MaxOvertaken

\* A commit: every other editor is stale, and who saved has to load again.
Committed(who) ==
    /\ stale' = [e \in Editors |-> e # who /\ (loaded[e] # 0 \/ slow.who = e)]
    /\ loaded' = [e \in Editors |-> IF e = who THEN 0 ELSE loaded[e]]
    /\ blind' = (blind \/ (who \in Editors /\ stale[who]))

\* Somebody makes the report new, at once or as the slow one.
Handle(who, new) ==
    /\ doc.status # "ARCHIVED"
    /\ new.version <= MaxVersion
    /\ \/ /\ Unlocked
          /\ doc' = new
          /\ Committed(who)
          /\ UNCHANGED slow
       \/ /\ slow = Idle /\ races < MaxRaces
          /\ slow' = [Idle EXCEPT !.kind = "edit", !.who = who, !.read = doc, !.new = new]
          /\ UNCHANGED <<doc, loaded, stale, blind>>
    /\ UNCHANGED <<source, revisions, template, races, publicationVars>>

\* _assert_editable: the version that was loaded is that of the report.
Editable(e) == loaded[e] = doc.version

Save(e, new) == Editable(e) /\ Handle(e, new)

\* The slow one writes what it found otherwise, its version among it, and fails when
\* rows that it changes are no longer there, or those that it adds are.
Commit ==
    /\ slow.kind = "edit"
    /\ LET read == slow.read
           new == slow.new
           Kept(a, b) == a = b
       IN /\ Kept(read.section.id, doc.section.id) \/ ~Kept(read.section.id, new.section.id)
                                                   \/ Kept(read.section, new.section)
          /\ Kept(read.custom, new.custom) \/ (read.custom = "NONE") = (doc.custom = "NONE")
          /\ Kept(read.evidence, new.evidence) \/ (read.evidence = "NONE") = (doc.evidence = "NONE")
          /\ LET written == [f \in DOMAIN doc |-> IF Kept(read[f], new[f]) THEN doc[f] ELSE new[f]]
             IN doc' = IF written.custom = "NONE" THEN WithoutCustom(written) ELSE written
          /\ races' = races + IF Kept(read, doc) THEN 0 ELSE 1
    /\ Committed(slow.who)
    /\ slow' = Idle
    /\ UNCHANGED <<source, revisions, template, publicationVars>>

\* The slow one is refused by the database, or dies.
Fail ==
    /\ slow.kind = "edit"
    /\ slow' = Idle
    /\ UNCHANGED <<doc, source, revisions, template, loaded, stale, blind, races,
                   publicationVars>>

-----------------------------------------------------------------------------
(* The editor.                                                              *)

Load(e) ==
    /\ doc.status # "ARCHIVED" /\ slow.who # e
    /\ loaded' = [loaded EXCEPT ![e] = doc.version]
    /\ stale' = [stale EXCEPT ![e] = FALSE]
    /\ UNCHANGED <<doc, source, revisions, template, blind, slow, races, publicationVars>>

\* The operation of the event goes on.
SourceChanges ==
    /\ slow = Idle /\ source = 0
    /\ source' = 1
    /\ UNCHANGED <<doc, revisions, template, loaded, stale, blind, slow, races,
                   publicationVars>>

\* Title, summary, theme; the order of the sections.
UpdateReport(e) == Save(e, Touch(doc))

UpdateSection(e) == \E value \in 0..2 : Save(e, Edited(doc, value))

AddCustomSection(e) == doc.custom = "NONE" /\ Save(e, Touch([doc EXCEPT !.custom = "THERE"]))

RemoveCustomSection(e) == doc.custom # "NONE" /\ Save(e, Touch(WithoutCustom(doc)))

Refresh(e) == Save(e, Touch([doc EXCEPT !.section = Merged(@, source)]))

ResetField(e) == Save(e, Edited(doc, doc.section.auto))

Places == IF doc.custom = "NONE" THEN {"LOOSE"} ELSE {"LOOSE", "PLACED"}

AddEvidence(e) ==
    /\ doc.evidence = "NONE"
    /\ \E place \in Places : Save(e, Touch([doc EXCEPT !.evidence = place]))

UpdateEvidence(e) ==
    /\ doc.evidence # "NONE"
    /\ \E place \in Places : Save(e, Touch([doc EXCEPT !.evidence = place]))

RemoveEvidence(e) ==
    /\ doc.evidence # "NONE"
    /\ Save(e, Touch([doc EXCEPT !.evidence = "NONE"]))

\* A snapshot is kept, and that is a new version.
Keep(e) ==
    /\ Editable(e) /\ Unlocked
    /\ doc.status # "ARCHIVED" /\ doc.version < MaxVersion
    /\ Len(revisions) < MaxRevisions
    /\ revisions' = Append(revisions, doc)
    /\ doc' = Touch(doc)

CreateRevision(e) ==
    /\ Keep(e)
    /\ Committed(e)
    /\ UNCHANGED <<source, template, slow, races, publicationVars>>

RestoreRevision(e) ==
    \E i \in DOMAIN revisions : Save(e, Restored(doc, revisions[i]))

\* What an assistant proposed is applied: a revision is committed first, the rest
\* later, from the rows that were read and without asking for the version again.  The
\* proposal may turn out not to fit, and then the revision is all there is.
ApplyProposal(e) ==
    /\ slow = Idle /\ races < MaxRaces /\ doc.version + 1 < MaxVersion
    /\ Keep(e)
    /\ Committed(e)
    /\ \E place \in IF doc.evidence = "NONE" THEN {"NONE"} ELSE Places :
          slow' = [Idle EXCEPT !.kind = "edit", !.who = e, !.read = doc',
                               !.new = Touch([doc' EXCEPT !.evidence = place])]
    /\ UNCHANGED <<source, template, races, publicationVars>>

-----------------------------------------------------------------------------
(* The pages.                                                               *)

\* Where things stand on the automatic pages.
Override == doc.mode = "AUTO" /\ Handle(Others, Touch(doc))

\* The row of the report is locked first, so this one never rests on what was
\* overtaken.  Pages that somebody made his own stay.
MaterializeAuto ==
    /\ Unlocked
    /\ doc.status # "ARCHIVED" /\ doc.version < MaxVersion
    /\ doc.canvas.kind \in {"NONE", "BLANK"}
    /\ doc' = Touch([doc EXCEPT !.mode = "FREEFORM",
                                !.canvas = [kind |-> "AUTO", link |-> doc.section.id]])
    /\ Committed(Others)
    /\ UNCHANGED <<source, revisions, template, slow, races, publicationVars>>

CreatePage ==
    Handle(Others, Touch([doc EXCEPT !.mode = "FREEFORM",
                                     !.canvas.kind = IF @ = "NONE" THEN "BLANK" ELSE @]))

\* Without the last page the report is laid out automatically again.
DeletePage ==
    /\ doc.canvas.kind # "NONE"
    /\ \/ Handle(Others, Touch([doc EXCEPT !.mode = "AUTO", !.canvas = NoCanvas]))
       \/ Handle(Others, Touch(doc))

\* Shapes alone do not make a page one's own.
CreateElement ==
    /\ doc.canvas.kind # "NONE"
    /\ \E kind \in {doc.canvas.kind, IF doc.canvas.kind = "BLANK" THEN "OWN" ELSE doc.canvas.kind} :
          Handle(Others, Touch([doc EXCEPT !.canvas.kind = kind]))

UpdateElement ==
    /\ doc.canvas.kind = "AUTO"
    /\ \E value \in 0..2 : Handle(Others, ElementEdited(doc, value))

DeleteElement ==
    /\ doc.canvas.kind \in {"OWN", "AUTO"}
    /\ Handle(Others, Touch([doc EXCEPT !.canvas.link = 0]))

SaveTemplate ==
    /\ slow = Idle
    /\ doc.status # "ARCHIVED"
    /\ doc.canvas.kind # "NONE"
    /\ template' = doc.canvas
    /\ UNCHANGED <<doc, source, revisions, loaded, stale, blind, slow, races,
                   publicationVars>>

\* This one changes the pages without making a version of it, so that nobody who has
\* loaded the report before is refused.
ApplyTemplate ==
    /\ Unlocked
    /\ doc.status # "ARCHIVED"
    /\ template # NoCanvas
    /\ doc' = [doc EXCEPT !.mode = "FREEFORM", !.canvas = template]
    /\ UNCHANGED <<source, revisions, template, loaded, stale, blind, slow, races, publicationVars>>

\* A report that is deleted is archived.
ArchiveReport ==
    /\ Unlocked
    /\ doc.status # "ARCHIVED"
    /\ doc' = [doc EXCEPT !.status = "ARCHIVED"]
    /\ UNCHANGED <<source, revisions, template, loaded, stale, blind, slow, races,
                   publicationVars>>

EditingNext ==
    \/ SourceChanges \/ Commit \/ Fail
    \/ Override \/ MaterializeAuto \/ CreatePage \/ DeletePage
    \/ CreateElement \/ UpdateElement \/ DeleteElement
    \/ SaveTemplate \/ ApplyTemplate \/ ArchiveReport
    \/ \E e \in Editors :
          \/ Load(e) \/ UpdateReport(e) \/ UpdateSection(e)
          \/ AddCustomSection(e) \/ RemoveCustomSection(e)
          \/ Refresh(e) \/ ResetField(e)
          \/ AddEvidence(e) \/ UpdateEvidence(e) \/ RemoveEvidence(e)
          \/ CreateRevision(e) \/ RestoreRevision(e) \/ ApplyProposal(e)

-----------------------------------------------------------------------------
(* Properties.                                                              *)

DocType ==
    [status : {"DRAFT", "GENERATED", "DELIVERED", "ARCHIVED"},
     version : 1..MaxVersion,
     section : [id : Nat \ {0}, auto : 0..1, value : 0..2, overridden : BOOLEAN],
     custom : {"NONE", "THERE"},
     evidence : {"NONE", "LOOSE", "PLACED"},
     mode : {"AUTO", "FREEFORM"},
     canvas : [kind : {"NONE", "BLANK", "OWN", "AUTO"}, link : Nat]]

\* The rows have the values of their columns, and an evidence is placed in a section
\* that is there.
EditingTypeOK ==
    /\ doc \in DocType
    /\ doc.evidence = "PLACED" => doc.custom # "NONE"
    /\ source \in 0..1
    /\ \A i \in DOMAIN revisions : revisions[i] \in DocType
    /\ Len(revisions) <= MaxRevisions
    /\ loaded \in [Editors -> 0..MaxVersion]
    /\ stale \in [Editors -> BOOLEAN]
    /\ slow.read \in DocType /\ slow.new \in DocType
    /\ races \in 0..MaxRaces

\* Nobody's save is accepted over another's that he has not seen, from the editor or
\* from a page that is linked to a section, as long as handlers do not overlap.  That is
\* said of the saves that make a version.  The pages that a template puts make none: an
\* editor that was loaded before them is not refused.  report_builder_service.py:264-268
SavesSeeAll == races = 0 => ~blind

\* A figure that nobody overrode is the one of the operation when the report was last
\* refreshed, through edits, resets, restored revisions and linked pages.
FiguresFollowSource ==
    races = 0 => (doc.section.overridden \/ doc.section.value = doc.section.auto)
=============================================================================
