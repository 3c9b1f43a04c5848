------------------------------ MODULE MCReports ------------------------------
(* Instances of ReportPublications for TLC. *)
EXTENDS ReportPublications, TLC

CONSTANTS ana, ben

MCEditors == {ana, ben}
MCSymmetry == Permutations(MCEditors)

Editing == publications = <<>> /\ slow.kind # "pdf"

BrieflyEdited ==
    /\ {doc.version, slow.new.version} \subseteq 1..2
    /\ revisions = <<>>
    /\ \E e \in Editors : \A f \in Editors \ {e} : loaded[f] = 0 /\ slow.who # f

\* Bound: a report that is published is one that was edited once, by one editor at a time.
PublishedOnceEdited == Editing \/ BrieflyEdited
=============================================================================
