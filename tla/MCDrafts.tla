------------------------------ MODULE MCDrafts ------------------------------
(* Instances of DocumentDrafts for TLC. *)
EXTENDS DocumentDrafts, TLC

CONSTANTS ana, ben, e1, e2, s1, s2

\* Two files with the same people in opposite orders.
OppositeFiles == s1 :> <<ana, ben>> @@ s2 :> <<ben, ana>>

\* Both work on one event; the other is where people may come from.
MCTargets == s1 :> {e1} @@ s2 :> {e1}

MCByHand == {<<ana, e1>>}
=============================================================================
