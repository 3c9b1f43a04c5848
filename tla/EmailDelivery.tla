--------------------------- MODULE EmailDelivery ----------------------------
(***************************************************************************)
(* What the document e-mail queue promises of each item it was given: the  *)
(* provider accepts it at most once, it ends, it ends as sent only when    *)
(* the provider accepted it and as prepared only when it did not, and only *)
(* a failed one can be asked for again.                                    *)
(***************************************************************************)
CONSTANT Items

VARIABLES
    stage,     \* stage[i]: "none", "pending", or how item i ended
    accepted   \* accepted[i]: whether the provider has accepted the e-mail of i

deliveryVars == <<stage, accepted>>

Ends == {"sent", "prepared", "failed"}

TypeOK ==
    /\ stage \in [Items -> Ends \cup {"none", "pending"}]
    /\ accepted \in [Items -> BOOLEAN]

Init ==
    /\ stage = [i \in Items |-> "none"]
    /\ accepted = [i \in Items |-> FALSE]

\* Items S are asked for, for the first time or after they failed.
Ask(S) ==
    /\ \A i \in S : stage[i] \in {"none", "failed"}
    /\ stage' = [i \in Items |-> IF i \in S THEN "pending" ELSE stage[i]]
    /\ UNCHANGED accepted

Accept(i) ==
    /\ stage[i] = "pending"
    /\ ~accepted[i]
    /\ accepted' = [accepted EXCEPT ![i] = TRUE]
    /\ UNCHANGED stage

Finish(i, end) ==
    /\ stage[i] = "pending"
    /\ end = "sent" => accepted[i]
    /\ end = "prepared" => ~accepted[i]
    /\ stage' = [stage EXCEPT ![i] = end]
    /\ UNCHANGED accepted

Next ==
    \/ \E S \in SUBSET Items : Ask(S)
    \/ \E i \in Items : Accept(i)
    \/ \E i \in Items, end \in Ends : Finish(i, end)

Spec == Init /\ [][Next]_deliveryVars

\* Every item that was asked for ends.
EveryItemEnds == \A i \in Items : stage[i] = "pending" ~> stage[i] \in Ends
=============================================================================
