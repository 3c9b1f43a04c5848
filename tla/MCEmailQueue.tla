---------------------------- MODULE MCEmailQueue ----------------------------
(* Instances of DocumentEmailQueue for TLC. *)
EXTENDS DocumentEmailQueue

CONSTANTS p1, r1

\* Two batches for the same pair.
TwoBatches == {<<1, p1>>, <<2, p1>>}

\* Bound: requests overlap and workers die while there is one batch, and not when a
\* second is there for the same pair, of which one is retried once.
OverlapOnFirstBatch ==
    batch_status[2] # "ABSENT" =>
        /\ retries <= 1 /\ crashes = 0
        /\ \A r \in Requests : Live(r) => r = r1
=============================================================================
