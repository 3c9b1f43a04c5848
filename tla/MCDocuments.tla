---------------------------- MODULE MCDocuments -----------------------------
(* Instances of ManagedDocuments for TLC. *)
EXTENDS ManagedDocuments, TLC

CONSTANTS c1, c2, c3, e1, t1, t2

\* A contract and the EPP record of the same person.
OnePair == c1 :> e1

\* Contracts of persons without an EPP record.
NoPair == <<>>

\* The sessions are alike.
SessionsAlike == Permutations({t1, t2})
=============================================================================
