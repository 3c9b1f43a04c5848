----------------------------- MODULE MCLogbooks -----------------------------
(* Two participants, both modes, and one race. *)
EXTENDS Logbooks, TLC

CONSTANTS ana, ben

\* An imported logbook is a shared one with contributions.
MCModes == {"INDIVIDUAL", "IMPORTED"}
MCSymmetry == Permutations(People)
=============================================================================
