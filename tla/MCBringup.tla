----------------------------- MODULE MCBringup -----------------------------
(* Values of the constants of Bringup for model checking. *)
EXTENDS Bringup, TLC

CONSTANTS g1, g2

MCGuests == <<g1, g2>>

\* Launches differ by their name only.
MCSymmetry == Permutations(Procs)
=============================================================================
