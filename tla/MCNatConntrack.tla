--------------------------- MODULE MCNatConntrack ---------------------------
(***************************************************************************)
(* Values of the constants of NatConntrack for model checking.             *)
(***************************************************************************)
EXTENDS NatConntrack, TLC

\* Two disjoint ranges: two guests can share the address.
MCRanges == {<<2, 3>>, <<3, 4>>}
MCOneRange == {<<2, 4>>}

\* All flows collide on the first port of the range: every allocation that
\* meets a live flow has to probe.
MCHash(k) == 0

\* Guests, and CPUs, are interchangeable in the safety runs.
MCSymmetry == Permutations(Guests) \cup Permutations(Cpus)
=============================================================================
