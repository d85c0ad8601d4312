---------------------------- MODULE MCNeighborNat ----------------------------
(***************************************************************************)
(* Values of the constants of NeighborNat for model checking.              *)
(***************************************************************************)
EXTENDS NeighborNat, TLC

\* Two disjoint ranges, one that overlaps the first, and one whose exclusive
\* bound does not fit the port width.
MCRequests == {<<0, 1>>, <<1, 2>>, <<0, 2>>, <<1, 4>>}
=============================================================================
