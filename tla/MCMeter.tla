------------------------------ MODULE MCMeter ------------------------------
(* Values of the constants of Meter for model checking. *)
EXTENDS Meter, TLC

MCRequests == {<<0, 0>>, <<1, 0>>, <<1, 1>>}
=============================================================================
