------------------------------ MODULE MCNat64 ------------------------------
(* Instances of Nat64 for TLC. *)
EXTENDS Nat64, TLC

CONSTANTS g1, n1, p1

\* Two ranges: a guest is configured anew with other ports.
MCRanges == {<<2, 3>>, <<3, 4>>}
MCOneRange == {<<2, 4>>}
MCHash(k) == 0

MCPayloads == 0 .. Mask
MCWord(a) == CASE a = g1 -> 3 [] a = n1 -> 11 [] a = p1 -> 7 [] OTHER -> 0
MCHost(g) == 14
=============================================================================
