------------------------------- MODULE MCTopup -------------------------------
(* Small instances of Topup for TLC.                                         *)
EXTENDS Topup, TLC

CONSTANTS w1, w2

Symmetry == Permutations({w1, w2})
=============================================================================
