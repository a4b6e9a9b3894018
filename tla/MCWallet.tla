------------------------------ MODULE MCWallet ------------------------------
(* Small instances of Wallet for TLC.                                        *)
EXTENDS Wallet, TLC

CONSTANTS w1, w2, p1, p2, p3, k1, k2

Request(op, who, to, key, amount, expected, p) ==
    [op |-> op, who |-> who, to |-> to, key |-> key, amount |-> amount,
     expected |-> expected, plan |-> p]

(* Two investors.  Key k1 is used by a deposit and by a transfer of the other *)
(* investor, k2 by two transfers in opposite directions and a withdrawal.     *)
Common ==
    {Request("deposit", 1, 1, k1, 1, 0, p1),
     Request("withdraw", 1, 1, k2, 1, 0, p1),
     Request("fund", 1, 1, k1, 1, 1, p1),
     Request("fund", 1, 1, k1, 1, 0, p2),
     Request("fund", 1, 1, k1, 2, 0, p3),
     Request("close", 1, 1, k1, 0, 0, p1),
     Request("close", 1, 1, k1, 0, 0, p3)}

Moves ==
    {Request("deposit", 1, 1, k1, 2, 0, p1),
     Request("transfer", 1, 2, k2, 1, 2, p1),
     Request("transfer", 2, 1, k1, 1, 1, p1),
     Request("withdraw", 2, 2, k2, 1, 0, p1),
     Request("delete", 2, 2, k1, 0, 0, p1)}

MCRequests == Common \cup Moves

Symmetry == Permutations({w1, w2})
=============================================================================
