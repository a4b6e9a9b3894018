----------------------------- MODULE MCAgreement -----------------------------
(* Small instances of Agreement for TLC.                                     *)
EXTENDS Agreement, TLC

CONSTANTS w1, w2

Symmetry == Permutations({w1, w2})

(* What no handler reads again tells no states apart: the document of an     *)
(* agreement that is over, and the payments of a plan that is.  A cancelled  *)
(* agreement keeps what a late signature still compares, its link and tries. *)
Remembered(row) ==
    CASE row.status = "cancelled" -> [NoAgreement EXCEPT !.status = row.status, !.who = row.who,
                                          !.link = row.link, !.attempts = row.attempts]
      [] row.status = "signed"    -> [row EXCEPT !.shown = <<0, 0>>, !.principal = 0]
      [] OTHER                    -> row
RememberedPlan(row) == IF row.status = "completed"
                       THEN [NoPlan EXCEPT !.status = row.status, !.owner = row.owner] ELSE row
View == <<[a \in Agreements |-> Remembered(agreement[a])],
          [a \in Agreements |-> RememberedPlan(plan[a])], balance, lock, events, pc, job>>
=============================================================================
