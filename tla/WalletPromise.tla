---------------------------- MODULE WalletPromise ----------------------------
(***************************************************************************)
(* What the wallet promises: every request takes effect at one instant, on *)
(* the balances of that instant, and no two requests of one operation key  *)
(* ever do.                                                                *)
(***************************************************************************)
EXTENDS WalletOps

VARIABLES exists, balance, plan, applied

vars == <<exists, balance, plan, applied>>

Init ==
    /\ exists = Investors
    /\ balance = [i \in Investors |-> 0]
    /\ plan = [p \in Plans |-> NoPlan]
    /\ applied = {}

(* The balance of i after request r.                                         *)
Moved(r, i, earned) ==
    CASE r.op = "deposit" /\ i = r.who  -> balance[i] + r.amount
      [] r.op = "withdraw" /\ i = r.who -> balance[i] - r.amount
      [] r.op = "transfer" /\ i = r.who -> balance[i] - r.amount
      [] r.op = "transfer" /\ i = r.to  -> balance[i] + r.amount
      [] r.op = "fund" /\ i = r.who     -> 0
      [] r.op = "close" /\ i = r.who    -> balance[i] + plan[r.plan].principal + earned
      [] OTHER                          -> balance[i]

PlanAfter(r) ==
    CASE r.op = "fund"  -> [status |-> "active", owner |-> r.who, principal |-> r.amount]
      [] r.op = "close" -> [plan[r.plan] EXCEPT !.status = "completed"]
      [] OTHER          -> plan[r.plan]

Apply(r, earned) ==
    /\ r.op # "delete"
    /\ \A a \in applied : KeyOf(a) # KeyOf(r)
    /\ InvestorsOf(r) \subseteq exists
    /\ PlanAllows(r, plan)
    /\ Admissible(r, balance, plan[r.plan].principal, earned)
    /\ applied' = applied \cup {r}
    /\ balance' = [i \in Investors |-> Moved(r, i, earned)]
    /\ plan' = [plan EXCEPT ![r.plan] = PlanAfter(r)]
    /\ UNCHANGED exists

Remove(r) ==
    /\ r.op = "delete"
    /\ r.who \in exists
    /\ PlanAllows(r, plan)
    /\ balance[r.who] = 0
    /\ exists' = exists \ {r.who}
    /\ UNCHANGED <<balance, plan, applied>>

Next == \E r \in Requests :
    Remove(r) \/ \E earned \in Savings \cup {0} : Apply(r, earned)

Spec == Init /\ [][Next]_vars
=============================================================================
