------------------------------ MODULE WalletOps ------------------------------
(***************************************************************************)
(* The operations of services/wallet_service.py as requests: what a client *)
(* or a signed agreement asks for, the operation keys that make a request  *)
(* apply once, and the conditions under which an operation is refused.     *)
(* WalletPromise says when an operation takes effect; Wallet says how the  *)
(* transactions of the code bring that about.                              *)
(***************************************************************************)
EXTENDS Integers

CONSTANTS
    Investors,    \* ids of investors, positive integers
    Plans,        \* ids of plans; plan p is the one agreement p opens
    OpKeys,       \* operation keys that clients choose
    Requests,     \* the requests that may be sent
    Savings,      \* savings a plan may have earned when it is closed
    MaxBalance    \* 2_000_000_000 cents in the code

Ops == {"deposit", "withdraw", "transfer", "fund", "close", "delete"}

(* who: the investor; to: the recipient of a transfer; expected: the balance *)
(* the request was prepared for (a transfer's expected_source_balance, an    *)
(* opening agreement's available_balance); amount: the money moved, which    *)
(* for an opening is the declared principal; plan: opened or closed.         *)
RequestType == [op: Ops, who: Investors, to: Investors, key: OpKeys,
                amount: Nat, expected: Nat, plan: Plans]

ASSUME InvestorsAreIds == Investors \subseteq Nat \ {0}
ASSUME RequestsTyped == Requests \subseteq RequestType
(* transfer refuses two equal investors before anything else.                *)
ASSUME TransfersMove == \A r \in Requests : r.op = "transfer" => r.to # r.who
(* The terms of an agreement do not change: one request opens a given plan.  *)
ASSUME OneOpeningPerPlan == \A r, s \in Requests :
    r.op = "fund" /\ s.op = "fund" /\ r.plan = s.plan => r = s
ASSUME SavingsNat == Savings \subseteq Nat
ASSUME MaxBalanceNat == MaxBalance \in Nat

-----------------------------------------------------------------------------
(* Operation keys share one unique column, in disjoint namespaces.           *)

Key(ns, id) == [ns |-> ns, id |-> id]

KeyOf(r) ==
    CASE r.op = "fund"  -> Key("agreement", r.plan)
      [] r.op = "close" -> Key("close", r.plan)
      [] OTHER          -> Key("op", r.key)

(* The key of the second entry that a transfer or an opening inserts.        *)
SecondKeyOf(r) ==
    IF r.op = "fund" THEN Key("deposit", r.plan) ELSE Key("in", r.key)

InvestorsOf(r) == IF r.op = "transfer" THEN {r.who, r.to} ELSE {r.who}

PlanStatus == {"none", "active", "completed"}
NoPlan == [status |-> "none", owner |-> 0, principal |-> 0]

(* require_no_current_plan looks for an active plan of the investor in the   *)
(* table of plans pl.                                                        *)
CurrentPlanIn(pl, i) == \E p \in Plans : pl[p].status = "active" /\ pl[p].owner = i

(* The bound of cents and of movement on every amount and balance.           *)
(* Mutant: off by one at the limit.                                          *)
FitsOffByOne(value) == value <= MaxBalance + 1
Fits(value) == value <= MaxBalance

(* The refusals that depend on the balances bal: those of transfer and       *)
(* fund_plan, and the two bounds of movement.                                *)
Admissible(r, bal, principal, earned) ==
    CASE r.op = "deposit"  -> r.amount > 0 /\ Fits(bal[r.who] + r.amount)
      [] r.op = "withdraw" -> r.amount > 0 /\ bal[r.who] - r.amount >= 0
      [] r.op = "transfer" -> /\ r.amount > 0
                              /\ bal[r.who] = r.expected
                              /\ r.amount <= bal[r.who]
                              /\ Fits(bal[r.to] + r.amount)
      [] r.op = "fund"     -> /\ r.amount > 0
                              /\ bal[r.who] = r.expected
                              /\ r.expected <= r.amount
                              /\ Fits(r.amount)
      [] r.op = "close"    -> Fits(bal[r.who] + principal + earned)
      [] OTHER             -> bal[r.who] = 0

(* The refusals that depend on the plans.  delete keeps an investor whose    *)
(* money went into a plan: its agreements and closings are history.          *)
PlanAllows(r, pl) ==
    CASE r.op = "fund"   -> /\ ~CurrentPlanIn(pl, r.who)
                            /\ pl[r.plan].status = "none"
      [] r.op = "close"  -> /\ pl[r.plan].status = "active"
                            /\ pl[r.plan].owner = r.who
      [] r.op = "delete" -> \A p \in Plans : pl[p].owner # r.who
      [] OTHER           -> TRUE
=============================================================================
