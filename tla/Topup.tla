-------------------------------- MODULE Topup --------------------------------
(***************************************************************************)
(* An investor's request for a further plan (InvestmentTopupRequest): the  *)
(* request, the contract a manager offers for it, the two signatures, and  *)
(* the reversal in the cooling off days.  Services create_topup_request to *)
(* reverse_topup_investment and their handlers in api/v1/investments.py.   *)
(*                                                                         *)
(* A handler loads the request without a lock (Load), decides on the row   *)
(* it loaded and writes the columns it changed, of the row as it then is.  *)
(* Only a signature that completes the contract locks the investor.        *)
(***************************************************************************)
EXTENDS Naturals

CONSTANTS
    Investors, Workers,
    Requests, Plans,   \* ids, in the order in which they are given
    Terms,             \* what a manager may offer
    NoWorker, NoJob

ASSUME IdsArePositive == Requests \cup Plans \cup Terms \subseteq Nat \ {0}
ASSUME InvestorsNat == Investors \subseteq Nat \ {0}
ASSUME Fresh == NoWorker \notin Workers

VARIABLES
    request,  \* the InvestmentTopupRequest rows
    plan,     \* the InvestmentPlan rows
    funded,   \* whether an investor has available balance
    lock,     \* who holds each investor's row
    pc, job   \* the stage of each handler, and what it does with what it loaded

vars == <<request, plan, funded, lock, pc, job>>

NoRequest == [status |-> "none", who |-> 0, terms |-> 0, manager |-> FALSE,
              investor |-> FALSE, plan |-> 0, window |-> FALSE]
NoPlan == [status |-> "none", owner |-> 0, request |-> 0]

Init ==
    /\ request = [r \in Requests |-> NoRequest]
    /\ plan = [p \in Plans |-> NoPlan]
    /\ funded = [i \in Investors |-> FALSE]
    /\ lock = [i \in Investors |-> NoWorker]
    /\ pc = [w \in Workers |-> "idle"]
    /\ job = [w \in Workers |-> NoJob]

-----------------------------------------------------------------------------
Open(row) == row.status \in {"pending", "contract"}
Signed(row) == row.manager \/ row.investor

Least(ids) == CHOOSE n \in ids : \A m \in ids : n <= m
UnusedRequests == {r \in Requests : request[r].status = "none"}
UnusedPlans    == {p \in Plans : plan[p].status = "none"}

(* require_no_current_plan                                                   *)
(* Mutant: a current plan is overlooked.                                     *)
NoPlanFound(i) == FALSE
CurrentPlan(i) == \E p \in Plans : plan[p].status = "active" /\ plan[p].owner = i

(* The checks of each service on the row it is given.  side is the party of  *)
(* a signature: a manager signs for the manager, anyone else as the investor.*)
Allows(op, row, side) ==
    CASE op = "offer"   -> Open(row) /\ ~Signed(row)
      [] op = "sign"    -> row.status = "contract" /\ ~row[side]
      [] op = "reverse" -> /\ row.status = "executed" /\ row.window
                           /\ plan[row.plan].status = "active"
      [] OTHER          -> Open(row)

(* Mutant: the first signature executes the contract.                        *)
AnySignature(row, side) == TRUE
Completes(row, side) == IF side = "manager" THEN row.investor ELSE row.manager

Goto(w, stage) == pc' = [pc EXCEPT ![w] = stage]

(* COMMIT or ROLLBACK.                                                       *)
Done(w) ==
    /\ Goto(w, "idle")
    /\ job' = [job EXCEPT ![w] = NoJob]
    /\ lock' = [i \in Investors |-> IF lock[i] = w THEN NoWorker ELSE lock[i]]

(* create_topup_request finds no open request of the investor.               *)
LoadNone(w) == \E i \in Investors :
    /\ pc[w] = "idle"
    /\ \A r \in Requests : Open(request[r]) => request[r].who # i
    /\ job' = [job EXCEPT ![w] = [op |-> "create", r |-> 0, side |-> "investor",
                                  row |-> [NoRequest EXCEPT !.who = i]]]
    /\ Goto(w, "write")
    /\ UNCHANGED <<request, plan, funded, lock>>

Load(w) == \E r \in Requests, side \in {"manager", "investor"},
              op \in {"cancel", "reject", "offer", "sign", "reverse"} :
    /\ pc[w] = "idle"
    /\ request[r].status # "none"
    /\ side = "investor" => op \in {"cancel", "sign", "reverse"}
    /\ Allows(op, request[r], side)
    /\ job' = [job EXCEPT ![w] = [op |-> op, r |-> r, side |-> side, row |-> request[r]]]
    /\ Goto(w, IF op = "sign" /\ Completes(request[r], side) THEN "lock" ELSE "write")
    /\ UNCHANGED <<request, plan, funded, lock>>

(* Another refusal (a date that has passed, an amount, a missing name) or a  *)
(* failure before COMMIT.                                                    *)
RollBack(w) ==
    /\ pc[w] # "idle"
    /\ Done(w)
    /\ UNCHANGED <<request, plan, funded>>

-----------------------------------------------------------------------------
(* Commits of what was decided on the loaded row.                            *)
Writes(w, ops) ==
    /\ pc[w] = "write" /\ job[w].op \in ops
    /\ Done(w)

(* The new row refers to the investor's, and waits while that one is locked. *)
Create(w) == LET i == job[w].row.who IN
    /\ Writes(w, {"create"})
    /\ lock[i] = NoWorker
    /\ UnusedRequests # {}
    /\ request' = [request EXCEPT ![Least(UnusedRequests)] =
                     [NoRequest EXCEPT !.status = "pending", !.who = i]]
    /\ UNCHANGED <<plan, funded>>

Outcome(op) == IF op = "reject" THEN "rejected" ELSE "cancelled"

CancelOrReject(w) ==
    /\ Writes(w, {"cancel", "reject"})
    /\ request' = [request EXCEPT ![job[w].r].status = Outcome(job[w].op)]
    /\ UNCHANGED <<plan, funded>>

(* The session writes a column only when its value differs from the loaded   *)
(* one: a status that was "contract", and signatures that were absent when   *)
(* _clear_contract_signatures ran, stay as they are now.                     *)
Column(now, loaded, new) == IF new = loaded THEN now ELSE new
(* Mutant: the signatures are cleared whatever was loaded.                   *)
ClearedColumn(now, loaded) == FALSE
SignatureColumn(now, loaded) == Column(now, loaded, FALSE)

Offer(w) == \E terms \in Terms :
    LET was == job[w].row
        now == request[job[w].r] IN
    /\ Writes(w, {"offer"})
    /\ request' = [request EXCEPT ![job[w].r] =
         [now EXCEPT !.status = Column(now.status, was.status, "contract"),
                     !.terms = Column(now.terms, was.terms, terms),
                     !.manager = SignatureColumn(now.manager, was.manager),
                     !.investor = SignatureColumn(now.investor, was.investor)]]
    /\ UNCHANGED <<plan, funded>>

FirstSignature(w) ==
    /\ Writes(w, {"sign"})
    /\ request' = [request EXCEPT ![job[w].r][job[w].side] = TRUE]
    /\ UNCHANGED <<plan, funded>>

Reverse(w) ==
    /\ Writes(w, {"reverse"})
    /\ plan' = [plan EXCEPT ![job[w].row.plan].status = "completed"]
    /\ request' = [request EXCEPT ![job[w].r].status = "reversed"]
    /\ UNCHANGED funded

-----------------------------------------------------------------------------
(* _execute_signed_contract: lock the investor, check, open the plan.        *)
Acquire(w) ==
    /\ pc[w] = "lock"
    /\ lock[job[w].row.who] = NoWorker
    /\ lock' = [lock EXCEPT ![job[w].row.who] = w]
    /\ UNCHANGED <<request, plan, funded, pc, job>>

(* Mutant: the lock of the investor is not awaited.                          *)
LockIgnored(w) == TRUE
Locked(w) == lock[job[w].row.who] = w

Check(w) ==
    /\ pc[w] = "lock" /\ Locked(w)
    /\ ~CurrentPlan(job[w].row.who)
    /\ ~funded[job[w].row.who]
    /\ Goto(w, "open")
    /\ UNCHANGED <<request, plan, funded, lock, job>>

Execute(w) == LET r == job[w].r IN
    /\ pc[w] = "open"
    /\ UnusedPlans # {}
    /\ plan' = [plan EXCEPT ![Least(UnusedPlans)] =
                  [status |-> "active", owner |-> job[w].row.who, request |-> r]]
    /\ request' = [request EXCEPT ![r] =
                     [@ EXCEPT !.status = "executed", !.plan = Least(UnusedPlans),
                               !.window = TRUE, ![job[w].side] = TRUE]]
    /\ Done(w)
    /\ UNCHANGED funded

-----------------------------------------------------------------------------
(* Around: signed agreements open and close plans, the wallet moves money,   *)
(* each under the lock of the investor; the three business days pass.        *)
OpenPlan(i) ==
    /\ lock[i] = NoWorker
    /\ ~CurrentPlan(i)
    /\ UnusedPlans # {}
    /\ plan' = [plan EXCEPT ![Least(UnusedPlans)] =
                  [status |-> "active", owner |-> i, request |-> 0]]
    /\ funded' = [funded EXCEPT ![i] = FALSE]
    /\ UNCHANGED <<request, lock, pc, job>>

ClosePlan(p) ==
    /\ plan[p].status = "active"
    /\ lock[plan[p].owner] = NoWorker
    /\ plan' = [plan EXCEPT ![p].status = "completed"]
    /\ funded' = [funded EXCEPT ![plan[p].owner] = TRUE]
    /\ UNCHANGED <<request, lock, pc, job>>

MoveMoney(i) ==
    /\ lock[i] = NoWorker
    /\ funded' = [funded EXCEPT ![i] = ~@]
    /\ UNCHANGED <<request, plan, lock, pc, job>>

WindowEnds(r) ==
    /\ request[r].window
    /\ request' = [request EXCEPT ![r].window = FALSE]
    /\ UNCHANGED <<plan, funded, lock, pc, job>>

Handle(w) ==
    \/ LoadNone(w) \/ Load(w) \/ RollBack(w)
    \/ Create(w) \/ CancelOrReject(w) \/ Offer(w) \/ FirstSignature(w) \/ Reverse(w)
    \/ Acquire(w) \/ Check(w) \/ Execute(w)

Next == \/ \E w \in Workers : Handle(w)
        \/ \E i \in Investors : OpenPlan(i) \/ MoveMoney(i)
        \/ \E p \in Plans : ClosePlan(p)
        \/ \E r \in Requests : WindowEnds(r)

Spec == Init /\ [][Next]_vars

-----------------------------------------------------------------------------
(* An investor has one current plan, whether contracts of two requests, the  *)
(* same contract signed twice, or an agreement opens it.                     *)
OneCurrentPlan == \A p, q \in Plans :
    /\ plan[p].status = "active" /\ plan[q].status = "active"
    /\ plan[p].owner = plan[q].owner
    => p = q

(* A running plan that a contract opened is the plan of its request, and the *)
(* contract bears both signatures.                                           *)
PlanHasItsRequest == \A p \in Plans :
    plan[p].status = "active" /\ plan[p].request # 0 =>
        LET row == request[plan[p].request] IN
        row.plan = p /\ row.manager /\ row.investor

(* No contract opens a plan beside available balance, which a new plan would *)
(* have to include.                                                          *)
OpensOnEmptyBalance == [][\A p \in Plans :
    plan[p].status = "none" /\ plan'[p].request # 0 => ~funded[plan'[p].owner]]_vars

(* A signature is never erased, also by an offer prepared before it.         *)
SignaturesStay == [][\A r \in Requests :
    /\ request[r].manager => request'[r].manager
    /\ request[r].investor => request'[r].investor]_vars

(* "The terms cannot be changed once signing has begun."                     *)
TermsFrozen == [][\A r \in Requests :
    Signed(request[r]) => request'[r].terms = request[r].terms]_vars

(* "Only a pending request, or a contract not executed yet, can be           *)
(* cancelled": an executed one is only ever reversed.                        *)
ExecutedStays == [][\A r \in Requests :
    request[r].status = "executed" => request'[r].status \in {"executed", "reversed"}]_vars

(* "Both signatures are complete: the plan was executed."                    *)
BothSignedExecuted == \A r \in Requests :
    request[r].manager /\ request[r].investor => request[r].plan # 0
=============================================================================
