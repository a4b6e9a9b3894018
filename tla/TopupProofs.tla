----------------------------- MODULE TopupProofs -----------------------------
(***************************************************************************)
(* Proofs about Topup, for any number of investors, requests, plans, terms *)
(* and handlers: what survives handlers that decide on rows they read      *)
(* without a lock.                                                         *)
(***************************************************************************)
EXTENDS Topup, WellFoundedInduction, TLAPS

Sides == {"manager", "investor"}
Ops == {"create", "cancel", "reject", "offer", "sign", "reverse"}
Row == [status : {"none", "pending", "contract", "executed", "rejected", "cancelled", "reversed"},
        who : Investors \cup {0}, terms : Terms \cup {0},
        manager : BOOLEAN, investor : BOOLEAN, plan : Plans \cup {0}, window : BOOLEAN]
Job == [op : Ops, r : Requests \cup {0}, side : Sides, row : Row]
Types ==
    /\ request \in [Requests -> Row]
    /\ plan \in [Plans -> [status : {"none", "active", "completed"},
                           owner : Investors \cup {0}, request : Requests \cup {0}]]
    /\ funded \in [Investors -> BOOLEAN]
    /\ lock \in [Investors -> Workers \cup {NoWorker}]
    /\ pc \in [Workers -> {"idle", "write", "lock", "open"}]
    /\ job \in [Workers -> Job \cup {NoJob}]

(* A row that has not been given out bears no signature.                     *)
UnusedUnsigned == \A r \in Requests :
    IF request[r].status = "none" THEN ~Signed(request[r]) ELSE request[r].who \in Investors

(* A plan belongs to the investor of its request.                            *)
PlanOfRequest == \A p \in Plans :
    /\ plan[p].status = "none" => plan[p].request = 0
    /\ plan[p].request # 0 => /\ request[plan[p].request].status # "none"
                              /\ plan[p].owner = request[plan[p].request].who

(* What a handler loaded that no other changes: whose request it is; and the *)
(* signatures, which are only ever added.                                    *)
JobStands(w) ==
    /\ job[w] \in Job /\ job[w].row.who \in Investors
    /\ job[w].op # "create" => /\ job[w].r \in Requests
                               /\ request[job[w].r].status # "none"
                               /\ request[job[w].r].who = job[w].row.who
    /\ job[w].op = "offer" => ~job[w].row.manager /\ ~job[w].row.investor
    /\ pc[w] \in {"lock", "open"} =>
          /\ job[w].op = "sign"
          /\ job[w].side = "manager" => request[job[w].r].investor
          /\ job[w].side = "investor" => request[job[w].r].manager
JobsStand == \A w \in Workers : pc[w] # "idle" => JobStands(w)

(* From its check to its commit an execution keeps the investor without a    *)
(* plan and without available balance.                                       *)
Vacant(i, plans) == \A p \in Plans : plans[p].status = "active" => plans[p].owner # i
Guarded == \A w \in Workers : pc[w] = "open" =>
    LET i == job[w].row.who IN lock[i] = w /\ Vacant(i, plan) /\ ~funded[i]

IInv == /\ Types /\ UnusedUnsigned /\ PlanOfRequest /\ JobsStand /\ Guarded
        /\ OneCurrentPlan /\ PlanHasItsRequest

USE IdsArePositive, InvestorsNat, Fresh

-----------------------------------------------------------------------------
(* The natural numbers are well founded, so the least id exists.             *)
LEMMA LeastIn == ASSUME NEW ids, ids \subseteq Nat, ids # {} PROVE Least(ids) \in ids
  <1>1. \E n \in ids : \A m \in ids : n <= m
    <2> DEFINE R == OpToRel(<, Nat)
    <2>1. IsWellFoundedOn(R, Nat)
      BY NatLessThanWellFounded
    <2>2. \A x, y \in Nat : <<y, x>> \in R <=> y < x
      BY DEF OpToRel
    <2> HIDE DEF R
    <2>3. PICK n \in ids : \A m \in ids : ~(<<m, n>> \in R)
      BY <2>1, WFMin
    <2>4. \A m \in ids : n \in Nat /\ m \in Nat /\ ~(m < n)
      BY <2>2, <2>3
    <2>5. \A m \in ids : n <= m
      BY <2>4
    <2> QED BY <2>5
  <1> QED BY <1>1 DEF Least

LEMMA FreshRequest == ASSUME UnusedRequests # {}
    PROVE Least(UnusedRequests) \in Requests /\ request[Least(UnusedRequests)].status = "none"
  <1>1. Least(UnusedRequests) \in UnusedRequests
    BY LeastIn DEF UnusedRequests
  <1> QED BY <1>1 DEF UnusedRequests

LEMMA FreshPlan == ASSUME UnusedPlans # {}
    PROVE Least(UnusedPlans) \in Plans /\ plan[Least(UnusedPlans)].status = "none"
  <1>1. Least(UnusedPlans) \in UnusedPlans
    BY LeastIn DEF UnusedPlans
  <1> QED BY <1>1 DEF UnusedPlans

-----------------------------------------------------------------------------
(* What a step does to the requests, to the plans and to the handlers.       *)
Adds == \A r \in Requests :
    /\ request'[r].status = "none" => request[r].status = "none"
    /\ request[r].status # "none" => request'[r].who = request[r].who
    /\ request'[r].status # "none" => request'[r].who \in Investors
    /\ request'[r].status = "none" => ~Signed(request'[r])
    /\ request[r].manager => request'[r].manager
    /\ request[r].investor => request'[r].investor
SamePlans == \A r \in Requests : request[r].status # "none" => request'[r].plan = request[r].plan

Keeps == \A p \in Plans :
    /\ plan'[p].owner = plan[p].owner /\ plan'[p].request = plan[p].request
    /\ plan'[p].status = "active" => plan[p].status = "active"
    /\ plan'[p].status = "none" => plan[p].status = "none"
Opens(i, r) == UnusedPlans # {} /\
    plan' = [plan EXCEPT ![Least(UnusedPlans)] = [status |-> "active", owner |-> i, request |-> r]]

(* Another handler keeps its stage, its job and its locks.                   *)
Others(w) == \A v \in Workers : v # w =>
    /\ pc'[v] = pc[v] /\ job'[v] = job[v]
    /\ \A i \in Investors : lock[i] = v => lock'[i] = v

LEMMA InitIInv == Init => IInv
  <1> SUFFICES ASSUME Init PROVE IInv
    OBVIOUS
  <1>1. Types
    BY DEF Init, Types, Row, NoRequest, NoPlan
  <1> QED BY <1>1 DEF Init, IInv, UnusedUnsigned, PlanOfRequest, JobsStand, Guarded, OneCurrentPlan,
             PlanHasItsRequest, NoRequest, NoPlan, Signed

LEMMA DoneTypes == ASSUME IInv, NEW w \in Workers, Done(w)
    PROVE /\ lock' \in [Investors -> Workers \cup {NoWorker}]
          /\ pc' \in [Workers -> {"idle", "write", "lock", "open"}]
          /\ job' \in [Workers -> Job \cup {NoJob}]
          /\ pc'[w] = "idle" /\ Others(w)
  BY DEF IInv, Types, Done, Goto, Others

LEMMA JobFacts == ASSUME IInv, NEW w \in Workers, pc[w] # "idle"
    PROVE JobStands(w) /\ job[w] \in Job /\ job[w].row \in Row /\ job[w].op \in Ops
          /\ job[w].side \in Sides
  BY DEF IInv, JobsStand, JobStands, Job

-----------------------------------------------------------------------------
(* The steps that write requests.                                            *)
LEMMA RowStep == ASSUME IInv, NEW r \in Requests, NEW new \in Row,
                        request' = [request EXCEPT ![r] = new],
                        request[r].status # "none", new.status # "none",
                        new.who = request[r].who,
                        request[r].manager => new.manager, request[r].investor => new.investor
    PROVE /\ Adds /\ request' \in [Requests -> Row] /\ request'[r] = new
          /\ \A x \in Requests : x # r => request'[x] = request[x]
          /\ new.plan = request[r].plan => SamePlans
  <1>1. request' \in [Requests -> Row]
    BY DEF IInv, Types
  <1>2. request'[r] = new /\ \A x \in Requests : x # r => request'[x] = request[x]
    BY DEF IInv, Types
  <1>3. new.plan = request[r].plan => SamePlans
    BY <1>2 DEF SamePlans
  <1>4. Adds
    BY <1>2 DEF Adds, IInv, UnusedUnsigned
  <1> QED BY <1>1, <1>2, <1>3, <1>4

LEMMA CreateStep == ASSUME IInv, NEW w \in Workers, Create(w)
    PROVE Adds /\ SamePlans /\ request' \in [Requests -> Row]
  <1>1. job[w].row.who \in Investors
    BY JobFacts DEF Create, Writes, JobStands
  <1> DEFINE n == Least(UnusedRequests)
  <1>2. n \in Requests /\ request[n].status = "none"
    BY FreshRequest DEF Create
  <1> HIDE DEF n
  <1>3. request' = [request EXCEPT ![n] = [NoRequest EXCEPT !.status = "pending", !.who = job[w].row.who]]
    BY DEF Create, n
  <1>4. ~request[n].manager /\ ~request[n].investor
    BY <1>2 DEF IInv, UnusedUnsigned, Signed
  <1>5. request' \in [Requests -> Row]
    BY <1>1, <1>2, <1>3 DEF IInv, Types, Row, NoRequest
  <1> QED BY <1>1, <1>2, <1>3, <1>4, <1>5 DEF Adds, SamePlans, IInv, Types, Row, NoRequest, UnusedUnsigned, Signed

LEMMA CancelStep == ASSUME IInv, NEW w \in Workers, CancelOrReject(w)
    PROVE Adds /\ SamePlans /\ request' \in [Requests -> Row]
  <1>1. job[w].r \in Requests /\ request[job[w].r].status # "none"
    BY JobFacts DEF CancelOrReject, Writes, JobStands
  <1>2. request' \in [Requests -> Row]
    BY <1>1 DEF CancelOrReject, Outcome, IInv, Types, Row
  <1> QED BY <1>1, <1>2 DEF CancelOrReject, Outcome, Adds, SamePlans, IInv, Types, Row, UnusedUnsigned, Signed

LEMMA OfferStep == ASSUME IInv, NEW w \in Workers, Offer(w)
    PROVE Adds /\ SamePlans /\ request' \in [Requests -> Row]
  <1>1. /\ job[w].r \in Requests /\ request[job[w].r].status # "none"
        /\ ~job[w].row.manager /\ ~job[w].row.investor
    BY JobFacts DEF Offer, Writes, JobStands
  <1>2. job[w].row \in Row
    BY JobFacts DEF Offer, Writes
  <1> DEFINE now == request[job[w].r]
             was == job[w].row
  <1>3. PICK terms \in Terms : request' = [request EXCEPT ![job[w].r] =
         [now EXCEPT !.status = Column(now.status, was.status, "contract"),
                     !.terms = Column(now.terms, was.terms, terms),
                     !.manager = SignatureColumn(now.manager, was.manager),
                     !.investor = SignatureColumn(now.investor, was.investor)]]
    BY DEF Offer
  <1>4. request[job[w].r] \in Row
    BY <1>1 DEF IInv, Types
  <1> DEFINE status == Column(now.status, was.status, "contract")
             offered == Column(now.terms, was.terms, terms)
             bymanager == SignatureColumn(now.manager, was.manager)
             byinvestor == SignatureColumn(now.investor, was.investor)
             new == [now EXCEPT !.status = status, !.terms = offered,
                                !.manager = bymanager, !.investor = byinvestor]
  <1>5. bymanager = now.manager /\ byinvestor = now.investor
    BY <1>1, <1>2 DEF SignatureColumn, Column, Row
  <1>6. status \in {"contract", now.status} /\ offered \in Terms \cup {0}
    BY <1>4 DEF Column, Row
  <1>7. request' = [request EXCEPT ![job[w].r] = new]
    BY <1>3
  <1> HIDE DEF status, offered, bymanager, byinvestor
  <1>8. /\ new \in Row /\ new.status = status /\ new.who = now.who /\ new.plan = now.plan
        /\ new.manager = now.manager /\ new.investor = now.investor
    BY <1>4, <1>5, <1>6 DEF Row
  <1>9. status # "none"
    BY <1>1, <1>6
  <1> HIDE DEF new
  <1> QED BY <1>1, <1>7, <1>8, <1>9, RowStep

LEMMA SignStep == ASSUME IInv, NEW w \in Workers, FirstSignature(w)
    PROVE Adds /\ SamePlans /\ request' \in [Requests -> Row]
  <1>1. job[w].r \in Requests /\ request[job[w].r].status # "none" /\ job[w].side \in Sides
    BY JobFacts DEF FirstSignature, Writes, JobStands
  <1> DEFINE now == request[job[w].r]
             new == [now EXCEPT ![job[w].side] = TRUE]
  <1>2. now \in Row /\ request' = [request EXCEPT ![job[w].r] = new]
    BY <1>1 DEF FirstSignature, IInv, Types
  <1>3. /\ new \in Row /\ new.status = now.status /\ new.who = now.who /\ new.plan = now.plan
        /\ now.manager => new.manager
        /\ now.investor => new.investor
    <2>1. CASE job[w].side = "manager"
      BY <1>2, <2>1 DEF Row
    <2>2. CASE job[w].side = "investor"
      BY <1>2, <2>2 DEF Row
    <2> QED BY <1>1, <2>1, <2>2 DEF Sides
  <1> HIDE DEF new
  <1> QED BY <1>1, <1>2, <1>3, RowStep

LEMMA ReverseStep == ASSUME IInv, NEW w \in Workers, Reverse(w)
    PROVE Adds /\ SamePlans /\ Keeps /\ request' \in [Requests -> Row]
  <1>1. job[w].r \in Requests /\ request[job[w].r].status # "none"
    BY JobFacts DEF Reverse, Writes, JobStands
  <1>2. Keeps
    BY DEF Reverse, Keeps, IInv, Types
  <1> DEFINE now == request[job[w].r]
             new == [now EXCEPT !.status = "reversed"]
  <1>3. now \in Row /\ request' = [request EXCEPT ![job[w].r] = new]
    BY <1>1 DEF Reverse, IInv, Types
  <1>4. /\ new \in Row /\ new.status # "none" /\ new.who = now.who /\ new.plan = now.plan
        /\ new.manager = now.manager /\ new.investor = now.investor
    BY <1>3 DEF Row
  <1> HIDE DEF new
  <1> QED BY <1>1, <1>2, <1>3, <1>4, RowStep

(* Both signatures are on the row and the plan it opens is a new one.        *)
LEMMA ExecuteStep == ASSUME IInv, NEW w \in Workers, Execute(w)
    PROVE LET r == job[w].r
              p == Least(UnusedPlans) IN
          /\ Adds /\ request' \in [Requests -> Row]
          /\ r \in Requests /\ request[r].status # "none" /\ request[r].who = job[w].row.who
          /\ request'[r].plan = p /\ request'[r].manager /\ request'[r].investor
          /\ \A x \in Requests : x # r => request'[x] = request[x]
          /\ p \in Plans /\ plan[p].status = "none" /\ job[w].row.who \in Investors
          /\ Opens(job[w].row.who, r)
  <1> DEFINE r == job[w].r
             p == Least(UnusedPlans)
             now == request[r]
  <1>1. /\ r \in Requests /\ now.status # "none" /\ now.who = job[w].row.who
        /\ job[w].row.who \in Investors /\ job[w].side \in Sides
        /\ job[w].side = "manager" => now.investor
        /\ job[w].side = "investor" => now.manager
    BY JobFacts DEF Execute, JobStands
  <1>2. p \in Plans /\ plan[p].status = "none"
    BY FreshPlan DEF Execute
  <1>3. Opens(job[w].row.who, r)
    BY DEF Execute, Opens
  <1>4. request' = [request EXCEPT ![r] = [@ EXCEPT !.status = "executed", !.plan = p,
                                              !.window = TRUE, ![job[w].side] = TRUE]]
    BY DEF Execute
  <1> HIDE DEF p
  <1> DEFINE new == [now EXCEPT !.status = "executed", !.plan = p, !.window = TRUE,
                                !.manager = TRUE, !.investor = TRUE]
  <1>5. now \in Row
    BY <1>1 DEF IInv, Types
  <1>6. /\ new \in Row /\ new.status = "executed" /\ new.plan = p /\ new.who = now.who
        /\ new.manager /\ new.investor
    BY <1>2, <1>5 DEF Row
  <1>7. request' = [request EXCEPT ![r] = new]
    <2>1. CASE job[w].side = "manager"
      <3>1. now.investor = TRUE
        BY <1>1, <1>5, <2>1 DEF Row
      <3> QED BY <1>4, <1>5, <2>1, <3>1 DEF Row
    <2>2. CASE job[w].side = "investor"
      <3>1. now.manager = TRUE
        BY <1>1, <1>5, <2>2 DEF Row
      <3> QED BY <1>4, <1>5, <2>2, <3>1 DEF Row
    <2> QED BY <1>1, <2>1, <2>2 DEF Sides
  <1> HIDE DEF new
  <1>8. request' \in [Requests -> Row]
    BY <1>1, <1>6, <1>7 DEF IInv, Types
  <1>9. request'[r] = new /\ \A x \in Requests : x # r => request'[x] = request[x]
    BY <1>1, <1>7 DEF IInv, Types
  <1>10. Adds
    BY <1>1, <1>6, <1>9 DEF Adds, IInv, UnusedUnsigned
  <1> QED BY <1>1, <1>2, <1>3, <1>6, <1>8, <1>9, <1>10 DEF p

-----------------------------------------------------------------------------
(* What the parts of the invariant need of a step.                           *)
LEMMA RowsKeep == ASSUME IInv, Adds, SamePlans, Keeps
    PROVE UnusedUnsigned' /\ PlanOfRequest' /\ OneCurrentPlan' /\ PlanHasItsRequest'
  <1>1. UnusedUnsigned'
    BY DEF Adds, UnusedUnsigned, Signed
  <1>2. \A p \in Plans : plan[p].request # 0 => plan[p].request \in Requests
    BY DEF IInv, Types
  <1>3. PlanOfRequest'
    BY <1>2 DEF IInv, PlanOfRequest, Adds, Keeps
  <1>4. OneCurrentPlan'
    BY DEF IInv, OneCurrentPlan, Keeps
  <1>5. PlanHasItsRequest'
    BY <1>2 DEF IInv, PlanHasItsRequest, PlanOfRequest, Adds, SamePlans, Keeps
  <1> QED BY <1>1, <1>3, <1>4, <1>5

LEMMA JobKeeps == ASSUME IInv, Adds, NEW v \in Workers, pc[v] # "idle", pc'[v] = pc[v], job'[v] = job[v]
    PROVE JobStands(v)'
  <1>1. JobStands(v)
    BY JobFacts
  <1> QED BY <1>1 DEF JobStands, Adds

LEMMA GuardKeeps == ASSUME IInv, Keeps, NEW v \in Workers, pc[v] = "open", job'[v] = job[v],
                           LET i == job[v].row.who IN lock'[i] = lock[i] /\ funded'[i] = funded[i]
    PROVE LET i == job'[v].row.who IN lock'[i] = v /\ Vacant(i, plan') /\ ~funded'[i]
  BY DEF IInv, Guarded, Vacant, Keeps

LEMMA EndKeeps == ASSUME IInv, NEW w \in Workers, Done(w), Adds, SamePlans, Keeps,
                         request' \in [Requests -> Row],
                         plan' \in [Plans -> [status : {"none", "active", "completed"},
                                              owner : Investors \cup {0}, request : Requests \cup {0}]],
                         funded' = funded
    PROVE IInv'
  <1>1. /\ lock' \in [Investors -> Workers \cup {NoWorker}]
        /\ pc' \in [Workers -> {"idle", "write", "lock", "open"}]
        /\ job' \in [Workers -> Job \cup {NoJob}]
        /\ pc'[w] = "idle" /\ Others(w)
    BY DoneTypes
  <1>2. Types'
    BY <1>1 DEF IInv, Types
  <1>3. JobsStand'
    BY <1>1, JobKeeps DEF JobsStand, Others
  <1>4. Guarded'
    <2> SUFFICES ASSUME NEW v \in Workers, pc'[v] = "open"
                 PROVE LET i == job'[v].row.who IN lock'[i] = v /\ Vacant(i, plan') /\ ~funded'[i]
      BY DEF Guarded
    <2>1. v # w /\ pc[v] = "open" /\ job'[v] = job[v]
      BY <1>1 DEF Others
    <2>2. job[v].row.who \in Investors /\ lock[job[v].row.who] = v
      BY <2>1, JobFacts DEF JobStands, IInv, Guarded
    <2>3. lock'[job[v].row.who] = v
      BY <1>1, <2>1, <2>2 DEF Others
    <2> QED BY <2>1, <2>2, <2>3, GuardKeeps
  <1> QED BY <1>2, <1>3, <1>4, RowsKeep DEF IInv

LEMMA Unmoved == ASSUME IInv, request' = request, plan' = plan
    PROVE /\ Adds /\ SamePlans /\ Keeps /\ request' \in [Requests -> Row]
          /\ plan' \in [Plans -> [status : {"none", "active", "completed"},
                                  owner : Investors \cup {0}, request : Requests \cup {0}]]
  BY DEF Adds, SamePlans, Keeps, IInv, Types, UnusedUnsigned

-----------------------------------------------------------------------------
(* The invariant survives each step.                                         *)
LEMMA WritesKeep == ASSUME IInv, NEW w \in Workers,
                           Create(w) \/ CancelOrReject(w) \/ Offer(w) \/ FirstSignature(w) \/ RollBack(w)
    PROVE IInv'
  <1>1. Done(w) /\ plan' = plan /\ funded' = funded
    BY DEF Create, CancelOrReject, Offer, FirstSignature, RollBack, Writes
  <1>2. Adds /\ SamePlans /\ request' \in [Requests -> Row]
    BY <1>1, CreateStep, CancelStep, OfferStep, SignStep, Unmoved DEF RollBack
  <1>3. Keeps /\ plan' \in [Plans -> [status : {"none", "active", "completed"},
                                     owner : Investors \cup {0}, request : Requests \cup {0}]]
    BY <1>1 DEF Keeps, IInv, Types
  <1> QED BY <1>1, <1>2, <1>3, EndKeeps

LEMMA ReverseKeeps == ASSUME IInv, NEW w \in Workers, Reverse(w) PROVE IInv'
  <1>1. Done(w) /\ funded' = funded
    BY DEF Reverse, Writes
  <1>2. plan' \in [Plans -> [status : {"none", "active", "completed"},
                            owner : Investors \cup {0}, request : Requests \cup {0}]]
    <2>1. CASE job[w].row.plan \in Plans
      BY <2>1 DEF Reverse, IInv, Types
    <2>2. CASE job[w].row.plan \notin Plans
      BY <2>2 DEF Reverse, IInv, Types
    <2> QED BY <2>1, <2>2
  <1> QED BY <1>1, <1>2, ReverseStep, EndKeeps

LEMMA LoadKeeps == ASSUME IInv, NEW w \in Workers, LoadNone(w) \/ Load(w) PROVE IInv'
  <1>1. request' = request /\ plan' = plan /\ funded' = funded /\ lock' = lock /\ pc[w] = "idle"
    BY DEF LoadNone, Load
  <1>2. /\ job'[w] \in Job /\ job' = [job EXCEPT ![w] = job'[w]]
        /\ pc'[w] \in {"write", "lock"} /\ pc' = [pc EXCEPT ![w] = pc'[w]]
        /\ JobStands(w)'
    <2>1. CASE LoadNone(w)
      <3>1. PICK i \in Investors :
               job' = [job EXCEPT ![w] = [op |-> "create", r |-> 0, side |-> "investor",
                                          row |-> [NoRequest EXCEPT !.who = i]]]
        BY <2>1 DEF LoadNone
      <3>2. [NoRequest EXCEPT !.who = i] \in Row /\ [NoRequest EXCEPT !.who = i].who = i
        BY DEF Row, NoRequest
      <3>3. pc' = [pc EXCEPT ![w] = "write"]
        BY <2>1 DEF LoadNone, Goto
      <3>4. job'[w] = [op |-> "create", r |-> 0, side |-> "investor", row |-> [NoRequest EXCEPT !.who = i]]
        BY <3>1 DEF IInv, Types
      <3>5. job'[w] \in Job
        BY <3>2, <3>4 DEF Job, Ops, Sides
      <3>6. pc'[w] = "write"
        BY <3>3 DEF IInv, Types
      <3>7. JobStands(w)'
        <4>1. job'[w].op = "create" /\ job'[w].row = [NoRequest EXCEPT !.who = i]
          BY <3>4
        <4>2. job'[w].row.who \in Investors
          BY <3>2, <4>1
        <4> QED BY <3>5, <3>6, <4>1, <4>2 DEF JobStands
      <3>8. pc' = [pc EXCEPT ![w] = pc'[w]]
        BY <3>3, <3>6
      <3>9. job' = [job EXCEPT ![w] = job'[w]]
        BY <3>1, <3>4
      <3> QED BY <3>5, <3>6, <3>7, <3>8, <3>9
    <2>2. CASE Load(w)
      <3>1. PICK r \in Requests, side \in Sides, op \in Ops \ {"create"} :
               /\ request[r].status # "none" /\ Allows(op, request[r], side)
               /\ job' = [job EXCEPT ![w] = [op |-> op, r |-> r, side |-> side, row |-> request[r]]]
               /\ Goto(w, IF op = "sign" /\ Completes(request[r], side) THEN "lock" ELSE "write")
        BY <2>2 DEF Load, Sides, Ops
      <3>2. job'[w] = [op |-> op, r |-> r, side |-> side, row |-> request[r]]
        BY <3>1 DEF IInv, Types
      <3>3. request[r] \in Row /\ request[r].who \in Investors
        BY <3>1 DEF IInv, Types, UnusedUnsigned
      <3>4. job'[w] \in Job
        BY <3>2, <3>3 DEF Job
      <3>5. pc'[w] \in {"write", "lock"} /\ pc' = [pc EXCEPT ![w] = pc'[w]]
        BY <3>1 DEF Goto, IInv, Types
      <3>6. pc'[w] = "lock" => op = "sign" /\ Completes(request[r], side)
        BY <3>1 DEF Goto, IInv, Types
      <3>7. op = "offer" => ~request[r].manager /\ ~request[r].investor
        BY <3>1 DEF Allows, Signed
      <3>8. JobStands(w)'
        BY <1>1, <3>1, <3>2, <3>3, <3>4, <3>5, <3>6, <3>7 DEF JobStands, Completes
      <3> QED BY <3>1, <3>2, <3>4, <3>5, <3>8
    <2> QED BY <2>1, <2>2
  <1>3. Types'
    BY <1>1, <1>2 DEF IInv, Types
  <1>4. JobsStand'
    <2>1. \A v \in Workers : v # w => pc'[v] = pc[v] /\ job'[v] = job[v]
      BY <1>2 DEF IInv, Types
    <2> QED BY <1>1, <1>2, <2>1, JobKeeps, Unmoved DEF JobsStand
  <1>5. Guarded'
    <2>1. \A v \in Workers : pc'[v] = "open" => pc[v] = "open" /\ job'[v] = job[v]
      BY <1>2 DEF IInv, Types
    <2> QED BY <1>1, <2>1 DEF IInv, Guarded
  <1> QED BY <1>1, <1>3, <1>4, <1>5, RowsKeep, Unmoved DEF IInv

LEMMA AcquireKeeps == ASSUME IInv, NEW w \in Workers, Acquire(w) PROVE IInv'
  <1> DEFINE i == job[w].row.who
  <1>1. /\ request' = request /\ plan' = plan /\ funded' = funded /\ pc' = pc /\ job' = job
        /\ lock[i] = NoWorker /\ lock' = [lock EXCEPT ![i] = w]
    BY DEF Acquire
  <1>2. Types'
    BY <1>1 DEF IInv, Types
  <1>3. JobsStand'
    BY <1>1, JobKeeps, Unmoved DEF JobsStand
  <1>4. Guarded'
    BY <1>1 DEF IInv, Guarded
  <1> QED BY <1>1, <1>2, <1>3, <1>4, RowsKeep, Unmoved DEF IInv

LEMMA CheckKeeps == ASSUME IInv, NEW w \in Workers, Check(w) PROVE IInv'
  <1> DEFINE i == job[w].row.who
  <1>1. /\ request' = request /\ plan' = plan /\ funded' = funded /\ lock' = lock /\ job' = job
        /\ pc[w] = "lock" /\ lock[i] = w /\ ~funded[i] /\ Vacant(i, plan)
        /\ pc' = [pc EXCEPT ![w] = "open"]
    BY DEF Check, Locked, CurrentPlan, Vacant, Goto
  <1>2. Types'
    BY <1>1 DEF IInv, Types
  <1>3. \A v \in Workers : pc'[v] = IF v = w THEN "open" ELSE pc[v]
    BY <1>1 DEF IInv, Types
  <1>4. JobsStand'
    <2>1. JobStands(w)
      BY <1>1, JobFacts
    <2>2. JobStands(w)'
      BY <1>1, <2>1 DEF JobStands
    <2>3. \A v \in Workers : v # w /\ pc'[v] # "idle" => JobStands(v)'
      BY <1>1, <1>3, JobKeeps, Unmoved
    <2> QED BY <2>2, <2>3 DEF JobsStand
  <1>5. Guarded'
    BY <1>1, <1>3 DEF IInv, Guarded
  <1> QED BY <1>1, <1>2, <1>4, <1>5, RowsKeep, Unmoved DEF IInv

(* The plan that opens belongs to an investor without one; its request had   *)
(* no running plan, which would have been of that investor.                  *)
LEMMA ExecuteKeeps == ASSUME IInv, NEW w \in Workers, Execute(w) PROVE IInv'
  <1> DEFINE i == job[w].row.who
             r == job[w].r
             p == Least(UnusedPlans)
             opened == [status |-> "active", owner |-> i, request |-> r]
  <1>1. /\ Adds /\ request' \in [Requests -> Row]
        /\ r \in Requests /\ request[r].status # "none" /\ request[r].who = i
        /\ request'[r].plan = p /\ request'[r].manager /\ request'[r].investor
        /\ \A x \in Requests : x # r => request'[x] = request[x]
        /\ p \in Plans /\ plan[p].status = "none" /\ i \in Investors
        /\ plan' = [plan EXCEPT ![p] = opened]
    BY ExecuteStep DEF Opens
  <1>2. /\ funded' = funded /\ Done(w) /\ pc[w] = "open"
    BY DEF Execute
  <1>3. lock[i] = w /\ Vacant(i, plan)
    BY <1>2 DEF IInv, Guarded
  <1> HIDE DEF p
  <1>4. plan'[p] = opened /\ \A q \in Plans : q # p => plan'[q] = plan[q]
    BY <1>1 DEF IInv, Types
  <1>5. /\ lock' \in [Investors -> Workers \cup {NoWorker}]
        /\ pc' \in [Workers -> {"idle", "write", "lock", "open"}]
        /\ job' \in [Workers -> Job \cup {NoJob}]
        /\ pc'[w] = "idle" /\ Others(w)
    BY <1>2, DoneTypes
  <1>6. Types'
    <2>1. opened \in [status : {"none", "active", "completed"},
                      owner : Investors \cup {0}, request : Requests \cup {0}]
      BY <1>1
    <2> HIDE DEF opened
    <2> QED BY <1>1, <1>2, <1>5, <2>1 DEF IInv, Types
  <1>7. JobsStand'
    BY <1>1, <1>5, JobKeeps DEF JobsStand, Others
  <1>8. Guarded'
    <2> SUFFICES ASSUME NEW v \in Workers, pc'[v] = "open"
                 PROVE LET k == job'[v].row.who IN lock'[k] = v /\ Vacant(k, plan') /\ ~funded'[k]
      BY DEF Guarded
    <2> DEFINE k == job[v].row.who
    <2>1. v # w /\ pc[v] = "open" /\ job'[v] = job[v]
      BY <1>5 DEF Others
    <2>2. k \in Investors /\ lock[k] = v /\ Vacant(k, plan) /\ ~funded[k]
      BY <2>1, JobFacts DEF JobStands, IInv, Guarded
    <2>3. k # i /\ lock'[k] = v
      BY <1>3, <1>5, <2>1, <2>2 DEF Others
    <2>4. Vacant(k, plan')
      BY <1>4, <2>2, <2>3 DEF Vacant
    <2> QED BY <1>2, <2>1, <2>2, <2>3, <2>4
  <1>9. UnusedUnsigned'
    BY <1>1 DEF Adds, UnusedUnsigned, Signed
  <1>10. \A q \in Plans : plan[q].request # 0 => plan[q].request \in Requests
    BY DEF IInv, Types
  <1>11. PlanOfRequest'
    <2>1. /\ plan'[p].status # "none" /\ request'[plan'[p].request].status # "none"
          /\ plan'[p].owner = request'[plan'[p].request].who
      BY <1>1, <1>4 DEF Adds
    <2>2. ASSUME NEW q \in Plans, q # p
          PROVE /\ plan'[q].status = "none" => plan'[q].request = 0
                /\ plan'[q].request # 0 => /\ request'[plan'[q].request].status # "none"
                                          /\ plan'[q].owner = request'[plan'[q].request].who
      <3>1. plan'[q] = plan[q]
        BY <1>4, <2>2
      <3>2. plan[q].status = "none" => plan[q].request = 0
        BY DEF IInv, PlanOfRequest
      <3>3. ASSUME plan[q].request # 0
            PROVE /\ request'[plan[q].request].status # "none"
                  /\ plan[q].owner = request'[plan[q].request].who
        <4>1. plan[q].request \in Requests
          BY <1>10, <3>3
        <4>2. /\ request[plan[q].request].status # "none"
              /\ plan[q].owner = request[plan[q].request].who
          BY <3>3 DEF IInv, PlanOfRequest
        <4> QED BY <1>1, <4>1, <4>2 DEF Adds
      <3> QED BY <3>1, <3>2, <3>3
    <2> QED BY <2>1, <2>2 DEF PlanOfRequest
  <1>12. OneCurrentPlan'
    BY <1>3, <1>4 DEF IInv, OneCurrentPlan, Vacant
  <1>13. PlanHasItsRequest'
    <2> SUFFICES ASSUME NEW q \in Plans, plan'[q].status = "active", plan'[q].request # 0
                 PROVE LET row == request'[plan'[q].request] IN row.plan = q /\ row.manager /\ row.investor
      BY DEF PlanHasItsRequest
    <2>1. CASE q = p
      BY <1>1, <1>4, <2>1
    <2>2. CASE q # p
      <3>1. plan'[q] = plan[q] /\ plan[q].request \in Requests
        BY <1>4, <1>10, <2>2
      <3>2. plan[q].owner # i
        BY <1>3, <3>1 DEF Vacant
      <3>3. plan[q].request # r
        BY <1>1, <3>1, <3>2 DEF IInv, PlanOfRequest
      <3>4. request'[plan[q].request] = request[plan[q].request]
        BY <1>1, <3>1, <3>3
      <3> QED BY <3>1, <3>4 DEF IInv, PlanHasItsRequest
    <2> QED BY <2>1, <2>2
  <1> QED BY <1>6, <1>7, <1>8, <1>9, <1>11, <1>12, <1>13 DEF IInv

-----------------------------------------------------------------------------
(* What happens around spares an investor whose row is locked.               *)
LEMMA OpenPlanKeeps == ASSUME IInv, NEW i \in Investors, OpenPlan(i) PROVE IInv'
  <1> DEFINE p == Least(UnusedPlans)
             opened == [status |-> "active", owner |-> i, request |-> 0]
  <1>1. /\ request' = request /\ lock' = lock /\ pc' = pc /\ job' = job
        /\ lock[i] = NoWorker /\ Vacant(i, plan)
        /\ plan' = [plan EXCEPT ![p] = opened] /\ funded' = [funded EXCEPT ![i] = FALSE]
    BY DEF OpenPlan, CurrentPlan, Vacant
  <1>2. p \in Plans /\ plan[p].status = "none"
    BY FreshPlan DEF OpenPlan
  <1> HIDE DEF p
  <1>3. plan'[p] = opened /\ \A q \in Plans : q # p => plan'[q] = plan[q]
    BY <1>1, <1>2 DEF IInv, Types
  <1>4. Types'
    <2>1. opened \in [status : {"none", "active", "completed"},
                      owner : Investors \cup {0}, request : Requests \cup {0}]
      OBVIOUS
    <2> HIDE DEF opened
    <2> QED BY <1>1, <1>2, <2>1 DEF IInv, Types
  <1>5. UnusedUnsigned' /\ JobsStand'
    BY <1>1 DEF IInv, UnusedUnsigned, JobsStand, JobStands, Signed
  <1>6. PlanOfRequest'
    BY <1>1, <1>3 DEF IInv, PlanOfRequest
  <1>7. OneCurrentPlan'
    BY <1>1, <1>3 DEF IInv, OneCurrentPlan, Vacant
  <1>8. PlanHasItsRequest'
    BY <1>1, <1>3 DEF IInv, PlanHasItsRequest
  <1>9. Guarded'
    <2> SUFFICES ASSUME NEW v \in Workers, pc[v] = "open"
                 PROVE LET k == job[v].row.who IN lock[k] = v /\ Vacant(k, plan') /\ ~funded'[k]
      BY <1>1 DEF Guarded
    <2> DEFINE k == job[v].row.who
    <2>1. k \in Investors /\ lock[k] = v /\ Vacant(k, plan) /\ ~funded[k]
      BY JobFacts DEF JobStands, IInv, Guarded
    <2>2. k # i
      BY <1>1, <2>1
    <2>3. Vacant(k, plan')
      BY <1>3, <2>1, <2>2 DEF Vacant
    <2>4. ~funded'[k]
      BY <1>1, <2>1, <2>2 DEF IInv, Types
    <2> QED BY <2>1, <2>3, <2>4
  <1> QED BY <1>4, <1>5, <1>6, <1>7, <1>8, <1>9 DEF IInv

LEMMA AroundKeeps == ASSUME IInv, NEW i \in Investors \cup {0}, lock[i] = NoWorker,
                            funded' \in [Investors -> BOOLEAN],
                            \A k \in Investors : k # i => funded'[k] = funded[k],
                            Keeps, request' = request, UNCHANGED <<lock, pc, job>>,
                            plan' \in [Plans -> [status : {"none", "active", "completed"},
                                                 owner : Investors \cup {0}, request : Requests \cup {0}]]
    PROVE IInv'
  <1>1. Types'
    BY DEF IInv, Types
  <1>2. JobsStand'
    BY DEF IInv, JobsStand, JobStands
  <1>3. Guarded'
    <2>1. \A v \in Workers : pc[v] = "open" =>
             /\ job[v].row.who \in Investors /\ lock[job[v].row.who] = v
             /\ Vacant(job[v].row.who, plan) /\ ~funded[job[v].row.who]
      BY JobFacts DEF IInv, Guarded, JobStands
    <2>2. \A k : Vacant(k, plan) => Vacant(k, plan')
      BY DEF Vacant, Keeps
    <2>3. \A v \in Workers : pc[v] = "open" => ~funded'[job[v].row.who]
      <3> SUFFICES ASSUME NEW v \in Workers, pc[v] = "open" PROVE ~funded'[job[v].row.who]
        OBVIOUS
      <3>1. job[v].row.who # i /\ job[v].row.who \in Investors
        BY <2>1
      <3> QED BY <2>1, <3>1
    <2> QED BY <2>1, <2>2, <2>3 DEF Guarded
  <1>4. Adds /\ SamePlans
    BY DEF IInv, UnusedUnsigned, Adds, SamePlans
  <1> QED BY <1>1, <1>2, <1>3, <1>4, RowsKeep DEF IInv

LEMMA ClosePlanKeeps == ASSUME IInv, NEW p \in Plans, ClosePlan(p) PROVE IInv'
  <1>1. /\ plan[p].owner \in Investors \cup {0} /\ lock[plan[p].owner] = NoWorker
        /\ request' = request /\ UNCHANGED <<lock, pc, job>>
    BY DEF ClosePlan, IInv, Types
  <1>2. Keeps /\ plan' \in [Plans -> [status : {"none", "active", "completed"},
                                     owner : Investors \cup {0}, request : Requests \cup {0}]]
    BY DEF ClosePlan, Keeps, IInv, Types
  <1>3. /\ funded' \in [Investors -> BOOLEAN]
        /\ \A k \in Investors : k # plan[p].owner => funded'[k] = funded[k]
    BY DEF ClosePlan, IInv, Types
  <1> QED BY <1>1, <1>2, <1>3, AroundKeeps

LEMMA MoveMoneyKeeps == ASSUME IInv, NEW i \in Investors, MoveMoney(i) PROVE IInv'
  <1>1. /\ lock[i] = NoWorker /\ request' = request /\ UNCHANGED <<lock, pc, job>> /\ plan' = plan
        /\ funded' \in [Investors -> BOOLEAN] /\ \A k \in Investors : k # i => funded'[k] = funded[k]
    BY DEF MoveMoney, IInv, Types
  <1> QED BY <1>1, Unmoved, AroundKeeps

LEMMA WindowKeeps == ASSUME IInv, NEW r \in Requests, WindowEnds(r) PROVE IInv'
  <1> DEFINE now == request[r]
             new == [now EXCEPT !.window = FALSE]
  <1>1. /\ UNCHANGED <<plan, funded, lock, pc, job>> /\ now \in Row
        /\ request' = [request EXCEPT ![r] = new]
    BY DEF WindowEnds, IInv, Types
  <1>2. /\ new \in Row /\ new.status = now.status /\ new.who = now.who /\ new.plan = now.plan
        /\ new.manager = now.manager /\ new.investor = now.investor
    BY <1>1 DEF Row
  <1> HIDE DEF new
  <1>3. request' \in [Requests -> Row]
    BY <1>1, <1>2 DEF IInv, Types
  <1>4. \A x \in Requests : /\ request'[x].status = request[x].status /\ request'[x].who = request[x].who
                            /\ request'[x].plan = request[x].plan
                            /\ request'[x].manager = request[x].manager
                            /\ request'[x].investor = request[x].investor
    BY <1>1, <1>2 DEF IInv, Types
  <1>5. Adds /\ SamePlans /\ Keeps
    BY <1>1, <1>4 DEF IInv, UnusedUnsigned, Adds, SamePlans, Keeps, Signed
  <1>6. Types'
    BY <1>1, <1>3 DEF IInv, Types
  <1>7. JobsStand'
    BY <1>1, <1>4 DEF IInv, JobsStand, JobStands
  <1>8. Guarded'
    BY <1>1 DEF IInv, Guarded
  <1> QED BY <1>5, <1>6, <1>7, <1>8, RowsKeep DEF IInv

LEMMA StepKeeps == ASSUME IInv, [Next]_vars PROVE IInv'
  <1>1. ASSUME NEW w \in Workers, Handle(w) PROVE IInv'
    BY <1>1, WritesKeep, ReverseKeeps, LoadKeeps, AcquireKeeps, CheckKeeps, ExecuteKeeps DEF Handle
  <1>2. CASE UNCHANGED vars
    BY <1>2 DEF vars, IInv, Types, UnusedUnsigned, PlanOfRequest, JobsStand, JobStands, Guarded,
           OneCurrentPlan, PlanHasItsRequest, Signed
  <1> QED BY <1>1, <1>2, OpenPlanKeeps, ClosePlanKeeps, MoveMoneyKeeps, WindowKeeps DEF Next

LEMMA Inductive == Spec => []IInv
  <1> QED BY InitIInv, StepKeeps, PTL DEF Spec

-----------------------------------------------------------------------------
(* An investor never has two current plans: an execution opens its plan      *)
(* under the lock of the investor, which it has held since it looked for one.*)
THEOREM OneCurrentPlanAlways == Spec => []OneCurrentPlan
  <1>1. IInv => OneCurrentPlan
    BY DEF IInv
  <1> QED BY <1>1, Inductive, PTL

(* A running plan that a contract opened is always the plan of its request,  *)
(* and the contract bears both signatures, although the completing handler   *)
(* saw the other signature on a row it read without a lock.                  *)
THEOREM PlanAlwaysHasItsRequest == Spec => []PlanHasItsRequest
  <1>1. IInv => PlanHasItsRequest
    BY DEF IInv
  <1> QED BY <1>1, Inductive, PTL

(* No contract opens a plan beside available balance: what the execution     *)
(* checked under the lock still holds at its commit.                         *)
THEOREM AlwaysOpensOnEmptyBalance == Spec => OpensOnEmptyBalance
  <1> DEFINE Beside == \A p \in Plans :
               plan[p].status = "none" /\ plan'[p].request # 0 => ~funded[plan'[p].owner]
  <1>1. ASSUME IInv, [Next]_vars PROVE Beside
    <2>1. \A p \in Plans : plan[p].status = "none" => plan[p].request = 0
      BY <1>1 DEF IInv, PlanOfRequest
    <2>2. Keeps => Beside
      BY <2>1 DEF Keeps
    <2>3. ASSUME NEW w \in Workers, Handle(w) PROVE Beside
      <3>1. CASE Execute(w)
        <4>1. /\ Least(UnusedPlans) \in Plans
              /\ plan' = [plan EXCEPT ![Least(UnusedPlans)] =
                            [status |-> "active", owner |-> job[w].row.who, request |-> job[w].r]]
          BY <1>1, <3>1, ExecuteStep DEF Opens
        <4>2. ~funded[job[w].row.who]
          BY <1>1, <3>1 DEF Execute, IInv, Guarded
        <4> QED BY <1>1, <2>1, <4>1, <4>2 DEF IInv, Types
      <3>2. CASE Reverse(w)
        BY <1>1, <2>2, <3>2, ReverseStep
      <3>3. ~Execute(w) /\ ~Reverse(w) => plan' = plan
        BY <2>3 DEF Handle, LoadNone, Load, RollBack, Create, CancelOrReject, Offer, FirstSignature,
               Acquire, Check
      <3> QED BY <2>1, <3>1, <3>2, <3>3
    <2>4. ASSUME NEW i \in Investors, OpenPlan(i) PROVE Beside
      <3>1. Least(UnusedPlans) \in Plans
        BY <2>4, FreshPlan DEF OpenPlan
      <3> QED BY <1>1, <2>1, <2>4, <3>1 DEF OpenPlan, IInv, Types
    <2>5. ASSUME NEW p \in Plans, ClosePlan(p) PROVE Beside
      BY <1>1, <2>1, <2>5 DEF ClosePlan, IInv, Types
    <2>6. plan' = plan => Beside
      BY <2>1
    <2> QED BY <1>1, <2>3, <2>4, <2>5, <2>6 DEF Next, MoveMoney, WindowEnds, vars
  <1>2. ASSUME IInv, [Next]_vars PROVE [Beside]_vars
    BY <1>1, <1>2
  <1> QED BY <1>2, Inductive, PTL DEF Spec, OpensOnEmptyBalance

(* A signature is never erased: an offer clears signatures on the row, but   *)
(* it writes only the columns that differ from what it loaded, and what it   *)
(* loaded was unsigned.                                                      *)
THEOREM SignaturesAlwaysStay == Spec => SignaturesStay
  <1> DEFINE Stay == \A r \in Requests :
               /\ request[r].manager => request'[r].manager
               /\ request[r].investor => request'[r].investor
  <1>1. ASSUME IInv, [Next]_vars PROVE Stay
    <2>1. Adds => Stay
      BY DEF Adds
    <2>2. ASSUME NEW w \in Workers, Handle(w) PROVE Stay
      <3>1. \/ Create(w) \/ CancelOrReject(w) \/ Offer(w) \/ FirstSignature(w) \/ Reverse(w)
            \/ Execute(w) \/ request' = request
        BY <2>2 DEF Handle, LoadNone, Load, RollBack, Acquire, Check
      <3> QED BY <1>1, <2>1, <3>1, CreateStep, CancelStep, OfferStep, SignStep, ReverseStep, ExecuteStep
    <2>3. ASSUME NEW r \in Requests, WindowEnds(r) PROVE Stay
      BY <1>1, <2>3 DEF WindowEnds, IInv, Types, Row
    <2> QED BY <1>1, <2>2, <2>3 DEF Next, OpenPlan, MoveMoney, ClosePlan, vars
  <1>2. ASSUME IInv, [Next]_vars PROVE [Stay]_vars
    BY <1>1, <1>2
  <1> QED BY <1>2, Inductive, PTL DEF Spec, SignaturesStay
=============================================================================
