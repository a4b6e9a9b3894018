------------------------------ MODULE Agreement ------------------------------
(***************************************************************************)
(* The life of a plan agreement: services/agreement_service.py,            *)
(* services/agreement_amendment_service.py and the handlers of             *)
(* api/v1/agreements.py.  A manager offers an investor the opening of a    *)
(* plan, its closing, or new dates for it; the investor signs, with the    *)
(* link or signed in; the signature executes what was offered.             *)
(*                                                                         *)
(* A worker is one HTTP handler.  It reads what it needs to find its rows  *)
(* (Submit), takes its locks one by one (Acquire), then reads and decides  *)
(* (Decide), and then writes and commits (the other actions).  cancel and  *)
(* new_link never reserve the writer of a SQLite database: there the locks *)
(* keep nobody from coming between their decision and their commit.        *)
(***************************************************************************)
EXTENDS Naturals, Sequences

CONSTANTS
    Investors,    \* ids of investors
    Agreements,   \* ids of agreements; a signed opening a is also plan a
    Workers,      \* concurrently running handlers
    RowLocks,     \* TRUE: PostgreSQL; FALSE: SQLite
    NoWorker, NoJob,
    MaxBalance,   \* bound on a balance
    MaxEvents,    \* bound on the events around: see Around
    MaxAttempts   \* wrong passwords accepted for one link: 5 in the code

ASSUME AgreementsAreIds == Agreements \subseteq Nat \ {0}
ASSUME RowLocksBool == RowLocks \in BOOLEAN
ASSUME BoundsNat == {MaxBalance, MaxEvents, MaxAttempts} \subseteq Nat
ASSUME Fresh == NoWorker \notin Workers

VARIABLES
    agreement, \* the PlanAgreement rows
    plan,      \* the InvestmentPlan rows, with what their payments add up to
    balance,   \* Investor.available_balance_cents
    lock,      \* who holds each row lock, and the SQLite write lock
    events,    \* counts what went on around, for the bound
    pc, job    \* the stage of each worker and what it was asked to do

vars == <<agreement, plan, balance, lock, events, pc, job>>

Kinds == {"open", "close", "amend"}
NoAgreement == [status |-> "none", kind |-> "open", who |-> 0, plan |-> 0,
                shown |-> <<0, 0>>, principal |-> 0, link |-> 0, attempts |-> 0,
                expired |-> FALSE]
NoPlan == [status |-> "none", owner |-> 0, principal |-> 0, writes |-> 0,
           months |-> 0, touched |-> FALSE]

Init ==
    /\ agreement = [a \in Agreements |-> NoAgreement]
    /\ plan = [p \in Agreements |-> NoPlan]
    /\ balance = [i \in Investors |-> 0]
    /\ lock = [l \in {<<"database">>} \cup {<<"investor", i>> : i \in Investors}
                     \cup {<<"agreement", a>> : a \in Agreements} |-> NoWorker]
    /\ events = 0
    /\ pc = [w \in Workers |-> "idle"]
    /\ job = [w \in Workers |-> NoJob]

-----------------------------------------------------------------------------
(* Reads.                                                                    *)

Pending(i) == {a \in Agreements : agreement[a].status = "pending"
                                  /\ agreement[a].who = i}

(* require_no_current_plan, with excluding_plan_id                           *)
CurrentPlan(i, excluded) ==
    \E p \in Agreements \ {excluded} : plan[p].status = "active" /\ plan[p].owner = i

(* The figures that an agreement shows: the balance an opening invests, the  *)
(* payments and savings a closing settles, the schedule an amendment moves.  *)
Figures(kind, p, i) == IF kind = "open" THEN <<balance[i], 0>>
                       ELSE <<plan[p].writes, plan[p].months>>

(* amendment_state: nothing was paid, requested or accrued yet.              *)
Amendable(p) == /\ plan[p].status = "active"
                /\ ~CurrentPlan(plan[p].owner, p)
                /\ plan[p].months = 0
                /\ ~plan[p].touched

(* pending_date_amendment                                                    *)
(* Mutant: payments do not wait for a pending amendment.                     *)
IgnoredAmendment(p) == FALSE
AmendmentPending(p) == \E a \in Agreements :
    agreement[a].status = "pending" /\ agreement[a].kind = "amend" /\ agreement[a].plan = p

-----------------------------------------------------------------------------
(* Locks.  Signing locks Investor before Agreement; new_link locks the       *)
(* agreement, and the notice it queues then refers to the investor's row.    *)
Database     == <<"database">>
Row(i)       == <<"investor", i>>
Document(a)  == <<"agreement", a>>

(* Mutant: an offer is prepared without locking its investor.                *)
LocksOfUnlockedOffer(j) ==
    CASE j.op = "offer"          -> <<>>
      [] RowLocks /\ j.op = "link" -> <<Document(j.a), Row(j.who)>>
      [] OTHER                   -> <<Row(j.who), Document(j.a)>>
(* Mutant: cancel does not lock the investor.                                *)
LocksOfUnlockedCancel(j) ==
    CASE j.op = "cancel"         -> <<>>
      [] j.op = "link"           -> <<Document(j.a), Row(j.who)>>
      [] j.op = "offer"          -> <<Row(j.who)>>
      [] OTHER                   -> <<Row(j.who), Document(j.a)>>
RowLocksOf(j) ==
    CASE j.op = "link"           -> <<Document(j.a), Row(j.who)>>
      [] j.op = "offer"          -> <<Row(j.who)>>
      [] OTHER                   -> <<Row(j.who), Document(j.a)>>
LocksOf(j) == IF RowLocks THEN RowLocksOf(j)
              ELSE IF j.op \in {"cancel", "link"} THEN <<>> ELSE <<Database>>

(* The locks a handler has yet to take, by their place in its order.         *)
Missing(w) == LET wanted == LocksOf(job[w]) IN {n \in 1 .. Len(wanted) : lock[wanted[n]] # w}
NextLock(w) == LET missing == Missing(w)
               IN LocksOf(job[w])[CHOOSE n \in missing : \A m \in missing : n <= m]
Free(l)    == lock[l] = NoWorker

(* A statement that writes waits for the writer of a SQLite database.        *)
MayWrite(w) == RowLocks \/ lock[Database] \in {w, NoWorker}

-----------------------------------------------------------------------------
(* One request.  What a manager reviewed (a closing, an amendment, a         *)
(* replacement) are the figures of the preview; by_token finds the agreement *)
(* of a link that is still valid; a signed in investor needs no link.  What  *)
(* is refused whatever happens next is left out.                             *)
Job(op, kind, who, a, p, reviewed, link) ==
    [op |-> op, kind |-> kind, who |-> who, a |-> a, plan |-> p,
     reviewed |-> reviewed, link |-> link]

Offers ==
    {Job("offer", "open", i, 0, 0, <<0, 0>>, 0) : i \in Investors}
    \cup {Job("offer", k, plan[p].owner, 0, p, Figures(k, p, 0), 0) :
            k \in {"close", "amend"}, p \in {q \in Agreements : plan[q].status = "active"}}

OnPending(a) == LET r == agreement[a] IN
    {Job(op, "open", r.who, a, 0, <<0, 0>>, 0) : op \in {"link", "cancel"}}
    \cup {Job("replace", "open", r.who, a, 0, Figures("open", 0, r.who), 0)}

Signatures(a) == LET r == agreement[a] IN
    {Job("sign", "open", r.who, a, 0, <<0, 0>>, l) : l \in {0, r.link}}

Asks(w, j) == /\ job' = [job EXCEPT ![w] = j]
              /\ pc' = [pc EXCEPT ![w] = "run"]

Submit(w) ==
    /\ pc[w] = "idle"
    /\ \/ \E j \in Offers : Asks(w, j)
       \/ \E a \in Agreements : /\ agreement[a].status = "pending"
                                /\ \E j \in OnPending(a) : Asks(w, j)
       \/ \E a \in Agreements : /\ agreement[a].status \in {"pending", "signed"}
                                /\ ~agreement[a].expired
                                /\ \E j \in Signatures(a) : Asks(w, j)
    /\ UNCHANGED <<agreement, plan, balance, lock, events>>

Acquire(w) == LET l == NextLock(w) IN
    /\ pc[w] = "run"
    /\ Missing(w) # {}
    /\ Free(l)
    /\ lock' = [lock EXCEPT ![l] = w]
    /\ UNCHANGED <<agreement, plan, balance, events, pc, job>>

(* COMMIT or ROLLBACK: the locks go and the client is answered.              *)
Done(w) ==
    /\ pc' = [pc EXCEPT ![w] = "idle"]
    /\ job' = [job EXCEPT ![w] = NoJob]
    /\ lock' = [l \in DOMAIN lock |-> IF lock[l] = w THEN NoWorker ELSE lock[l]]

(* A refusal (of a date, a notice, a role or of what the actions below test) *)
(* or a failure: everything since the BEGIN is rolled back.                  *)
RollBack(w) ==
    /\ pc[w] # "idle"
    /\ Done(w)
    /\ UNCHANGED <<agreement, plan, balance, events>>

(* Locked and able to read.                                                  *)
Runs(w) == pc[w] = "run" /\ Missing(w) = {} /\ MayWrite(w)

-----------------------------------------------------------------------------
(* Decisions, under the locks.                                               *)

Unused == {a \in Agreements : agreement[a].status = "none"}
NextId == CHOOSE a \in Unused : \A b \in Unused : a <= b

(* opening_content, closing_terms and amendment_state; the hash of what was  *)
(* reviewed must be the hash of what is prepared.                            *)
Prepared(j) ==
    CASE j.kind = "open"  -> ~CurrentPlan(j.who, 0)
      [] j.kind = "close" -> /\ plan[j.plan].status = "active"
                             /\ j.reviewed = Figures(j.kind, j.plan, j.who)
      [] OTHER            -> /\ Amendable(j.plan)
                             /\ j.reviewed = Figures(j.kind, j.plan, j.who)

(* public_sign compares the link again once it holds the agreement; a signed *)
(* in investor (link 0) needs no link, but an agreement that is not over.    *)
(* Mutant: the link is compared only before the locks.                       *)
AddressedBeforeLocks(j, r) == j.link = 0 => r.status \in {"pending", "signed"} /\ ~r.expired
Addressed(j, r) == IF j.link = 0 THEN r.status \in {"pending", "signed"} /\ ~r.expired
                   ELSE r.link = j.link

MaySign(j) == /\ Addressed(j, agreement[j.a])
              /\ agreement[j.a].attempts < MaxAttempts

(* Mutant: the figures are not compared with what is shown.                  *)
AnyFigures(r) == TRUE
SameFigures(r) == r.shown = Figures(r.kind, r.plan, r.who)

Executable(r) ==
    /\ r.status = "pending"
    /\ ~r.expired
    /\ SameFigures(r)
    /\ CASE r.kind = "open"  -> ~CurrentPlan(r.who, 0)
         [] r.kind = "close" -> plan[r.plan].status = "active"
         [] OTHER            -> Amendable(r.plan)

Decidable(j) ==
    CASE j.op = "offer"   -> Unused # {} /\ Pending(j.who) = {} /\ Prepared(j)
      [] j.op = "replace" -> /\ Unused # {}
                             /\ agreement[j.a].kind = "open"
                             /\ Pending(j.who) = {j.a}
                             /\ Prepared(j)
                             /\ j.reviewed = Figures("open", 0, j.who)
      [] j.op = "sign"    -> MaySign(j) /\ Executable(agreement[j.a])
      [] OTHER            -> agreement[j.a].status = "pending"

Decide(w) ==
    /\ Runs(w)
    /\ Decidable(job[w])
    /\ pc' = [pc EXCEPT ![w] = "write"]
    /\ job' = [job EXCEPT ![w].reviewed =
                  IF job[w].op = "offer" THEN Figures(job[w].kind, job[w].plan, job[w].who)
                  ELSE @]
    /\ UNCHANGED <<agreement, plan, balance, lock, events>>

(* New links, wrong passwords and what goes on around are bounded together.  *)
Around == events < MaxEvents /\ events' = events + 1

(* The only writes of a refused signature.                                   *)
WrongPassword(w) ==
    /\ Runs(w)
    /\ job[w].op = "sign" /\ MaySign(job[w])
    /\ Around
    /\ agreement' = [agreement EXCEPT ![job[w].a].attempts = @ + 1]
    /\ Done(w)
    /\ UNCHANGED <<plan, balance>>

(* sign answers a second signature with the first one.                       *)
SignAgain(w) ==
    /\ Runs(w)
    /\ job[w].op = "sign" /\ MaySign(job[w])
    /\ agreement[job[w].a].status = "signed"
    /\ Done(w)
    /\ UNCHANGED <<agreement, plan, balance, events>>

-----------------------------------------------------------------------------
(* Commits.                                                                  *)
Commits(w, op) ==
    /\ pc[w] = "write" /\ job[w].op = op /\ MayWrite(w)
    /\ Done(w)

(* extra is the money that an opening adds to the balance.                   *)
NewAgreement(j, extra) ==
    [NoAgreement EXCEPT !.status = "pending", !.kind = j.kind, !.who = j.who,
        !.plan = j.plan, !.shown = j.reviewed, !.link = 1,
        !.principal = IF j.kind = "open" THEN j.reviewed[1] + extra
                      ELSE plan[j.plan].principal]
Amounts(j) == {extra \in {0, 1} : j.kind = "open" => j.reviewed[1] + extra \in 1..MaxBalance}

(* issue and issue_date_amendment.                                           *)
Offer(w) ==
    /\ Commits(w, "offer")
    /\ Unused # {}
    /\ \E extra \in Amounts(job[w]) :
         agreement' = [agreement EXCEPT ![NextId] = NewAgreement(job[w], extra)]
    /\ UNCHANGED <<plan, balance, events>>

(* Mutant: the replaced offer stays pending.                                 *)
Unsuperseded(row) == row
Superseded(row) == [row EXCEPT !.status = "cancelled"]

(* issue_opening_replacement: the old offer is cancelled with the new issue. *)
Replace(w) ==
    /\ Commits(w, "replace")
    /\ Unused # {}
    /\ agreement[job[w].a].status = "pending"
    /\ \E extra \in Amounts(job[w]) :
         agreement' = [agreement EXCEPT ![NextId] = NewAgreement(job[w], extra),
                                        ![job[w].a] = Superseded(agreement[job[w].a])]
    /\ UNCHANGED <<plan, balance, events>>

NewLink(w) == LET a == job[w].a IN
    /\ Commits(w, "link")
    /\ Around
    /\ agreement' = [agreement EXCEPT ![a].link = @ + 1, ![a].attempts = 0,
                                      ![a].expired = FALSE]
    /\ UNCHANGED <<plan, balance>>

(* No condition on the status goes with this UPDATE.                         *)
Cancel(w) ==
    /\ Commits(w, "cancel")
    /\ agreement' = [agreement EXCEPT ![job[w].a].status = "cancelled"]
    /\ UNCHANGED <<plan, balance, events>>

(* sign: the UPDATE requires the agreement to be pending still.              *)
Executes(w, kind) == LET r == agreement[job[w].a] IN
    /\ Commits(w, "sign")
    /\ r.kind = kind
    /\ r.status = "pending"
    /\ agreement' = [agreement EXCEPT ![job[w].a].status = "signed",
                                      ![job[w].a].plan = IF kind = "open" THEN job[w].a ELSE @]
    /\ UNCHANGED events

SignOpening(w) == LET a == job[w].a
                      r == agreement[a] IN
    /\ Executes(w, "open")
    /\ balance[r.who] = r.shown[1]
    /\ plan' = [plan EXCEPT ![a] = [NoPlan EXCEPT !.status = "active",
                                        !.owner = r.who, !.principal = r.principal]]
    /\ balance' = [balance EXCEPT ![r.who] = 0]

Creditable(r) == balance[r.who] + r.principal <= MaxBalance

SignClosing(w) == LET r == agreement[job[w].a] IN
    /\ Executes(w, "close")
    /\ plan[r.plan].status = "active"
    /\ Creditable(r)
    /\ plan' = [plan EXCEPT ![r.plan].status = "completed"]
    /\ balance' = [balance EXCEPT ![r.who] = @ + plan[r.plan].principal]

(* execute_date_amendment moves the dates of the plan and of its payments.   *)
SignAmendment(w) == LET r == agreement[job[w].a] IN
    /\ Executes(w, "amend")
    /\ plan' = [plan EXCEPT ![r.plan].writes = @ + 1]
    /\ UNCHANGED balance

-----------------------------------------------------------------------------
(* What goes on around: the wallet, the payments and the calendar.  Those    *)
(* that write are transactions that need the investor's lock.                *)
Reachable(i) == Free(IF RowLocks THEN Row(i) ELSE Database)

MoveBalance(i) == \E value \in (0..MaxBalance) \ {balance[i]} :
    /\ Around /\ UNCHANGED <<lock, pc, job>>
    /\ Reachable(i)
    /\ balance' = [balance EXCEPT ![i] = value]
    /\ UNCHANGED <<agreement, plan>>

(* require_payment_dates_settled or require_plan_dates_settled, then a       *)
(* payment is requested, confirmed or rejected, or the schedule rebuilt.     *)
WritePayment(p) == \E touched \in BOOLEAN :
    /\ Around /\ UNCHANGED <<lock, pc, job>>
    /\ plan[p].status = "active"
    /\ Reachable(plan[p].owner)
    /\ ~AmendmentPending(p)
    /\ plan' = [plan EXCEPT ![p].writes = @ + 1, ![p].touched = touched]
    /\ UNCHANGED <<agreement, balance>>

CompleteMonth(p) ==
    /\ Around /\ UNCHANGED <<lock, pc, job>>
    /\ plan[p].status = "active"
    /\ plan[p].months = 0
    /\ plan' = [plan EXCEPT ![p].months = 1]
    /\ UNCHANGED <<agreement, balance>>

Expire(a) ==
    /\ agreement[a].status = "pending"
    /\ ~agreement[a].expired
    /\ agreement' = [agreement EXCEPT ![a].expired = TRUE]
    /\ UNCHANGED <<plan, balance, lock, events, pc, job>>

Handle(w) ==
    \/ Submit(w) \/ Acquire(w) \/ RollBack(w)
    \/ Decide(w) \/ WrongPassword(w) \/ SignAgain(w)
    \/ Offer(w) \/ Replace(w) \/ NewLink(w) \/ Cancel(w)
    \/ SignOpening(w) \/ SignClosing(w) \/ SignAmendment(w)

Next == \/ \E w \in Workers : Handle(w)
        \/ \E i \in Investors : MoveBalance(i)
        \/ \E a \in Agreements : WritePayment(a) \/ CompleteMonth(a) \/ Expire(a)

Spec == Init /\ [][Next]_vars

-----------------------------------------------------------------------------
(* At most one agreement of an investor waits for a signature, whoever       *)
(* prepares offers at the same time.                                         *)
OnePending == \A a, b \in Agreements :
    /\ agreement[a].status = "pending" /\ agreement[b].status = "pending"
    /\ agreement[a].who = agreement[b].who
    => a = b

(* A plan is there exactly when the opening that offered it is signed, and   *)
(* is over exactly when one closing of it is signed: nothing is executed     *)
(* without a signature, twice, or by a document that was then withdrawn.     *)
ExecutedIffSigned == \A a \in Agreements :
    /\ plan[a].status # "none" <=>
         agreement[a].status = "signed" /\ agreement[a].kind = "open"
    /\ plan[a].status = "completed" <=>
         \E c \in Agreements : /\ agreement[c].status = "signed"
                               /\ agreement[c].kind = "close" /\ agreement[c].plan = a

(* "Only an agreement that is not signed yet can be cancelled": a signed     *)
(* agreement stays signed.                                                   *)
SignedStays == [][\A a \in Agreements :
    agreement[a].status = "signed" => agreement'[a].status = "signed"]_vars

Signs(a) == agreement[a].status = "pending" /\ agreement'[a].status = "signed"

(* What is executed is what the investor was shown: the balance that is      *)
(* invested, or the figures that are settled, are the document's at the very *)
(* step that signs it.                                                       *)
SignedAsShown == [][\A a \in Agreements : Signs(a) => LET r == agreement[a] IN
    CASE r.kind = "open"  -> /\ balance[r.who] = r.shown[1] /\ balance'[r.who] = 0
                             /\ plan'[a].principal = r.principal
      [] r.kind = "close" -> /\ plan[r.plan].writes = r.shown[1]
                             /\ balance'[r.who] = balance[r.who] + r.principal
      [] OTHER            -> plan[r.plan].writes = r.shown[1]
    ]_vars

(* Once a new link is sent, no signature that came with an older one counts. *)
ReplacedLinkIsDead == [][\A w \in Workers :
    pc[w] = "write" /\ job[w].op = "sign" /\ pc'[w] = "idle" /\ job[w].link # 0
    /\ Signs(job[w].a) => job[w].link = agreement[job[w].a].link]_vars

(* While an amendment of its dates waits for a signature, nobody writes to   *)
(* the payments of a plan.                                                   *)
ScheduleWaits == [][\A a \in Agreements :
    /\ agreement[a].status = "pending" /\ agreement[a].kind = "amend"
    /\ agreement'[a].status = "pending"
    => plan'[agreement[a].plan].writes = plan[agreement[a].plan].writes]_vars

(* "Signing locks Investor before Agreement, and reversing that order would  *)
(* deadlock": no two handlers wait for one another.                          *)
WaitsFor(v, w) == /\ pc[v] = "run" /\ Missing(v) # {}
                  /\ lock[NextLock(v)] = w
NoCrossedWaits == \A v, w \in Workers : ~(WaitsFor(v, w) /\ WaitsFor(w, v))
=============================================================================
