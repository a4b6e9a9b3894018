------------------------------- MODULE Wallet -------------------------------
(***************************************************************************)
(* The available balance of every investor and its ledger, as written by   *)
(* services/wallet_service.py through database transactions of concurrent  *)
(* request handlers.                                                       *)
(*                                                                         *)
(* A worker (one HTTP handler with its own Session) takes one request and  *)
(* goes through the stages the code goes through:                          *)
(*   precheck  a transfer looks for its receipt before it holds any lock   *)
(*   lock      lock_investor on each investor, in the order of their ids   *)
(*             (PostgreSQL), or BEGIN IMMEDIATE (SQLite)                   *)
(*   check     the replay lookup and every refusal of the operation        *)
(*   commit    the compare-and-set UPDATE, the ledger rows and COMMIT      *)
(* A handler may die at any stage: its transaction rolls back.  A client   *)
(* may send the same request again at any time, also while the first copy  *)
(* is still running.                                                       *)
(***************************************************************************)
EXTENDS WalletOps, Sequences

CONSTANTS
    Workers,      \* concurrently running handlers
    RowLocks,     \* TRUE: PostgreSQL; FALSE: SQLite, where FOR UPDATE is void
    Namesakes,    \* investors that have the same name
    NoWorker,
    NoRequest

ASSUME RowLocksBool == RowLocks \in BOOLEAN
ASSUME NoWorkerFresh == NoWorker \notin Workers
ASSUME NoRequestFresh == NoRequest \notin Requests

VARIABLES
    exists,    \* investors whose row is in the table
    balance,   \* Investor.available_balance_cents
    ledger,    \* the WalletEntry rows of each investor, by id
    receipts,  \* the WalletTransfer rows
    plan,      \* InvestmentPlan: status, owner and principal
    lock,      \* who holds each row lock, and the SQLite write lock
    pc, req,   \* the stage of each worker and the request it serves
    seen,      \* the balances it read
    gain       \* the savings a closing pays out

data == <<exists, balance, ledger, receipts, plan>>
vars == <<exists, balance, ledger, receipts, plan, lock, pc, req, seen, gain>>

-----------------------------------------------------------------------------
Entry(key, digest, kind, amount, after) ==
    [key |-> key, digest |-> digest, kind |-> kind, amount |-> amount,
     after |-> after]

EntriesOf(i) == {ledger[i][n] : n \in DOMAIN ledger[i]}
KeysUsed     == UNION {{e.key : e \in EntriesOf(i)} : i \in Investors}

(* The write lock of a SQLite database.                                      *)
DatabaseLock == 0
Lockable     == Investors \cup {DatabaseLock}

(* Mutant: the opening of a plan forgets to lock its investor.               *)
LocksOfUnlockedOpening(r) ==
    IF r.op = "fund" THEN {}
    ELSE IF RowLocks THEN InvestorsOf(r)
    ELSE IF r.op \in {"deposit", "withdraw"} THEN {} ELSE {DatabaseLock}

(* Mutant: the deletion of an investor forgets to lock.                      *)
LocksOfUnlockedDelete(r) ==
    IF r.op = "delete" THEN {}
    ELSE IF RowLocks THEN InvestorsOf(r)
    ELSE IF r.op \in {"deposit", "withdraw"} THEN {} ELSE {DatabaseLock}

(* deposit and withdraw do not call begin_wallet_write: on SQLite they read  *)
(* without a lock and take the write lock only when they write.              *)
LocksOf(r) ==
    IF RowLocks THEN InvestorsOf(r)
    ELSE IF r.op \in {"deposit", "withdraw"} THEN {} ELSE {DatabaseLock}

Holds(w, l)  == lock[l] = w
Missing(w)   == {l \in LocksOf(req[w]) : ~Holds(w, l)}

(* Mutant: the source of a transfer is locked first, whatever the ids are.   *)
SourceFirst(w) == IF req[w].who \in Missing(w) THEN req[w].who
                  ELSE CHOOSE l \in Missing(w) : TRUE
NextLock(w)  == CHOOSE l \in Missing(w) : \A m \in Missing(w) : l <= m
Unlocked(w)  == [l \in Lockable |-> IF Holds(w, l) THEN NoWorker ELSE lock[l]]

-----------------------------------------------------------------------------
Init ==
    /\ exists = Investors
    /\ balance = [i \in Investors |-> 0]
    /\ ledger = [i \in Investors |-> <<>>]
    /\ receipts = {}
    /\ plan = [p \in Plans |-> NoPlan]
    /\ lock = [l \in Lockable |-> NoWorker]
    /\ pc = [w \in Workers |-> "idle"]
    /\ req = [w \in Workers |-> NoRequest]
    /\ seen = [w \in Workers |-> [i \in Investors |-> 0]]
    /\ gain = [w \in Workers |-> 0]

Goto(w, stage) == pc' = [pc EXCEPT ![w] = stage]

(* COMMIT or ROLLBACK, and the answer to the client.                         *)
Answer(w, outcome) ==
    /\ Goto(w, outcome)
    /\ lock' = Unlocked(w)

Submit(w) == \E r \in Requests :
    /\ pc[w] = "idle"
    /\ req' = [req EXCEPT ![w] = r]
    /\ Goto(w, IF r.op = "transfer" THEN "precheck" ELSE "lock")
    /\ UNCHANGED <<data, lock, seen, gain>>

(* The answer has reached the client, or has been lost on the way.           *)
Finish(w) ==
    /\ pc[w] \in {"ok", "error"}
    /\ Goto(w, "idle")
    /\ req' = [req EXCEPT ![w] = NoRequest]
    /\ seen' = [seen EXCEPT ![w] = [i \in Investors |-> 0]]
    /\ gain' = [gain EXCEPT ![w] = 0]
    /\ UNCHANGED <<data, lock>>

(* A crash, a timeout or a database error before COMMIT.                     *)
Abort(w) ==
    /\ pc[w] \in {"precheck", "lock", "check", "commit"}
    /\ Answer(w, "error")
    /\ UNCHANGED <<data, req, seen, gain>>

-----------------------------------------------------------------------------
(* Mutant: the fingerprint of the request is not compared.                   *)
SameKeyOnly(row, r) == TRUE
(* request_fingerprint: the row was written for this very request.           *)
SameRequest(row, r) == row.digest = r

(* _transfer_replay: the receipt of this key wins, whatever the balance is   *)
(* now; a receipt or an entry of another request refuses it.                 *)
ReceiptsOf(r) == {x \in receipts : x.key = r.key}

TransferReplay(w, otherwise) ==
    LET r == req[w] IN
    \/ /\ \E x \in ReceiptsOf(r) : SameRequest(x, r)
       /\ Answer(w, "ok") /\ UNCHANGED gain
    \/ /\ \/ \E x \in ReceiptsOf(r) : ~SameRequest(x, r)
          \/ ReceiptsOf(r) = {} /\ KeyOf(r) \in KeysUsed
       /\ Answer(w, "error") /\ UNCHANGED gain
    \/ /\ ReceiptsOf(r) = {} /\ KeyOf(r) \notin KeysUsed
       /\ otherwise

PreCheck(w) ==
    /\ pc[w] = "precheck"
    /\ TransferReplay(w, Goto(w, "lock") /\ UNCHANGED <<lock, gain>>)
    /\ UNCHANGED <<data, req, seen>>

(* One row lock, or BEGIN IMMEDIATE.                                         *)
Acquire(w) ==
    /\ pc[w] = "lock"
    /\ Missing(w) # {}
    /\ lock[NextLock(w)] = NoWorker
    /\ lock' = [lock EXCEPT ![NextLock(w)] = w]
    /\ UNCHANGED <<data, pc, req, seen, gain>>

(* The row that lock_investor returns, or InvestorNotFoundError.             *)
ReadRows(w) ==
    /\ pc[w] = "lock"
    /\ Missing(w) = {}
    /\ IF InvestorsOf(req[w]) \subseteq exists
       THEN /\ seen' = [seen EXCEPT ![w] =
                 [i \in Investors |-> IF i \in InvestorsOf(req[w])
                                      THEN balance[i] ELSE 0]]
            /\ Goto(w, "check")
            /\ UNCHANGED lock
       ELSE Answer(w, "error") /\ UNCHANGED seen
    /\ UNCHANGED <<data, req, gain>>

(* replay: an entry of this key answers its own request and refuses others.  *)
Replay(w, otherwise) ==
    LET r == req[w]
        own == {e \in EntriesOf(r.who) : e.key = KeyOf(r)} IN
    \/ /\ \E e \in own : SameRequest(e, r)
       /\ r.who \in exists
       /\ Answer(w, "ok") /\ UNCHANGED gain
    \/ /\ KeyOf(r) \in KeysUsed
       /\ ~(r.who \in exists /\ \E e \in own : SameRequest(e, r))
       /\ Answer(w, "error") /\ UNCHANGED gain
    \/ KeyOf(r) \notin KeysUsed /\ otherwise

Decide(w) == \E earned \in (IF req[w].op = "close" THEN Savings ELSE {0}) :
    IF /\ PlanAllows(req[w], plan)
       /\ Admissible(req[w], seen[w], plan[req[w].plan].principal, earned)
    THEN /\ gain' = [gain EXCEPT ![w] = earned]
         /\ Goto(w, "commit")
         /\ UNCHANGED lock
    ELSE Answer(w, "error") /\ UNCHANGED gain

Check(w) ==
    /\ pc[w] = "check"
    /\ CASE req[w].op = "transfer" -> TransferReplay(w, Decide(w))
         [] req[w].op = "delete"   -> Decide(w)
         [] OTHER                  -> Replay(w, Decide(w))
    /\ UNCHANGED <<data, req, seen>>

-----------------------------------------------------------------------------
(* COMMIT.  The compare-and-set of movement finds the row as it was read     *)
(* (delete has none), and the unique columns accept the new keys.            *)
NewKeys(r) ==
    CASE r.op = "transfer"                      -> {KeyOf(r), SecondKeyOf(r)}
      [] r.op = "fund" /\ r.expected < r.amount -> {KeyOf(r), SecondKeyOf(r)}
      [] r.op = "delete"                        -> {}
      [] OTHER                                  -> {KeyOf(r)}

(* Mutant: UPDATE without "available_balance_cents == before".               *)
UnmovedWithoutCompare(w) == InvestorsOf(req[w]) \subseteq exists
Unmoved(w) == \A i \in InvestorsOf(req[w]) :
    i \in exists /\ (req[w].op # "delete" => balance[i] = seen[w][i])
(* Mutant: operation_key of the entries is not unique.                       *)
KeysFreeWithoutUnique(r) == r.op = "transfer" => ReceiptsOf(r) = {}
KeysFree(r) == /\ NewKeys(r) \cap KeysUsed = {}
               /\ r.op = "transfer" => ReceiptsOf(r) = {}

MayWrite(w) == RowLocks \/ lock[DatabaseLock] \in {w, NoWorker}

Commits(w, op) ==
    /\ pc[w] = "commit"
    /\ req[w].op = op
    /\ MayWrite(w)
    /\ Unmoved(w)
    /\ KeysFree(req[w])
    /\ Answer(w, "ok")
    /\ UNCHANGED <<req, seen, gain>>

(* movement on one investor: the new balance, computed from the balance that *)
(* was read, and the ledger row.                                             *)
Movement(w, amount, kind) ==
    LET r == req[w]
        after == seen[w][r.who] + amount IN
    /\ balance' = [balance EXCEPT ![r.who] = after]
    /\ ledger' = [ledger EXCEPT ![r.who] =
           Append(@, Entry(KeyOf(r), r, kind, amount, after))]

Deposit(w) ==
    /\ Commits(w, "deposit")
    /\ Movement(w, req[w].amount, "deposit")
    /\ UNCHANGED <<exists, receipts, plan>>

Withdraw(w) ==
    /\ Commits(w, "withdraw")
    /\ Movement(w, -req[w].amount, "withdraw")
    /\ UNCHANGED <<exists, receipts, plan>>

OutRow(r, left) == Entry(KeyOf(r), r, "transfer_out", -r.amount, left)
(* Mutant: the row of the recipient repeats the sign of the sender's.        *)
InRowSigned(r, got) == Entry(SecondKeyOf(r), r, "transfer_in", -r.amount, got)
InRow(r, got) == Entry(SecondKeyOf(r), r, "transfer_in", r.amount, got)

Transfer(w) ==
    LET r == req[w]
        left == seen[w][r.who] - r.amount
        got  == seen[w][r.to] + r.amount IN
    /\ Commits(w, "transfer")
    /\ receipts' = receipts \cup
           {[key |-> r.key, digest |-> r, sourceAfter |-> left,
             recipientAfter |-> got]}
    /\ balance' = [balance EXCEPT ![r.who] = left, ![r.to] = got]
    /\ ledger' = [ledger EXCEPT
           ![r.who] = Append(@, OutRow(r, left)),
           ![r.to] = Append(@, InRow(r, got))]
    /\ UNCHANGED <<exists, plan>>

(* fund_plan: what is missing to the declared principal is deposited, then   *)
(* the whole balance becomes the principal of the new plan.                  *)
WithFunding(rows, r) ==
    LET extra   == r.amount - r.expected
        topUp   == Entry(SecondKeyOf(r), r, "deposit", extra, r.amount)
        funding == Entry(KeyOf(r), r, "plan_funding", -r.amount, 0) IN
    IF extra > 0 THEN Append(Append(rows, topUp), funding)
    ELSE Append(rows, funding)

FundPlan(w) == LET r == req[w] IN
    /\ Commits(w, "fund")
    /\ balance' = [balance EXCEPT ![r.who] = 0]
    /\ ledger' = [ledger EXCEPT ![r.who] = WithFunding(@, r)]
    /\ plan' = [plan EXCEPT ![r.plan] =
           [status |-> "active", owner |-> r.who, principal |-> r.amount]]
    /\ UNCHANGED <<exists, receipts>>

(* Mutant: the principal is not paid back.                                   *)
PayoutOfSavings(w) == gain[w]
Payout(w) == plan[req[w].plan].principal + gain[w]

ClosePlan(w) == LET p == req[w].plan IN
    /\ Commits(w, "close")
    /\ plan[p].status = "active"
    /\ plan' = [plan EXCEPT ![p].status = "completed"]
    /\ Movement(w, Payout(w), "plan_close")
    /\ UNCHANGED <<exists, receipts>>

(* The investor's row goes; the ledger rows stay, no longer linked to it.    *)
DeleteInvestor(w) ==
    /\ Commits(w, "delete")
    /\ exists' = exists \ {req[w].who}
    /\ UNCHANGED <<balance, ledger, receipts, plan>>

(* rowcount # 1 ("the balance changed"), or IntegrityError on a unique key.  *)
Refuse(w) ==
    /\ pc[w] = "commit"
    /\ MayWrite(w)
    /\ \/ ~Unmoved(w)
       \/ ~KeysFree(req[w])
       \/ req[w].op = "close" /\ plan[req[w].plan].status # "active"
    /\ Answer(w, "error")
    /\ UNCHANGED <<data, req, seen, gain>>

Step(w) ==
    \/ PreCheck(w) \/ Acquire(w) \/ ReadRows(w) \/ Check(w)
    \/ Deposit(w) \/ Withdraw(w) \/ Transfer(w)
    \/ FundPlan(w) \/ ClosePlan(w) \/ DeleteInvestor(w)
    \/ Refuse(w) \/ Finish(w)

(* dedupe_investors_and_users, at every startup and on request: of the       *)
(* investors of one name those without a plan go, unless none is left.  It   *)
(* reads no balance, and waits for the locks of the rows it deletes.         *)
HasPlans(i) == \E p \in Plans : plan[p].owner = i
Duplicates == LET group == Namesakes \cap exists IN
    {i \in group : ~HasPlans(i) /\ \E j \in group \ {i} : HasPlans(j) \/ j < i}

Dedupe ==
    /\ Duplicates # {}
    /\ \A l \in (IF RowLocks THEN Duplicates ELSE {DatabaseLock}) : lock[l] = NoWorker
    /\ exists' = exists \ Duplicates
    /\ UNCHANGED <<balance, ledger, receipts, plan, lock, pc, req, seen, gain>>

Next == Dedupe \/ \E w \in Workers : Submit(w) \/ Step(w) \/ Abort(w)

Spec == Init /\ [][Next]_vars

(* A running handler goes on; a worker waiting for a lock is in the queue    *)
(* the database keeps for that lock, hence strong fairness for Acquire.      *)
Fairness == \A w \in Workers : WF_vars(Step(w)) /\ SF_vars(Acquire(w))
FairSpec == Spec /\ Fairness

-----------------------------------------------------------------------------
Stages == {"idle", "precheck", "lock", "check", "commit", "ok", "error"}
EntryType == [key: [ns: {"op", "agreement", "close", "deposit", "in"},
                    id: OpKeys \cup Plans],
              digest: Requests,
              kind: {"deposit", "withdraw", "transfer_out", "transfer_in",
                     "plan_funding", "plan_close"},
              amount: Int, after: 0..MaxBalance]
ReceiptType == [key: OpKeys, digest: Requests, sourceAfter: 0..MaxBalance,
                recipientAfter: 0..MaxBalance]
PlanType == [status: PlanStatus,
             owner: Investors \cup {0}, principal: 0..MaxBalance]

(* Every variable has its type; in particular no balance and no balance_after *)
(* is ever negative or above the limit of movement.                          *)
TypeOK ==
    /\ exists \subseteq Investors
    /\ balance \in [Investors -> 0..MaxBalance]
    /\ ledger \in [Investors -> Seq(EntryType)]
    /\ receipts \subseteq ReceiptType
    /\ plan \in [Plans -> PlanType]
    /\ lock \in [Lockable -> Workers \cup {NoWorker}]
    /\ pc \in [Workers -> Stages]
    /\ req \in [Workers -> Requests \cup {NoRequest}]
    /\ seen \in [Workers -> [Investors -> 0..MaxBalance]]
    /\ gain \in [Workers -> Savings \cup {0}]

(* The ledger explains the balance: each row's balance_after is the one of   *)
(* the row before it plus its own amount, and the last row's is the balance  *)
(* that the investor has.  A lost update of the balance breaks it.           *)
AfterBefore(i, n) == IF n = 1 THEN 0 ELSE ledger[i][n - 1].after

LedgerExplainsBalance == \A i \in Investors :
    /\ \A n \in DOMAIN ledger[i] :
           ledger[i][n].after = AfterBefore(i, n) + ledger[i][n].amount
    /\ balance[i] = AfterBefore(i, Len(ledger[i]) + 1)

(* A request that is sent again, or that runs twice at the same time, moves  *)
(* money once: no two ledger rows carry the same operation key.              *)
KeyAppliedOnce == \A i, j \in Investors :
    \A m \in DOMAIN ledger[i], n \in DOMAIN ledger[j] :
        ledger[i][m].key = ledger[j][n].key => i = j /\ m = n

(* A transfer is whole: each receipt has one row on each side, of opposite   *)
(* amounts and with the balances that the receipt promises, and no transfer  *)
(* row is without its receipt.                                               *)
TransferIsWhole ==
    /\ \A x \in receipts : \E out \in EntriesOf(x.digest.who) :
         \E in \in EntriesOf(x.digest.to) :
            /\ out.key = Key("op", x.key) /\ out.kind = "transfer_out"
            /\ in.key = Key("in", x.key) /\ in.kind = "transfer_in"
            /\ out.amount = -x.digest.amount /\ in.amount = x.digest.amount
            /\ out.after = x.sourceAfter /\ in.after = x.recipientAfter
    /\ \A i \in Investors : \A e \in EntriesOf(i) :
         e.kind \in {"transfer_out", "transfer_in"} =>
            \E x \in receipts : x.digest = e.digest

(* An investor has at most one current plan (require_no_current_plan), however *)
(* many opening agreements are signed at the same time.                      *)
OneCurrentPlan == \A p, q \in Plans :
    /\ plan[p].status = "active" /\ plan[q].status = "active"
    /\ plan[p].owner = plan[q].owner
    => p = q

(* The principal of a plan leaves the balance of its owner exactly when the  *)
(* plan opens, and comes back at most once, when it closes.                  *)
PrincipalAccounted == \A p \in Plans :
    /\ plan[p].status # "none" <=>
         \E i \in Investors : \E e \in EntriesOf(i) :
            /\ e.key = Key("agreement", p) /\ e.amount = -plan[p].principal
            /\ plan[p].owner = i
    /\ plan[p].status = "completed" <=>
         \E i \in Investors : \E e \in EntriesOf(i) :
            /\ e.key = Key("close", p) /\ e.amount >= plan[p].principal
            /\ plan[p].owner = i

(* What a client is told was done is in the ledger: an answer without error, *)
(* also a replayed one, has a row that this very request wrote.              *)
AnswerIsRecorded == \A w \in Workers :
    pc[w] = "ok" /\ req[w].op # "delete" =>
        \E e \in EntriesOf(req[w].who) : e.key = KeyOf(req[w]) /\ e.digest = req[w]

(* Only empty investors are deleted: no deletion loses money, also not money *)
(* that a concurrent credit brought.                                         *)
DeletedIsEmpty == \A i \in Investors \ exists : balance[i] = 0

(* The requests whose rows are in the ledger.                                *)
applied == UNION {{e.digest : e \in EntriesOf(i)} : i \in Investors}

(* The transactions implement the promise: each commit is one operation on   *)
(* the balances and plans of that instant, whatever ran beside it.           *)
Promise == INSTANCE WalletPromise WITH
    exists <- exists, balance <- balance, plan <- plan, applied <- applied
KeepsPromise == Promise!Spec

(* Every request is answered, whatever the others do.                        *)
EveryRequestAnswered == \A w \in Workers : pc[w] # "idle" ~> pc[w] = "idle"

=============================================================================
