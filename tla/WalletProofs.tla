---------------------------- MODULE WalletProofs ----------------------------
(***************************************************************************)
(* Proofs about Wallet, for any number of investors, plans, workers and    *)
(* requests and for both databases.                                        *)
(***************************************************************************)
EXTENDS Wallet, TLAPS

Holding == {"check", "commit"}

(* A worker that is not idle serves a request.                               *)
Busy == \A w \in Workers : pc[w] # "idle" => req[w] \in Requests

(* Past the lock stage a worker holds every lock its request asks for.       *)
LocksHeld == \A w \in Workers : pc[w] \in Holding =>
    \A l \in LocksOf(req[w]) : lock[l] = w

(* What was decided at the check still holds when the commit comes.          *)
Decided == \A w \in Workers : pc[w] = "commit" =>
    /\ PlanAllows(req[w], plan)
    /\ Admissible(req[w], seen[w], plan[req[w].plan].principal, gain[w])

(* A deletion compares nothing at its commit: its lock keeps what it read.   *)
DeletionCurrent == \A w \in Workers :
    pc[w] \in Holding /\ req[w].op = "delete" =>
        balance[req[w].who] = seen[w][req[w].who]

IInv == /\ TypeOK /\ Busy /\ LocksHeld /\ Decided /\ DeletionCurrent
        /\ OneCurrentPlan

LEMMA SavedNat == ASSUME NEW earned \in Savings \cup {0} PROVE earned \in Nat
  BY SavingsNat

USE InvestorsAreIds, RequestsTyped, TransfersMove, MaxBalanceNat,
    RowLocksBool, NoWorkerFresh, NoRequestFresh

-----------------------------------------------------------------------------
LEMMA RequestFields == ASSUME NEW r \in Requests
    PROVE /\ r.op \in Ops /\ r.who \in Investors /\ r.to \in Investors
          /\ r.key \in OpKeys /\ r.amount \in Nat /\ r.expected \in Nat
          /\ r.plan \in Plans
  BY DEF RequestType

LEMMA LocksLockable == ASSUME NEW r \in Requests
    PROVE LocksOf(r) \subseteq Lockable
  BY RequestFields DEF LocksOf, InvestorsOf, Lockable

LEMMA InitIInv == Init => IInv
  BY DEF Init, IInv, TypeOK, Busy, LocksHeld, Decided, DeletionCurrent,
     OneCurrentPlan, PlanType, PlanStatus, NoPlan, Stages, Holding, Lockable

-----------------------------------------------------------------------------
(* What a worker that commits knows.                                         *)
LEMMA CommitFacts == ASSUME IInv, NEW w \in Workers, NEW op, Commits(w, op)
    PROVE /\ req[w] \in Requests /\ req[w].op = op
          /\ InvestorsOf(req[w]) \subseteq exists
          /\ op # "delete" => \A i \in InvestorsOf(req[w]) : balance[i] = seen[w][i]
          /\ \A l \in LocksOf(req[w]) : lock[l] = w
          /\ PlanAllows(req[w], plan)
          /\ Admissible(req[w], seen[w], plan[req[w].plan].principal, gain[w])
          /\ pc' = [pc EXCEPT ![w] = "ok"] /\ lock' = Unlocked(w)
  BY DEF Commits, Answer, Goto, IInv, TypeOK, Busy, LocksHeld, Decided, Unmoved,
     Holding

(* Two workers past the lock stage: when one commits, the other serves other *)
(* investors, or one of the two operations that read without a lock.         *)
LEMMA Exclusion ==
    ASSUME IInv, NEW w \in Workers, pc[w] = "commit", MayWrite(w),
           NEW v \in Workers, v # w, pc[v] \in Holding
    PROVE \/ InvestorsOf(req[v]) \cap InvestorsOf(req[w]) = {}
          \/ req[v].op \in {"deposit", "withdraw"}
  <1>1. CASE RowLocks
    BY <1>1 DEF IInv, LocksHeld, Holding, LocksOf
  <1>2. CASE ~RowLocks
    BY <1>2 DEF IInv, LocksHeld, Holding, LocksOf, MayWrite
  <1> QED BY <1>1, <1>2

(* Ending a transaction releases the locks of its own worker only.           *)
LEMMA AnswerKeepsLocks ==
    ASSUME IInv, NEW w \in Workers, NEW outcome \in {"ok", "error"},
           pc[w] # "idle", Answer(w, outcome), UNCHANGED req
    PROVE Busy' /\ LocksHeld' /\ lock' \in [Lockable -> Workers \cup {NoWorker}]
  <1>1. Busy' /\ lock' \in [Lockable -> Workers \cup {NoWorker}]
    BY DEF IInv, TypeOK, Busy, LocksHeld, Answer, Goto, Unlocked, Holds, Holding
  <1>2. ASSUME NEW v \in Workers, pc'[v] \in Holding, NEW l \in LocksOf(req'[v])
        PROVE lock'[l] = v
    <2>1. v # w /\ pc[v] \in Holding /\ req[v] \in Requests
      BY <1>2 DEF IInv, TypeOK, Busy, Answer, Goto, Holding
    <2>2. lock[l] = v /\ l \in Lockable
      BY <1>2, <2>1, LocksLockable DEF IInv, LocksHeld
    <2> QED BY <2>1, <2>2 DEF Answer, Unlocked, Holds
  <1> QED BY <1>1, <1>2 DEF LocksHeld

-----------------------------------------------------------------------------
(* The steps that leave the data alone.                                      *)
LEMMA SubmitStep == ASSUME IInv, NEW w \in Workers, Submit(w) PROVE IInv'
  BY DEF Submit, IInv, data, TypeOK, Busy, LocksHeld, Decided, DeletionCurrent,
     OneCurrentPlan, Stages, Holding, Goto

LEMMA FinishStep == ASSUME IInv, NEW w \in Workers, Finish(w) PROVE IInv'
  BY DEF Finish, IInv, data, TypeOK, Busy, LocksHeld, Decided, DeletionCurrent,
     OneCurrentPlan, Stages, Holding, Goto

(* A transaction that ends without having changed the data.                  *)
LEMMA AnswerStep ==
    ASSUME IInv, NEW w \in Workers, NEW outcome \in {"ok", "error"},
           pc[w] # "idle", Answer(w, outcome), UNCHANGED <<data, req, seen, gain>>
    PROVE IInv'
  <1>1. Busy' /\ LocksHeld' /\ lock' \in [Lockable -> Workers \cup {NoWorker}]
    BY AnswerKeepsLocks
  <1>2. TypeOK'
    BY <1>1 DEF IInv, TypeOK, data, Answer, Goto, Stages
  <1>3. Decided' /\ DeletionCurrent' /\ OneCurrentPlan'
    BY DEF IInv, TypeOK, data, Answer, Goto, Decided, DeletionCurrent,
       OneCurrentPlan, Holding
  <1> QED BY <1>1, <1>2, <1>3 DEF IInv

LEMMA AbortStep == ASSUME IInv, NEW w \in Workers, Abort(w) PROVE IInv'
  BY AnswerStep DEF Abort

LEMMA RefuseStep == ASSUME IInv, NEW w \in Workers, Refuse(w) PROVE IInv'
  BY AnswerStep DEF Refuse

LEMMA PreCheckStep == ASSUME IInv, NEW w \in Workers, PreCheck(w) PROVE IInv'
  <1>1. CASE \E outcome \in {"ok", "error"} : Answer(w, outcome) /\ UNCHANGED gain
    BY <1>1, AnswerStep DEF PreCheck
  <1>2. CASE Goto(w, "lock") /\ UNCHANGED <<lock, gain>>
    BY <1>2 DEF PreCheck, IInv, data, TypeOK, Busy, LocksHeld, Decided,
       DeletionCurrent, OneCurrentPlan, Stages, Holding, Goto
  <1> QED BY <1>1, <1>2 DEF PreCheck, TransferReplay

LEMMA AcquireStep == ASSUME IInv, NEW w \in Workers, Acquire(w) PROVE IInv'
  <1>1. TypeOK' /\ Busy' /\ Decided' /\ DeletionCurrent' /\ OneCurrentPlan'
    BY DEF Acquire, IInv, data, TypeOK, Busy, Decided, DeletionCurrent,
       OneCurrentPlan
  <1>2. LocksHeld'
    BY LocksLockable DEF Acquire, IInv, data, TypeOK, Busy, LocksHeld, Holding
  <1> QED BY <1>1, <1>2 DEF IInv

LEMMA ReadRowsStep == ASSUME IInv, NEW w \in Workers, ReadRows(w) PROVE IInv'
  <1>1. CASE Answer(w, "error") /\ UNCHANGED seen
    BY <1>1, AnswerStep DEF ReadRows
  <1>2. CASE /\ seen' = [seen EXCEPT ![w] =
                 [i \in Investors |-> IF i \in InvestorsOf(req[w])
                                      THEN balance[i] ELSE 0]]
             /\ Goto(w, "check")
             /\ UNCHANGED lock
    <2>1. TypeOK' /\ Busy' /\ Decided' /\ OneCurrentPlan'
      BY <1>2 DEF ReadRows, IInv, data, TypeOK, Busy, Decided,
         OneCurrentPlan, Goto, Stages
    <2>2. LocksHeld'
      BY <1>2, LocksLockable DEF ReadRows, IInv, data, TypeOK, Busy, LocksHeld,
         Holding, Goto, Missing, Holds
    <2>3. DeletionCurrent'
      BY <1>2, RequestFields DEF ReadRows, IInv, data, TypeOK, Busy,
         DeletionCurrent, Holding, Goto, InvestorsOf
    <2> QED BY <2>1, <2>2, <2>3 DEF IInv
  <1> QED BY <1>1, <1>2 DEF ReadRows

LEMMA CheckStep == ASSUME IInv, NEW w \in Workers, Check(w) PROVE IInv'
  <1>1. CASE \E outcome \in {"ok", "error"} : Answer(w, outcome) /\ UNCHANGED gain
    BY <1>1, AnswerStep DEF Check
  <1>2. ASSUME NEW earned \in Savings \cup {0},
               PlanAllows(req[w], plan),
               Admissible(req[w], seen[w], plan[req[w].plan].principal, earned),
               gain' = [gain EXCEPT ![w] = earned],
               Goto(w, "commit"), UNCHANGED lock
        PROVE IInv'
    <2>1. TypeOK' /\ Busy' /\ LocksHeld' /\ DeletionCurrent' /\ OneCurrentPlan'
      BY <1>2 DEF Check, IInv, data, TypeOK, Busy, LocksHeld, DeletionCurrent,
         OneCurrentPlan, Goto, Stages, Holding
    <2>2. Decided'
      BY <1>2 DEF Check, IInv, data, TypeOK, Decided, Goto
    <2> QED BY <2>1, <2>2 DEF IInv
  <1> QED BY <1>1, <1>2 DEF Check, TransferReplay, Replay, Decide

-----------------------------------------------------------------------------
(* The commits.  What one changes does not reach what another worker, past   *)
(* its lock stage, has decided: see Exclusion.                               *)
LEMMA CommitControl ==
    ASSUME IInv, NEW w \in Workers, NEW op, Commits(w, op)
    PROVE /\ Busy' /\ LocksHeld'
          /\ lock' \in [Lockable -> Workers \cup {NoWorker}]
          /\ pc' \in [Workers -> Stages] /\ UNCHANGED <<req, seen, gain>>
          /\ \A v \in Workers : pc'[v] \in Holding =>
                /\ v # w /\ pc[v] \in Holding /\ pc'[v] = pc[v]
                /\ req[v] \in Requests
                /\ \/ InvestorsOf(req[v]) \cap InvestorsOf(req[w]) = {}
                   \/ req[v].op \in {"deposit", "withdraw"}
  <1>1. Busy' /\ LocksHeld' /\ lock' \in [Lockable -> Workers \cup {NoWorker}]
    BY AnswerKeepsLocks DEF Commits
  <1>2. pc' \in [Workers -> Stages] /\ UNCHANGED <<req, seen, gain>>
    BY DEF Commits, Answer, Goto, IInv, TypeOK, Stages
  <1>3. ASSUME NEW v \in Workers, pc'[v] \in Holding
        PROVE /\ v # w /\ pc[v] \in Holding /\ pc'[v] = pc[v]
              /\ req[v] \in Requests
    BY <1>3 DEF Commits, Answer, Goto, IInv, TypeOK, Holding, Busy
  <1>4. ASSUME NEW v \in Workers, pc'[v] \in Holding
        PROVE \/ InvestorsOf(req[v]) \cap InvestorsOf(req[w]) = {}
              \/ req[v].op \in {"deposit", "withdraw"}
    BY <1>3, <1>4, Exclusion DEF Commits
  <1> QED BY <1>1, <1>2, <1>3, <1>4

(* A commit that leaves the plans alone changes no decision.                 *)
LEMMA PlansKept ==
    ASSUME IInv, NEW w \in Workers, NEW op, Commits(w, op), UNCHANGED plan
    PROVE Decided' /\ OneCurrentPlan'
  <1>1. OneCurrentPlan'
    BY DEF IInv, OneCurrentPlan
  <1>2. Decided'
    BY CommitControl DEF IInv, Decided, Holding, Commits, Answer, Goto, TypeOK
  <1> QED BY <1>1, <1>2

(* A commit touches the balances of its own investors only.                  *)
LEMMA DeletionsKept ==
    ASSUME IInv, NEW w \in Workers, NEW op, Commits(w, op),
           \A i \in Investors \ InvestorsOf(req[w]) : balance'[i] = balance[i]
    PROVE DeletionCurrent'
  <1> SUFFICES ASSUME NEW v \in Workers, pc'[v] \in Holding, req[v].op = "delete"
               PROVE balance'[req[v].who] = seen[v][req[v].who]
    BY CommitControl DEF DeletionCurrent
  <1>1. InvestorsOf(req[v]) \cap InvestorsOf(req[w]) = {} /\ req[v] \in Requests
    BY CommitControl
  <1>2. req[v].who \in Investors \ InvestorsOf(req[w])
    BY <1>1, RequestFields DEF InvestorsOf
  <1> QED BY <1>2, CommitControl DEF IInv, DeletionCurrent

LEMMA EntryTyped ==
    ASSUME NEW r \in Requests, NEW amount \in Int, NEW after \in 0..MaxBalance,
           NEW key \in {KeyOf(r), SecondKeyOf(r)},
           NEW kind \in {"deposit", "withdraw", "transfer_out", "transfer_in",
                         "plan_funding", "plan_close"}
    PROVE Entry(key, r, kind, amount, after) \in EntryType
  BY RequestFields DEF Entry, EntryType, KeyOf, SecondKeyOf, Key

LEMMA AppendTyped == ASSUME NEW S, NEW rows \in Seq(S), NEW e \in S
    PROVE Append(rows, e) \in Seq(S)
  OBVIOUS

LEMMA LedgerTyped == ASSUME IInv, NEW i \in Investors PROVE ledger[i] \in Seq(EntryType)
  BY DEF IInv, TypeOK

(* One movement, computed from the balance that was read.                    *)
LEMMA MovementTyped ==
    ASSUME IInv, NEW w \in Workers, req[w] \in Requests, NEW amount \in Int,
           NEW kind \in {"deposit", "withdraw", "plan_close"},
           seen[w][req[w].who] + amount \in 0..MaxBalance,
           Movement(w, amount, kind)
    PROVE /\ balance' \in [Investors -> 0..MaxBalance]
          /\ ledger' \in [Investors -> Seq(EntryType)]
          /\ \A i \in Investors \ {req[w].who} : balance'[i] = balance[i]
  <1>1. Entry(KeyOf(req[w]), req[w], kind, amount, seen[w][req[w].who] + amount)
          \in EntryType
    BY EntryTyped
  <1>2. Append(ledger[req[w].who],
               Entry(KeyOf(req[w]), req[w], kind, amount, seen[w][req[w].who] + amount))
          \in Seq(EntryType)
    <2>1. ledger[req[w].who] \in Seq(EntryType)
      BY RequestFields, LedgerTyped
    <2> QED BY <1>1, <2>1, AppendTyped
  <1>3. ledger' \in [Investors -> Seq(EntryType)]
    BY <1>2, RequestFields DEF Movement, IInv, TypeOK
  <1>4. /\ balance' \in [Investors -> 0..MaxBalance]
        /\ \A i \in Investors \ {req[w].who} : balance'[i] = balance[i]
    BY RequestFields DEF Movement, IInv, TypeOK
  <1> QED BY <1>3, <1>4

LEMMA DepositStep == ASSUME IInv, NEW w \in Workers, Deposit(w) PROVE IInv'
  <1>1. /\ req[w] \in Requests /\ req[w].op = "deposit"
        /\ Admissible(req[w], seen[w], plan[req[w].plan].principal, gain[w])
    BY CommitFacts DEF Deposit
  <1>2. seen[w][req[w].who] + req[w].amount \in 0..MaxBalance
    BY <1>1, RequestFields DEF Admissible, Fits, IInv, TypeOK
  <1>3. /\ balance' \in [Investors -> 0..MaxBalance]
        /\ ledger' \in [Investors -> Seq(EntryType)]
        /\ \A i \in Investors \ {req[w].who} : balance'[i] = balance[i]
    BY <1>1, <1>2, MovementTyped, RequestFields DEF Deposit
  <1>4. TypeOK' /\ Busy' /\ LocksHeld'
    BY <1>3, CommitControl DEF Deposit, IInv, TypeOK
  <1>5. Decided' /\ OneCurrentPlan' /\ DeletionCurrent'
    BY <1>1, <1>3, PlansKept, DeletionsKept DEF Deposit, InvestorsOf
  <1> QED BY <1>4, <1>5 DEF IInv

LEMMA WithdrawStep == ASSUME IInv, NEW w \in Workers, Withdraw(w) PROVE IInv'
  <1>1. /\ req[w] \in Requests /\ req[w].op = "withdraw"
        /\ Admissible(req[w], seen[w], plan[req[w].plan].principal, gain[w])
    BY CommitFacts DEF Withdraw
  <1>2. seen[w][req[w].who] + (-req[w].amount) \in 0..MaxBalance
    BY <1>1, RequestFields DEF Admissible, IInv, TypeOK
  <1>3. /\ balance' \in [Investors -> 0..MaxBalance]
        /\ ledger' \in [Investors -> Seq(EntryType)]
        /\ \A i \in Investors \ {req[w].who} : balance'[i] = balance[i]
    BY <1>1, <1>2, MovementTyped, RequestFields DEF Withdraw
  <1>4. TypeOK' /\ Busy' /\ LocksHeld'
    BY <1>3, CommitControl DEF Withdraw, IInv, TypeOK
  <1>5. Decided' /\ OneCurrentPlan' /\ DeletionCurrent'
    BY <1>1, <1>3, PlansKept, DeletionsKept DEF Withdraw, InvestorsOf
  <1> QED BY <1>4, <1>5 DEF IInv

LEMMA TransferStep == ASSUME IInv, NEW w \in Workers, Transfer(w) PROVE IInv'
  <1> DEFINE r == req[w]
             left == seen[w][r.who] - r.amount
             got == seen[w][r.to] + r.amount
  <1>1. /\ r \in Requests /\ r.op = "transfer"
        /\ Admissible(r, seen[w], plan[r.plan].principal, gain[w])
    BY CommitFacts DEF Transfer
  <1>2. left \in 0..MaxBalance /\ got \in 0..MaxBalance
    BY <1>1, RequestFields DEF Admissible, Fits, IInv, TypeOK
  <1>3. OutRow(r, left) \in EntryType /\ InRow(r, got) \in EntryType
    <2>1. r.amount \in Int /\ -r.amount \in Int
      BY <1>1, RequestFields
    <2> QED BY <1>1, <1>2, <2>1, EntryTyped DEF OutRow, InRow
  <1>4. ledger' \in [Investors -> Seq(EntryType)]
    <2>1. /\ Append(ledger[r.who], OutRow(r, left)) \in Seq(EntryType)
          /\ Append(ledger[r.to], InRow(r, got)) \in Seq(EntryType)
      <3>1. ledger[r.who] \in Seq(EntryType) /\ ledger[r.to] \in Seq(EntryType)
        BY <1>1, RequestFields, LedgerTyped
      <3> QED BY <1>3, <3>1, AppendTyped
    <2>2. r.who # r.to /\ r.who \in Investors /\ r.to \in Investors
      BY <1>1, RequestFields
    <2>3. /\ ledger'[r.who] = Append(ledger[r.who], OutRow(r, left))
          /\ ledger'[r.to] = Append(ledger[r.to], InRow(r, got))
          /\ \A i \in Investors \ {r.who, r.to} : ledger'[i] = ledger[i]
          /\ ledger' = [i \in Investors |-> ledger'[i]]
      BY <2>2 DEF Transfer, IInv, TypeOK
    <2>4. \A i \in Investors : ledger'[i] \in Seq(EntryType)
      BY <2>1, <2>3, LedgerTyped
    <2> QED BY <2>3, <2>4
  <1>5. /\ balance' \in [Investors -> 0..MaxBalance]
        /\ \A i \in Investors \ InvestorsOf(r) : balance'[i] = balance[i]
    BY <1>1, <1>2, RequestFields DEF Transfer, IInv, TypeOK, InvestorsOf
  <1>6. receipts' \subseteq ReceiptType
    <2> DEFINE receipt == [key |-> r.key, digest |-> r, sourceAfter |-> left,
                           recipientAfter |-> got]
    <2>1. receipt \in ReceiptType
      <3>1. r \in Requests /\ r.key \in OpKeys
        BY <1>1, RequestFields
      <3> HIDE DEF r, left, got
      <3> QED BY <1>2, <3>1 DEF ReceiptType
    <2>2. receipts' = receipts \cup {receipt}
      <3> HIDE DEF receipt, r, left, got
      <3> QED BY Zenon DEF Transfer, receipt, r, left, got
    <2>3. receipts \subseteq ReceiptType
      BY DEF IInv, TypeOK
    <2> HIDE DEF receipt
    <2> QED BY <2>1, <2>2, <2>3
  <1>7. TypeOK' /\ Busy' /\ LocksHeld'
    <2>1. Commits(w, "transfer") /\ UNCHANGED <<exists, plan>>
      BY DEF Transfer
    <2> QED BY <1>4, <1>5, <1>6, <2>1, CommitControl DEF IInv, TypeOK
  <1>8. Decided' /\ OneCurrentPlan' /\ DeletionCurrent'
    BY <1>5, PlansKept, DeletionsKept DEF Transfer
  <1> QED BY <1>7, <1>8 DEF IInv

LEMMA DeleteInvestorStep ==
    ASSUME IInv, NEW w \in Workers, DeleteInvestor(w) PROVE IInv'
  <1>1. TypeOK' /\ Busy' /\ LocksHeld'
    <2>1. exists' \subseteq Investors
      BY DEF DeleteInvestor, IInv, TypeOK
    <2>2. Commits(w, "delete") /\ UNCHANGED <<balance, ledger, receipts, plan>>
      BY DEF DeleteInvestor
    <2> QED BY <2>1, <2>2, CommitControl DEF IInv, TypeOK
  <1>2. Decided' /\ OneCurrentPlan' /\ DeletionCurrent'
    BY PlansKept, DeletionsKept DEF DeleteInvestor
  <1> QED BY <1>1, <1>2 DEF IInv

LEMMA FundPlanStep == ASSUME IInv, NEW w \in Workers, FundPlan(w) PROVE IInv'
  <1> DEFINE r == req[w]
  <1>1. /\ r \in Requests /\ r.op = "fund"
        /\ Admissible(r, seen[w], plan[r.plan].principal, gain[w])
        /\ PlanAllows(r, plan)
    BY CommitFacts DEF FundPlan
  <1>2. r.amount \in 0..MaxBalance /\ r.expected \in Nat
    BY <1>1, RequestFields DEF Admissible, Fits
  <1>3. ledger' \in [Investors -> Seq(EntryType)]
    <2>1. /\ Entry(SecondKeyOf(r), r, "deposit", r.amount - r.expected, r.amount)
                \in EntryType
          /\ Entry(KeyOf(r), r, "plan_funding", -r.amount, 0) \in EntryType
      <3>1. -r.amount \in Int /\ r.amount - r.expected \in Int /\ 0 \in 0..MaxBalance
        BY <1>2
      <3> QED BY <1>1, <1>2, <3>1, EntryTyped
    <2>2. ASSUME NEW rows \in Seq(EntryType)
          PROVE WithFunding(rows, r) \in Seq(EntryType)
      BY <2>1 DEF WithFunding
    <2> QED BY <1>1, <2>2, RequestFields DEF FundPlan, IInv, TypeOK
  <1>4. /\ balance' \in [Investors -> 0..MaxBalance]
        /\ \A i \in Investors \ InvestorsOf(r) : balance'[i] = balance[i]
    BY <1>1, RequestFields DEF FundPlan, IInv, TypeOK, InvestorsOf
  <1>5. plan' \in [Plans -> PlanType]
    BY <1>1, <1>2, RequestFields DEF FundPlan, IInv, TypeOK, PlanType, PlanStatus
  <1>6. TypeOK' /\ Busy' /\ LocksHeld'
    BY <1>3, <1>4, <1>5, CommitControl DEF FundPlan, IInv, TypeOK
  <1>7. /\ \A p \in Plans \ {r.plan} : plan'[p] = plan[p]
        /\ plan'[r.plan].owner = r.who /\ plan[r.plan].status = "none"
        /\ ~CurrentPlanIn(plan, r.who)
    BY <1>1, RequestFields DEF FundPlan, IInv, TypeOK, PlanAllows
  <1>8. OneCurrentPlan'
    BY <1>1, <1>7, RequestFields DEF IInv, OneCurrentPlan, CurrentPlanIn
  <1>9. Decided'
    <2> SUFFICES ASSUME NEW v \in Workers, pc'[v] = "commit"
                 PROVE /\ PlanAllows(req[v], plan')
                       /\ Admissible(req[v], seen[v], plan'[req[v].plan].principal,
                                     gain[v])
      BY CommitControl DEF Decided, FundPlan
    <2> DEFINE s == req[v]
    <2>1. /\ s \in Requests /\ pc[v] = "commit"
          /\ \/ s.op \in {"deposit", "withdraw"}
             \/ InvestorsOf(s) \cap InvestorsOf(r) = {}
      BY CommitControl DEF FundPlan, Holding
    <2>2. /\ PlanAllows(s, plan)
          /\ Admissible(s, seen[v], plan[s.plan].principal, gain[v])
      BY <2>1 DEF IInv, Decided
    <2>3. s.op \notin {"deposit", "withdraw"} => s.who # r.who
      BY <2>1 DEF InvestorsOf
    <2>4. CASE s.op = "fund"
      <3>1. s.plan # r.plan
        BY <1>1, <2>1, <2>3, <2>4, OneOpeningPerPlan
      <3>2. plan'[s.plan] = plan[s.plan]
        BY <1>7, <2>1, <3>1, RequestFields
      <3>3. ~CurrentPlanIn(plan', s.who)
        BY <1>7, <2>2, <2>3, <2>4 DEF PlanAllows, CurrentPlanIn
      <3> QED BY <2>2, <2>4, <3>2, <3>3 DEF PlanAllows
    <2>5. CASE s.op = "close"
      <3>1. plan'[s.plan] = plan[s.plan]
        BY <1>7, <2>1, <2>2, <2>5, RequestFields DEF PlanAllows
      <3> QED BY <2>2, <2>5, <3>1 DEF PlanAllows
    <2>6. CASE s.op = "delete"
      BY <1>7, <2>1, <2>2, <2>3, <2>6, RequestFields DEF PlanAllows, Admissible
    <2>7. CASE s.op \in {"deposit", "withdraw", "transfer"}
      BY <2>2, <2>7 DEF PlanAllows, Admissible
    <2> QED BY <2>1, <2>4, <2>5, <2>6, <2>7, RequestFields DEF Ops
  <1>10. DeletionCurrent'
    BY <1>4, DeletionsKept DEF FundPlan
  <1> QED BY <1>6, <1>8, <1>9, <1>10 DEF IInv

(* What a closing pays out fits the balance it was decided on.               *)
LEMMA PayoutFits == ASSUME IInv, NEW w \in Workers, ClosePlan(w)
    PROVE /\ Payout(w) \in Int
          /\ seen[w][req[w].who] + Payout(w) \in 0..MaxBalance
  <1> DEFINE r == req[w]
  <1>0. /\ r \in Requests /\ r.op = "close"
        /\ Admissible(r, seen[w], plan[r.plan].principal, gain[w])
    BY CommitFacts DEF ClosePlan
  <1>1. /\ seen[w][r.who] \in Nat /\ plan[r.plan].principal \in Nat
        /\ gain[w] \in Nat /\ MaxBalance \in Nat
    <2>1. r.who \in Investors /\ r.plan \in Plans
      BY <1>0, RequestFields
    <2>2. plan[r.plan] \in PlanType /\ seen[w] \in [Investors -> 0..MaxBalance]
      BY <2>1 DEF IInv, TypeOK
    <2>3. gain[w] \in Savings \cup {0}
      BY DEF IInv, TypeOK
    <2>4. plan[r.plan].principal \in 0..MaxBalance
      BY <2>2 DEF PlanType
    <2>5. seen[w][r.who] \in 0..MaxBalance
      BY <2>1, <2>2
    <2>6. gain[w] \in Nat
      BY <2>3, SavedNat
    <2> QED BY <2>4, <2>5, <2>6
  <1>2. seen[w][r.who] + plan[r.plan].principal + gain[w] <= MaxBalance
    BY <1>0 DEF Admissible, Fits
  <1>3. Payout(w) \in Nat /\ seen[w][r.who] + Payout(w) <= MaxBalance
    BY <1>1, <1>2 DEF Payout
  <1> QED BY <1>1, <1>3

LEMMA ClosePlanStep == ASSUME IInv, NEW w \in Workers, ClosePlan(w) PROVE IInv'
  <1> DEFINE r == req[w]
  <1>1. /\ r \in Requests /\ r.op = "close"
        /\ Admissible(r, seen[w], plan[r.plan].principal, gain[w])
        /\ PlanAllows(r, plan)
    BY CommitFacts DEF ClosePlan
  <1>2. /\ Payout(w) \in Int
        /\ seen[w][r.who] + Payout(w) \in 0..MaxBalance
    BY PayoutFits
  <1>3. /\ balance' \in [Investors -> 0..MaxBalance]
        /\ ledger' \in [Investors -> Seq(EntryType)]
        /\ \A i \in Investors \ {r.who} : balance'[i] = balance[i]
    BY <1>1, <1>2, MovementTyped, RequestFields DEF ClosePlan
  <1>4. plan' \in [Plans -> PlanType]
    <2>1. plan \in [Plans -> PlanType] /\ r.plan \in Plans
      BY <1>1, RequestFields DEF IInv, TypeOK
    <2>2. [plan[r.plan] EXCEPT !.status = "completed"] \in PlanType
      BY <2>1 DEF PlanType, PlanStatus
    <2> QED BY <2>1, <2>2 DEF ClosePlan
  <1>5. TypeOK' /\ Busy' /\ LocksHeld'
    BY <1>3, <1>4, CommitControl DEF ClosePlan, IInv, TypeOK
  <1>6. /\ \A p \in Plans \ {r.plan} : plan'[p] = plan[p]
        /\ plan'[r.plan].owner = r.who /\ plan[r.plan].owner = r.who
        /\ plan[r.plan].status = "active" /\ plan'[r.plan].status = "completed"
        /\ plan'[r.plan].principal = plan[r.plan].principal
    BY <1>1, RequestFields DEF ClosePlan, IInv, TypeOK, PlanType, PlanAllows
  <1>7. OneCurrentPlan'
    BY <1>1, <1>6, RequestFields DEF IInv, OneCurrentPlan
  <1>8. Decided'
    <2> SUFFICES ASSUME NEW v \in Workers, pc'[v] = "commit"
                 PROVE /\ PlanAllows(req[v], plan')
                       /\ Admissible(req[v], seen[v], plan'[req[v].plan].principal,
                                     gain[v])
      BY CommitControl DEF Decided, ClosePlan
    <2> DEFINE s == req[v]
    <2>1. /\ s \in Requests /\ pc[v] = "commit"
          /\ \/ s.op \in {"deposit", "withdraw"}
             \/ InvestorsOf(s) \cap InvestorsOf(r) = {}
      BY CommitControl DEF ClosePlan, Holding
    <2>2. /\ PlanAllows(s, plan)
          /\ Admissible(s, seen[v], plan[s.plan].principal, gain[v])
      BY <2>1 DEF IInv, Decided
    <2>3. s.op \notin {"deposit", "withdraw"} => s.who # r.who
      BY <2>1 DEF InvestorsOf
    <2>4. CASE s.op = "fund"
      BY <1>6, <2>1, <2>2, <2>3, <2>4, RequestFields
      DEF PlanAllows, Admissible, CurrentPlanIn
    <2>5. CASE s.op = "close"
      <3>1. plan'[s.plan] = plan[s.plan]
        BY <1>6, <2>1, <2>2, <2>3, <2>5, RequestFields DEF PlanAllows
      <3> QED BY <2>2, <2>5, <3>1 DEF PlanAllows
    <2>6. CASE s.op = "delete"
      BY <1>6, <2>1, <2>2, <2>3, <2>6, RequestFields DEF PlanAllows, Admissible
    <2>7. CASE s.op \in {"deposit", "withdraw", "transfer"}
      BY <2>2, <2>7 DEF PlanAllows, Admissible
    <2> QED BY <2>1, <2>4, <2>5, <2>6, <2>7, RequestFields DEF Ops
  <1>9. DeletionCurrent'
    BY <1>1, <1>3, DeletionsKept DEF ClosePlan, InvestorsOf
  <1> QED BY <1>5, <1>7, <1>8, <1>9 DEF IInv

-----------------------------------------------------------------------------
LEMMA NextStep == IInv /\ [Next]_vars => IInv'
  <1> SUFFICES ASSUME IInv, [Next]_vars PROVE IInv'
    OBVIOUS
  <1>1. CASE UNCHANGED vars
    BY <1>1 DEF vars, IInv, TypeOK, Busy, LocksHeld, Decided, DeletionCurrent,
       OneCurrentPlan
  <1>2. ASSUME NEW w \in Workers, Submit(w) \/ Step(w) \/ Abort(w) PROVE IInv'
    BY <1>2, SubmitStep, AbortStep, PreCheckStep, AcquireStep, ReadRowsStep,
       CheckStep, DepositStep, WithdrawStep, TransferStep, FundPlanStep,
       ClosePlanStep, DeleteInvestorStep, RefuseStep, FinishStep DEF Step
  <1>3. CASE Dedupe
    BY <1>3 DEF Dedupe, IInv, TypeOK, Busy, LocksHeld, Decided,
       DeletionCurrent, OneCurrentPlan
  <1> QED BY <1>1, <1>2, <1>3 DEF Next

LEMMA AlwaysIInv == Spec => []IInv
  <1>1. Init => IInv
    BY InitIInv
  <1>2. IInv /\ [Next]_vars => IInv'
    BY NextStep
  <1> QED BY <1>1, <1>2, PTL DEF Spec

(* Types, and with them the bounds of every balance and balance_after: no    *)
(* operation and no overlap of operations takes a balance below zero or over *)
(* the limit of movement.                                                    *)
THEOREM TypeCorrect == Spec => []TypeOK
  <1>1. IInv => TypeOK
    BY DEF IInv
  <1> QED BY <1>1, AlwaysIInv, PTL

(* However many opening agreements are signed at the same time, an investor  *)
(* has at most one current plan.                                             *)
THEOREM OneCurrentPlanAlways == Spec => []OneCurrentPlan
  <1>1. IInv => OneCurrentPlan
    BY DEF IInv
  <1> QED BY <1>1, AlwaysIInv, PTL

-----------------------------------------------------------------------------
(* The ledger of one investor is extended by a row that continues it.        *)
Explained(rows, value) ==
    LET before(n) == IF n = 1 THEN 0 ELSE rows[n - 1].after IN
    /\ \A n \in DOMAIN rows : rows[n].after = before(n) + rows[n].amount
    /\ value = before(Len(rows) + 1)

LEMMA ExplainedExtended ==
    ASSUME NEW rows \in Seq(EntryType), NEW value \in Int, Explained(rows, value),
           NEW e \in EntryType, e.after = value + e.amount
    PROVE Explained(Append(rows, e), e.after)
  <1> DEFINE more == Append(rows, e)
  <1>1. /\ Len(more) = Len(rows) + 1 /\ Len(rows) \in Nat
        /\ DOMAIN more = 1..(Len(rows) + 1) /\ DOMAIN rows = 1..Len(rows)
        /\ \A n \in 1..Len(rows) : more[n] = rows[n]
        /\ more[Len(rows) + 1] = e
    OBVIOUS
  <1> HIDE DEF more
  <1>2. ASSUME NEW n \in 1..Len(rows)
        PROVE more[n].after = (IF n = 1 THEN 0 ELSE more[n - 1].after) + more[n].amount
    <2>1. n # 1 => n - 1 \in 1..Len(rows)
      BY <1>1
    <2> QED BY <1>1, <1>2, <2>1 DEF Explained
  <1>3. LET n == Len(rows) + 1 IN
        more[n].after = (IF n = 1 THEN 0 ELSE more[n - 1].after) + more[n].amount
    <2>1. value = IF Len(rows) + 1 = 1 THEN 0 ELSE rows[Len(rows)].after
      BY <1>1 DEF Explained
    <2>2. Len(rows) + 1 # 1 => Len(rows) \in 1..Len(rows)
      BY <1>1
    <2> QED BY <1>1, <2>1, <2>2
  <1>4. \A n \in DOMAIN more :
          more[n].after = (IF n = 1 THEN 0 ELSE more[n - 1].after) + more[n].amount
    BY <1>1, <1>2, <1>3
  <1>5. e.after = IF Len(more) + 1 = 1 THEN 0 ELSE more[Len(more) + 1 - 1].after
    BY <1>1
  <1>6. Explained(more, e.after)
    BY <1>4, <1>5 DEF Explained
  <1> QED BY <1>6 DEF more

LEMMA ExplainsEach ==
    LedgerExplainsBalance <=> \A i \in Investors : Explained(ledger[i], balance[i])
  <1>1. \A i \in Investors :
          Explained(ledger[i], balance[i]) <=>
            /\ \A n \in DOMAIN ledger[i] :
                 ledger[i][n].after = AfterBefore(i, n) + ledger[i][n].amount
            /\ balance[i] = AfterBefore(i, Len(ledger[i]) + 1)
    BY Zenon DEF Explained, AfterBefore
  <1> QED BY <1>1, Zenon DEF LedgerExplainsBalance

LEMMA BalanceTyped == ASSUME IInv, NEW i \in Investors, NEW w \in Workers
    PROVE balance[i] \in 0..MaxBalance /\ seen[w][i] \in 0..MaxBalance
  BY DEF IInv, TypeOK

(* One movement adds one row that continues the ledger of its investor.      *)
LEMMA MovementExplained ==
    ASSUME IInv, LedgerExplainsBalance, NEW w \in Workers, req[w] \in Requests,
           NEW amount \in Int, NEW kind \in {"deposit", "withdraw", "plan_close"},
           balance[req[w].who] = seen[w][req[w].who],
           seen[w][req[w].who] + amount \in 0..MaxBalance,
           Movement(w, amount, kind)
    PROVE LedgerExplainsBalance'
  <1> DEFINE i == req[w].who
             after == seen[w][i] + amount
             row == Entry(KeyOf(req[w]), req[w], kind, amount, after)
  <1>1. i \in Investors /\ ledger[i] \in Seq(EntryType)
    BY RequestFields, LedgerTyped
  <1>2. row \in EntryType /\ row.after = after /\ row.amount = amount
    BY EntryTyped DEF Entry
  <1>3. balance[i] \in Int /\ Explained(ledger[i], balance[i])
    <2>0. balance[i] \in 0..MaxBalance
      BY <1>1, BalanceTyped
    <2>1. balance[i] \in Int
      BY <2>0
    <2>2. Explained(ledger[i], balance[i])
      BY <1>1, ExplainsEach
    <2> QED BY <2>1, <2>2
  <1>4. row.after = balance[i] + row.amount
    BY <1>2
  <1> HIDE DEF row
  <1>5. Explained(Append(ledger[i], row), row.after)
    BY <1>1, <1>2, <1>3, <1>4, ExplainedExtended
  <1>6. /\ balance' = [balance EXCEPT ![i] = row.after]
        /\ ledger' = [ledger EXCEPT ![i] = Append(@, row)]
    BY <1>2 DEF Movement, row
  <1> HIDE DEF i
  <1>7. \A j \in Investors : Explained(ledger'[j], balance'[j])
    BY <1>1, <1>5, <1>6, ExplainsEach DEF IInv, TypeOK
  <1> QED BY <1>7 DEF LedgerExplainsBalance, AfterBefore, Explained

LEMMA TransferExplained ==
    ASSUME IInv, LedgerExplainsBalance, NEW w \in Workers, Transfer(w)
    PROVE LedgerExplainsBalance'
  <1> DEFINE r == req[w]
             i == r.who
             j == r.to
             left == seen[w][i] - r.amount
             got == seen[w][j] + r.amount
             out == OutRow(r, left)
             in == InRow(r, got)
  <1>1. /\ r \in Requests /\ r.op = "transfer" /\ InvestorsOf(r) = {i, j}
        /\ i \in Investors /\ j \in Investors /\ i # j /\ r.amount \in Nat
        /\ Admissible(r, seen[w], plan[r.plan].principal, gain[w])
        /\ balance[i] = seen[w][i] /\ balance[j] = seen[w][j]
    BY CommitFacts, RequestFields DEF Transfer, InvestorsOf
  <1>2. /\ balance[i] \in 0..MaxBalance /\ balance[j] \in 0..MaxBalance
        /\ left \in 0..MaxBalance /\ got \in 0..MaxBalance
    <2>1. balance[i] \in 0..MaxBalance /\ balance[j] \in 0..MaxBalance
      BY <1>1, BalanceTyped
    <2>2. r.amount <= seen[w][i] /\ seen[w][j] + r.amount <= MaxBalance
      BY <1>1 DEF Admissible, Fits
    <2> HIDE DEF r, i, j
    <2> QED BY <1>1, <2>1, <2>2
  <1>3. /\ out \in EntryType /\ out.after = left /\ out.amount = -r.amount
        /\ in \in EntryType /\ in.after = got /\ in.amount = r.amount
    <2>1. r.amount \in Int /\ -r.amount \in Int
      BY <1>1
    <2>2. out \in EntryType /\ in \in EntryType
      BY <1>1, <1>2, <2>1, EntryTyped DEF OutRow, InRow
    <2> QED BY <2>2 DEF OutRow, InRow, Entry
  <1>4. /\ out.after = balance[i] + out.amount
        /\ in.after = balance[j] + in.amount
    BY <1>1, <1>2, <1>3
  <1>5. /\ balance' = [balance EXCEPT ![i] = left, ![j] = got]
        /\ ledger' = [ledger EXCEPT ![i] = Append(@, out), ![j] = Append(@, in)]
    BY DEF Transfer
  <1> HIDE DEF r, i, j, left, got, out, in
  <1>6. /\ ledger[i] \in Seq(EntryType) /\ Explained(ledger[i], balance[i])
        /\ ledger[j] \in Seq(EntryType) /\ Explained(ledger[j], balance[j])
    BY <1>1, LedgerTyped, ExplainsEach
  <1>7. /\ Explained(Append(ledger[i], out), left)
        /\ Explained(Append(ledger[j], in), got)
    BY <1>2, <1>3, <1>4, <1>6, ExplainedExtended
  <1>8. \A k \in Investors : Explained(ledger'[k], balance'[k])
    BY <1>1, <1>5, <1>7, ExplainsEach DEF IInv, TypeOK
  <1> QED BY <1>8 DEF LedgerExplainsBalance, AfterBefore, Explained

LEMMA FundPlanExplained ==
    ASSUME IInv, LedgerExplainsBalance, NEW w \in Workers, FundPlan(w)
    PROVE LedgerExplainsBalance'
  <1> DEFINE r == req[w]
             i == r.who
             rows == ledger[i]
             topUp == Entry(SecondKeyOf(r), r, "deposit", r.amount - r.expected, r.amount)
             funding == Entry(KeyOf(r), r, "plan_funding", -r.amount, 0)
  <1>1. /\ r \in Requests /\ r.op = "fund" /\ i \in Investors /\ i \in InvestorsOf(r)
        /\ r.amount \in Nat /\ r.expected \in Nat
        /\ Admissible(r, seen[w], plan[r.plan].principal, gain[w])
        /\ balance[i] = seen[w][i]
    BY CommitFacts, RequestFields DEF FundPlan, InvestorsOf
  <1>2. /\ balance[i] = r.expected /\ r.expected <= r.amount
        /\ r.amount \in 0..MaxBalance
    BY <1>1 DEF Admissible, Fits
  <1>3. /\ topUp \in EntryType /\ topUp.after = r.amount
        /\ topUp.amount = r.amount - r.expected
        /\ funding \in EntryType /\ funding.after = 0 /\ funding.amount = -r.amount
    <2>1. -r.amount \in Int /\ r.amount - r.expected \in Int /\ 0 \in 0..MaxBalance
      BY <1>1, <1>2
    <2> QED BY <1>1, <1>2, <2>1, EntryTyped DEF Entry
  <1>4. rows \in Seq(EntryType) /\ Explained(rows, balance[i])
    BY <1>1, LedgerTyped, ExplainsEach
  <1>5. /\ balance' = [balance EXCEPT ![i] = 0]
        /\ ledger' = [ledger EXCEPT ![i] = WithFunding(@, r)]
    BY DEF FundPlan
  <1>6. WithFunding(rows, r) = IF r.amount - r.expected > 0
                               THEN Append(Append(rows, topUp), funding)
                               ELSE Append(rows, funding)
    BY DEF WithFunding
  <1> HIDE DEF r, i, rows, topUp, funding
  <1>7. Explained(WithFunding(rows, r), 0)
    <2>1. CASE r.amount - r.expected > 0
      <3>1. topUp.after = balance[i] + topUp.amount
        BY <1>1, <1>2, <1>3
      <3>2. /\ Append(rows, topUp) \in Seq(EntryType)
            /\ Explained(Append(rows, topUp), r.amount)
        BY <1>1, <1>2, <1>3, <1>4, <3>1, ExplainedExtended, AppendTyped
      <3>3. funding.after = r.amount + funding.amount
        BY <1>1, <1>3
      <3>4. r.amount \in Int
        BY <1>1
      <3>5. Explained(Append(Append(rows, topUp), funding), funding.after)
        BY <1>3, <3>2, <3>3, <3>4, ExplainedExtended
      <3> QED BY <1>3, <1>6, <2>1, <3>5
    <2>2. CASE ~(r.amount - r.expected > 0)
      <3>1. funding.after = balance[i] + funding.amount /\ balance[i] \in Int
        BY <1>1, <1>2, <1>3, <2>2
      <3> QED BY <1>3, <1>4, <1>6, <2>2, <3>1, ExplainedExtended
    <2> QED BY <2>1, <2>2
  <1>8. \A k \in Investors : Explained(ledger'[k], balance'[k])
    BY <1>1, <1>5, <1>7, ExplainsEach DEF IInv, TypeOK, rows
  <1> QED BY <1>8 DEF LedgerExplainsBalance, AfterBefore, Explained

LEMMA LedgerStep ==
    IInv /\ LedgerExplainsBalance /\ [Next]_vars => LedgerExplainsBalance'
  <1> SUFFICES ASSUME IInv, LedgerExplainsBalance, [Next]_vars
               PROVE LedgerExplainsBalance'
    OBVIOUS
  <1>1. CASE UNCHANGED <<balance, ledger>>
    BY <1>1 DEF LedgerExplainsBalance, AfterBefore
  <1>2. ASSUME NEW w \in Workers, Deposit(w) PROVE LedgerExplainsBalance'
    <2>1. /\ req[w] \in Requests /\ req[w].op = "deposit"
          /\ req[w].who \in Investors /\ req[w].amount \in Nat
          /\ balance[req[w].who] = seen[w][req[w].who]
          /\ Admissible(req[w], seen[w], plan[req[w].plan].principal, gain[w])
      BY <1>2, CommitFacts, RequestFields DEF Deposit, InvestorsOf
    <2>2. seen[w][req[w].who] + req[w].amount \in 0..MaxBalance
      BY <2>1 DEF Admissible, Fits, IInv, TypeOK
    <2> QED BY <1>2, <2>1, <2>2, MovementExplained DEF Deposit
  <1>3. ASSUME NEW w \in Workers, Withdraw(w) PROVE LedgerExplainsBalance'
    <2>1. /\ req[w] \in Requests /\ req[w].op = "withdraw"
          /\ req[w].who \in Investors /\ req[w].amount \in Nat
          /\ balance[req[w].who] = seen[w][req[w].who]
          /\ Admissible(req[w], seen[w], plan[req[w].plan].principal, gain[w])
      BY <1>3, CommitFacts, RequestFields DEF Withdraw, InvestorsOf
    <2>2. seen[w][req[w].who] + (-req[w].amount) \in 0..MaxBalance
      BY <2>1 DEF Admissible, IInv, TypeOK
    <2> QED BY <1>3, <2>1, <2>2, MovementExplained DEF Withdraw
  <1>4. ASSUME NEW w \in Workers, ClosePlan(w) PROVE LedgerExplainsBalance'
    <2>1. /\ req[w] \in Requests /\ req[w].op = "close"
          /\ req[w].who \in Investors
          /\ balance[req[w].who] = seen[w][req[w].who]
      BY <1>4, CommitFacts, RequestFields DEF ClosePlan, InvestorsOf
    <2>2. Payout(w) \in Int /\ seen[w][req[w].who] + Payout(w) \in 0..MaxBalance
      BY <1>4, PayoutFits
    <2> QED BY <1>4, <2>1, <2>2, MovementExplained DEF ClosePlan
  <1> QED
    BY <1>1, <1>2, <1>3, <1>4, TransferExplained, FundPlanExplained
    DEF Next, Step, vars, data, Submit, Finish, Abort, PreCheck, Acquire, ReadRows,
        Check, DeleteInvestor, Refuse, Dedupe

(* The ledger always explains the balance: no two operations of an investor, *)
(* on whatever worker and under whichever of the two databases, lose an      *)
(* update of its balance.                                                    *)
THEOREM LedgerAlwaysExplains == Spec => []LedgerExplainsBalance
  <1>1. Init => LedgerExplainsBalance
    <2> SUFFICES ASSUME Init, NEW i \in Investors
                 PROVE Explained(ledger[i], balance[i])
      BY ExplainsEach
    <2>1. ledger[i] = <<>> /\ balance[i] = 0
      BY DEF Init
    <2> QED BY <2>1 DEF Explained
  <1>2. IInv /\ LedgerExplainsBalance /\ [Next]_vars => LedgerExplainsBalance'
    BY LedgerStep
  <1> QED BY <1>1, <1>2, AlwaysIInv, PTL DEF Spec
=============================================================================
