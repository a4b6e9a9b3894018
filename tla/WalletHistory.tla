---------------------------- MODULE WalletHistory ----------------------------
(***************************************************************************)
(* Proofs about what the ledger, the receipts and the plans of Wallet say  *)
(* of each other, for any number of investors, plans, workers and requests *)
(* and for both databases; and from them, that Wallet implements           *)
(* WalletPromise when no two investors share a name.                       *)
(***************************************************************************)
EXTENDS WalletProofs

USE InvestorsAreIds, RequestsTyped, TransfersMove, MaxBalanceNat,
    RowLocksBool, NoWorkerFresh, NoRequestFresh

-----------------------------------------------------------------------------
(* Rows as a set, and what appending one row to a ledger does to it.         *)
RowsIn(rows) == {rows[n] : n \in DOMAIN rows}
KeysIn(L)    == {e.key : e \in UNION {RowsIn(L[k]) : k \in Investors}}
With(L, i, e) == [L EXCEPT ![i] = Append(@, e)]

Ledgers == [Investors -> Seq(EntryType)]

UniqueKeys(L) == \A i, j \in Investors :
    \A m \in DOMAIN L[i], n \in DOMAIN L[j] :
        L[i][m].key = L[j][n].key => i = j /\ m = n

LEMMA EntriesAreRows == ASSUME NEW i
    PROVE EntriesOf(i) = RowsIn(ledger[i]) /\ EntriesOf(i)' = RowsIn(ledger'[i])
  BY DEF EntriesOf, RowsIn

LEMMA KeysAreIn == KeysUsed = KeysIn(ledger)
  BY EntriesAreRows DEF KeysUsed, KeysIn

LEMMA AppendRows ==
    ASSUME NEW S, NEW rows \in Seq(S), NEW e \in S
    PROVE RowsIn(Append(rows, e)) = RowsIn(rows) \cup {e}
  <1> DEFINE more == Append(rows, e)
  <1>1. /\ DOMAIN rows = 1..Len(rows) /\ Len(rows) \in Nat
        /\ DOMAIN more = 1..(Len(rows) + 1)
        /\ \A n \in 1..Len(rows) : more[n] = rows[n]
        /\ more[Len(rows) + 1] = e
    OBVIOUS
  <1> HIDE DEF more
  <1>2. ASSUME NEW x \in {more[n] : n \in DOMAIN more}
        PROVE x \in {rows[n] : n \in DOMAIN rows} \cup {e}
    <2>1. PICK n \in 1..(Len(rows) + 1) : x = more[n]
      BY <1>1
    <2>2. CASE n = Len(rows) + 1
      BY <1>1, <2>1, <2>2
    <2>3. CASE n \in 1..Len(rows)
      BY <1>1, <2>1, <2>3
    <2> QED BY <1>1, <2>1, <2>2, <2>3
  <1>3. ASSUME NEW x \in {rows[n] : n \in DOMAIN rows} \cup {e}
        PROVE x \in {more[n] : n \in DOMAIN more}
    <2>1. CASE x = e
      <3>1. Len(rows) + 1 \in DOMAIN more
        BY <1>1
      <3> QED BY <1>1, <2>1, <3>1
    <2>2. CASE x \in {rows[n] : n \in DOMAIN rows}
      <3>1. PICK n \in 1..Len(rows) : x = rows[n]
        BY <1>1, <2>2
      <3>2. n \in DOMAIN more /\ x = more[n]
        BY <1>1, <3>1
      <3> QED BY <3>2
    <2> QED BY <2>1, <2>2
  <1>4. {more[n] : n \in DOMAIN more} = {rows[n] : n \in DOMAIN rows} \cup {e}
    BY <1>2, <1>3
  <1> QED BY <1>4 DEF more, RowsIn

LEMMA WithAdds ==
    ASSUME NEW L \in Ledgers, NEW i \in Investors, NEW e \in EntryType
    PROVE /\ With(L, i, e) \in Ledgers
          /\ RowsIn(With(L, i, e)[i]) = RowsIn(L[i]) \cup {e}
          /\ \A k \in Investors \ {i} : With(L, i, e)[k] = L[k]
  <1>1. L[i] \in Seq(EntryType)
    BY DEF Ledgers
  <1>2. RowsIn(Append(L[i], e)) = RowsIn(L[i]) \cup {e} /\ Append(L[i], e) \in Seq(EntryType)
    BY <1>1, AppendRows, AppendTyped
  <1>3. With(L, i, e)[i] = Append(L[i], e)
    BY DEF With, Ledgers
  <1> QED BY <1>2, <1>3 DEF With, Ledgers

LEMMA WithHasRow ==
    ASSUME NEW L \in Ledgers, NEW i \in Investors, NEW e \in EntryType
    PROVE \A x : x \in RowsIn(With(L, i, e)[i]) <=> x \in RowsIn(L[i]) \/ x = e
  <1>1. RowsIn(With(L, i, e)[i]) = RowsIn(L[i]) \cup {e}
    BY WithAdds
  <1> QED BY <1>1

(* A row with a fresh key keeps the keys of a ledger apart.                  *)
LEMMA WithUnique ==
    ASSUME NEW L \in Ledgers, NEW i \in Investors, NEW e \in EntryType,
           UniqueKeys(L), e.key \notin KeysIn(L)
    PROVE /\ UniqueKeys(With(L, i, e))
          /\ KeysIn(With(L, i, e)) = KeysIn(L) \cup {e.key}
  <1> DEFINE M == With(L, i, e)
             last == Len(L[i]) + 1
  <1>1. /\ L[i] \in Seq(EntryType) /\ Len(L[i]) \in Nat /\ DOMAIN L[i] = 1..Len(L[i])
        /\ M[i] = Append(L[i], e) /\ \A k \in Investors \ {i} : M[k] = L[k]
    BY DEF Ledgers, With
  <1>2. /\ DOMAIN M[i] = 1..last /\ M[i][last] = e
        /\ \A n \in 1..Len(L[i]) : M[i][n] = L[i][n]
    BY <1>1
  <1> HIDE DEF M
  <1>3. \A k \in Investors : \A n \in DOMAIN L[k] : L[k][n].key # e.key
    BY DEF KeysIn, RowsIn
  <1>4. ASSUME NEW k \in Investors, NEW n \in DOMAIN M[k]
        PROVE \/ k = i /\ n = last /\ M[k][n] = e
              \/ n \in DOMAIN L[k] /\ M[k][n] = L[k][n]
    <2>1. CASE k = i
      <3>1. n = last \/ n \in 1..Len(L[i])
        BY <1>1, <1>2, <2>1
      <3> QED BY <1>1, <1>2, <2>1, <3>1
    <2>2. CASE k # i
      BY <1>1, <2>2
    <2> QED BY <2>1, <2>2
  <1>5. UniqueKeys(M)
    <2> SUFFICES ASSUME NEW j \in Investors, NEW k \in Investors,
                        NEW m \in DOMAIN M[j], NEW n \in DOMAIN M[k],
                        M[j][m].key = M[k][n].key
                 PROVE j = k /\ m = n
      BY DEF UniqueKeys
    <2> HIDE DEF last
    <2>1. \/ j = i /\ m = last /\ M[j][m] = e
          \/ m \in DOMAIN L[j] /\ M[j][m] = L[j][m]
      BY <1>4
    <2>2. \/ k = i /\ n = last /\ M[k][n] = e
          \/ n \in DOMAIN L[k] /\ M[k][n] = L[k][n]
      BY <1>4
    <2> QED BY <1>3, <2>1, <2>2 DEF UniqueKeys
  <1>6. KeysIn(M) = KeysIn(L) \cup {e.key}
    <2>1. RowsIn(M[i]) = RowsIn(L[i]) \cup {e}
      BY WithAdds DEF M
    <2>2. \A k \in Investors \ {i} : RowsIn(M[k]) = RowsIn(L[k])
      BY <1>1
    <2> QED BY <2>1, <2>2 DEF KeysIn
  <1> QED BY <1>5, <1>6 DEF M

LEMMA LedgerIsLedger == ASSUME IInv PROVE ledger \in Ledgers
  BY DEF IInv, TypeOK, Ledgers

-----------------------------------------------------------------------------
(* The rows each commit writes.                                              *)
TransferKinds == {"transfer_out", "transfer_in"}

MoveRow(w, e) ==
    /\ e \in EntryType /\ e.key = KeyOf(req[w]) /\ e.digest = req[w]
    /\ e.kind \notin TransferKinds
    /\ req[w].op = "close" => e.amount = Payout(w)

LEMMA MoveWrites ==
    ASSUME IInv, NEW w \in Workers, Deposit(w) \/ Withdraw(w) \/ ClosePlan(w)
    PROVE /\ req[w] \in Requests /\ req[w].op \in {"deposit", "withdraw", "close"}
          /\ \E e : MoveRow(w, e) /\ ledger' = With(ledger, req[w].who, e)
  <1> DEFINE r == req[w]
  <1>1. ASSUME NEW amount \in Int, NEW kind \in {"deposit", "withdraw", "plan_close"},
               r \in Requests, seen[w][r.who] + amount \in 0..MaxBalance,
               r.op = "close" => amount = Payout(w),
               Movement(w, amount, kind)
        PROVE \E e : MoveRow(w, e) /\ ledger' = With(ledger, r.who, e)
    <2> DEFINE e == Entry(KeyOf(r), r, kind, amount, seen[w][r.who] + amount)
    <2>1. e \in EntryType
      BY <1>1, EntryTyped
    <2>2. /\ e.key = KeyOf(r) /\ e.digest = r /\ e.kind = kind /\ e.amount = amount
      BY DEF Entry
    <2>3. kind \notin TransferKinds
      BY DEF TransferKinds
    <2>4. ledger' = With(ledger, r.who, e)
      BY <1>1 DEF Movement, With
    <2> HIDE DEF e
    <2> QED BY <1>1, <2>1, <2>2, <2>3, <2>4 DEF MoveRow
  <1>2. CASE Deposit(w)
    <2>1. /\ r \in Requests /\ r.op = "deposit" /\ r.amount \in Nat /\ r.who \in Investors
          /\ Admissible(r, seen[w], plan[r.plan].principal, gain[w])
      BY <1>2, CommitFacts, RequestFields DEF Deposit
    <2>2. seen[w][r.who] + r.amount \in 0..MaxBalance
      BY <2>1 DEF Admissible, Fits, IInv, TypeOK
    <2> QED BY <1>1, <1>2, <2>1, <2>2 DEF Deposit
  <1>3. CASE Withdraw(w)
    <2>1. /\ r \in Requests /\ r.op = "withdraw" /\ r.amount \in Nat /\ r.who \in Investors
          /\ Admissible(r, seen[w], plan[r.plan].principal, gain[w])
      BY <1>3, CommitFacts, RequestFields DEF Withdraw
    <2>2. seen[w][r.who] + (-r.amount) \in 0..MaxBalance /\ -r.amount \in Int
      BY <2>1 DEF Admissible, IInv, TypeOK
    <2> QED BY <1>1, <1>3, <2>1, <2>2 DEF Withdraw
  <1>4. CASE ClosePlan(w)
    <2>1. r \in Requests /\ r.op = "close"
      BY <1>4, CommitFacts DEF ClosePlan
    <2>2. Payout(w) \in Int /\ seen[w][r.who] + Payout(w) \in 0..MaxBalance
      BY <1>4, PayoutFits
    <2> QED BY <1>1, <1>4, <2>1, <2>2 DEF ClosePlan
  <1> QED BY <1>2, <1>3, <1>4

LEMMA TransferWrites ==
    ASSUME IInv, NEW w \in Workers, Transfer(w)
    PROVE LET r == req[w]
              left == seen[w][r.who] - r.amount
              got == seen[w][r.to] + r.amount
          IN /\ r \in Requests /\ r.op = "transfer" /\ r.who # r.to
             /\ left \in 0..MaxBalance /\ got \in 0..MaxBalance
             /\ OutRow(r, left) \in EntryType /\ InRow(r, got) \in EntryType
             /\ ledger' = With(With(ledger, r.who, OutRow(r, left)), r.to, InRow(r, got))
  <1> DEFINE r == req[w]
             left == seen[w][r.who] - r.amount
             got == seen[w][r.to] + r.amount
             out == OutRow(r, left)
             in == InRow(r, got)
  <1>1. /\ r \in Requests /\ r.op = "transfer" /\ r.who # r.to
        /\ r.who \in Investors /\ r.to \in Investors /\ r.amount \in Nat
        /\ Admissible(r, seen[w], plan[r.plan].principal, gain[w])
        /\ balance[r.who] = seen[w][r.who] /\ balance[r.to] = seen[w][r.to]
    BY CommitFacts, RequestFields DEF Transfer, InvestorsOf
  <1>2. left \in 0..MaxBalance /\ got \in 0..MaxBalance
    <2>1. balance[r.who] \in 0..MaxBalance /\ balance[r.to] \in 0..MaxBalance
      BY <1>1, BalanceTyped
    <2>2. r.amount <= seen[w][r.who] /\ seen[w][r.to] + r.amount <= MaxBalance
      BY <1>1 DEF Admissible, Fits
    <2> HIDE DEF r
    <2> QED BY <1>1, <2>1, <2>2
  <1>3. out \in EntryType /\ in \in EntryType
    <2>1. r.amount \in Int /\ -r.amount \in Int
      BY <1>1
    <2> QED BY <1>1, <1>2, <2>1, EntryTyped DEF OutRow, InRow
  <1>4. ledger' = [ledger EXCEPT ![r.who] = Append(@, out), ![r.to] = Append(@, in)]
    BY DEF Transfer
  <1> HIDE DEF r, out, in
  <1>5. ledger' = With(With(ledger, r.who, out), r.to, in)
    BY <1>1, <1>4, LedgerIsLedger DEF With, Ledgers
  <1> QED BY <1>1, <1>2, <1>3, <1>5 DEF r, out, in

TopUp(r)   == Entry(SecondKeyOf(r), r, "deposit", r.amount - r.expected, r.amount)
Funding(r) == Entry(KeyOf(r), r, "plan_funding", -r.amount, 0)

LEMMA FundPlanWrites ==
    ASSUME IInv, NEW w \in Workers, FundPlan(w)
    PROVE LET r == req[w] IN
          /\ r \in Requests /\ r.op = "fund" /\ r.amount \in 0..MaxBalance
          /\ r.expected \in Nat
          /\ TopUp(r) \in EntryType /\ Funding(r) \in EntryType
          /\ ledger' = IF r.expected < r.amount
                       THEN With(With(ledger, r.who, TopUp(r)), r.who, Funding(r))
                       ELSE With(ledger, r.who, Funding(r))
  <1> DEFINE r == req[w]
             i == r.who
  <1>1. /\ r \in Requests /\ r.op = "fund" /\ i \in Investors
        /\ r.amount \in 0..MaxBalance /\ r.expected \in Nat
    <2>1. /\ Admissible(r, seen[w], plan[r.plan].principal, gain[w])
          /\ r \in Requests /\ r.op = "fund"
      BY CommitFacts DEF FundPlan
    <2>2. i \in Investors /\ r.amount \in Nat /\ r.expected \in Nat
      BY <2>1, RequestFields
    <2> QED BY <2>1, <2>2 DEF Admissible, Fits
  <1>2. TopUp(r) \in EntryType /\ Funding(r) \in EntryType
    <2>1. -r.amount \in Int /\ r.amount - r.expected \in Int /\ 0 \in 0..MaxBalance
      BY <1>1
    <2> QED BY <1>1, <2>1, EntryTyped DEF TopUp, Funding
  <1>3. ledger' = [ledger EXCEPT ![i] = WithFunding(@, r)]
    BY DEF FundPlan
  <1>4. \A rows : WithFunding(rows, r) = IF r.expected < r.amount
                               THEN Append(Append(rows, TopUp(r)), Funding(r))
                               ELSE Append(rows, Funding(r))
    <2>1. r.amount - r.expected > 0 <=> r.expected < r.amount
      BY <1>1
    <2> QED BY <2>1 DEF WithFunding, TopUp, Funding
  <1> HIDE DEF r, i
  <1>5. ledger' = IF r.expected < r.amount
                  THEN With(With(ledger, i, TopUp(r)), i, Funding(r))
                  ELSE With(ledger, i, Funding(r))
    BY <1>1, <1>3, <1>4, LedgerIsLedger DEF With, Ledgers
  <1> QED BY <1>1, <1>2, <1>5 DEF r, i

-----------------------------------------------------------------------------
(* What the history says.  Every receipt has its two rows, and no transfer   *)
(* row is without a receipt.                                                 *)
ReceiptRows ==
    /\ \A x \in receipts :
         /\ x.digest \in Requests /\ x.digest.key = x.key /\ x.digest.op = "transfer"
         /\ OutRow(x.digest, x.sourceAfter) \in EntriesOf(x.digest.who)
         /\ InRow(x.digest, x.recipientAfter) \in EntriesOf(x.digest.to)
    /\ \A i \in Investors : \A e \in EntriesOf(i) :
         e.kind \in TransferKinds => \E x \in receipts : x.digest = e.digest

(* Every plan that was ever opened has its funding row, every closed one its *)
(* closing row, and no other row has their keys: what the ledgers L say of   *)
(* plan p, whose row is pl.                                                  *)
OpeningRow(pl, i, e) == /\ pl.status # "none" /\ pl.owner = i
                        /\ e.amount = -pl.principal
ClosingRow(pl, i, e) == /\ pl.status = "completed" /\ pl.owner = i
                        /\ e.amount >= pl.principal

Told(p, pl, L) ==
    /\ pl.status # "none" =>
         \E i \in Investors : \E e \in RowsIn(L[i]) :
            e.key = Key("agreement", p) /\ OpeningRow(pl, i, e)
    /\ pl.status = "completed" =>
         \E i \in Investors : \E e \in RowsIn(L[i]) :
            e.key = Key("close", p) /\ ClosingRow(pl, i, e)
    /\ \A i \in Investors : \A e \in RowsIn(L[i]) :
         /\ e.key = Key("agreement", p) => OpeningRow(pl, i, e)
         /\ e.key = Key("close", p) => ClosingRow(pl, i, e)

PlanRows == \A p \in Plans : Told(p, plan[p], ledger)

History == KeyAppliedOnce /\ ReceiptRows /\ PlanRows /\ AnswerIsRecorded

LEMMA OnceIsUnique == KeyAppliedOnce <=> UniqueKeys(ledger)
  BY DEF KeyAppliedOnce, UniqueKeys

LEMMA OnceIsUniqueNext == KeyAppliedOnce' <=> UniqueKeys(ledger')
  BY DEF KeyAppliedOnce, UniqueKeys

(* The keys a commit uses are fresh.                                         *)
LEMMA FreshKeys ==
    ASSUME NEW w \in Workers, NEW op, Commits(w, op), op # "delete"
    PROVE /\ KeyOf(req[w]) \notin KeysIn(ledger)
          /\ op = "transfer" => SecondKeyOf(req[w]) \notin KeysIn(ledger)
          /\ op = "fund" /\ req[w].expected < req[w].amount
                => SecondKeyOf(req[w]) \notin KeysIn(ledger)
  <1>1. NewKeys(req[w]) \cap KeysIn(ledger) = {} /\ req[w].op = op
    BY KeysAreIn DEF Commits, KeysFree
  <1> QED BY <1>1 DEF NewKeys

LEMMA KeysDiffer == ASSUME NEW r PROVE KeyOf(r) # SecondKeyOf(r)
  <1>1. KeyOf(r).ns \in {"op", "agreement", "close"}
    BY DEF KeyOf, Key
  <1>2. SecondKeyOf(r).ns \in {"deposit", "in"}
    BY DEF SecondKeyOf, Key
  <1> QED BY <1>1, <1>2

LEMMA OnceStep ==
    ASSUME IInv, KeyAppliedOnce, [Next]_vars
    PROVE KeyAppliedOnce'
  <1>1. CASE UNCHANGED ledger
    BY <1>1 DEF KeyAppliedOnce
  <1>2. ASSUME NEW w \in Workers, Deposit(w) \/ Withdraw(w) \/ ClosePlan(w)
        PROVE KeyAppliedOnce'
    <2>1. PICK e : MoveRow(w, e) /\ ledger' = With(ledger, req[w].who, e)
      BY <1>2, MoveWrites
    <2>2. req[w] \in Requests /\ req[w].who \in Investors
      BY <1>2, MoveWrites, RequestFields
    <2>3. e.key \notin KeysIn(ledger)
      <3>1. \E op : op # "delete" /\ Commits(w, op)
        BY <1>2 DEF Deposit, Withdraw, ClosePlan
      <3> QED BY <2>1, <3>1, FreshKeys DEF MoveRow
    <2> QED BY <2>1, <2>2, <2>3, LedgerIsLedger, OnceIsUnique, OnceIsUniqueNext,
               WithUnique DEF MoveRow
  <1>3. ASSUME NEW w \in Workers, Transfer(w) PROVE KeyAppliedOnce'
    <2> DEFINE r == req[w]
               out == OutRow(r, seen[w][r.who] - r.amount)
               in == InRow(r, seen[w][r.to] + r.amount)
    <2>1. /\ r \in Requests /\ out \in EntryType /\ in \in EntryType
          /\ ledger' = With(With(ledger, r.who, out), r.to, in)
      BY <1>3, TransferWrites
    <2>2. /\ r.who \in Investors /\ r.to \in Investors
          /\ out.key = KeyOf(r) /\ in.key = SecondKeyOf(r)
      BY <2>1, RequestFields DEF OutRow, InRow, Entry
    <2>3. out.key \notin KeysIn(ledger) /\ in.key \notin KeysIn(ledger)
      BY <1>3, <2>2, FreshKeys DEF Transfer
    <2>4. in.key # out.key
      BY <2>2, KeysDiffer
    <2> HIDE DEF r, out, in
    <2> DEFINE L == With(ledger, r.who, out)
    <2>5. UniqueKeys(L) /\ L \in Ledgers /\ KeysIn(L) = KeysIn(ledger) \cup {out.key}
      <3>1. ledger \in Ledgers /\ UniqueKeys(ledger)
        BY LedgerIsLedger, OnceIsUnique
      <3>2. L \in Ledgers
        BY <2>1, <2>2, <3>1, WithAdds
      <3>3. UniqueKeys(L) /\ KeysIn(L) = KeysIn(ledger) \cup {out.key}
        BY <2>1, <2>2, <2>3, <3>1, WithUnique
      <3> QED BY <3>2, <3>3
    <2> HIDE DEF L
    <2>6. UniqueKeys(With(L, r.to, in))
      BY <2>1, <2>2, <2>3, <2>4, <2>5, WithUnique
    <2> QED BY <2>1, <2>6, OnceIsUniqueNext DEF L
  <1>4. ASSUME NEW w \in Workers, FundPlan(w) PROVE KeyAppliedOnce'
    <2> DEFINE r == req[w]
    <2>1. /\ r \in Requests /\ TopUp(r) \in EntryType /\ Funding(r) \in EntryType
          /\ ledger' = IF r.expected < r.amount
                       THEN With(With(ledger, r.who, TopUp(r)), r.who, Funding(r))
                       ELSE With(ledger, r.who, Funding(r))
      BY <1>4, FundPlanWrites
    <2>2. /\ r.who \in Investors
          /\ Funding(r).key = KeyOf(r) /\ TopUp(r).key = SecondKeyOf(r)
      BY <2>1, RequestFields DEF Funding, TopUp, Entry
    <2>3. /\ KeyOf(r) \notin KeysIn(ledger)
          /\ r.expected < r.amount => SecondKeyOf(r) \notin KeysIn(ledger)
      BY <1>4, FreshKeys DEF FundPlan
    <2>4. KeyOf(r) # SecondKeyOf(r)
      BY KeysDiffer
    <2> HIDE DEF r
    <2>5. CASE r.expected < r.amount
      <3> DEFINE L == With(ledger, r.who, TopUp(r))
      <3>1. UniqueKeys(L) /\ L \in Ledgers /\ KeysIn(L) = KeysIn(ledger) \cup {TopUp(r).key}
        <4>1. ledger \in Ledgers /\ UniqueKeys(ledger)
          BY LedgerIsLedger, OnceIsUnique
        <4>2. L \in Ledgers
          BY <2>1, <2>2, <4>1, WithAdds
        <4>3. TopUp(r).key \notin KeysIn(ledger)
          BY <2>2, <2>3, <2>5
        <4>4. UniqueKeys(L) /\ KeysIn(L) = KeysIn(ledger) \cup {TopUp(r).key}
          BY <2>1, <2>2, <4>1, <4>3, WithUnique
        <4> QED BY <4>2, <4>4
      <3> HIDE DEF L
      <3>2. UniqueKeys(With(L, r.who, Funding(r)))
        BY <2>1, <2>2, <2>3, <2>4, <3>1, WithUnique
      <3> QED BY <2>1, <2>5, <3>2, OnceIsUniqueNext DEF L
    <2>6. CASE ~(r.expected < r.amount)
      <3>1. UniqueKeys(With(ledger, r.who, Funding(r)))
        BY <2>1, <2>2, <2>3, LedgerIsLedger, OnceIsUnique, WithUnique
      <3> QED BY <2>1, <2>6, <3>1, OnceIsUniqueNext
    <2> QED BY <2>5, <2>6
  <1> QED
    BY <1>1, <1>2, <1>3, <1>4
    DEF Next, Step, vars, data, Submit, Finish, Abort, PreCheck, Acquire, ReadRows,
        Check, DeleteInvestor, Refuse, Dedupe

-----------------------------------------------------------------------------
(* The rows each commit adds, as sets.                                       *)
Adds(i, new) == /\ RowsIn(ledger'[i]) = RowsIn(ledger[i]) \cup new
                /\ \A k \in Investors \ {i} : ledger'[k] = ledger[k]

LEMMA MoveAdds ==
    ASSUME IInv, NEW w \in Workers, Deposit(w) \/ Withdraw(w) \/ ClosePlan(w)
    PROVE /\ req[w] \in Requests /\ req[w].op \in {"deposit", "withdraw", "close"}
          /\ req[w].who \in Investors
          /\ \E e : MoveRow(w, e) /\ Adds(req[w].who, {e})
  <1>1. /\ req[w] \in Requests /\ req[w].op \in {"deposit", "withdraw", "close"}
        /\ req[w].who \in Investors
    BY MoveWrites, RequestFields
  <1>2. PICK e : MoveRow(w, e) /\ ledger' = With(ledger, req[w].who, e)
    BY MoveWrites
  <1>3. Adds(req[w].who, {e})
    <2> DEFINE i == req[w].who
    <2>1. ledger \in Ledgers /\ e \in EntryType /\ i \in Investors
      BY <1>1, <1>2, LedgerIsLedger DEF MoveRow
    <2>2. ledger' = With(ledger, i, e)
      BY <1>2
    <2> HIDE DEF i
    <2>3. /\ RowsIn(With(ledger, i, e)[i]) = RowsIn(ledger[i]) \cup {e}
          /\ \A k \in Investors \ {i} : With(ledger, i, e)[k] = ledger[k]
      BY <2>1, WithAdds
    <2> QED BY <2>2, <2>3 DEF Adds, i
  <1> QED BY <1>1, <1>2, <1>3

LEMMA TwoRowsAdded ==
    ASSUME NEW L \in Ledgers, NEW i \in Investors, NEW j \in Investors, i # j,
           NEW debit \in EntryType, NEW credit \in EntryType
    PROVE LET M == With(With(L, i, debit), j, credit)
          IN /\ RowsIn(M[i]) = RowsIn(L[i]) \cup {debit}
             /\ RowsIn(M[j]) = RowsIn(L[j]) \cup {credit}
             /\ \A k \in Investors \ {i, j} : M[k] = L[k]
  <1> DEFINE H == With(L, i, debit)
             M == With(H, j, credit)
  <1>1. H \in Ledgers
    BY WithAdds
  <1>2. RowsIn(H[i]) = RowsIn(L[i]) \cup {debit}
    BY WithHasRow
  <1>3. \A k \in Investors \ {i} : H[k] = L[k]
    BY WithAdds
  <1> HIDE DEF H
  <1>4. RowsIn(M[j]) = RowsIn(H[j]) \cup {credit}
    BY <1>1, WithHasRow
  <1>5. \A k \in Investors \ {j} : M[k] = H[k]
    BY <1>1, WithAdds
  <1> HIDE DEF M
  <1>6. /\ RowsIn(M[i]) = RowsIn(L[i]) \cup {debit}
        /\ RowsIn(M[j]) = RowsIn(L[j]) \cup {credit}
        /\ \A k \in Investors \ {i, j} : M[k] = L[k]
    BY <1>2, <1>3, <1>4, <1>5
  <1> QED BY <1>6 DEF M, H

LEMMA TransferAdds ==
    ASSUME IInv, NEW w \in Workers, Transfer(w)
    PROVE LET r == req[w]
              debit == OutRow(r, seen[w][r.who] - r.amount)
              credit == InRow(r, seen[w][r.to] + r.amount)
          IN /\ r \in Requests /\ r.op = "transfer"
             /\ r.who \in Investors /\ r.to \in Investors /\ r.who # r.to
             /\ RowsIn(ledger'[r.who]) = RowsIn(ledger[r.who]) \cup {debit}
             /\ RowsIn(ledger'[r.to]) = RowsIn(ledger[r.to]) \cup {credit}
             /\ \A k \in Investors \ {r.who, r.to} : ledger'[k] = ledger[k]
  <1> DEFINE r == req[w]
             debit == OutRow(r, seen[w][r.who] - r.amount)
             credit == InRow(r, seen[w][r.to] + r.amount)
             i == r.who
             j == r.to
  <1>1. /\ r \in Requests /\ r.op = "transfer" /\ i # j
        /\ i \in Investors /\ j \in Investors
        /\ debit \in EntryType /\ credit \in EntryType
        /\ ledger' = With(With(ledger, i, debit), j, credit)
    BY TransferWrites, RequestFields
  <1>2. ledger \in Ledgers
    BY LedgerIsLedger
  <1> HIDE DEF r, i, j, debit, credit
  <1>3. /\ RowsIn(ledger'[i]) = RowsIn(ledger[i]) \cup {debit}
        /\ RowsIn(ledger'[j]) = RowsIn(ledger[j]) \cup {credit}
        /\ \A k \in Investors \ {i, j} : ledger'[k] = ledger[k]
    BY <1>1, <1>2, TwoRowsAdded
  <1> QED BY <1>1, <1>3 DEF r, i, j, debit, credit

FundRows(r) == {Funding(r)} \cup (IF r.expected < r.amount THEN {TopUp(r)} ELSE {})

LEMMA FundPlanAdds ==
    ASSUME IInv, NEW w \in Workers, FundPlan(w)
    PROVE /\ req[w] \in Requests /\ req[w].op = "fund" /\ req[w].who \in Investors
          /\ req[w].plan \in Plans
          /\ Adds(req[w].who, FundRows(req[w]))
  <1> DEFINE r == req[w]
             i == r.who
             L == With(ledger, i, TopUp(r))
  <1>1. /\ r \in Requests /\ r.op = "fund" /\ i \in Investors /\ r.plan \in Plans
        /\ TopUp(r) \in EntryType /\ Funding(r) \in EntryType
        /\ ledger' = IF r.expected < r.amount THEN With(L, i, Funding(r))
                     ELSE With(ledger, i, Funding(r))
    BY FundPlanWrites, RequestFields
  <1> HIDE DEF r, i
  <1>2. /\ L \in Ledgers /\ RowsIn(L[i]) = RowsIn(ledger[i]) \cup {TopUp(r)}
        /\ \A k \in Investors \ {i} : L[k] = ledger[k]
    <2>1. ledger \in Ledgers
      BY LedgerIsLedger
    <2>2. L \in Ledgers
      BY <1>1, <2>1, WithAdds
    <2>3. /\ RowsIn(With(ledger, i, TopUp(r))[i]) = RowsIn(ledger[i]) \cup {TopUp(r)}
          /\ \A k \in Investors \ {i} : With(ledger, i, TopUp(r))[k] = ledger[k]
      BY <1>1, <2>1, WithAdds
    <2> QED BY <2>2, <2>3
  <1> HIDE DEF L
  <1>3. CASE r.expected < r.amount
    <2>1. /\ RowsIn(ledger'[i]) = RowsIn(L[i]) \cup {Funding(r)}
          /\ \A k \in Investors \ {i} : ledger'[k] = L[k]
      <3>1. /\ RowsIn(With(L, i, Funding(r))[i]) = RowsIn(L[i]) \cup {Funding(r)}
            /\ \A k \in Investors \ {i} : With(L, i, Funding(r))[k] = L[k]
        BY <1>1, <1>2, WithAdds
      <3> QED BY <1>1, <1>3, <3>1
    <2>2. /\ RowsIn(ledger'[i]) = RowsIn(ledger[i]) \cup FundRows(r)
          /\ \A k \in Investors \ {i} : ledger'[k] = ledger[k]
      BY <1>2, <1>3, <2>1 DEF FundRows
    <2> QED BY <1>1, <2>2 DEF Adds, r, i
  <1>4. CASE ~(r.expected < r.amount)
    <2>1. /\ RowsIn(ledger'[i]) = RowsIn(ledger[i]) \cup FundRows(r)
          /\ \A k \in Investors \ {i} : ledger'[k] = ledger[k]
      <3>1. ledger \in Ledgers
        BY LedgerIsLedger
      <3>2. /\ RowsIn(With(ledger, i, Funding(r))[i]) = RowsIn(ledger[i]) \cup {Funding(r)}
            /\ \A k \in Investors \ {i} : With(ledger, i, Funding(r))[k] = ledger[k]
        BY <1>1, <3>1, WithAdds
      <3> QED BY <1>1, <1>4, <3>2 DEF FundRows
    <2> QED BY <1>1, <2>1 DEF Adds, r, i
  <1> QED BY <1>3, <1>4

(* Rows are never removed or changed.                                        *)
LEMMA RowsStay ==
    ASSUME IInv, [Next]_vars, NEW k \in Investors
    PROVE EntriesOf(k) \subseteq EntriesOf(k)'
  <1>1. CASE UNCHANGED ledger
    BY <1>1 DEF EntriesOf
  <1>2. ASSUME NEW w \in Workers,
               Deposit(w) \/ Withdraw(w) \/ ClosePlan(w) \/ Transfer(w) \/ FundPlan(w)
        PROVE EntriesOf(k) \subseteq EntriesOf(k)'
    <2>1. CASE Deposit(w) \/ Withdraw(w) \/ ClosePlan(w)
      BY <2>1, MoveAdds, EntriesAreRows DEF Adds
    <2>2. CASE Transfer(w)
      BY <2>2, TransferAdds, EntriesAreRows
    <2>3. CASE FundPlan(w)
      BY <2>3, FundPlanAdds, EntriesAreRows DEF Adds
    <2> QED BY <1>2, <2>1, <2>2, <2>3
  <1> QED
    BY <1>1, <1>2
    DEF Next, Step, vars, data, Submit, Finish, Abort, PreCheck, Acquire, ReadRows,
        Check, DeleteInvestor, Refuse, Dedupe

LEMMA ReceiptStep ==
    ASSUME IInv, ReceiptRows, [Next]_vars
    PROVE ReceiptRows'
  <1>0. \A x \in receipts :
           /\ OutRow(x.digest, x.sourceAfter) \in EntriesOf(x.digest.who)
           /\ InRow(x.digest, x.recipientAfter) \in EntriesOf(x.digest.to)
           /\ x.digest.who \in Investors /\ x.digest.to \in Investors
           /\ x.digest \in Requests /\ x.digest.key = x.key /\ x.digest.op = "transfer"
    BY RequestFields DEF ReceiptRows
  <1>1. \A x \in receipts :
           /\ OutRow(x.digest, x.sourceAfter) \in RowsIn(ledger'[x.digest.who])
           /\ InRow(x.digest, x.recipientAfter) \in RowsIn(ledger'[x.digest.to])
    BY <1>0, RowsStay, EntriesAreRows
  <1>2. ASSUME UNCHANGED receipts,
               \A k \in Investors : \A e \in RowsIn(ledger'[k]) :
                   e \in RowsIn(ledger[k]) \/ e.kind \notin TransferKinds
        PROVE ReceiptRows'
    BY <1>0, <1>1, <1>2, EntriesAreRows DEF ReceiptRows
  <1>3. CASE UNCHANGED <<ledger, receipts>>
    BY <1>2, <1>3
  <1>4. ASSUME NEW w \in Workers, Deposit(w) \/ Withdraw(w) \/ ClosePlan(w)
        PROVE ReceiptRows'
    <2>1. PICK e : MoveRow(w, e) /\ Adds(req[w].who, {e})
      BY <1>4, MoveAdds
    <2>2. UNCHANGED receipts
      BY <1>4 DEF Deposit, Withdraw, ClosePlan
    <2>3. \A k \in Investors : \A x \in RowsIn(ledger'[k]) :
              x \in RowsIn(ledger[k]) \/ x.kind \notin TransferKinds
      BY <2>1 DEF Adds, MoveRow
    <2> QED BY <1>2, <2>2, <2>3
  <1>5. ASSUME NEW w \in Workers, FundPlan(w) PROVE ReceiptRows'
    <2>1. Adds(req[w].who, FundRows(req[w]))
      BY <1>5, FundPlanAdds
    <2>2. UNCHANGED receipts
      BY <1>5 DEF FundPlan
    <2>3. \A x \in FundRows(req[w]) : x.kind \notin TransferKinds
      BY DEF FundRows, TopUp, Funding, Entry, TransferKinds
    <2>4. \A k \in Investors : \A x \in RowsIn(ledger'[k]) :
              x \in RowsIn(ledger[k]) \/ x.kind \notin TransferKinds
      BY <2>1, <2>3 DEF Adds
    <2> QED BY <1>2, <2>2, <2>4
  <1>6. ASSUME NEW w \in Workers, Transfer(w) PROVE ReceiptRows'
    <2> DEFINE r == req[w]
               left == seen[w][r.who] - r.amount
               got == seen[w][r.to] + r.amount
               debit == OutRow(r, left)
               credit == InRow(r, got)
               new == [key |-> r.key, digest |-> r, sourceAfter |-> left,
                       recipientAfter |-> got]
               i == r.who
               j == r.to
    <2>1. /\ r \in Requests /\ r.op = "transfer"
          /\ i \in Investors /\ j \in Investors /\ i # j
          /\ RowsIn(ledger'[i]) = RowsIn(ledger[i]) \cup {debit}
          /\ RowsIn(ledger'[j]) = RowsIn(ledger[j]) \cup {credit}
          /\ \A k \in Investors \ {i, j} : ledger'[k] = ledger[k]
      BY <1>6, TransferAdds
    <2>2. receipts' = receipts \cup {new}
      BY <1>6 DEF Transfer
    <2>3. /\ new.digest = r /\ new.key = r.key
          /\ OutRow(new.digest, new.sourceAfter) = debit
          /\ InRow(new.digest, new.recipientAfter) = credit
      OBVIOUS
    <2>4. debit.digest = r /\ credit.digest = r
      BY DEF OutRow, InRow, Entry
    <2>5. new.digest.who = i /\ new.digest.to = j
      OBVIOUS
    <2> HIDE DEF r, left, got, debit, credit, new, i, j
    <2>6. ASSUME NEW x \in receipts'
          PROVE /\ x.digest \in Requests /\ x.digest.key = x.key /\ x.digest.op = "transfer"
                /\ OutRow(x.digest, x.sourceAfter) \in RowsIn(ledger'[x.digest.who])
                /\ InRow(x.digest, x.recipientAfter) \in RowsIn(ledger'[x.digest.to])
      <3>1. CASE x \in receipts
        BY <1>0, <1>1, <3>1
      <3>2. CASE x = new
        <4>1. debit \in RowsIn(ledger'[i]) /\ credit \in RowsIn(ledger'[j])
          BY <2>1
        <4>2. x.digest \in Requests /\ x.digest.key = x.key /\ x.digest.op = "transfer"
          BY <2>1, <2>3, <3>2
        <4> QED BY <2>3, <2>5, <3>2, <4>1, <4>2
      <3> QED BY <2>2, <3>1, <3>2
    <2>7. ASSUME NEW k \in Investors, NEW e \in RowsIn(ledger'[k]), e.kind \in TransferKinds
          PROVE \E x \in receipts' : x.digest = e.digest
      <3>1. CASE e \in RowsIn(ledger[k])
        BY <2>2, <2>7, <3>1, EntriesAreRows DEF ReceiptRows
      <3>2. CASE e \in {debit, credit}
        BY <2>2, <2>3, <2>4, <3>2
      <3> QED BY <2>1, <3>1, <3>2
    <2> QED BY <2>6, <2>7, EntriesAreRows DEF ReceiptRows
  <1> QED
    BY <1>3, <1>4, <1>5, <1>6
    DEF Next, Step, vars, data, Submit, Finish, Abort, PreCheck, Acquire, ReadRows,
        Check, DeleteInvestor, Refuse, Dedupe

(* Rows of other keys keep what is told of a plan.                           *)
PlanKeys(p) == {Key("agreement", p), Key("close", p)}

LEMMA KeyNames ==
    /\ \A p, q : Key("agreement", p) = Key("agreement", q) => p = q
    /\ \A p, q : Key("close", p) = Key("close", q) => p = q
    /\ \A p, q : Key("agreement", p) # Key("close", q)
    /\ \A p, k : Key("op", k) \notin PlanKeys(p)
    /\ \A p, k : Key("in", k) \notin PlanKeys(p)
    /\ \A p, q : Key("deposit", q) \notin PlanKeys(p)
  BY DEF Key, PlanKeys

LEMMA ToldStill ==
    ASSUME NEW p, NEW pl, NEW L, NEW M, Told(p, pl, L),
           \A k \in Investors : RowsIn(L[k]) \subseteq RowsIn(M[k]),
           \A k \in Investors : \A e \in RowsIn(M[k]) :
               e \in RowsIn(L[k]) \/ e.key \notin PlanKeys(p)
    PROVE Told(p, pl, M)
  BY DEF Told, PlanKeys

LEMMA RowsOnlyAdded ==
    ASSUME IInv, [Next]_vars
    PROVE \A k \in Investors : RowsIn(ledger[k]) \subseteq RowsIn(ledger'[k])
  BY RowsStay, EntriesAreRows

LEMMA FundPlanTold ==
    ASSUME IInv, PlanRows, [Next]_vars, NEW w \in Workers, FundPlan(w)
    PROVE PlanRows'
  <1> DEFINE r == req[w]
             p == r.plan
             i == r.who
             f == Funding(r)
             new == FundRows(r)
  <1>1. /\ r \in Requests /\ r.op = "fund" /\ i \in Investors /\ p \in Plans
        /\ Adds(i, new)
    BY FundPlanAdds
  <1>2. plan[p].status = "none"
    BY <1>1, CommitFacts DEF FundPlan, PlanAllows
  <1>3. /\ plan'[p].status = "active" /\ plan'[p].owner = i
        /\ plan'[p].principal = r.amount
        /\ \A q \in Plans \ {p} : plan'[q] = plan[q]
    BY <1>1 DEF FundPlan, IInv, TypeOK
  <1>4. /\ f \in new /\ f.key = Key("agreement", p) /\ f.amount = -r.amount
        /\ \A e \in new : e = f \/ e.key = Key("deposit", p)
    BY <1>1 DEF FundRows, Funding, TopUp, Entry, KeyOf, SecondKeyOf
  <1>5. \A k \in Investors : RowsIn(ledger[k]) \subseteq RowsIn(ledger'[k])
    BY RowsOnlyAdded
  <1> HIDE DEF r, p, i, f, new
  <1>6. OpeningRow(plan'[p], i, f)
    BY <1>3, <1>4 DEF OpeningRow
  <1>7. \A k \in Investors : \A e \in RowsIn(ledger[k]) :
            e.key # Key("agreement", p) /\ e.key # Key("close", p)
    BY <1>1, <1>2 DEF PlanRows, Told, OpeningRow, ClosingRow
  <1>8. \A k \in Investors : \A e \in RowsIn(ledger'[k]) :
            e \in RowsIn(ledger[k]) \/ (k = i /\ e = f) \/ e.key = Key("deposit", p)
    BY <1>1, <1>4 DEF Adds
  <1>9. f \in RowsIn(ledger'[i])
    BY <1>1, <1>4 DEF Adds
  <1>10. ASSUME NEW q \in Plans, q # p PROVE Told(q, plan'[q], ledger')
    <2>1. \A k \in Investors : \A e \in RowsIn(ledger'[k]) :
              e \in RowsIn(ledger[k]) \/ e.key \notin PlanKeys(q)
      BY <1>4, <1>8, <1>10, KeyNames DEF PlanKeys
    <2>2. plan'[q] = plan[q] /\ Told(q, plan[q], ledger)
      BY <1>3, <1>10 DEF PlanRows
    <2> QED BY <1>5, <2>1, <2>2, ToldStill
  <1>11. Told(p, plan'[p], ledger')
    <2>1. \A k \in Investors : \A e \in RowsIn(ledger'[k]) :
              /\ e.key = Key("agreement", p) => k = i /\ e = f
              /\ e.key # Key("close", p)
      BY <1>4, <1>7, <1>8, KeyNames DEF PlanKeys
    <2>2. plan'[p].status # "completed"
      BY <1>3
    <2> QED BY <1>1, <1>4, <1>6, <1>9, <2>1, <2>2 DEF Told
  <1> QED BY <1>10, <1>11 DEF PlanRows

LEMMA ClosePlanTold ==
    ASSUME IInv, PlanRows, [Next]_vars, NEW w \in Workers, ClosePlan(w)
    PROVE PlanRows'
  <1> DEFINE r == req[w]
             p == r.plan
             i == r.who
  <1>1. /\ r \in Requests /\ i \in Investors /\ r.op = "close" /\ p \in Plans
        /\ plan[p].status = "active" /\ plan[p].owner = i
    BY CommitFacts, RequestFields DEF ClosePlan, PlanAllows
  <1>2. PICK e : MoveRow(w, e) /\ Adds(i, {e})
    BY MoveAdds
  <1>3. /\ plan'[p].status = "completed" /\ plan'[p].owner = i
        /\ plan'[p].principal = plan[p].principal
        /\ \A q \in Plans \ {p} : plan'[q] = plan[q]
    BY <1>1 DEF ClosePlan, IInv, TypeOK, PlanType
  <1>4. e.key = Key("close", p) /\ e.amount = Payout(w)
    BY <1>1, <1>2 DEF MoveRow, KeyOf
  <1>5. Payout(w) >= plan[p].principal
    <2>1. plan[p] \in PlanType /\ gain[w] \in Savings \cup {0}
      BY <1>1 DEF IInv, TypeOK
    <2>2. plan[p].principal \in Nat /\ gain[w] \in Nat
      BY <2>1, SavedNat DEF PlanType
    <2> QED BY <2>2 DEF Payout
  <1>6. \A k \in Investors : RowsIn(ledger[k]) \subseteq RowsIn(ledger'[k])
    BY RowsOnlyAdded
  <1> HIDE DEF r, p, i
  <1>7. ClosingRow(plan'[p], i, e)
    BY <1>3, <1>4, <1>5 DEF ClosingRow
  <1>8. \A k \in Investors : \A x \in RowsIn(ledger'[k]) :
            x \in RowsIn(ledger[k]) \/ (k = i /\ x = e)
    BY <1>1, <1>2 DEF Adds
  <1>9. e \in RowsIn(ledger'[i])
    BY <1>2 DEF Adds
  <1>10. ASSUME NEW q \in Plans, q # p PROVE Told(q, plan'[q], ledger')
    <2>1. \A k \in Investors : \A x \in RowsIn(ledger'[k]) :
              x \in RowsIn(ledger[k]) \/ x.key \notin PlanKeys(q)
      BY <1>4, <1>8, <1>10, KeyNames DEF PlanKeys
    <2>2. plan'[q] = plan[q] /\ Told(q, plan[q], ledger)
      BY <1>3, <1>10 DEF PlanRows
    <2> QED BY <1>6, <2>1, <2>2, ToldStill
  <1>11. Told(p, plan'[p], ledger')
    <2>1. Told(p, plan[p], ledger)
      BY <1>1 DEF PlanRows
    <2>2. \A k \in Investors : \A x : OpeningRow(plan[p], k, x) => OpeningRow(plan'[p], k, x)
      BY <1>1, <1>3 DEF OpeningRow
    <2>3. \E k \in Investors : \E x \in RowsIn(ledger'[k]) :
             x.key = Key("agreement", p) /\ OpeningRow(plan'[p], k, x)
      BY <1>1, <1>6, <2>1, <2>2 DEF Told
    <2>4. \A k \in Investors : \A x \in RowsIn(ledger'[k]) :
             /\ x.key = Key("agreement", p) => OpeningRow(plan'[p], k, x)
             /\ x.key = Key("close", p) => ClosingRow(plan'[p], k, x)
      <3>1. \A k \in Investors : \A x \in RowsIn(ledger[k]) :
               /\ x.key = Key("agreement", p) => OpeningRow(plan[p], k, x)
               /\ x.key # Key("close", p)
        BY <1>1, <2>1 DEF Told, ClosingRow
      <3> QED BY <1>4, <1>7, <1>8, <2>2, <3>1, KeyNames
    <2> QED BY <1>1, <1>4, <1>7, <1>9, <2>3, <2>4 DEF Told
  <1> QED BY <1>10, <1>11 DEF PlanRows

LEMMA PlanRowsStep ==
    ASSUME IInv, PlanRows, [Next]_vars
    PROVE PlanRows'
  <1>1. CASE UNCHANGED <<ledger, plan>>
    BY <1>1 DEF PlanRows
  <1>2. ASSUME UNCHANGED plan,
               \A p \in Plans, k \in Investors : \A e \in RowsIn(ledger'[k]) :
                   e \in RowsIn(ledger[k]) \/ e.key \notin PlanKeys(p)
        PROVE PlanRows'
    <2>1. ASSUME NEW p \in Plans PROVE Told(p, plan[p], ledger')
      <3>1. Told(p, plan[p], ledger)
        BY DEF PlanRows
      <3> QED BY <1>2, <3>1, RowsOnlyAdded, ToldStill
    <2> QED BY <1>2, <2>1 DEF PlanRows
  <1>3. ASSUME NEW w \in Workers, Deposit(w) \/ Withdraw(w) PROVE PlanRows'
    <2>1. PICK e : MoveRow(w, e) /\ Adds(req[w].who, {e})
      BY <1>3, MoveAdds
    <2>2. e.key = Key("op", req[w].key)
      <3>1. req[w].op \in {"deposit", "withdraw"}
        BY <1>3, CommitFacts DEF Deposit, Withdraw
      <3> QED BY <2>1, <3>1 DEF MoveRow, KeyOf
    <2>3. \A p \in Plans, k \in Investors : \A x \in RowsIn(ledger'[k]) :
              x \in RowsIn(ledger[k]) \/ x.key \notin PlanKeys(p)
      BY <2>1, <2>2, KeyNames DEF Adds
    <2> QED BY <1>2, <1>3, <2>3 DEF Deposit, Withdraw
  <1>4. ASSUME NEW w \in Workers, Transfer(w) PROVE PlanRows'
    <2> DEFINE r == req[w]
               debit == OutRow(r, seen[w][r.who] - r.amount)
               credit == InRow(r, seen[w][r.to] + r.amount)
    <2>1. /\ r.op = "transfer"
          /\ RowsIn(ledger'[r.who]) = RowsIn(ledger[r.who]) \cup {debit}
          /\ RowsIn(ledger'[r.to]) = RowsIn(ledger[r.to]) \cup {credit}
          /\ \A k \in Investors \ {r.who, r.to} : ledger'[k] = ledger[k]
      BY <1>4, TransferAdds
    <2>2. debit.key = Key("op", r.key) /\ credit.key = Key("in", r.key)
      BY <2>1 DEF OutRow, InRow, Entry, KeyOf, SecondKeyOf
    <2> HIDE DEF r, debit, credit
    <2>3. \A p \in Plans, k \in Investors : \A x \in RowsIn(ledger'[k]) :
              x \in RowsIn(ledger[k]) \/ x.key \notin PlanKeys(p)
      BY <2>1, <2>2, KeyNames
    <2> QED BY <1>2, <1>4, <2>3 DEF Transfer
  <1> QED
    BY <1>1, <1>3, <1>4, FundPlanTold, ClosePlanTold
    DEF Next, Step, vars, data, Submit, Finish, Abort, PreCheck, Acquire, ReadRows,
        Check, DeleteInvestor, Refuse, Dedupe

-----------------------------------------------------------------------------
(* What a worker that answers has in the ledger.                             *)
Written(r, L) == \E e \in RowsIn(L[r.who]) : e.key = KeyOf(r) /\ e.digest = r

LEMMA AnswerByRows ==
    /\ AnswerIsRecorded <=> \A w \in Workers :
         pc[w] = "ok" /\ req[w].op # "delete" => Written(req[w], ledger)
    /\ AnswerIsRecorded' <=> \A w \in Workers :
         pc'[w] = "ok" /\ req'[w].op # "delete" => Written(req'[w], ledger')
  BY DEF AnswerIsRecorded, Written, EntriesOf, RowsIn

(* A commit writes the row it answers for.                                   *)
LEMMA CommitWrites ==
    ASSUME IInv, NEW w \in Workers,
           Deposit(w) \/ Withdraw(w) \/ Transfer(w) \/ FundPlan(w) \/ ClosePlan(w)
    PROVE Written(req[w], ledger')
  <1>1. CASE Deposit(w) \/ Withdraw(w) \/ ClosePlan(w)
    BY <1>1, MoveAdds DEF MoveRow, Adds, Written
  <1>2. CASE Transfer(w)
    <2> DEFINE r == req[w]
               debit == OutRow(r, seen[w][r.who] - r.amount)
    <2>1. RowsIn(ledger'[r.who]) = RowsIn(ledger[r.who]) \cup {debit}
      BY <1>2, TransferAdds
    <2>2. debit.key = KeyOf(r) /\ debit.digest = r
      BY DEF OutRow, Entry
    <2> HIDE DEF r, debit
    <2>3. Written(r, ledger')
      BY <2>1, <2>2 DEF Written
    <2> QED BY <2>3 DEF r
  <1>3. CASE FundPlan(w)
    <2>1. Adds(req[w].who, FundRows(req[w]))
      BY <1>3, FundPlanAdds
    <2>2. /\ Funding(req[w]) \in FundRows(req[w])
          /\ Funding(req[w]).key = KeyOf(req[w]) /\ Funding(req[w]).digest = req[w]
      BY DEF FundRows, Funding, Entry
    <2> QED BY <2>1, <2>2 DEF Adds, Written
  <1> QED BY <1>1, <1>2, <1>3

(* A receipt of this very request stands for its row.                        *)
LEMMA ReceiptWritten ==
    ASSUME ReceiptRows, NEW x \in receipts, NEW r, SameRequest(x, r)
    PROVE Written(r, ledger)
  <1>1. /\ x.digest = r
        /\ OutRow(x.digest, x.sourceAfter) \in EntriesOf(x.digest.who)
    BY DEF SameRequest, ReceiptRows
  <1>2. OutRow(r, x.sourceAfter).key = KeyOf(r) /\ OutRow(r, x.sourceAfter).digest = r
    BY DEF OutRow, Entry
  <1> QED BY <1>1, <1>2, EntriesAreRows DEF Written

(* A replay answers ok only for a row of its own request.                    *)
LEMMA ReplayWritten ==
    ASSUME IInv, ReceiptRows, NEW w \in Workers, PreCheck(w) \/ Check(w),
           pc'[w] = "ok"
    PROVE Written(req[w], ledger) /\ UNCHANGED ledger
  <1>1. pc \in [Workers -> Stages] /\ UNCHANGED ledger
    BY DEF IInv, TypeOK, PreCheck, Check, data
  <1>2. ~Decide(w) /\ ~Goto(w, "lock")
    BY <1>1 DEF Decide, Goto, Answer
  <1>3. ASSUME NEW otherwise, TransferReplay(w, otherwise), ~otherwise
        PROVE Written(req[w], ledger)
    <2>1. ~Answer(w, "error")
      BY <1>1 DEF Answer, Goto
    <2>2. \E x \in ReceiptsOf(req[w]) : SameRequest(x, req[w])
      BY <1>3, <2>1 DEF TransferReplay
    <2> QED BY <2>2, ReceiptWritten DEF ReceiptsOf
  <1>4. CASE PreCheck(w)
    BY <1>1, <1>2, <1>3, <1>4 DEF PreCheck
  <1>5. ASSUME Replay(w, Decide(w)) PROVE Written(req[w], ledger)
    <2>1. ~Answer(w, "error")
      BY <1>1 DEF Answer, Goto
    <2>2. \E e \in EntriesOf(req[w].who) : e.key = KeyOf(req[w]) /\ SameRequest(e, req[w])
      BY <1>2, <1>5, <2>1 DEF Replay
    <2> QED BY <2>2, EntriesAreRows DEF SameRequest, Written
  <1>6. CASE Check(w)
    <2>1. \/ TransferReplay(w, Decide(w)) \/ Decide(w) \/ Replay(w, Decide(w))
      BY <1>6 DEF Check
    <2> QED BY <1>1, <1>2, <1>3, <1>5, <2>1
  <1> QED BY <1>4, <1>6

LEMMA RecordedStep ==
    ASSUME IInv, ReceiptRows, AnswerIsRecorded, [Next]_vars
    PROVE AnswerIsRecorded'
  <1> SUFFICES ASSUME NEW v \in Workers, pc'[v] = "ok", req'[v].op # "delete"
               PROVE Written(req'[v], ledger')
    BY AnswerByRows
  <1>1. ASSUME pc[v] = "ok", req'[v] = req[v] PROVE Written(req'[v], ledger')
    <2>1. req[v] \in Requests /\ req[v].who \in Investors
      BY <1>1, RequestFields DEF IInv, Busy
    <2>2. Written(req[v], ledger)
      BY <1>1, AnswerByRows
    <2> QED BY <1>1, <2>1, <2>2, RowsOnlyAdded DEF Written
  <1>2. CASE UNCHANGED vars
    BY <1>1, <1>2 DEF vars
  <1>3. CASE Dedupe
    BY <1>1, <1>3 DEF Dedupe
  <1>4. ASSUME NEW w \in Workers, Submit(w) \/ Step(w) \/ Abort(w)
        PROVE Written(req'[v], ledger')
    <2>1. pc \in [Workers -> Stages] /\ req \in [Workers -> Requests \cup {NoRequest}]
      BY DEF IInv, TypeOK
    <2>2. CASE w # v
      <3>1. pc'[v] = pc[v]
        <4>1. \E stage : pc' = [pc EXCEPT ![w] = stage] \/ pc' = pc
          BY <1>4 DEF Step, Submit, Abort, PreCheck, TransferReplay, Acquire, ReadRows, Check,
             Replay, Decide, Deposit, Withdraw, Transfer, FundPlan, ClosePlan,
             DeleteInvestor, Refuse, Finish, Commits, Answer, Goto
        <4> QED BY <2>1, <2>2, <4>1
      <3>2. req'[v] = req[v]
        BY <1>4, <2>1, <2>2 DEF Step, Submit, Abort, PreCheck, Acquire, ReadRows, Check,
           Deposit, Withdraw, Transfer, FundPlan, ClosePlan, DeleteInvestor, Refuse,
           Finish, Commits
      <3> QED BY <1>1, <3>1, <3>2
    <2>3. CASE w = v
      <3>1. CASE Deposit(w) \/ Withdraw(w) \/ Transfer(w) \/ FundPlan(w) \/ ClosePlan(w)
        <4>1. UNCHANGED req
          BY <3>1 DEF Deposit, Withdraw, Transfer, FundPlan, ClosePlan, Commits
        <4> QED BY <2>3, <3>1, <4>1, CommitWrites
      <3>2. CASE PreCheck(w) \/ Check(w)
        <4>1. UNCHANGED req
          BY <3>2 DEF PreCheck, Check
        <4> QED BY <2>3, <3>2, <4>1, ReplayWritten
      <3>3. CASE DeleteInvestor(w)
        BY <2>3, <3>3 DEF DeleteInvestor, Commits
      <3>4. CASE Submit(w) \/ Abort(w) \/ Acquire(w) \/ ReadRows(w) \/ Refuse(w) \/ Finish(w)
        BY <2>1, <2>3, <3>4 DEF Submit, Abort, Acquire, ReadRows, Refuse, Finish, Answer, Goto
      <3> QED BY <1>4, <3>1, <3>2, <3>3, <3>4 DEF Step
    <2> QED BY <2>2, <2>3
  <1> QED BY <1>2, <1>3, <1>4 DEF Next

-----------------------------------------------------------------------------
LEMMA InitHistory == Init => History
  <1> SUFFICES ASSUME Init PROVE History
    OBVIOUS
  <1>1. ASSUME NEW i \in Investors PROVE DOMAIN ledger[i] = {} /\ EntriesOf(i) = {}
    <2>1. ledger[i] = <<>>
      BY DEF Init
    <2>2. DOMAIN ledger[i] = {}
      BY <2>1
    <2> QED BY <2>2 DEF EntriesOf
  <1>2. KeyAppliedOnce /\ ReceiptRows /\ AnswerIsRecorded
    BY <1>1 DEF Init, KeyAppliedOnce, ReceiptRows, AnswerIsRecorded
  <1>3. PlanRows
    BY <1>1, EntriesAreRows DEF Init, PlanRows, Told, NoPlan
  <1> QED BY <1>2, <1>3 DEF History

LEMMA AlwaysHistory == Spec => []History
  <1>1. Init => History
    BY InitHistory
  <1>2. IInv /\ History /\ [Next]_vars => History'
    BY OnceStep, ReceiptStep, PlanRowsStep, RecordedStep DEF History
  <1> QED BY <1>1, <1>2, AlwaysIInv, PTL DEF Spec

(* A request that is sent again, or twice at the same time, writes its rows  *)
(* once: the unique operation_key and the replay lookup leave no second way. *)
THEOREM KeyAppliedOnceAlways == Spec => []KeyAppliedOnce
  <1>1. History => KeyAppliedOnce
    BY DEF History
  <1> QED BY <1>1, AlwaysHistory, PTL

(* A client is never told of money that did not move: every successful       *)
(* answer, the replayed ones too, has the row of this very request.          *)
THEOREM AnswerAlwaysRecorded == Spec => []AnswerIsRecorded
  <1>1. History => AnswerIsRecorded
    BY DEF History
  <1> QED BY <1>1, AlwaysHistory, PTL

(* Every receipt has its two rows with the balances it promises, and no      *)
(* transfer row is without its receipt.                                      *)
THEOREM TransferAlwaysWhole == Spec => []TransferIsWhole
  <1>1. History => TransferIsWhole
    <2> SUFFICES ASSUME ReceiptRows PROVE TransferIsWhole
      BY DEF History
    <2>1. ASSUME NEW x \in receipts
          PROVE \E out \in EntriesOf(x.digest.who) : \E in \in EntriesOf(x.digest.to) :
                   /\ out.key = Key("op", x.key) /\ out.kind = "transfer_out"
                   /\ in.key = Key("in", x.key) /\ in.kind = "transfer_in"
                   /\ out.amount = -x.digest.amount /\ in.amount = x.digest.amount
                   /\ out.after = x.sourceAfter /\ in.after = x.recipientAfter
      <3> DEFINE debit == OutRow(x.digest, x.sourceAfter)
                 credit == InRow(x.digest, x.recipientAfter)
      <3>1. /\ x.digest.key = x.key /\ x.digest.op = "transfer"
            /\ debit \in EntriesOf(x.digest.who) /\ credit \in EntriesOf(x.digest.to)
        BY DEF ReceiptRows
      <3>2. /\ debit.key = Key("op", x.key) /\ debit.kind = "transfer_out"
            /\ credit.key = Key("in", x.key) /\ credit.kind = "transfer_in"
            /\ debit.amount = -x.digest.amount /\ credit.amount = x.digest.amount
            /\ debit.after = x.sourceAfter /\ credit.after = x.recipientAfter
        BY <3>1 DEF OutRow, InRow, Entry, KeyOf, SecondKeyOf
      <3> HIDE DEF debit, credit
      <3> QED BY <3>1, <3>2
    <2> QED BY <2>1 DEF ReceiptRows, TransferKinds, TransferIsWhole
  <1> QED BY <1>1, AlwaysHistory, PTL

(* The principal of a plan leaves the balance of its owner when the plan     *)
(* opens and comes back at most once, when it closes.                        *)
THEOREM PrincipalAlwaysAccounted == Spec => []PrincipalAccounted
  <1>1. History => PrincipalAccounted
    BY EntriesAreRows
    DEF History, PlanRows, Told, OpeningRow, ClosingRow, PrincipalAccounted
  <1> QED BY <1>1, AlwaysHistory, PTL
-----------------------------------------------------------------------------
(* The operators of WalletOps mean the same in both modules.                 *)
LEMMA SameKey == ASSUME NEW r PROVE Promise!KeyOf(r) = KeyOf(r)
  BY DEF Promise!KeyOf, Promise!Key, KeyOf, Key

LEMMA SameInvestors == ASSUME NEW r PROVE Promise!InvestorsOf(r) = InvestorsOf(r)
  BY DEF Promise!InvestorsOf, InvestorsOf

LEMMA SamePlanAllows == ASSUME NEW r, NEW pl
    PROVE Promise!PlanAllows(r, pl) <=> PlanAllows(r, pl)
  BY DEF Promise!PlanAllows, PlanAllows, Promise!CurrentPlanIn, CurrentPlanIn

LEMMA SameAdmissible == ASSUME NEW r, NEW bal, NEW principal, NEW earned
    PROVE Promise!Admissible(r, bal, principal, earned)
            <=> Admissible(r, bal, principal, earned)
  BY DEF Promise!Admissible, Admissible, Promise!Fits, Fits

(* A refusal looks only at the balances of the request's own investors.      *)
LEMMA AdmissibleLocal ==
    ASSUME NEW r \in Requests, NEW f, NEW g, NEW principal, NEW earned,
           \A i \in InvestorsOf(r) : f[i] = g[i],
           Admissible(r, f, principal, earned)
    PROVE Admissible(r, g, principal, earned)
  <1>1. f[r.who] = g[r.who] /\ (r.op = "transfer" => f[r.to] = g[r.to])
    BY DEF InvestorsOf
  <1> QED BY <1>1 DEF Admissible

-----------------------------------------------------------------------------
(* The key of every request in the ledger is used.                           *)
KeysRecorded == \A i \in Investors : \A e \in EntriesOf(i) : KeyOf(e.digest) \in KeysUsed

LEMMA AppliedHasKey == ASSUME KeysRecorded, NEW a \in applied PROVE KeyOf(a) \in KeysUsed
  <1>1. PICK i \in Investors : \E e \in EntriesOf(i) : a = e.digest
    BY DEF applied
  <1> QED BY <1>1 DEF KeysRecorded

(* The rows a commit adds all carry its request.                             *)
LEMMA RowsOfRequest ==
    ASSUME IInv, NEW w \in Workers,
           Deposit(w) \/ Withdraw(w) \/ Transfer(w) \/ FundPlan(w) \/ ClosePlan(w)
    PROVE \A k \in Investors : \A e \in RowsIn(ledger'[k]) :
              e \in RowsIn(ledger[k]) \/ e.digest = req[w]
  <1>1. CASE Deposit(w) \/ Withdraw(w) \/ ClosePlan(w)
    BY <1>1, MoveAdds DEF MoveRow, Adds
  <1>2. CASE Transfer(w)
    <2> DEFINE r == req[w]
               debit == OutRow(r, seen[w][r.who] - r.amount)
               credit == InRow(r, seen[w][r.to] + r.amount)
    <2>1. /\ RowsIn(ledger'[r.who]) = RowsIn(ledger[r.who]) \cup {debit}
          /\ RowsIn(ledger'[r.to]) = RowsIn(ledger[r.to]) \cup {credit}
          /\ \A k \in Investors \ {r.who, r.to} : ledger'[k] = ledger[k]
      BY <1>2, TransferAdds
    <2>2. debit.digest = r /\ credit.digest = r
      BY DEF OutRow, InRow, Entry
    <2> HIDE DEF debit, credit
    <2> QED BY <2>1, <2>2
  <1>3. CASE FundPlan(w)
    <2>1. Adds(req[w].who, FundRows(req[w]))
      BY <1>3, FundPlanAdds
    <2>2. \A e \in FundRows(req[w]) : e.digest = req[w]
      BY DEF FundRows, TopUp, Funding, Entry
    <2> QED BY <2>1, <2>2 DEF Adds
  <1> QED BY <1>1, <1>2, <1>3

LEMMA CommitRecords ==
    ASSUME IInv, KeysRecorded, [Next]_vars, NEW w \in Workers,
           Deposit(w) \/ Withdraw(w) \/ Transfer(w) \/ FundPlan(w) \/ ClosePlan(w)
    PROVE KeysRecorded' /\ applied' = applied \cup {req[w]}
  <1> DEFINE r == req[w]
  <1>1. r.who \in Investors
    <2>1. \E op : Commits(w, op)
      BY DEF Deposit, Withdraw, Transfer, FundPlan, ClosePlan
    <2> QED BY <2>1, CommitFacts, RequestFields
  <1>2. Written(r, ledger')
    BY CommitWrites
  <1>3. \A k \in Investors : /\ RowsIn(ledger[k]) \subseteq RowsIn(ledger'[k])
                             /\ \A e \in RowsIn(ledger'[k]) :
                                   e \in RowsIn(ledger[k]) \/ e.digest = r
    BY RowsOnlyAdded, RowsOfRequest
  <1> HIDE DEF r
  <1>4. KeysIn(ledger) \subseteq KeysIn(ledger') /\ KeyOf(r) \in KeysIn(ledger')
    <2>1. \A L, x : x \in KeysIn(L) <=>
             \E k \in Investors : \E e \in RowsIn(L[k]) : x = e.key
      BY DEF KeysIn
    <2>2. ASSUME NEW x \in KeysIn(ledger) PROVE x \in KeysIn(ledger')
      <3>1. PICK k \in Investors : \E e \in RowsIn(ledger[k]) : x = e.key
        BY <2>1
      <3>2. \E e \in RowsIn(ledger'[k]) : x = e.key
        BY <1>3, <3>1
      <3> QED BY <2>1, <3>2
    <2>3. KeyOf(r) \in KeysIn(ledger')
      <3>1. \E e \in RowsIn(ledger'[r.who]) : KeyOf(r) = e.key
        BY <1>2 DEF Written
      <3> QED BY <1>1, <2>1, <3>1
    <2> QED BY <2>2, <2>3
  <1>5. KeysUsed = KeysIn(ledger) /\ KeysUsed' = KeysIn(ledger')
    BY EntriesAreRows DEF KeysUsed, KeysIn
  <1>6. KeysRecorded'
    <2>1. \A k \in Investors : \A e \in RowsIn(ledger'[k]) : KeyOf(e.digest) \in KeysIn(ledger')
      BY <1>3, <1>4, <1>5, EntriesAreRows DEF KeysRecorded
    <2> QED BY <1>5, <2>1, EntriesAreRows DEF KeysRecorded
  <1>7. /\ applied = UNION {{e.digest : e \in RowsIn(ledger[k])} : k \in Investors}
        /\ applied' = UNION {{e.digest : e \in RowsIn(ledger'[k])} : k \in Investors}
    BY EntriesAreRows DEF applied
  <1>8. applied' = applied \cup {r}
    <2>1. /\ \A x : x \in applied <=> \E k \in Investors : \E e \in RowsIn(ledger[k]) : x = e.digest
          /\ \A x : x \in applied' <=> \E k \in Investors : \E e \in RowsIn(ledger'[k]) : x = e.digest
      BY <1>7
    <2>2. ASSUME NEW x \in applied' PROVE x \in applied \/ x = r
      <3>1. PICK k \in Investors : \E e \in RowsIn(ledger'[k]) : x = e.digest
        BY <2>1
      <3>2. (\E e \in RowsIn(ledger[k]) : x = e.digest) \/ x = r
        BY <1>3, <3>1
      <3> QED BY <2>1, <3>2
    <2>3. ASSUME NEW x \in applied PROVE x \in applied'
      <3>1. PICK k \in Investors : \E e \in RowsIn(ledger[k]) : x = e.digest
        BY <2>1
      <3>2. \E e \in RowsIn(ledger'[k]) : x = e.digest
        BY <1>3, <3>1
      <3> QED BY <2>1, <3>2
    <2>4. r \in applied'
      <3>1. \E e \in RowsIn(ledger'[r.who]) : r = e.digest
        BY <1>2 DEF Written
      <3> QED BY <1>1, <2>1, <3>1
    <2> QED BY <2>2, <2>3, <2>4
  <1> QED BY <1>6, <1>8 DEF r

-----------------------------------------------------------------------------
(* What makes a commit an operation of the abstract wallet: its request has  *)
(* not been applied, and what was decided on the balances read holds of the  *)
(* balances now.                                                             *)
LEMMA Enabling ==
    ASSUME IInv, KeysRecorded, NEW w \in Workers, NEW op, Commits(w, op), op # "delete"
    PROVE /\ req[w] \in Requests /\ req[w].op = op
          /\ \A a \in applied : Promise!KeyOf(a) # Promise!KeyOf(req[w])
          /\ Promise!InvestorsOf(req[w]) \subseteq exists
          /\ Promise!PlanAllows(req[w], plan)
          /\ Promise!Admissible(req[w], balance, plan[req[w].plan].principal, gain[w])
          /\ gain[w] \in Savings \cup {0}
  <1>1. /\ req[w] \in Requests /\ req[w].op = op
        /\ InvestorsOf(req[w]) \subseteq exists
        /\ \A i \in InvestorsOf(req[w]) : balance[i] = seen[w][i]
        /\ PlanAllows(req[w], plan)
        /\ Admissible(req[w], seen[w], plan[req[w].plan].principal, gain[w])
    BY CommitFacts
  <1>2. KeyOf(req[w]) \notin KeysUsed
    <2>1. NewKeys(req[w]) \cap KeysUsed = {}
      BY DEF Commits, KeysFree
    <2>2. KeyOf(req[w]) \in NewKeys(req[w])
      BY <1>1 DEF NewKeys
    <2> QED BY <2>1, <2>2
  <1>3. \A a \in applied : Promise!KeyOf(a) # Promise!KeyOf(req[w])
    BY <1>2, AppliedHasKey, SameKey
  <1>4. Admissible(req[w], balance, plan[req[w].plan].principal, gain[w])
    BY <1>1, AdmissibleLocal
  <1>5. gain[w] \in Savings \cup {0}
    BY DEF IInv, TypeOK
  <1> QED BY <1>1, <1>3, <1>4, <1>5, SameInvestors, SamePlanAllows, SameAdmissible

(* Each commit moves the balances and plans as the abstract operation does.  *)
MovesAsPromised(r, earned) ==
    /\ balance' = [i \in Investors |-> Promise!Moved(r, i, earned)]
    /\ plan' = [plan EXCEPT ![r.plan] = Promise!PlanAfter(r)]
    /\ UNCHANGED exists

LEMMA CommitReads ==
    ASSUME IInv, NEW w \in Workers, NEW op, Commits(w, op), op # "delete"
    PROVE /\ req[w] \in Requests /\ req[w].op = op
          /\ req[w].who \in Investors /\ req[w].to \in Investors
          /\ req[w].plan \in Plans /\ req[w].amount \in Nat
          /\ balance[req[w].who] = seen[w][req[w].who]
          /\ op = "transfer" => balance[req[w].to] = seen[w][req[w].to]
  BY CommitFacts, RequestFields DEF InvestorsOf

LEMMA DepositMoves ==
    ASSUME IInv, NEW w \in Workers, Deposit(w)
    PROVE MovesAsPromised(req[w], gain[w])
  <1> DEFINE r == req[w]
  <1>1. /\ r.op = "deposit" /\ r.who \in Investors /\ r.plan \in Plans
        /\ balance[r.who] = seen[w][r.who]
    BY CommitReads DEF Deposit
  <1>2. balance' = [i \in Investors |-> Promise!Moved(r, i, gain[w])]
    BY <1>1 DEF Deposit, Movement, IInv, TypeOK, Promise!Moved
  <1>3. plan' = [plan EXCEPT ![r.plan] = Promise!PlanAfter(r)]
    BY <1>1 DEF Deposit, IInv, TypeOK, Promise!PlanAfter
  <1> QED BY <1>2, <1>3 DEF Deposit, MovesAsPromised

LEMMA WithdrawMoves ==
    ASSUME IInv, NEW w \in Workers, Withdraw(w)
    PROVE MovesAsPromised(req[w], gain[w])
  <1> DEFINE r == req[w]
  <1>1. /\ r.op = "withdraw" /\ r.who \in Investors /\ r.plan \in Plans
        /\ balance[r.who] = seen[w][r.who] /\ r.amount \in Nat
    BY CommitReads DEF Withdraw
  <1>2. balance' = [i \in Investors |-> Promise!Moved(r, i, gain[w])]
    BY <1>1 DEF Withdraw, Movement, IInv, TypeOK, Promise!Moved
  <1>3. plan' = [plan EXCEPT ![r.plan] = Promise!PlanAfter(r)]
    BY <1>1 DEF Withdraw, IInv, TypeOK, Promise!PlanAfter
  <1> QED BY <1>2, <1>3 DEF Withdraw, MovesAsPromised

LEMMA ClosePlanMoves ==
    ASSUME IInv, NEW w \in Workers, ClosePlan(w)
    PROVE MovesAsPromised(req[w], gain[w])
  <1> DEFINE r == req[w]
  <1>1. /\ r.op = "close" /\ r.who \in Investors /\ r.plan \in Plans
        /\ balance[r.who] = seen[w][r.who]
    BY CommitReads DEF ClosePlan
  <1>2. balance' = [balance EXCEPT ![r.who] = balance[r.who] + Payout(w)]
    BY <1>1 DEF ClosePlan, Movement
  <1>3. balance[r.who] + Payout(w) = balance[r.who] + plan[r.plan].principal + gain[w]
    <2>1. plan[r.plan] \in PlanType /\ gain[w] \in Savings \cup {0}
      BY <1>1 DEF IInv, TypeOK
    <2>2. plan[r.plan].principal \in 0..MaxBalance
      BY <2>1 DEF PlanType
    <2>3. gain[w] \in Nat /\ balance[r.who] \in 0..MaxBalance
      BY <1>1, <2>1, SavedNat, BalanceTyped
    <2> QED BY <2>2, <2>3 DEF Payout
  <1>4. \A i \in Investors : Promise!Moved(r, i, gain[w])
             = IF i = r.who THEN balance[r.who] + plan[r.plan].principal + gain[w]
               ELSE balance[i]
    BY <1>1 DEF Promise!Moved
  <1>5. balance' = [i \in Investors |-> Promise!Moved(r, i, gain[w])]
    BY <1>1, <1>2, <1>3, <1>4 DEF IInv, TypeOK
  <1>6. plan' = [plan EXCEPT ![r.plan] = Promise!PlanAfter(r)]
    BY <1>1 DEF ClosePlan, IInv, TypeOK, Promise!PlanAfter
  <1> QED BY <1>5, <1>6 DEF ClosePlan, MovesAsPromised

LEMMA TransferMoves ==
    ASSUME IInv, NEW w \in Workers, Transfer(w)
    PROVE MovesAsPromised(req[w], gain[w])
  <1> DEFINE r == req[w]
             i == r.who
             j == r.to
  <1>1. /\ r \in Requests /\ r.op = "transfer"
        /\ i \in Investors /\ j \in Investors /\ r.plan \in Plans
        /\ balance[i] = seen[w][i] /\ balance[j] = seen[w][j]
    BY CommitReads DEF Transfer
  <1>2. i # j
    BY <1>1
  <1>3. balance' = [balance EXCEPT ![i] = balance[i] - r.amount,
                                   ![j] = balance[j] + r.amount]
    BY <1>1 DEF Transfer
  <1>4. \A k \in Investors : Promise!Moved(r, k, gain[w])
             = IF k = i THEN balance[i] - r.amount
               ELSE IF k = j THEN balance[j] + r.amount ELSE balance[k]
    BY <1>1 DEF Promise!Moved
  <1>5. balance' = [k \in Investors |-> Promise!Moved(r, k, gain[w])]
    BY <1>1, <1>2, <1>3, <1>4 DEF IInv, TypeOK
  <1>6. plan' = [plan EXCEPT ![r.plan] = Promise!PlanAfter(r)]
    BY <1>1 DEF Transfer, IInv, TypeOK, Promise!PlanAfter
  <1> QED BY <1>5, <1>6 DEF Transfer, MovesAsPromised

LEMMA FundPlanMoves ==
    ASSUME IInv, NEW w \in Workers, FundPlan(w)
    PROVE MovesAsPromised(req[w], gain[w])
  <1> DEFINE r == req[w]
  <1>1. r.op = "fund" /\ r.who \in Investors
    BY CommitReads DEF FundPlan
  <1>2. balance' = [i \in Investors |-> Promise!Moved(r, i, gain[w])]
    BY <1>1 DEF FundPlan, IInv, TypeOK, Promise!Moved
  <1>3. plan' = [plan EXCEPT ![r.plan] = Promise!PlanAfter(r)]
    BY <1>1 DEF FundPlan, Promise!PlanAfter
  <1> QED BY <1>2, <1>3 DEF FundPlan, MovesAsPromised

LEMMA CommitApplies ==
    ASSUME IInv, KeysRecorded, [Next]_vars, NEW w \in Workers,
           Deposit(w) \/ Withdraw(w) \/ Transfer(w) \/ FundPlan(w) \/ ClosePlan(w)
    PROVE /\ KeysRecorded' /\ Promise!Apply(req[w], gain[w])
          /\ req[w] \in Requests /\ gain[w] \in Savings \cup {0}
  <1>1. PICK op : op # "delete" /\ Commits(w, op)
    BY DEF Deposit, Withdraw, Transfer, FundPlan, ClosePlan
  <1>2. MovesAsPromised(req[w], gain[w])
    BY DepositMoves, WithdrawMoves, TransferMoves, FundPlanMoves, ClosePlanMoves
  <1>3. KeysRecorded' /\ applied' = applied \cup {req[w]}
    BY CommitRecords
  <1> QED BY <1>1, <1>2, <1>3, Enabling DEF MovesAsPromised, Promise!Apply

(* A step that leaves the ledger alone leaves what was applied alone.        *)
LEMMA LedgerKept ==
    ASSUME KeysRecorded, UNCHANGED ledger
    PROVE KeysRecorded' /\ UNCHANGED applied
  BY DEF KeysRecorded, KeysUsed, EntriesOf, applied

LEMMA DeleteInvestorRemoves ==
    ASSUME IInv, KeysRecorded, NEW w \in Workers, DeleteInvestor(w)
    PROVE KeysRecorded' /\ Promise!Remove(req[w])
  <1> DEFINE r == req[w]
  <1>1. /\ r \in Requests /\ r.op = "delete"
        /\ InvestorsOf(r) \subseteq exists
        /\ PlanAllows(r, plan)
        /\ Admissible(r, seen[w], plan[r.plan].principal, gain[w])
    BY CommitFacts DEF DeleteInvestor
  <1>2. pc[w] = "commit"
    BY DEF DeleteInvestor, Commits
  <1>3. balance[r.who] = seen[w][r.who]
    BY <1>1, <1>2 DEF IInv, DeletionCurrent, Holding
  <1>4. balance[r.who] = 0
    BY <1>1, <1>3 DEF Admissible
  <1>5. r.who \in exists
    BY <1>1 DEF InvestorsOf
  <1>6. KeysRecorded' /\ UNCHANGED applied
    BY LedgerKept DEF DeleteInvestor
  <1> QED BY <1>1, <1>4, <1>5, <1>6, SamePlanAllows DEF DeleteInvestor, Promise!Remove

-----------------------------------------------------------------------------
(* dedupe_investors_and_users has no part in the promise: it deletes without *)
(* reading a balance.  Without two investors of one name it deletes nobody.  *)
NamesDiffer == \A i, j \in Namesakes : i = j

LEMMA NobodyDuplicated == ASSUME NamesDiffer PROVE ~Dedupe
  BY DEF NamesDiffer, Dedupe, Duplicates

LEMMA InitPromised == Init => Promise!Init /\ KeysRecorded
  <1> SUFFICES ASSUME Init PROVE Promise!Init /\ KeysRecorded
    OBVIOUS
  <1>1. ASSUME NEW i \in Investors PROVE EntriesOf(i) = {}
    <2>1. ledger[i] = <<>>
      BY DEF Init
    <2>2. DOMAIN ledger[i] = {}
      BY <2>1
    <2> QED BY <2>2 DEF EntriesOf
  <1>2. applied = {} /\ KeysRecorded
    BY <1>1 DEF applied, KeysRecorded
  <1>3. Promise!NoPlan = NoPlan
    BY DEF Promise!NoPlan, NoPlan
  <1> QED BY <1>2, <1>3 DEF Init, Promise!Init

LEMMA PromiseStep ==
    ASSUME NamesDiffer
    PROVE IInv /\ KeysRecorded /\ [Next]_vars
            => KeysRecorded' /\ [Promise!Next]_(Promise!vars)
  <1> SUFFICES ASSUME IInv, KeysRecorded, [Next]_vars
               PROVE KeysRecorded' /\ [Promise!Next]_(Promise!vars)
    OBVIOUS
  <1>1. CASE UNCHANGED data
    BY <1>1, LedgerKept DEF data, Promise!vars
  <1>2. ASSUME NEW w \in Workers,
               Deposit(w) \/ Withdraw(w) \/ Transfer(w) \/ FundPlan(w) \/ ClosePlan(w)
        PROVE KeysRecorded' /\ Promise!Next
    BY <1>2, CommitApplies DEF Promise!Next
  <1>3. ASSUME NEW w \in Workers, DeleteInvestor(w)
        PROVE KeysRecorded' /\ Promise!Next
    <2>1. req[w] \in Requests
      BY <1>3, CommitFacts DEF DeleteInvestor
    <2> QED BY <1>3, <2>1, DeleteInvestorRemoves DEF Promise!Next
  <1>4. ASSUME NEW w \in Workers,
               \/ Submit(w) \/ Abort(w) \/ PreCheck(w) \/ Acquire(w) \/ ReadRows(w)
               \/ Check(w) \/ Refuse(w) \/ Finish(w)
        PROVE UNCHANGED data
    BY <1>4 DEF Submit, Abort, PreCheck, Acquire, ReadRows, Check, Refuse, Finish
  <1>5. CASE UNCHANGED vars
    BY <1>1, <1>5 DEF vars, data
  <1> QED BY <1>1, <1>2, <1>3, <1>4, <1>5, NobodyDuplicated DEF Next, Step

(* The wallet keeps its promise: however many workers run side by side, on   *)
(* either database and whatever is aborted or sent again, every request      *)
(* takes effect at one instant, on the balances and plans of that instant,   *)
(* and no two requests of one operation key ever do (wallet_service.py).     *)
THEOREM WalletKeepsPromise == ASSUME NamesDiffer PROVE Spec => KeepsPromise
  <1>1. Init => Promise!Init /\ KeysRecorded
    BY InitPromised
  <1>2. IInv /\ KeysRecorded /\ [Next]_vars
          => KeysRecorded' /\ [Promise!Next]_(Promise!vars)
    BY PromiseStep
  <1> QED BY <1>1, <1>2, AlwaysIInv, PTL DEF Spec, KeepsPromise, Promise!Spec

(* No deletion loses money, also not money that a concurrent credit brought: *)
(* the abstract wallet deletes only the empty and moves only what exists.    *)
THEOREM DeletedAlwaysEmpty == ASSUME NamesDiffer PROVE Spec => []DeletedIsEmpty
  <1>1. Init => DeletedIsEmpty
    BY DEF Init, DeletedIsEmpty
  <1>2. ASSUME TypeOK, DeletedIsEmpty, [Promise!Next]_(Promise!vars) PROVE DeletedIsEmpty'
    <2>1. CASE UNCHANGED Promise!vars
      BY <1>2, <2>1 DEF Promise!vars, DeletedIsEmpty
    <2>2. ASSUME NEW r \in Requests, Promise!Remove(r) PROVE DeletedIsEmpty'
      BY <1>2, <2>2 DEF Promise!Remove, DeletedIsEmpty
    <2>3. ASSUME NEW r \in Requests, NEW earned, Promise!Apply(r, earned)
          PROVE DeletedIsEmpty'
      <3> SUFFICES ASSUME NEW i \in Investors, i \notin exists' PROVE balance'[i] = 0
        BY DEF DeletedIsEmpty
      <3>1. /\ InvestorsOf(r) \subseteq exists /\ exists' = exists
            /\ balance'[i] = Promise!Moved(r, i, earned)
        BY <2>3, SameInvestors DEF Promise!Apply
      <3>2. i # r.who /\ (r.op = "transfer" => i # r.to)
        BY <3>1 DEF InvestorsOf
      <3>3. Promise!Moved(r, i, earned) = balance[i]
        BY <3>2 DEF Promise!Moved
      <3> QED BY <1>2, <3>1, <3>3 DEF DeletedIsEmpty
    <2> QED BY <1>2, <2>1, <2>2, <2>3 DEF Promise!Next
  <1>3. IInv /\ KeysRecorded /\ DeletedIsEmpty /\ [Next]_vars
          => KeysRecorded' /\ DeletedIsEmpty'
    BY <1>2, PromiseStep DEF IInv
  <1>4. Init => KeysRecorded
    BY InitPromised
  <1> QED BY <1>1, <1>3, <1>4, AlwaysIInv, PTL DEF Spec
=============================================================================
