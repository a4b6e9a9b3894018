--------------------------- MODULE AgreementProofs ---------------------------
(***************************************************************************)
(* Proofs about Agreement on PostgreSQL, for any number of investors,      *)
(* agreements and handlers.  On SQLite, where cancel and new_link hold no  *)
(* lock, SignedStays is false.                                             *)
(***************************************************************************)
EXTENDS Agreement, WellFoundedInduction, TLAPS

AgreementRow == [status : {"none", "pending", "signed", "cancelled"}, kind : Kinds,
                 who : Investors \cup {0}, plan : Agreements \cup {0}, shown : Nat \X Nat,
                 principal : Nat, link : Nat, attempts : Nat, expired : BOOLEAN]
PlanRow == [status : {"none", "active", "completed"}, owner : Investors \cup {0}, principal : Nat,
            writes : Nat, months : Nat, touched : BOOLEAN]
Ops == {"offer", "replace", "link", "cancel", "sign"}
JobRow == [op : Ops, kind : Kinds, who : Investors, a : Agreements \cup {0}, plan : Agreements \cup {0},
           reviewed : Nat \X Nat, link : Nat]
Locks == {<<"database">>} \cup {<<"investor", i>> : i \in Investors}
         \cup {<<"agreement", a>> : a \in Agreements}
Typed ==
    /\ agreement \in [Agreements -> AgreementRow]
    /\ plan \in [Agreements -> PlanRow]
    /\ balance \in [Investors -> Nat]
    /\ lock \in [Locks -> Workers \cup {NoWorker}]
    /\ pc \in [Workers -> {"idle", "run", "write"}]
    /\ job \in [Workers -> JobRow \cup {NoJob}]

(* A closing or an amendment is about a plan of its investor.                *)
RowsStand == \A a \in Agreements :
    /\ agreement[a].status # "none" =>
          /\ agreement[a].who \in Investors
          /\ agreement[a].kind # "open" =>
                /\ agreement[a].plan \in Agreements
                /\ plan[agreement[a].plan].status # "none"
                /\ plan[agreement[a].plan].owner = agreement[a].who
                /\ plan[agreement[a].plan].principal = agreement[a].principal
    /\ plan[a].status # "none" => plan[a].owner \in Investors

(* What a request names stays where it is, with its investor.                *)
JobStands(w) ==
    /\ job[w] \in JobRow
    /\ job[w].op # "offer" => /\ job[w].kind = "open" /\ job[w].a \in Agreements
                              /\ agreement[job[w].a].status # "none"
                              /\ agreement[job[w].a].who = job[w].who
    /\ job[w].kind # "open" => /\ job[w].plan \in Agreements
                               /\ plan[job[w].plan].status # "none"
                               /\ plan[job[w].plan].owner = job[w].who
JobsStand == \A w \in Workers : pc[w] # "idle" => JobStands(w)

(* A handler that writes holds its locks, and what it decided is still so.   *)
Holds(w) == /\ lock[Row(job[w].who)] = w
            /\ job[w].op # "offer" => lock[Document(job[w].a)] = w
Decided(w) ==
    /\ job[w].op \in {"offer", "replace"} =>
          \A a \in Agreements : agreement[a].status = "pending" /\ agreement[a].who = job[w].who
             => job[w].op = "replace" /\ a = job[w].a
    /\ job[w].op # "offer" => agreement[job[w].a].status = "pending"
    /\ job[w].op = "sign" =>
          /\ job[w].link # 0 => agreement[job[w].a].link = job[w].link
          /\ agreement[job[w].a].kind # "open" =>
                agreement[job[w].a].shown[1] = plan[agreement[job[w].a].plan].writes
WritersReady == \A w \in Workers : pc[w] = "write" => Holds(w) /\ Decided(w)

IInv == Typed /\ RowsStand /\ JobsStand /\ WritersReady /\ OnePending /\ ExecutedIffSigned

USE AgreementsAreIds, BoundsNat, Fresh

-----------------------------------------------------------------------------
LEMMA LeastExists == ASSUME NEW ids, ids \subseteq Nat, ids # {}
    PROVE \E n \in ids : \A m \in ids : n <= m
  <1> DEFINE R == OpToRel(<, Nat)
  <1>1. IsWellFoundedOn(R, Nat)
    BY NatLessThanWellFounded
  <1>2. \A x, y \in Nat : <<y, x>> \in R <=> y < x
    BY DEF OpToRel
  <1> HIDE DEF R
  <1>3. PICK n \in ids : \A m \in ids : ~(<<m, n>> \in R)
    BY <1>1, WFMin
  <1>4. \A m \in ids : n \in Nat /\ m \in Nat /\ ~(m < n)
    BY <1>2, <1>3
  <1> QED BY <1>4

LEMMA NextIdUnused == ASSUME Unused # {}
    PROVE NextId \in Agreements /\ agreement[NextId].status = "none"
  <1>1. \E n \in Unused : \A m \in Unused : n <= m
    BY LeastExists DEF Unused
  <1>2. NextId \in Unused
    BY <1>1 DEF NextId
  <1> QED BY <1>2 DEF Unused

LEMMA Starts == Init => IInv
  <1> SUFFICES ASSUME Init PROVE IInv
    OBVIOUS
  <1>1. NoAgreement \in AgreementRow /\ NoPlan \in PlanRow
    BY DEF NoAgreement, NoPlan, AgreementRow, PlanRow, Kinds
  <1>2. Typed
    BY <1>1 DEF Init, Typed, Locks
  <1> QED BY <1>2 DEF Init, IInv, RowsStand, JobsStand, WritersReady, OnePending, ExecutedIffSigned,
             NoAgreement, NoPlan

LEMMA JobFacts == ASSUME IInv, NEW w \in Workers, pc[w] # "idle"
    PROVE /\ JobStands(w) /\ job[w] \in JobRow /\ job[w].op \in Ops /\ job[w].kind \in Kinds
          /\ job[w].who \in Investors /\ job[w].a \in Agreements \cup {0}
          /\ job[w].plan \in Agreements \cup {0} /\ job[w].reviewed \in Nat \X Nat /\ job[w].link \in Nat
  BY DEF IInv, JobsStand, JobStands, JobRow

LEMMA RowFacts == ASSUME IInv, NEW a \in Agreements
    PROVE /\ agreement[a] \in AgreementRow /\ agreement[a].kind \in Kinds
          /\ agreement[a].plan \in Agreements \cup {0} /\ agreement[a].principal \in Nat
          /\ agreement[a].shown \in Nat \X Nat /\ agreement[a].link \in Nat
          /\ plan[a] \in PlanRow /\ plan[a].principal \in Nat /\ plan[a].writes \in Nat /\ plan[a].months \in Nat
  BY DEF IInv, Typed, AgreementRow, PlanRow

LEMMA FiguresNat == ASSUME IInv, NEW i, NEW kind, NEW p,
                           kind = "open" => i \in Investors, kind # "open" => p \in Agreements
    PROVE Figures(kind, p, i) \in Nat \X Nat
  BY RowFacts DEF Figures, IInv, Typed

(* With all its locks taken a handler holds the investor's and the document's. *)
LEMMA AllTaken == ASSUME RowLocks, NEW w \in Workers, Missing(w) = {} PROVE Holds(w)
  <1> DEFINE wanted == LocksOf(job[w])
  <1>1. \A n \in 1 .. Len(wanted) : lock[wanted[n]] = w
    BY DEF Missing
  <1>2. CASE job[w].op = "link"
    <2>1. wanted = <<Document(job[w].a), Row(job[w].who)>>
      BY <1>2 DEF LocksOf, RowLocksOf
    <2>2. lock[Document(job[w].a)] = w /\ lock[Row(job[w].who)] = w
      BY <1>1, <2>1
    <2> QED BY <1>2, <2>2 DEF Holds
  <1>3. CASE job[w].op = "offer"
    <2>1. wanted = <<Row(job[w].who)>>
      BY <1>3 DEF LocksOf, RowLocksOf
    <2>2. lock[Row(job[w].who)] = w
      BY <1>1, <2>1
    <2> QED BY <1>3, <2>2 DEF Holds
  <1>4. CASE job[w].op \notin {"link", "offer"}
    <2>1. wanted = <<Row(job[w].who), Document(job[w].a)>>
      BY <1>4 DEF LocksOf, RowLocksOf
    <2>2. lock[Document(job[w].a)] = w /\ lock[Row(job[w].who)] = w
      BY <1>1, <2>1
    <2> QED BY <1>4, <2>2 DEF Holds
  <1> QED BY <1>2, <1>3, <1>4

-----------------------------------------------------------------------------
(* Steps.  One that is confined to an investor leaves the rows of all others *)
(* as they are, and no row is ever taken back or given to another.           *)
SameAgreement(a) == /\ agreement'[a].status = agreement[a].status /\ agreement'[a].kind = agreement[a].kind
                    /\ agreement'[a].who = agreement[a].who /\ agreement'[a].plan = agreement[a].plan
                    /\ agreement'[a].shown = agreement[a].shown /\ agreement'[a].principal = agreement[a].principal
SamePlan(p) == /\ plan'[p].status = plan[p].status /\ plan'[p].owner = plan[p].owner
               /\ plan'[p].principal = plan[p].principal
Confined(i) ==
    /\ \A a \in Agreements :
          \/ SameAgreement(a) /\ agreement'[a].link = agreement[a].link
          \/ /\ agreement[a].status # "none" => agreement[a].who = i
             /\ agreement'[a].who = i /\ agreement'[a].status # "none"
    /\ \A p \in Agreements :
          \/ SamePlan(p) /\ plan'[p].writes = plan[p].writes
          \/ /\ plan[p].status # "none" => plan[p].owner = i
             /\ plan'[p].owner = i /\ plan'[p].status # "none"

LEMMA JobKeeps == ASSUME IInv, NEW i, Confined(i), NEW v \in Workers, pc[v] # "idle",
                         job'[v] = job[v]
    PROVE JobStands(v)'
  <1>1. JobStands(v) /\ job'[v] \in JobRow
    BY JobFacts
  <1>2. job[v].op # "offer" => agreement'[job[v].a].status # "none" /\ agreement'[job[v].a].who = job[v].who
    BY <1>1 DEF JobStands, Confined, SameAgreement
  <1>3. job[v].kind # "open" => plan'[job[v].plan].status # "none" /\ plan'[job[v].plan].owner = job[v].who
    BY <1>1 DEF JobStands, Confined, SamePlan
  <1> QED BY <1>1, <1>2, <1>3 DEF JobStands

LEMMA WriterKeeps == ASSUME IInv, NEW i, Confined(i), NEW v \in Workers, pc[v] = "write",
                            job'[v] = job[v], job[v].who # i, \A l \in Locks : lock[l] = v => lock'[l] = v
    PROVE (Holds(v) /\ Decided(v))'
  <1> DEFINE a == job[v].a
  <1>1. Holds(v) /\ Decided(v) /\ JobStands(v) /\ job[v] \in JobRow /\ job[v].who \in Investors
    BY JobFacts DEF IInv, WritersReady
  <1>2. Row(job[v].who) \in Locks /\ (a \in Agreements => Document(a) \in Locks)
    BY <1>1 DEF Row, Document, Locks
  <1>3. Holds(v)'
    BY <1>1, <1>2 DEF Holds, JobStands
  <1>4. job[v].op # "offer" => /\ a \in Agreements /\ agreement[a].status # "none"
                              /\ SameAgreement(a) /\ agreement'[a].link = agreement[a].link
    BY <1>1 DEF JobStands, Confined
  <1>5. job[v].op # "offer" /\ agreement[a].kind # "open" =>
           plan'[agreement[a].plan].writes = plan[agreement[a].plan].writes
    BY <1>1, <1>4 DEF IInv, RowsStand, Confined, JobStands
  <1>6. \A x \in Agreements : agreement'[x].status = "pending" /\ agreement'[x].who = job[v].who
           => agreement[x].status = "pending" /\ agreement[x].who = job[v].who
    BY DEF Confined, SameAgreement
  <1>7. Decided(v)'
    BY <1>1, <1>4, <1>5, <1>6 DEF Decided, SameAgreement
  <1> QED BY <1>3, <1>7

(* A handler that ends, having written rows of its investor only.            *)
LEMMA EndTypes == ASSUME IInv, NEW w \in Workers, Done(w)
    PROVE /\ lock' \in [Locks -> Workers \cup {NoWorker}]
          /\ pc' \in [Workers -> {"idle", "run", "write"}]
          /\ job' \in [Workers -> JobRow \cup {NoJob}]
          /\ pc'[w] = "idle"
          /\ \A v \in Workers : v # w => /\ pc'[v] = pc[v] /\ job'[v] = job[v]
                                       /\ \A l \in Locks : lock[l] = v => lock'[l] = v
  BY DEF IInv, Typed, Done

LEMMA EndKeeps == ASSUME IInv, NEW w \in Workers, pc[w] # "idle", Done(w), Holds(w), Confined(job[w].who)
    PROVE /\ JobsStand' /\ WritersReady'
          /\ lock' \in [Locks -> Workers \cup {NoWorker}]
          /\ pc' \in [Workers -> {"idle", "run", "write"}]
          /\ job' \in [Workers -> JobRow \cup {NoJob}]
  <1> DEFINE i == job[w].who
  <1>1. i \in Investors
    BY JobFacts
  <1>2. JobsStand'
    BY <1>1, EndTypes, JobKeeps DEF JobsStand
  <1>3. WritersReady'
    <2> SUFFICES ASSUME NEW v \in Workers, pc'[v] = "write" PROVE (Holds(v) /\ Decided(v))'
      BY DEF WritersReady
    <2>1. v # w /\ pc[v] = "write" /\ job'[v] = job[v] /\ \A l \in Locks : lock[l] = v => lock'[l] = v
      BY EndTypes
    <2>2. Holds(v)
      BY <2>1 DEF IInv, WritersReady
    <2>3. job[v].who # i
      BY <2>1, <2>2 DEF Holds
    <2> QED BY <1>1, <2>1, <2>3, WriterKeeps
  <1> QED BY <1>2, <1>3, EndTypes

-----------------------------------------------------------------------------
(* Most steps change nothing that the invariant speaks about in the rows.    *)
Quiet == /\ \A a \in Agreements : SameAgreement(a) /\ agreement'[a].link = agreement[a].link
         /\ \A p \in Agreements : SamePlan(p) /\ plan'[p].writes = plan[p].writes

LEMMA RowStands == ASSUME IInv, NEW a \in Agreements
    PROVE /\ agreement[a].status # "none" =>
                /\ agreement[a].who \in Investors
                /\ agreement[a].kind # "open" =>
                      /\ agreement[a].plan \in Agreements
                      /\ plan[agreement[a].plan].status # "none"
                      /\ plan[agreement[a].plan].owner = agreement[a].who
                      /\ plan[agreement[a].plan].principal = agreement[a].principal
          /\ plan[a].status # "none" => plan[a].owner \in Investors
  BY DEF IInv, RowsStand

(* A signed closing of plan p.                                               *)
Settled(p) == \E c \in Agreements : /\ agreement[c].status = "signed"
                                    /\ agreement[c].kind = "close" /\ agreement[c].plan = p
LEMMA Executed == ExecutedIffSigned <=> \A p \in Agreements :
    /\ plan[p].status # "none" <=> agreement[p].status = "signed" /\ agreement[p].kind = "open"
    /\ plan[p].status = "completed" <=> Settled(p)
  BY DEF ExecutedIffSigned, Settled
LEMMA ExecutedNext == ExecutedIffSigned' <=> \A p \in Agreements :
    /\ plan'[p].status # "none" <=> agreement'[p].status = "signed" /\ agreement'[p].kind = "open"
    /\ plan'[p].status = "completed" <=> Settled(p)'
  BY DEF ExecutedIffSigned, Settled

LEMMA QuietKeeps == ASSUME IInv, Quiet PROVE RowsStand' /\ OnePending' /\ ExecutedIffSigned'
  <1>1. RowsStand'
    <2> SUFFICES ASSUME NEW a \in Agreements
                 PROVE /\ agreement'[a].status # "none" =>
                             /\ agreement'[a].who \in Investors
                             /\ agreement'[a].kind # "open" =>
                                   /\ agreement'[a].plan \in Agreements
                                   /\ plan'[agreement'[a].plan].status # "none"
                                   /\ plan'[agreement'[a].plan].owner = agreement'[a].who
                                   /\ plan'[agreement'[a].plan].principal = agreement'[a].principal
                       /\ plan'[a].status # "none" => plan'[a].owner \in Investors
      BY DEF RowsStand
    <2>1. /\ agreement'[a].status = agreement[a].status /\ agreement'[a].kind = agreement[a].kind
          /\ agreement'[a].who = agreement[a].who /\ agreement'[a].plan = agreement[a].plan
          /\ agreement'[a].principal = agreement[a].principal
      BY DEF Quiet, SameAgreement
    <2>2. plan'[a].status = plan[a].status /\ plan'[a].owner = plan[a].owner
      BY DEF Quiet, SamePlan
    <2>3. agreement[a].plan \in Agreements =>
             /\ plan'[agreement[a].plan].status = plan[agreement[a].plan].status
             /\ plan'[agreement[a].plan].owner = plan[agreement[a].plan].owner
             /\ plan'[agreement[a].plan].principal = plan[agreement[a].plan].principal
      BY DEF Quiet, SamePlan
    <2> QED BY <2>1, <2>2, <2>3, RowStands
  <1>2. OnePending'
    BY DEF IInv, OnePending, Quiet, SameAgreement
  <1>3. ExecutedIffSigned'
    <2>1. \A c \in Agreements : /\ agreement'[c].status = agreement[c].status
                                /\ agreement'[c].kind = agreement[c].kind /\ agreement'[c].plan = agreement[c].plan
      BY DEF Quiet, SameAgreement
    <2>2. \A p \in Agreements : plan'[p].status = plan[p].status
      BY DEF Quiet, SamePlan
    <2>3. \A p \in Agreements : Settled(p)' <=> Settled(p)
      BY <2>1 DEF Settled
    <2> QED BY <2>1, <2>2, <2>3, Executed, ExecutedNext DEF IInv
  <1> QED BY <1>1, <1>2, <1>3

LEMMA QuietJob == ASSUME IInv, Quiet, NEW v \in Workers, pc[v] # "idle", job'[v] = job[v] PROVE JobStands(v)'
  BY JobKeeps DEF Quiet, Confined

LEMMA QuietWriter == ASSUME IInv, Quiet, NEW v \in Workers, pc[v] = "write", job'[v] = job[v],
                            \A l \in Locks : lock[l] = v => lock'[l] = v
    PROVE (Holds(v) /\ Decided(v))'
  <1>1. PICK i : i # job[v].who
    BY 0 # 1
  <1>2. Confined(i)
    BY DEF Quiet, Confined
  <1> QED BY <1>1, <1>2, WriterKeeps

(* A handler that ends without a write that counts.                          *)
LEMMA QuietEnd == ASSUME IInv, Quiet, NEW w \in Workers, Done(w), agreement' \in [Agreements -> AgreementRow],
                         plan' = plan, balance' = balance
    PROVE IInv'
  <1>1. Typed'
    BY EndTypes DEF IInv, Typed
  <1>2. JobsStand'
    BY EndTypes, QuietJob DEF JobsStand
  <1>3. WritersReady'
    BY EndTypes, QuietWriter DEF WritersReady
  <1> QED BY <1>1, <1>2, <1>3, QuietKeeps DEF IInv

LEMMA RollBackKeeps == ASSUME IInv, NEW w \in Workers, RollBack(w) PROVE IInv'
  <1>1. Quiet
    BY DEF RollBack, Quiet, SameAgreement, SamePlan
  <1> QED BY <1>1, QuietEnd DEF RollBack, IInv, Typed

LEMMA SignAgainKeeps == ASSUME IInv, NEW w \in Workers, SignAgain(w) PROVE IInv'
  <1>1. Quiet
    BY DEF SignAgain, Quiet, SameAgreement, SamePlan
  <1> QED BY <1>1, QuietEnd DEF SignAgain, IInv, Typed

LEMMA WrongPasswordKeeps == ASSUME IInv, NEW w \in Workers, WrongPassword(w) PROVE IInv'
  <1> DEFINE a == job[w].a
  <1>0. agreement' = [agreement EXCEPT ![a].attempts = @ + 1] /\ plan' = plan /\ balance' = balance /\ Done(w)
    BY DEF WrongPassword
  <1>1. Quiet
    BY <1>0, RowFacts DEF Quiet, SameAgreement, SamePlan, AgreementRow, IInv, Typed
  <1>2. \A x \in Agreements : [agreement[x] EXCEPT !.attempts = @ + 1] \in AgreementRow
    BY RowFacts DEF AgreementRow
  <1>3. agreement' \in [Agreements -> AgreementRow]
    BY <1>0, <1>2 DEF IInv, Typed
  <1> QED BY <1>0, <1>1, <1>3, QuietEnd

(* What goes on around leaves the handlers where they are.                   *)
LEMMA QuietAround == ASSUME IInv, Quiet, UNCHANGED <<lock, pc, job>>, agreement' \in [Agreements -> AgreementRow],
                            plan' \in [Agreements -> PlanRow], balance' \in [Investors -> Nat]
    PROVE IInv'
  <1>1. Typed'
    BY DEF IInv, Typed
  <1>2. JobsStand'
    BY QuietJob DEF JobsStand
  <1>3. WritersReady'
    BY QuietWriter DEF WritersReady
  <1> QED BY <1>1, <1>2, <1>3, QuietKeeps DEF IInv

LEMMA MoveBalanceKeeps == ASSUME IInv, NEW i \in Investors, MoveBalance(i) PROVE IInv'
  <1>1. Quiet
    BY DEF MoveBalance, Quiet, SameAgreement, SamePlan
  <1>2. balance' \in [Investors -> Nat]
    BY DEF MoveBalance, IInv, Typed
  <1> QED BY <1>1, <1>2, QuietAround DEF MoveBalance, IInv, Typed

LEMMA CompleteMonthKeeps == ASSUME IInv, NEW p \in Agreements, CompleteMonth(p) PROVE IInv'
  <1>0. plan' = [plan EXCEPT ![p].months = 1] /\ UNCHANGED <<lock, pc, job, agreement, balance>>
    BY DEF CompleteMonth
  <1>1. Quiet
    BY <1>0, RowFacts DEF Quiet, SameAgreement, SamePlan, PlanRow, IInv, Typed
  <1>2. [plan[p] EXCEPT !.months = 1] \in PlanRow
    BY RowFacts DEF PlanRow
  <1>3. plan' \in [Agreements -> PlanRow]
    BY <1>0, <1>2 DEF IInv, Typed
  <1> QED BY <1>0, <1>1, <1>3, QuietAround DEF IInv, Typed

LEMMA ExpireKeeps == ASSUME IInv, NEW a \in Agreements, Expire(a) PROVE IInv'
  <1>0. agreement' = [agreement EXCEPT ![a].expired = TRUE] /\ UNCHANGED <<lock, pc, job, plan, balance>>
    BY DEF Expire
  <1>1. Quiet
    BY <1>0, RowFacts DEF Quiet, SameAgreement, SamePlan, AgreementRow, IInv, Typed
  <1>2. [agreement[a] EXCEPT !.expired = TRUE] \in AgreementRow
    BY RowFacts DEF AgreementRow
  <1>3. agreement' \in [Agreements -> AgreementRow]
    BY <1>0, <1>2 DEF IInv, Typed
  <1> QED BY <1>0, <1>1, <1>3, QuietAround DEF IInv, Typed

(* A payment is written while nobody holds its investor's lock.              *)
LEMMA WritePaymentKeeps == ASSUME IInv, RowLocks, NEW p \in Agreements, WritePayment(p) PROVE IInv'
  <1> DEFINE i == plan[p].owner
  <1>0. PICK touched \in BOOLEAN :
           plan' = [plan EXCEPT ![p].writes = @ + 1, ![p].touched = touched]
    BY DEF WritePayment
  <1>1. /\ UNCHANGED <<lock, pc, job, agreement, balance>> /\ plan[p].status = "active"
        /\ lock[Row(i)] = NoWorker
    BY DEF WritePayment, Reachable, Free
  <1> DEFINE row == [plan[p] EXCEPT !.writes = @ + 1, !.touched = touched]
  <1>2. /\ row \in PlanRow /\ row.status = plan[p].status /\ row.owner = plan[p].owner
        /\ row.principal = plan[p].principal
    <2>1. plan[p] \in PlanRow /\ plan[p].writes \in Nat
      BY RowFacts
    <2>2. plan[p].writes + 1 \in Nat
      BY <2>1
    <2> QED BY <2>1, <2>2 DEF PlanRow
  <1>3. plan' = [plan EXCEPT ![p] = row]
    BY <1>0, RowFacts DEF PlanRow, IInv, Typed
  <1> HIDE DEF row
  <1>4. \A q \in Agreements : SamePlan(q) /\ (q # p => plan'[q] = plan[q])
    BY <1>2, <1>3 DEF SamePlan, IInv, Typed
  <1>5. Confined(i)
    BY <1>1, <1>4 DEF Confined, SameAgreement, SamePlan
  <1>6. Typed'
    BY <1>1, <1>2, <1>3 DEF IInv, Typed
  <1>7. RowsStand' /\ OnePending' /\ ExecutedIffSigned'
    <2>1. RowsStand'
      BY <1>1, <1>4 DEF IInv, RowsStand, SamePlan
    <2>2. OnePending'
      BY <1>1 DEF IInv, OnePending
    <2>3. ExecutedIffSigned'
      BY <1>1, <1>4 DEF IInv, ExecutedIffSigned, SamePlan
    <2> QED BY <2>1, <2>2, <2>3
  <1>8. JobsStand'
    BY <1>1, <1>5, JobKeeps DEF JobsStand
  <1>9. WritersReady'
    <2> SUFFICES ASSUME NEW v \in Workers, pc[v] = "write" PROVE (Holds(v) /\ Decided(v))'
      BY <1>1 DEF WritersReady
    <2>1. lock[Row(job[v].who)] = v
      BY DEF IInv, WritersReady, Holds
    <2>2. job[v].who # i
      BY <1>1, <2>1
    <2> QED BY <1>1, <1>5, <2>2, WriterKeeps
  <1> QED BY <1>6, <1>7, <1>8, <1>9 DEF IInv

-----------------------------------------------------------------------------
(* What a handler asks for, and what it decides.                             *)
LEMMA SubmitAsks == ASSUME IInv, NEW w \in Workers, Submit(w)
    PROVE \E j : /\ Asks(w, j)
                 /\ j \in JobRow
                 /\ j.op # "offer" => /\ j.kind = "open" /\ j.a \in Agreements
                                      /\ agreement[j.a].status # "none" /\ agreement[j.a].who = j.who
                 /\ j.kind # "open" => /\ j.plan \in Agreements
                                       /\ plan[j.plan].status # "none" /\ plan[j.plan].owner = j.who
  <1> DEFINE Good(j) == /\ j \in JobRow
                        /\ j.op # "offer" => /\ j.kind = "open" /\ j.a \in Agreements
                                             /\ agreement[j.a].status # "none" /\ agreement[j.a].who = j.who
                        /\ j.kind # "open" => /\ j.plan \in Agreements
                                              /\ plan[j.plan].status # "none" /\ plan[j.plan].owner = j.who
  <1>1. \A i \in Investors : Good(Job("offer", "open", i, 0, 0, <<0, 0>>, 0))
    BY DEF Job, JobRow, Ops, Kinds
  <1>2. ASSUME NEW kind \in {"close", "amend"}, NEW p \in Agreements, plan[p].status = "active"
        PROVE Good(Job("offer", kind, plan[p].owner, 0, p, Figures(kind, p, 0), 0))
    <2>1. plan[p].owner \in Investors
      BY <1>2 DEF IInv, RowsStand
    <2>2. Figures(kind, p, 0) \in Nat \X Nat
      BY FiguresNat
    <2> QED BY <1>2, <2>1, <2>2 DEF Job, JobRow, Ops, Kinds
  <1>3. ASSUME NEW a \in Agreements, agreement[a].status # "none", NEW op \in {"link", "cancel"}
        PROVE Good(Job(op, "open", agreement[a].who, a, 0, <<0, 0>>, 0))
    <2>1. agreement[a].who \in Investors
      BY <1>3 DEF IInv, RowsStand
    <2> QED BY <1>3, <2>1 DEF Job, JobRow, Ops, Kinds
  <1>4. ASSUME NEW a \in Agreements, agreement[a].status # "none"
        PROVE Good(Job("replace", "open", agreement[a].who, a, 0, Figures("open", 0, agreement[a].who), 0))
    <2>1. agreement[a].who \in Investors
      BY <1>4 DEF IInv, RowsStand
    <2>2. Figures("open", 0, agreement[a].who) \in Nat \X Nat
      BY FiguresNat, <2>1
    <2> QED BY <1>4, <2>1, <2>2 DEF Job, JobRow, Ops, Kinds
  <1>5. ASSUME NEW a \in Agreements, agreement[a].status # "none", NEW l \in {0, agreement[a].link}
        PROVE Good(Job("sign", "open", agreement[a].who, a, 0, <<0, 0>>, l))
    <2>1. agreement[a].who \in Investors
      BY <1>5 DEF IInv, RowsStand
    <2>2. l \in Nat
      BY RowFacts
    <2> QED BY <1>5, <2>1, <2>2 DEF Job, JobRow, Ops, Kinds
  <1> HIDE DEF Good
  <1>6. ASSUME NEW j \in Offers PROVE Good(j)
    <2>1. CASE j \in {Job("offer", "open", i, 0, 0, <<0, 0>>, 0) : i \in Investors}
      BY <1>1, <2>1
    <2>2. CASE \E kind \in {"close", "amend"} : \E p \in {q \in Agreements : plan[q].status = "active"} :
                 j = Job("offer", kind, plan[p].owner, 0, p, Figures(kind, p, 0), 0)
      BY <1>2, <2>2
    <2> QED BY <2>1, <2>2 DEF Offers
  <1>7. \A a \in Agreements : agreement[a].status = "pending" => \A j \in OnPending(a) : Good(j)
    BY <1>3, <1>4 DEF OnPending
  <1>8. \A a \in Agreements : agreement[a].status \in {"pending", "signed"} => \A j \in Signatures(a) : Good(j)
    BY <1>5 DEF Signatures
  <1>9. \E j : Asks(w, j) /\ Good(j)
    BY <1>6, <1>7, <1>8 DEF Submit
  <1> QED BY <1>9 DEF Good

LEMMA SubmitKeeps == ASSUME IInv, NEW w \in Workers, Submit(w) PROVE IInv'
  <1>0. UNCHANGED <<agreement, plan, balance, lock>> /\ pc' = [pc EXCEPT ![w] = "run"]
    BY DEF Submit, Asks
  <1>1. PICK j : /\ j \in JobRow /\ job' = [job EXCEPT ![w] = j]
                 /\ j.op # "offer" => /\ j.kind = "open" /\ j.a \in Agreements
                                      /\ agreement[j.a].status # "none" /\ agreement[j.a].who = j.who
                 /\ j.kind # "open" => /\ j.plan \in Agreements
                                       /\ plan[j.plan].status # "none" /\ plan[j.plan].owner = j.who
    BY SubmitAsks DEF Asks
  <1>2. Quiet
    BY <1>0 DEF Quiet, SameAgreement, SamePlan
  <1>3. Typed'
    BY <1>0, <1>1 DEF IInv, Typed
  <1>4. \A v \in Workers : v # w => pc'[v] = pc[v] /\ job'[v] = job[v]
    BY <1>0, <1>1 DEF IInv, Typed
  <1>5. pc'[w] = "run" /\ job'[w] = j
    BY <1>0, <1>1 DEF IInv, Typed
  <1>6. JobsStand'
    <2>1. JobStands(w)'
      BY <1>0, <1>1, <1>5 DEF JobStands
    <2> QED BY <1>2, <1>4, <2>1, QuietJob DEF JobsStand
  <1>7. WritersReady'
    BY <1>0, <1>2, <1>4, <1>5, QuietWriter DEF WritersReady
  <1> QED BY <1>2, <1>3, <1>6, <1>7, QuietKeeps DEF IInv

LEMMA AcquireKeeps == ASSUME IInv, RowLocks, NEW w \in Workers, Acquire(w) PROVE IInv'
  <1>0. UNCHANGED <<agreement, plan, balance, pc, job>> /\ lock' = [lock EXCEPT ![NextLock(w)] = w]
    BY DEF Acquire
  <1>1. Quiet
    BY <1>0 DEF Quiet, SameAgreement, SamePlan
  <1>2. \A v \in Workers : \A l \in Locks : lock[l] = v => lock'[l] = v
    <2>1. lock[NextLock(w)] = NoWorker
      BY DEF Acquire, Free
    <2> QED BY <1>0, <2>1 DEF IInv, Typed
  <1>3. Typed'
    BY <1>0 DEF IInv, Typed
  <1>4. JobsStand'
    BY <1>0, <1>1, QuietJob DEF JobsStand
  <1>5. WritersReady'
    BY <1>0, <1>1, <1>2, QuietWriter DEF WritersReady
  <1> QED BY <1>1, <1>3, <1>4, <1>5, QuietKeeps DEF IInv

LEMMA DecideKeeps == ASSUME IInv, RowLocks, NEW w \in Workers, Decide(w) PROVE IInv'
  <1> DEFINE seen == IF job[w].op = "offer" THEN Figures(job[w].kind, job[w].plan, job[w].who)
                     ELSE job[w].reviewed
             j == [job[w] EXCEPT !.reviewed = seen]
  <1>0. /\ UNCHANGED <<agreement, plan, balance, lock>> /\ pc' = [pc EXCEPT ![w] = "write"]
        /\ pc[w] = "run" /\ Missing(w) = {} /\ Decidable(job[w])
    BY DEF Decide, Runs
  <1>1. JobStands(w) /\ job[w] \in JobRow
    BY <1>0, JobFacts
  <1>2. seen \in Nat \X Nat
    BY <1>0, <1>1, JobFacts, FiguresNat DEF JobStands
  <1>3. job' = [job EXCEPT ![w] = j]
    BY <1>1 DEF Decide, IInv, Typed, JobRow
  <1> HIDE DEF seen
  <1>4. /\ j \in JobRow /\ j.op = job[w].op /\ j.kind = job[w].kind /\ j.who = job[w].who
        /\ j.a = job[w].a /\ j.plan = job[w].plan /\ j.link = job[w].link
    BY <1>1, <1>2 DEF JobRow
  <1> HIDE DEF j
  <1>5. Quiet
    BY <1>0 DEF Quiet, SameAgreement, SamePlan
  <1>6. Typed'
    BY <1>0, <1>3, <1>4 DEF IInv, Typed
  <1>7. /\ job'[w] = j /\ \A v \in Workers : v # w => pc'[v] = pc[v] /\ job'[v] = job[v]
    BY <1>0, <1>3 DEF IInv, Typed
  <1>8. JobsStand'
    <2>1. JobStands(w)'
      BY <1>0, <1>1, <1>4, <1>7 DEF JobStands
    <2> QED BY <1>5, <1>7, <2>1, QuietJob DEF JobsStand
  <1>9. Decided(w)
    <2>1. job[w].op \in {"offer", "replace"} => Pending(job[w].who) = IF job[w].op = "replace" THEN {job[w].a} ELSE {}
      BY <1>0 DEF Decidable
    <2>2. job[w].op \in {"offer", "replace"} =>
             \A a \in Agreements : agreement[a].status = "pending" /\ agreement[a].who = job[w].who
               => job[w].op = "replace" /\ a = job[w].a
      BY <2>1 DEF Pending
    <2>3. job[w].op # "offer" => agreement[job[w].a].status = "pending"
      <3>1. CASE job[w].op = "replace"
        BY <2>1, <3>1 DEF Pending
      <3>2. CASE job[w].op = "sign"
        BY <1>0, <3>2 DEF Decidable, Executable
      <3>3. CASE job[w].op \in {"link", "cancel"}
        BY <1>0, <3>3 DEF Decidable
      <3> QED BY <1>1, <3>1, <3>2, <3>3 DEF JobRow, Ops
    <2>4. job[w].op = "sign" =>
             /\ job[w].link # 0 => agreement[job[w].a].link = job[w].link
             /\ agreement[job[w].a].kind # "open" =>
                  agreement[job[w].a].shown[1] = plan[agreement[job[w].a].plan].writes
      BY <1>0 DEF Decidable, MaySign, Addressed, Executable, SameFigures, Figures
    <2> QED BY <2>2, <2>3, <2>4 DEF Decided
  <1>10. WritersReady'
    <2>1. Holds(w)
      BY <1>0, AllTaken
    <2>2. (Holds(w) /\ Decided(w))'
      BY <1>0, <1>4, <1>7, <1>9, <2>1 DEF Holds, Decided
    <2> QED BY <1>0, <1>5, <1>7, <2>2, QuietWriter DEF WritersReady
  <1> QED BY <1>5, <1>6, <1>8, <1>10, QuietKeeps DEF IInv

-----------------------------------------------------------------------------
(* Commits.                                                                  *)
LEMMA WriterFacts == ASSUME IInv, NEW w \in Workers, pc[w] = "write"
    PROVE /\ JobStands(w) /\ Holds(w) /\ Decided(w) /\ job[w].who \in Investors
          /\ job[w].op # "offer" => /\ job[w].a \in Agreements /\ agreement[job[w].a].status = "pending"
                                    /\ agreement[job[w].a].who = job[w].who
  <1>1. JobStands(w) /\ job[w].who \in Investors
    BY JobFacts
  <1>2. Holds(w) /\ Decided(w)
    BY DEF IInv, WritersReady
  <1> QED BY <1>1, <1>2 DEF JobStands, Decided

LEMMA CommitKeeps == ASSUME IInv, NEW w \in Workers, pc[w] = "write", Done(w), Confined(job[w].who),
                            agreement' \in [Agreements -> AgreementRow], plan' \in [Agreements -> PlanRow],
                            balance' \in [Investors -> Nat], RowsStand', OnePending', ExecutedIffSigned'
    PROVE IInv'
  <1>1. Holds(w)
    BY WriterFacts
  <1>2. JobsStand' /\ WritersReady' /\ Typed'
    BY <1>1, EndKeeps DEF Typed
  <1> QED BY <1>2 DEF IInv

LEMMA NewRow == ASSUME IInv, NEW w \in Workers, pc[w] = "write", NEW extra \in {0, 1}
    PROVE LET j == job[w]
              row == NewAgreement(j, extra)
          IN /\ row \in AgreementRow /\ row.status = "pending" /\ row.kind = j.kind
             /\ row.who = j.who /\ row.plan = j.plan /\ row.link = 1
             /\ j.kind # "open" => row.principal = plan[j.plan].principal
  <1> DEFINE j == job[w]
             money == IF j.kind = "open" THEN j.reviewed[1] + extra ELSE plan[j.plan].principal
             row == NewAgreement(j, extra)
  <1>1. /\ j.kind \in Kinds /\ j.who \in Investors /\ j.plan \in Agreements \cup {0} /\ j.reviewed \in Nat \X Nat
        /\ j.kind # "open" => j.plan \in Agreements
    BY JobFacts DEF JobStands
  <1>2. money \in Nat
    <2>1. j.reviewed[1] \in Nat /\ extra \in Nat
      BY <1>1
    <2>2. j.reviewed[1] + extra \in Nat
      BY <2>1
    <2>3. j.kind # "open" => plan[j.plan].principal \in Nat
      BY <1>1, RowFacts
    <2> QED BY <2>2, <2>3
  <1>0. row = [NoAgreement EXCEPT !.status = "pending", !.kind = j.kind, !.who = j.who, !.plan = j.plan,
                                  !.shown = j.reviewed, !.link = 1, !.principal = money]
    BY DEF NewAgreement
  <1>5. j.kind # "open" => money = plan[j.plan].principal
    OBVIOUS
  <1> HIDE DEF j, money, row
  <1>3. row = [status |-> "pending", kind |-> j.kind, who |-> j.who, plan |-> j.plan, shown |-> j.reviewed,
               principal |-> money, link |-> 1, attempts |-> 0, expired |-> FALSE]
    BY <1>0 DEF NoAgreement
  <1>4. row \in AgreementRow
    BY <1>1, <1>2, <1>3 DEF AgreementRow
  <1>6. /\ row \in AgreementRow /\ row.status = "pending" /\ row.kind = j.kind
        /\ row.who = j.who /\ row.plan = j.plan /\ row.link = 1
        /\ j.kind # "open" => row.principal = plan[j.plan].principal
    BY <1>3, <1>4, <1>5
  <1> QED BY <1>6 DEF row, j

(* The next free number becomes an agreement of the investor of the request; *)
(* all that waited for him before is cancelled in the same step, if anything. *)
LEMMA IssueKeeps ==
    ASSUME IInv, NEW w \in Workers, pc[w] = "write", Done(w), UNCHANGED <<plan, balance>>, Unused # {},
           agreement' \in [Agreements -> AgreementRow],
           LET row == agreement'[NextId] IN
             /\ row.status = "pending" /\ row.kind = job[w].kind /\ row.who = job[w].who /\ row.plan = job[w].plan
             /\ job[w].kind # "open" => row.principal = plan[job[w].plan].principal,
           \A a \in Agreements \ {NextId} :
             \/ agreement'[a] = agreement[a] /\ ~(agreement[a].status = "pending" /\ agreement[a].who = job[w].who)
             \/ /\ agreement[a].status = "pending" /\ agreement[a].who = job[w].who
                /\ agreement'[a] = Superseded(agreement[a])
    PROVE IInv'
  <1> DEFINE j == job[w]
  <1>1. NextId \in Agreements /\ agreement[NextId].status = "none"
    BY NextIdUnused
  <1>2. JobStands(w) /\ j.who \in Investors
    BY WriterFacts
  <1>3. \A a \in Agreements \ {NextId} :
           /\ agreement'[a].kind = agreement[a].kind /\ agreement'[a].who = agreement[a].who
           /\ agreement'[a].plan = agreement[a].plan /\ agreement'[a].principal = agreement[a].principal
           /\ agreement'[a].status = agreement[a].status
              \/ (agreement[a].status = "pending" /\ agreement'[a].status = "cancelled")
           /\ agreement'[a].status = "pending" => agreement[a].status = "pending" /\ agreement[a].who # j.who
    <2>1. \A a \in Agreements : LET row == Superseded(agreement[a]) IN
             /\ row.kind = agreement[a].kind /\ row.who = agreement[a].who /\ row.plan = agreement[a].plan
             /\ row.principal = agreement[a].principal /\ row.status = "cancelled"
      BY RowFacts DEF Superseded, AgreementRow
    <2> SUFFICES ASSUME NEW a \in Agreements \ {NextId}
                 PROVE /\ agreement'[a].kind = agreement[a].kind /\ agreement'[a].who = agreement[a].who
                       /\ agreement'[a].plan = agreement[a].plan /\ agreement'[a].principal = agreement[a].principal
                       /\ agreement'[a].status = agreement[a].status
                          \/ (agreement[a].status = "pending" /\ agreement'[a].status = "cancelled")
                       /\ agreement'[a].status = "pending" => agreement[a].status = "pending" /\ agreement[a].who # j.who
      OBVIOUS
    <2>2. CASE agreement'[a] = agreement[a] /\ ~(agreement[a].status = "pending" /\ agreement[a].who = j.who)
      BY <2>2
    <2>3. CASE agreement[a].status = "pending" /\ agreement'[a] = Superseded(agreement[a])
      BY <2>1, <2>3
    <2> QED BY <2>2, <2>3
  <1>4. Confined(j.who)
    BY <1>1, <1>3 DEF Confined, SameAgreement, SamePlan, Superseded
  <1>5. RowsStand'
    <2> SUFFICES ASSUME NEW a \in Agreements, agreement'[a].status # "none"
                 PROVE /\ agreement'[a].who \in Investors
                       /\ agreement'[a].kind # "open" =>
                             /\ agreement'[a].plan \in Agreements
                             /\ plan[agreement'[a].plan].status # "none"
                             /\ plan[agreement'[a].plan].owner = agreement'[a].who
                             /\ plan[agreement'[a].plan].principal = agreement'[a].principal
      BY DEF IInv, RowsStand
    <2>1. CASE a = NextId
      BY <1>2, <2>1 DEF JobStands
    <2>2. CASE a # NextId
      <3>1. /\ agreement'[a].kind = agreement[a].kind /\ agreement'[a].who = agreement[a].who
            /\ agreement'[a].plan = agreement[a].plan /\ agreement'[a].principal = agreement[a].principal
            /\ agreement[a].status # "none"
        BY <1>3, <2>2
      <3> QED BY <3>1 DEF IInv, RowsStand
    <2> QED BY <2>1, <2>2
  <1>6. OnePending'
    BY <1>3 DEF IInv, OnePending
  <1>7. ExecutedIffSigned'
    <2>1. \A c \in Agreements : agreement'[c].status = "signed" <=> agreement[c].status = "signed"
      BY <1>1, <1>3
    <2>2. \A c \in Agreements : agreement[c].status = "signed" =>
                agreement'[c].kind = agreement[c].kind /\ agreement'[c].plan = agreement[c].plan
      BY <1>1, <1>3
    <2>3. \A p \in Agreements : Settled(p)' <=> Settled(p)
      BY <2>1, <2>2 DEF Settled
    <2>4. \A p \in Agreements : agreement'[p].status = "signed" /\ agreement'[p].kind = "open"
                                <=> agreement[p].status = "signed" /\ agreement[p].kind = "open"
      BY <2>1, <2>2
    <2> QED BY <2>3, <2>4, Executed, ExecutedNext DEF IInv
  <1> QED BY <1>4, <1>5, <1>6, <1>7, CommitKeeps DEF IInv, Typed

LEMMA OfferKeeps == ASSUME IInv, NEW w \in Workers, Offer(w) PROVE IInv'
  <1> DEFINE j == job[w]
  <1>1. /\ pc[w] = "write" /\ j.op = "offer" /\ Done(w) /\ Unused # {} /\ UNCHANGED <<plan, balance>>
    BY DEF Offer, Commits
  <1>2. PICK extra \in {0, 1} : agreement' = [agreement EXCEPT ![NextId] = NewAgreement(j, extra)]
    BY DEF Offer, Amounts
  <1> DEFINE row == NewAgreement(j, extra)
  <1>3. /\ row \in AgreementRow /\ row.status = "pending" /\ row.kind = j.kind
        /\ row.who = j.who /\ row.plan = j.plan
        /\ j.kind # "open" => row.principal = plan[j.plan].principal
    BY <1>1, NewRow
  <1> HIDE DEF row
  <1>4. NextId \in Agreements
    BY <1>1, NextIdUnused
  <1>5. agreement' \in [Agreements -> AgreementRow] /\ agreement'[NextId] = row
        /\ \A a \in Agreements \ {NextId} : agreement'[a] = agreement[a]
    BY <1>2, <1>3, <1>4 DEF IInv, Typed, row
  <1>6. \A a \in Agreements : ~(agreement[a].status = "pending" /\ agreement[a].who = j.who)
    BY <1>1, WriterFacts DEF Decided
  <1> QED BY <1>1, <1>3, <1>5, <1>6, IssueKeeps

LEMMA ReplaceKeeps == ASSUME IInv, NEW w \in Workers, Replace(w) PROVE IInv'
  <1> DEFINE j == job[w]
             old == Superseded(agreement[j.a])
  <1>1. /\ pc[w] = "write" /\ j.op = "replace" /\ Done(w) /\ Unused # {} /\ UNCHANGED <<plan, balance>>
    BY DEF Replace, Commits
  <1>2. PICK extra \in {0, 1} : agreement' = [agreement EXCEPT ![NextId] = NewAgreement(j, extra), ![j.a] = old]
    BY DEF Replace, Amounts
  <1> DEFINE row == NewAgreement(j, extra)
  <1>3. /\ row \in AgreementRow /\ row.status = "pending" /\ row.kind = j.kind
        /\ row.who = j.who /\ row.plan = j.plan
        /\ j.kind # "open" => row.principal = plan[j.plan].principal
    BY <1>1, NewRow
  <1>4. NextId \in Agreements /\ agreement[NextId].status = "none"
    BY <1>1, NextIdUnused
  <1>5. j.a \in Agreements /\ agreement[j.a].status = "pending" /\ agreement[j.a].who = j.who
    BY <1>1, WriterFacts
  <1>6. old \in AgreementRow
    BY <1>5, RowFacts DEF Superseded, AgreementRow
  <1> HIDE DEF row, old
  <1>7. agreement' = [agreement EXCEPT ![NextId] = row, ![j.a] = old]
    BY <1>2 DEF row
  <1>8. /\ agreement' \in [Agreements -> AgreementRow] /\ agreement'[NextId] = row /\ agreement'[j.a] = old
        /\ \A a \in Agreements \ {NextId, j.a} : agreement'[a] = agreement[a]
    BY <1>3, <1>4, <1>5, <1>6, <1>7 DEF IInv, Typed
  <1>9. \A a \in Agreements : agreement[a].status = "pending" /\ agreement[a].who = j.who => a = j.a
    BY <1>1, WriterFacts DEF Decided
  <1>10. \A a \in Agreements \ {NextId} :
             \/ agreement'[a] = agreement[a] /\ ~(agreement[a].status = "pending" /\ agreement[a].who = j.who)
             \/ /\ agreement[a].status = "pending" /\ agreement[a].who = j.who
                /\ agreement'[a] = Superseded(agreement[a])
    BY <1>5, <1>8, <1>9 DEF old
  <1> QED BY <1>1, <1>3, <1>8, <1>10, IssueKeeps

(* One pending document of the investor changes and is not signed by that.   *)
LEMMA DocumentKeeps ==
    ASSUME IInv, NEW w \in Workers, pc[w] = "write", Done(w), UNCHANGED <<plan, balance>>,
           NEW a \in Agreements, agreement[a].status = "pending", agreement[a].who = job[w].who,
           agreement' \in [Agreements -> AgreementRow], \A b \in Agreements \ {a} : agreement'[b] = agreement[b],
           agreement'[a].status \in {"pending", "cancelled"}, agreement'[a].kind = agreement[a].kind,
           agreement'[a].who = agreement[a].who, agreement'[a].plan = agreement[a].plan,
           agreement'[a].principal = agreement[a].principal
    PROVE IInv'
  <1>1. Confined(job[w].who)
    BY DEF Confined, SameAgreement, SamePlan
  <1>2. RowsStand'
    <2>1. \A c \in Agreements :
             /\ agreement'[c].kind = agreement[c].kind /\ agreement'[c].who = agreement[c].who
             /\ agreement'[c].plan = agreement[c].plan /\ agreement'[c].principal = agreement[c].principal
             /\ agreement'[c].status # "none" => agreement[c].status # "none"
      OBVIOUS
    <2> QED BY <2>1 DEF IInv, RowsStand
  <1>3. OnePending'
    BY DEF IInv, OnePending
  <1>4. ExecutedIffSigned'
    <2>1. \A c \in Agreements : agreement'[c].status = "signed" <=> agreement[c].status = "signed"
      OBVIOUS
    <2>2. \A c \in Agreements : agreement'[c].kind = agreement[c].kind /\ agreement'[c].plan = agreement[c].plan
      OBVIOUS
    <2>3. \A p \in Agreements : Settled(p)' <=> Settled(p)
      BY <2>1, <2>2 DEF Settled
    <2> QED BY <2>1, <2>2, <2>3, Executed, ExecutedNext DEF IInv
  <1> QED BY <1>1, <1>2, <1>3, <1>4, CommitKeeps DEF IInv, Typed

LEMMA NewLinkKeeps == ASSUME IInv, NEW w \in Workers, NewLink(w) PROVE IInv'
  <1> DEFINE a == job[w].a
             row == [agreement[a] EXCEPT !.link = @ + 1, !.attempts = 0, !.expired = FALSE]
  <1>1. pc[w] = "write" /\ job[w].op = "link" /\ Done(w) /\ UNCHANGED <<plan, balance>>
    BY DEF NewLink, Commits
  <1>2. a \in Agreements /\ agreement[a].status = "pending" /\ agreement[a].who = job[w].who
    BY <1>1, WriterFacts
  <1>3. agreement[a] \in AgreementRow /\ agreement[a].link \in Nat
    BY <1>2, RowFacts
  <1>4. agreement' = [agreement EXCEPT ![a] = row]
    BY <1>2, <1>3 DEF NewLink, IInv, Typed, AgreementRow
  <1>5. /\ row \in AgreementRow /\ row.status = "pending" /\ row.kind = agreement[a].kind
        /\ row.who = agreement[a].who /\ row.plan = agreement[a].plan /\ row.principal = agreement[a].principal
    <2>1. agreement[a].link + 1 \in Nat
      BY <1>3
    <2> QED BY <1>2, <1>3, <2>1 DEF AgreementRow
  <1> HIDE DEF row
  <1>6. agreement' \in [Agreements -> AgreementRow] /\ agreement'[a] = row
        /\ \A b \in Agreements \ {a} : agreement'[b] = agreement[b]
    BY <1>2, <1>4, <1>5 DEF IInv, Typed
  <1> QED BY <1>1, <1>2, <1>5, <1>6, DocumentKeeps

LEMMA CancelKeeps == ASSUME IInv, NEW w \in Workers, Cancel(w) PROVE IInv'
  <1> DEFINE a == job[w].a
             row == Superseded(agreement[a])
  <1>1. pc[w] = "write" /\ job[w].op = "cancel" /\ Done(w) /\ UNCHANGED <<plan, balance>>
    BY DEF Cancel, Commits
  <1>2. a \in Agreements /\ agreement[a].status = "pending" /\ agreement[a].who = job[w].who
    BY <1>1, WriterFacts
  <1>3. agreement[a] \in AgreementRow
    BY <1>2, RowFacts
  <1>4. agreement' = [agreement EXCEPT ![a] = row]
    BY <1>2, <1>3 DEF Cancel, Superseded, IInv, Typed, AgreementRow
  <1>5. /\ row \in AgreementRow /\ row.status = "cancelled" /\ row.kind = agreement[a].kind
        /\ row.who = agreement[a].who /\ row.plan = agreement[a].plan /\ row.principal = agreement[a].principal
    BY <1>3 DEF AgreementRow, Superseded
  <1> HIDE DEF row
  <1>6. agreement' \in [Agreements -> AgreementRow] /\ agreement'[a] = row
        /\ \A b \in Agreements \ {a} : agreement'[b] = agreement[b]
    BY <1>2, <1>4, <1>5 DEF IInv, Typed
  <1> QED BY <1>1, <1>2, <1>5, <1>6, DocumentKeeps

(* A signature that executes: what it finds and what it leaves of the row.   *)
LEMMA SignatureFacts == ASSUME IInv, NEW w \in Workers, NEW kind, Executes(w, kind)
    PROVE LET a == job[w].a
              r == agreement[a]
          IN /\ pc[w] = "write" /\ Done(w) /\ a \in Agreements /\ job[w].who \in Investors
             /\ r.status = "pending" /\ r.kind = kind /\ r.who = job[w].who /\ r.principal \in Nat
             /\ kind # "open" => /\ r.plan \in Agreements /\ plan[r.plan].status # "none"
                                 /\ plan[r.plan].owner = r.who /\ plan[r.plan].principal = r.principal
                                 /\ r.shown[1] = plan[r.plan].writes
             /\ agreement' \in [Agreements -> AgreementRow]
             /\ agreement'[a].status = "signed" /\ agreement'[a].kind = kind /\ agreement'[a].who = r.who
             /\ agreement'[a].principal = r.principal
             /\ agreement'[a].plan = IF kind = "open" THEN a ELSE r.plan
             /\ \A b \in Agreements \ {a} : agreement'[b] = agreement[b]
  <1> DEFINE a == job[w].a
             r == agreement[a]
             p == IF kind = "open" THEN a ELSE r.plan
             row == [r EXCEPT !.status = "signed", !.plan = p]
  <1>1. /\ pc[w] = "write" /\ job[w].op = "sign" /\ Done(w) /\ r.kind = kind /\ r.status = "pending"
    BY DEF Executes, Commits
  <1>2. a \in Agreements /\ r.who = job[w].who /\ job[w].who \in Investors
    BY <1>1, WriterFacts
  <1>3. r \in AgreementRow /\ r.principal \in Nat
    BY <1>2, RowFacts
  <1>4. kind # "open" => /\ r.plan \in Agreements /\ plan[r.plan].status # "none"
                         /\ plan[r.plan].owner = r.who /\ plan[r.plan].principal = r.principal
    BY <1>1, <1>2 DEF IInv, RowsStand
  <1>5. kind # "open" => r.shown[1] = plan[r.plan].writes
    BY <1>1, WriterFacts DEF Decided
  <1>6. agreement' = [agreement EXCEPT ![a] = row]
    BY <1>2, <1>3 DEF Executes, IInv, Typed, AgreementRow
  <1>7. p \in Agreements
    BY <1>2, <1>4
  <1> HIDE DEF p
  <1>8. /\ row \in AgreementRow /\ row.status = "signed" /\ row.kind = r.kind /\ row.who = r.who
        /\ row.principal = r.principal /\ row.plan = p
    BY <1>3, <1>7 DEF AgreementRow
  <1> HIDE DEF row
  <1>9. agreement' \in [Agreements -> AgreementRow] /\ agreement'[a] = row
        /\ \A b \in Agreements \ {a} : agreement'[b] = agreement[b]
    BY <1>2, <1>6, <1>8 DEF IInv, Typed
  <1> QED BY <1>1, <1>2, <1>3, <1>4, <1>5, <1>8, <1>9 DEF p

LEMMA SignOpeningKeeps == ASSUME IInv, NEW w \in Workers, SignOpening(w) PROVE IInv'
  <1> DEFINE a == job[w].a
             r == agreement[a]
             row == [NoPlan EXCEPT !.status = "active", !.owner = r.who, !.principal = r.principal]
  <1>0. Executes(w, "open")
    BY DEF SignOpening
  <1>1. /\ pc[w] = "write" /\ Done(w) /\ a \in Agreements /\ job[w].who \in Investors
        /\ r.status = "pending" /\ r.kind = "open" /\ r.who = job[w].who /\ r.principal \in Nat
        /\ agreement' \in [Agreements -> AgreementRow]
        /\ agreement'[a].status = "signed" /\ agreement'[a].kind = "open" /\ agreement'[a].who = r.who
        /\ \A b \in Agreements \ {a} : agreement'[b] = agreement[b]
    BY <1>0, SignatureFacts
  <1>2. row \in PlanRow /\ row.status = "active" /\ row.owner = r.who
    BY <1>1 DEF NoPlan, PlanRow
  <1>3. plan' = [plan EXCEPT ![a] = row]
    BY DEF SignOpening
  <1> HIDE DEF row
  <1>4. plan' \in [Agreements -> PlanRow] /\ plan'[a] = row /\ \A p \in Agreements \ {a} : plan'[p] = plan[p]
    BY <1>1, <1>2, <1>3 DEF IInv, Typed
  <1>5. plan[a].status = "none"
    BY <1>1 DEF IInv, ExecutedIffSigned
  <1>6. Confined(job[w].who)
    BY <1>1, <1>2, <1>4, <1>5 DEF Confined, SameAgreement, SamePlan
  <1>7. RowsStand'
    <2>1. \A b \in Agreements \ {a} : agreement[b].status # "none" /\ agreement[b].kind # "open" => agreement[b].plan # a
      BY <1>5, RowStands
    <2> SUFFICES ASSUME NEW b \in Agreements
                 PROVE /\ agreement'[b].status # "none" =>
                             /\ agreement'[b].who \in Investors
                             /\ agreement'[b].kind # "open" =>
                                   /\ agreement'[b].plan \in Agreements
                                   /\ plan'[agreement'[b].plan].status # "none"
                                   /\ plan'[agreement'[b].plan].owner = agreement'[b].who
                                   /\ plan'[agreement'[b].plan].principal = agreement'[b].principal
                       /\ plan'[b].status # "none" => plan'[b].owner \in Investors
      BY DEF RowsStand
    <2>2. CASE b = a
      BY <1>1, <1>2, <1>4, <2>2
    <2>3. CASE b # a
      <3>1. agreement'[b] = agreement[b] /\ plan'[b] = plan[b]
        BY <1>1, <1>4, <2>3
      <3>2. agreement[b].status # "none" /\ agreement[b].kind # "open" =>
               agreement[b].plan \in Agreements /\ plan'[agreement[b].plan] = plan[agreement[b].plan]
        BY <1>4, <2>1, <2>3, RowStands
      <3> QED BY <3>1, <3>2, RowStands
    <2> QED BY <2>2, <2>3
  <1>8. OnePending'
    BY <1>1 DEF IInv, OnePending
  <1>9. ExecutedIffSigned'
    <2>1. \A p \in Agreements : Settled(p)' <=> Settled(p)
      BY <1>1 DEF Settled
    <2>2. /\ ~Settled(a)
          /\ \A p \in Agreements :
                /\ plan[p].status # "none" <=> agreement[p].status = "signed" /\ agreement[p].kind = "open"
                /\ plan[p].status = "completed" <=> Settled(p)
      BY <1>1, <1>5, Executed DEF IInv
    <2> QED BY <1>1, <1>2, <1>4, <2>1, <2>2, ExecutedNext
  <1>10. balance' \in [Investors -> Nat]
    BY DEF SignOpening, IInv, Typed
  <1> QED BY <1>1, <1>4, <1>6, <1>7, <1>8, <1>9, <1>10, CommitKeeps

(* A closing or an amendment changes its plan alone, which stays its         *)
(* investor's; a closing is over when its plan is.                           *)
LEMMA SettlementKeeps ==
    ASSUME IInv, NEW w \in Workers, NEW kind \in {"close", "amend"}, Executes(w, kind)
    PROVE \A row \in PlanRow : LET p == agreement[job[w].a].plan IN
             /\ balance' \in [Investors -> Nat]
             /\ plan' = [plan EXCEPT ![p] = row]
             /\ row.owner = plan[p].owner /\ row.principal = plan[p].principal
             /\ row.status = IF kind = "close" THEN "completed" ELSE plan[p].status
             => IInv'
  <1> DEFINE a == job[w].a
             r == agreement[a]
             p == r.plan
  <1>1. /\ pc[w] = "write" /\ Done(w) /\ a \in Agreements /\ job[w].who \in Investors
        /\ r.status = "pending" /\ r.kind = kind /\ r.who = job[w].who
        /\ p \in Agreements /\ plan[p].status # "none" /\ plan[p].owner = r.who
        /\ plan[p].principal = r.principal
        /\ agreement' \in [Agreements -> AgreementRow]
        /\ agreement'[a].status = "signed" /\ agreement'[a].kind = kind /\ agreement'[a].who = r.who
        /\ agreement'[a].principal = r.principal /\ agreement'[a].plan = p
        /\ \A b \in Agreements \ {a} : agreement'[b] = agreement[b]
    BY SignatureFacts
  <1> SUFFICES ASSUME NEW row \in PlanRow, balance' \in [Investors -> Nat], plan' = [plan EXCEPT ![p] = row],
                      row.owner = plan[p].owner, row.principal = plan[p].principal,
                      row.status = IF kind = "close" THEN "completed" ELSE plan[p].status
               PROVE IInv'
    OBVIOUS
  <1>2. row.owner = plan[p].owner /\ row.principal = plan[p].principal
        /\ row.status = IF kind = "close" THEN "completed" ELSE plan[p].status
    OBVIOUS
  <1>4. plan' \in [Agreements -> PlanRow] /\ plan'[p] = row /\ \A q \in Agreements \ {p} : plan'[q] = plan[q]
    BY <1>1 DEF IInv, Typed
  <1> HIDE DEF p
  <1>5. Confined(job[w].who)
    BY <1>1, <1>2, <1>4 DEF Confined, SameAgreement, SamePlan
  <1>6. \A q \in Agreements : plan'[q].owner = plan[q].owner /\ plan'[q].principal = plan[q].principal
                              /\ (plan'[q].status # "none" <=> plan[q].status # "none")
    BY <1>1, <1>2, <1>4
  <1>7. RowsStand'
    BY <1>1, <1>6 DEF IInv, RowsStand
  <1>8. OnePending'
    BY <1>1 DEF IInv, OnePending
  <1>9. ExecutedIffSigned'
    <2>1. \A q \in Agreements : Settled(q)' <=> Settled(q) \/ (kind = "close" /\ q = p)
      BY <1>1 DEF Settled
    <2>2. \A q \in Agreements : plan'[q].status = "completed" <=> plan[q].status = "completed" \/ (kind = "close" /\ q = p)
      BY <1>2, <1>4
    <2>3. \A q \in Agreements : agreement'[q].status = "signed" /\ agreement'[q].kind = "open"
                                <=> agreement[q].status = "signed" /\ agreement[q].kind = "open"
      BY <1>1
    <2>4. \A q \in Agreements :
                /\ plan[q].status # "none" <=> agreement[q].status = "signed" /\ agreement[q].kind = "open"
                /\ plan[q].status = "completed" <=> Settled(q)
      BY Executed DEF IInv
    <2> QED BY <1>6, <2>1, <2>2, <2>3, <2>4, ExecutedNext
  <1> QED BY <1>1, <1>4, <1>5, <1>7, <1>8, <1>9, CommitKeeps

LEMMA SignClosingKeeps == ASSUME IInv, NEW w \in Workers, SignClosing(w) PROVE IInv'
  <1> DEFINE r == agreement[job[w].a]
             p == r.plan
             row == [plan[p] EXCEPT !.status = "completed"]
  <1>0. Executes(w, "close")
    BY DEF SignClosing
  <1>1. plan' = [plan EXCEPT ![p].status = "completed"]
        /\ balance' = [balance EXCEPT ![r.who] = @ + plan[p].principal]
    BY DEF SignClosing
  <1>2. p \in Agreements /\ r.who \in Investors
    BY <1>0, SignatureFacts
  <1>3. plan[p] \in PlanRow /\ plan[p].principal \in Nat
    BY <1>2, RowFacts
  <1>4. balance' \in [Investors -> Nat]
    BY <1>1, <1>2, <1>3 DEF IInv, Typed
  <1>5. row \in PlanRow /\ row.owner = plan[p].owner /\ row.principal = plan[p].principal /\ row.status = "completed"
    BY <1>3 DEF PlanRow
  <1>6. plan' = [plan EXCEPT ![p] = row]
    BY <1>1, <1>2, <1>3 DEF IInv, Typed, PlanRow
  <1> HIDE DEF row
  <1> QED BY <1>0, <1>4, <1>5, <1>6, SettlementKeeps

LEMMA SignAmendmentKeeps == ASSUME IInv, NEW w \in Workers, SignAmendment(w) PROVE IInv'
  <1> DEFINE r == agreement[job[w].a]
             p == r.plan
             row == [plan[p] EXCEPT !.writes = @ + 1]
  <1>0. Executes(w, "amend")
    BY DEF SignAmendment
  <1>1. plan' = [plan EXCEPT ![p].writes = @ + 1] /\ balance' = balance
    BY DEF SignAmendment
  <1>2. p \in Agreements
    BY <1>0, SignatureFacts
  <1>3. plan[p] \in PlanRow /\ plan[p].writes \in Nat
    BY <1>2, RowFacts
  <1>4. balance' \in [Investors -> Nat]
    BY <1>1 DEF IInv, Typed
  <1>5. row \in PlanRow /\ row.owner = plan[p].owner /\ row.principal = plan[p].principal /\ row.status = plan[p].status
    <2>1. plan[p].writes + 1 \in Nat
      BY <1>3
    <2> QED BY <1>3, <2>1 DEF PlanRow
  <1>6. plan' = [plan EXCEPT ![p] = row]
    BY <1>1, <1>2, <1>3 DEF IInv, Typed, PlanRow
  <1> HIDE DEF row
  <1> QED BY <1>0, <1>4, <1>5, <1>6, SettlementKeeps

-----------------------------------------------------------------------------
LEMMA NextKeeps == ASSUME IInv, RowLocks, [Next]_vars PROVE IInv'
  <1>1. CASE UNCHANGED vars
    <2>1. Quiet
      BY <1>1 DEF vars, Quiet, SameAgreement, SamePlan
    <2> QED BY <1>1, <2>1, QuietAround DEF vars, IInv, Typed
  <1>2. ASSUME NEW w \in Workers, Handle(w) PROVE IInv'
    BY <1>2, SubmitKeeps, AcquireKeeps, RollBackKeeps, DecideKeeps, WrongPasswordKeeps, SignAgainKeeps, OfferKeeps,
       ReplaceKeeps, NewLinkKeeps, CancelKeeps, SignOpeningKeeps, SignClosingKeeps, SignAmendmentKeeps DEF Handle
  <1>3. ASSUME NEW i \in Investors, MoveBalance(i) PROVE IInv'
    BY <1>3, MoveBalanceKeeps
  <1>4. ASSUME NEW a \in Agreements, WritePayment(a) \/ CompleteMonth(a) \/ Expire(a) PROVE IInv'
    BY <1>4, WritePaymentKeeps, CompleteMonthKeeps, ExpireKeeps
  <1> QED BY <1>1, <1>2, <1>3, <1>4 DEF Next

LEMMA Invariance == ASSUME RowLocks PROVE Spec => []IInv
  <1>1. Init => IInv
    BY Starts
  <1>2. IInv /\ [Next]_vars => IInv'
    BY NextKeeps
  <1> QED BY <1>1, <1>2, PTL DEF Spec

(* At most one agreement of an investor waits for a signature: preparing,    *)
(* replacing and signing all decide under the investor's row lock.           *)
THEOREM OnePendingAlways == ASSUME RowLocks PROVE Spec => []OnePending
  <1>1. IInv => OnePending
    BY DEF IInv
  <1> QED BY <1>1, Invariance, PTL

(* A plan is there exactly when its opening is signed and over exactly when  *)
(* a closing of it is: what sign writes, no other handler undoes or repeats. *)
THEOREM ExecutedAlwaysIffSigned == ASSUME RowLocks PROVE Spec => []ExecutedIffSigned
  <1>1. IInv => ExecutedIffSigned
    BY DEF IInv
  <1> QED BY <1>1, Invariance, PTL

(* The steps that change the status of an agreement.                         *)
Executing(w) == SignOpening(w) \/ SignClosing(w) \/ SignAmendment(w)
LEMMA StatusSteps == ASSUME IInv, [Next]_vars, NEW a \in Agreements
    PROVE \/ agreement'[a].status = agreement[a].status
          \/ agreement[a].status = "none" /\ agreement'[a].status = "pending"
          \/ agreement[a].status = "pending" /\ agreement'[a].status = "cancelled"
          \/ /\ agreement[a].status = "pending" /\ agreement'[a].status = "signed"
             /\ \E w \in Workers : Executing(w) /\ a = job[w].a
  <1> DEFINE Goal == \/ agreement'[a].status = agreement[a].status
                     \/ agreement[a].status = "none" /\ agreement'[a].status = "pending"
                     \/ agreement[a].status = "pending" /\ agreement'[a].status = "cancelled"
                     \/ /\ agreement[a].status = "pending" /\ agreement'[a].status = "signed"
                        /\ \E w \in Workers : Executing(w) /\ a = job[w].a
  <1>1. CASE agreement' = agreement
    BY <1>1
  <1>2. ASSUME NEW w \in Workers, WrongPassword(w) PROVE Goal
    BY <1>2, RowFacts DEF WrongPassword, IInv, Typed, AgreementRow
  <1>3. ASSUME NEW w \in Workers, Offer(w) PROVE Goal
    <2>1. pc[w] = "write" /\ Unused # {} /\ \E extra \in {0, 1} :
             agreement' = [agreement EXCEPT ![NextId] = NewAgreement(job[w], extra)]
      BY <1>3 DEF Offer, Commits, Amounts
    <2>2. \A extra \in {0, 1} : NewAgreement(job[w], extra).status = "pending"
      BY <2>1, NewRow
    <2> QED BY <2>1, <2>2, NextIdUnused DEF IInv, Typed
  <1>4. ASSUME NEW w \in Workers, Replace(w) PROVE Goal
    <2> DEFINE old == Superseded(agreement[job[w].a])
    <2>1. pc[w] = "write" /\ job[w].op = "replace" /\ Unused # {} /\ \E extra \in {0, 1} :
             agreement' = [agreement EXCEPT ![NextId] = NewAgreement(job[w], extra), ![job[w].a] = old]
      BY <1>4 DEF Replace, Commits, Amounts
    <2>2. \A extra \in {0, 1} : NewAgreement(job[w], extra).status = "pending"
      BY <2>1, NewRow
    <2>3. job[w].a \in Agreements /\ agreement[job[w].a].status = "pending"
      BY <2>1, WriterFacts
    <2>4. old.status = "cancelled"
      BY <2>3, RowFacts DEF Superseded, AgreementRow
    <2> HIDE DEF old
    <2> QED BY <2>1, <2>2, <2>3, <2>4, NextIdUnused DEF IInv, Typed
  <1>5. ASSUME NEW w \in Workers, NewLink(w) PROVE Goal
    BY <1>5, RowFacts DEF NewLink, IInv, Typed, AgreementRow
  <1>6. ASSUME NEW w \in Workers, Cancel(w) PROVE Goal
    <2>1. pc[w] = "write" /\ job[w].op = "cancel"
      BY <1>6 DEF Cancel, Commits
    <2>2. job[w].a \in Agreements /\ agreement[job[w].a].status = "pending"
      BY <2>1, WriterFacts
    <2> QED BY <1>6, <2>2, RowFacts DEF Cancel, IInv, Typed, AgreementRow
  <1>7. ASSUME NEW w \in Workers, Executing(w) PROVE Goal
    <2>1. PICK kind \in Kinds : Executes(w, kind)
      BY <1>7 DEF Executing, SignOpening, SignClosing, SignAmendment, Kinds
    <2>2. job[w].a \in Agreements /\ agreement[job[w].a].status = "pending" /\ agreement'[job[w].a].status = "signed"
          /\ \A b \in Agreements \ {job[w].a} : agreement'[b] = agreement[b]
      BY <2>1, SignatureFacts
    <2> QED BY <1>7, <2>2
  <1>8. ASSUME NEW b \in Agreements, Expire(b) PROVE Goal
    BY <1>8, RowFacts DEF Expire, IInv, Typed, AgreementRow
  <1>9. ASSUME Next PROVE Goal
    <2>1. ASSUME NEW w \in Workers, Handle(w) PROVE Goal
      <3>1. CASE Submit(w) \/ Acquire(w) \/ RollBack(w) \/ Decide(w) \/ SignAgain(w)
        BY <1>1, <3>1 DEF Submit, Acquire, RollBack, Decide, SignAgain
      <3> HIDE DEF Goal
      <3> QED BY <2>1, <3>1, <1>2, <1>3, <1>4, <1>5, <1>6, <1>7 DEF Handle, Executing
    <2>2. ASSUME NEW i \in Investors, MoveBalance(i) PROVE Goal
      BY <1>1, <2>2 DEF MoveBalance
    <2>3. ASSUME NEW b \in Agreements, WritePayment(b) \/ CompleteMonth(b) PROVE Goal
      BY <1>1, <2>3 DEF WritePayment, CompleteMonth
    <2> HIDE DEF Goal
    <2> QED BY <1>8, <1>9, <2>1, <2>2, <2>3 DEF Next
  <1> QED BY <1>1, <1>9 DEF vars

(* A signed agreement stays signed where cancel holds its row lock.  Without *)
(* that lock it does not: see run agreement_sqlite.                          *)
THEOREM SignedAlwaysStays == ASSUME RowLocks PROVE Spec => SignedStays
  <1>1. IInv /\ [Next]_vars => [\A a \in Agreements :
            agreement[a].status = "signed" => agreement'[a].status = "signed"]_vars
    BY StatusSteps
  <1> QED BY <1>1, Invariance, PTL DEF Spec, SignedStays

(* What is executed is what the document showed: the figures were compared   *)
(* under the lock that every writer of them needs.                           *)
LEMMA ShownStep == ASSUME IInv, [Next]_vars, NEW a \in Agreements, Signs(a)
    PROVE LET r == agreement[a] IN
          CASE r.kind = "open"  -> /\ balance[r.who] = r.shown[1] /\ balance'[r.who] = 0
                                   /\ plan'[a].principal = r.principal
            [] r.kind = "close" -> /\ plan[r.plan].writes = r.shown[1]
                                   /\ balance'[r.who] = balance[r.who] + r.principal
            [] OTHER            -> plan[r.plan].writes = r.shown[1]
  <1> DEFINE r == agreement[a]
  <1>1. PICK w \in Workers : Executing(w) /\ a = job[w].a
    BY StatusSteps DEF Signs
  <1>2. CASE SignOpening(w)
    <2>1. Executes(w, "open")
      BY <1>2 DEF SignOpening
    <2>2. r.kind = "open" /\ r.who \in Investors
      BY <1>1, <2>1, SignatureFacts
    <2>3. balance[r.who] = r.shown[1] /\ balance'[r.who] = 0
      BY <1>1, <1>2, <2>2 DEF SignOpening, IInv, Typed
    <2>4. plan'[a].principal = r.principal
      BY <1>1, <1>2 DEF SignOpening, NoPlan, IInv, Typed
    <2> QED BY <2>2, <2>3, <2>4
  <1>3. CASE SignClosing(w)
    <2>1. Executes(w, "close")
      BY <1>3 DEF SignClosing
    <2>2. r.kind = "close" /\ r.who \in Investors /\ r.shown[1] = plan[r.plan].writes /\ plan[r.plan].principal = r.principal
      BY <1>1, <2>1, SignatureFacts
    <2>3. balance'[r.who] = balance[r.who] + r.principal
      BY <1>1, <1>3, <2>2 DEF SignClosing, IInv, Typed
    <2> QED BY <2>2, <2>3
  <1>4. CASE SignAmendment(w)
    <2>1. Executes(w, "amend")
      BY <1>4 DEF SignAmendment
    <2>2. r.kind = "amend" /\ r.shown[1] = plan[r.plan].writes
      BY <1>1, <2>1, SignatureFacts
    <2> QED BY <2>2
  <1> QED BY <1>1, <1>2, <1>3, <1>4 DEF Executing

(* A signature invests exactly the balance that the document showed, or      *)
(* settles and moves exactly the payments that it showed.                    *)
THEOREM AlwaysSignedAsShown == ASSUME RowLocks PROVE Spec => SignedAsShown
  <1>1. IInv /\ [Next]_vars => [\A a \in Agreements : Signs(a) => LET r == agreement[a] IN
            CASE r.kind = "open"  -> /\ balance[r.who] = r.shown[1] /\ balance'[r.who] = 0
                                     /\ plan'[a].principal = r.principal
              [] r.kind = "close" -> /\ plan[r.plan].writes = r.shown[1]
                                     /\ balance'[r.who] = balance[r.who] + r.principal
              [] OTHER            -> plan[r.plan].writes = r.shown[1]]_vars
    BY ShownStep
  <1> QED BY <1>1, Invariance, PTL DEF Spec, SignedAsShown

(* The link of a signature is compared again under the lock that new_link    *)
(* needs, so no link that was replaced meanwhile is executed.                *)
THEOREM ReplacedLinkAlwaysDead == ASSUME RowLocks PROVE Spec => ReplacedLinkIsDead
  <1>1. IInv => \A w \in Workers : pc[w] = "write" /\ job[w].op = "sign" /\ job[w].link # 0
                                  => job[w].link = agreement[job[w].a].link
    BY WriterFacts DEF Decided
  <1>2. IInv /\ [Next]_vars => [\A w \in Workers :
            pc[w] = "write" /\ job[w].op = "sign" /\ pc'[w] = "idle" /\ job[w].link # 0
            /\ Signs(job[w].a) => job[w].link = agreement[job[w].a].link]_vars
    BY <1>1
  <1> QED BY <1>2, Invariance, PTL DEF Spec, ReplacedLinkIsDead

(* The steps that write to the payments of a plan.                           *)
LEMMA WriteSteps == ASSUME IInv, [Next]_vars, NEW p \in Agreements, plan[p].status # "none"
    PROVE \/ plan'[p].writes = plan[p].writes
          \/ WritePayment(p)
          \/ \E w \in Workers : SignAmendment(w) /\ p = agreement[job[w].a].plan
  <1> DEFINE Goal == \/ plan'[p].writes = plan[p].writes
                     \/ WritePayment(p)
                     \/ \E w \in Workers : SignAmendment(w) /\ p = agreement[job[w].a].plan
  <1>1. CASE plan' = plan
    BY <1>1
  <1>2. ASSUME NEW w \in Workers, SignOpening(w) PROVE Goal
    <2>1. Executes(w, "open")
      BY <1>2 DEF SignOpening
    <2>2. job[w].a \in Agreements /\ agreement[job[w].a].status = "pending"
      BY <2>1, SignatureFacts
    <2>3. job[w].a # p
      BY <2>2 DEF IInv, ExecutedIffSigned
    <2> QED BY <1>2, <2>3 DEF SignOpening, IInv, Typed
  <1>3. ASSUME NEW w \in Workers, SignClosing(w) PROVE Goal
    BY <1>3, RowFacts DEF SignClosing, IInv, Typed, PlanRow
  <1>4. ASSUME NEW w \in Workers, SignAmendment(w) PROVE Goal
    <2>1. CASE p = agreement[job[w].a].plan
      BY <1>4, <2>1
    <2>2. CASE p # agreement[job[w].a].plan
      BY <1>4, <2>2 DEF SignAmendment, IInv, Typed
    <2> QED BY <2>1, <2>2
  <1>5. ASSUME NEW q \in Agreements, WritePayment(q) PROVE Goal
    BY <1>5 DEF WritePayment, IInv, Typed
  <1>6. ASSUME NEW q \in Agreements, CompleteMonth(q) PROVE Goal
    BY <1>6, RowFacts DEF CompleteMonth, IInv, Typed, PlanRow
  <1>7. ASSUME Next PROVE Goal
    <2>1. ASSUME NEW w \in Workers, Handle(w) PROVE Goal
      <3>1. CASE \/ Submit(w) \/ Acquire(w) \/ RollBack(w) \/ Decide(w) \/ WrongPassword(w) \/ SignAgain(w)
                 \/ Offer(w) \/ Replace(w) \/ NewLink(w) \/ Cancel(w)
        BY <1>1, <3>1 DEF Submit, Acquire, RollBack, Decide, WrongPassword, SignAgain, Offer, Replace, NewLink, Cancel
      <3> HIDE DEF Goal
      <3> QED BY <2>1, <3>1, <1>2, <1>3, <1>4 DEF Handle
    <2>2. ASSUME NEW i \in Investors, MoveBalance(i) PROVE Goal
      BY <1>1, <2>2 DEF MoveBalance
    <2>3. ASSUME NEW b \in Agreements, Expire(b) PROVE Goal
      BY <1>1, <2>3 DEF Expire
    <2> HIDE DEF Goal
    <2> QED BY <1>5, <1>6, <1>7, <2>1, <2>2, <2>3 DEF Next
  <1> QED BY <1>1, <1>7 DEF vars

LEMMA WaitingStep == ASSUME IInv, [Next]_vars, NEW a \in Agreements,
        agreement[a].status = "pending", agreement[a].kind = "amend", agreement'[a].status = "pending"
    PROVE plan'[agreement[a].plan].writes = plan[agreement[a].plan].writes
  <1> DEFINE p == agreement[a].plan
  <1>1. p \in Agreements /\ plan[p].status # "none" /\ plan[p].owner = agreement[a].who
    BY DEF IInv, RowsStand
  <1>2. ~WritePayment(p)
    BY DEF WritePayment, AmendmentPending
  <1>3. ASSUME NEW w \in Workers, SignAmendment(w), p = agreement[job[w].a].plan PROVE FALSE
    <2> DEFINE b == job[w].a
    <2>1. Executes(w, "amend")
      BY <1>3 DEF SignAmendment
    <2>2. b \in Agreements /\ agreement[b].status = "pending" /\ agreement'[b].status = "signed"
      BY <2>1, SignatureFacts
    <2>3. plan[agreement[b].plan].owner = agreement[b].who
      BY <2>1, SignatureFacts
    <2>4. a = b
      BY <1>1, <1>3, <2>2, <2>3 DEF IInv, OnePending
    <2> QED BY <2>2, <2>4
  <1> QED BY <1>1, <1>2, <1>3, WriteSteps

(* While an amendment of its dates waits, the payments of a plan are as the  *)
(* document shows them: every writer asks for it under the investor's lock.  *)
THEOREM ScheduleAlwaysWaits == ASSUME RowLocks PROVE Spec => ScheduleWaits
  <1>1. IInv /\ [Next]_vars => [\A a \in Agreements :
            /\ agreement[a].status = "pending" /\ agreement[a].kind = "amend"
            /\ agreement'[a].status = "pending"
            => plan'[agreement[a].plan].writes = plan[agreement[a].plan].writes]_vars
    BY WaitingStep
  <1> QED BY <1>1, Invariance, PTL DEF Spec, ScheduleWaits
=============================================================================
