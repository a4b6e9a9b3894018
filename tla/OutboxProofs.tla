----------------------------- MODULE OutboxProofs -----------------------------
(***************************************************************************)
(* Proofs about Outbox, for any number of devices, workers, revisions and  *)
(* attempts.  That ids are not used again (a sequence of PostgreSQL, but   *)
(* not of SQLite) is what keeps a worker that comes back late away from    *)
(* the deliveries of another registration.                                 *)
(***************************************************************************)
EXTENDS Outbox, FiniteSetTheorems, TLAPS

Row == [status : Open \cup Settled, attempts : Nat, token : Workers \cup {NoWorker}, sends : Nat]
Claimed == [pc : {"claimed"}, key : Deliveries]
Checked == [pc : {"send", "drop"} \cup Outcomes, key : Deliveries, attempts : Nat]

Typed ==
    /\ payment \in [status : {"scheduled", "awaiting_confirmation", "paid"},
                    requested : Revisions \cup {0}]
    /\ reg \in [Devices -> Ids \cup {0}]
    /\ lastId \in Nat
    /\ DOMAIN deliv \subseteq Deliveries /\ deliv \in [DOMAIN deliv -> Row]
    /\ request \in [open : BOOLEAN, rev : Revisions \cup {0}, ids : SUBSET Ids]
    /\ request.open => request.rev \in Revisions
    /\ enrol \in [open : BOOLEAN, device : Devices \cup {NoDevice}, id : Ids \cup {0},
                  fresh : BOOLEAN, notice : Notices \cup {NoNotice}]
    /\ enrol.open => enrol.device \in Devices /\ enrol.id \in Ids
    /\ worker \in [Workers -> {Resting} \cup Claimed \cup Checked]

(* A claim is only on a row that is being sent.                              *)
ClaimsStand == \A k \in DOMAIN deliv : deliv[k].token # NoWorker => deliv[k].status = "sending"

(* A registration has an id of its own, and one under way a new one.         *)
RegistryStands ==
    /\ \A d \in Devices : reg[d] <= lastId
    /\ \A d, e \in Devices : reg[d] = reg[e] /\ reg[d] # 0 => d = e
    /\ enrol.open =>
          /\ enrol.id <= lastId
          /\ enrol.fresh => reg[enrol.device] = 0 /\ \A d \in Devices : reg[d] # enrol.id

(* A delivery is of a registered device; a notice for one device alone is of *)
(* that device, and the request's own notice has expired.                    *)
Late(n, d) == n[2] # "all" => n[2] = d /\ <<n[1], "all">> \in expired
RowsStand ==
    /\ \A k \in DOMAIN deliv : \E d \in Devices : reg[d] = k[2] /\ Late(k[1], d)
    /\ enrol.open /\ enrol.notice # NoNotice => Late(enrol.notice, enrol.device)

(* A worker never meets a later row under the key it works on.               *)
WorkersStand == \A w \in Workers : worker[w].pc # "idle" =>
    LET k == worker[w].key IN
    /\ k[2] <= lastId
    /\ k[2] \in Registered => k \in DOMAIN deliv
    /\ enrol.open /\ enrol.fresh => k[2] # enrol.id

(* Each send was an attempt, the sends to come and the one that a claim may  *)
(* still lead to included.                                                   *)
Sending(k) == {w \in Workers : worker[w].pc = "send" /\ worker[w].key = k}
MaySend(k) == \E w \in Workers : /\ worker[w].pc = "claimed" /\ worker[w].key = k
                                 /\ deliv[k].token = w
Counted == \A k \in DOMAIN deliv :
    LET sends == deliv[k].sends + Cardinality(Sending(k)) IN
    /\ sends <= MaxAttempts
    /\ sends <= deliv[k].attempts
    /\ MaySend(k) => sends + 1 <= deliv[k].attempts

IInv == Typed /\ ClaimsStand /\ RegistryStands /\ RowsStand /\ WorkersStand /\ Counted

USE OutboxAssumption

-----------------------------------------------------------------------------
(* What the updates of the table of deliveries do.                           *)
LEMMA RowsAdded ==
    ASSUME Typed, NEW S \in SUBSET Deliveries, deliv' = WithDeliveries(S)
    PROVE  /\ DOMAIN deliv' = DOMAIN deliv \cup S
           /\ deliv' \in [DOMAIN deliv' -> Row] /\ DOMAIN deliv' \subseteq Deliveries
           /\ \A k \in DOMAIN deliv : deliv'[k] = deliv[k]
           /\ \A k \in S \ DOMAIN deliv : deliv'[k] = NewDelivery
  <1>1. NewDelivery \in Row
    BY DEF NewDelivery, Row, Open
  <1>2. \A k \in DOMAIN deliv : deliv[k] \in Row
    BY DEF Typed
  <1>3. DOMAIN deliv \subseteq Deliveries
    BY DEF Typed
  <1>4. deliv' = [k \in DOMAIN deliv \cup S |-> IF k \in DOMAIN deliv THEN deliv[k] ELSE NewDelivery]
    BY DEF WithDeliveries
  <1> HIDE DEF Row, NewDelivery, Deliveries
  <1> QED BY <1>1, <1>2, <1>3, <1>4

LEMMA RowsRemoved ==
    ASSUME Typed, NEW id, deliv' = WithoutId(id)
    PROVE  /\ DOMAIN deliv' = {k \in DOMAIN deliv : k[2] # id}
           /\ deliv' \in [DOMAIN deliv' -> Row] /\ DOMAIN deliv' \subseteq Deliveries
           /\ \A k \in DOMAIN deliv' : deliv'[k] = deliv[k]
  <1>1. \A k \in DOMAIN deliv : deliv[k] \in Row
    BY DEF Typed
  <1>2. DOMAIN deliv \subseteq Deliveries
    BY DEF Typed
  <1>3. deliv' = [k \in {j \in DOMAIN deliv : j[2] # id} |-> deliv[k]]
    BY DEF WithoutId
  <1> HIDE DEF Row, Deliveries
  <1> QED BY <1>1, <1>2, <1>3

LEMMA RowRecorded ==
    ASSUME Typed, NEW w \in Workers, NEW status \in Open \cup Settled, Record(w, status)
    PROVE  /\ DOMAIN deliv' = DOMAIN deliv
           /\ deliv' \in [DOMAIN deliv' -> Row] /\ DOMAIN deliv' \subseteq Deliveries
           /\ \A k \in DOMAIN deliv :
                 /\ deliv'[k].sends = deliv[k].sends
                 /\ deliv'[k].attempts = deliv[k].attempts
                 /\ \/ deliv'[k] = deliv[k]
                    \/ deliv[k].token = w /\ deliv'[k].token = NoWorker
  <1>1. \A k \in DOMAIN deliv : deliv[k] \in Row
    BY DEF Typed
  <1>2. DOMAIN deliv \subseteq Deliveries
    BY DEF Typed
  <1>3. CASE ~Holds(w)
    <2>1. deliv' = deliv
      BY <1>3 DEF Record
    <2>2. deliv \in [DOMAIN deliv -> Row]
      BY DEF Typed
    <2> HIDE DEF Row, Deliveries
    <2> QED BY <1>2, <2>1, <2>2
  <1>4. CASE Holds(w)
    <2> DEFINE key == worker[w].key
    <2>1. key \in DOMAIN deliv /\ deliv[key].token = w
      BY <1>4 DEF Holds
    <2>2. deliv' = [deliv EXCEPT ![key] = [deliv[key] EXCEPT !.status = status, !.token = NoWorker]]
      BY <1>1, <1>4, <2>1 DEF Record, Row
    <2>3. [deliv[key] EXCEPT !.status = status, !.token = NoWorker] \in Row
      BY <1>1, <2>1 DEF Row
    <2> HIDE DEF key
    <2>4. deliv \in [DOMAIN deliv -> Row]
      BY DEF Typed
    <2>5. DOMAIN deliv' = DOMAIN deliv /\ deliv' \in [DOMAIN deliv -> Row]
      BY <2>1, <2>2, <2>3, <2>4
    <2>6. deliv'[key] = [deliv[key] EXCEPT !.status = status, !.token = NoWorker]
      BY <2>1, <2>2
    <2>7. /\ deliv'[key].sends = deliv[key].sends
          /\ deliv'[key].attempts = deliv[key].attempts
          /\ deliv'[key].token = NoWorker
      BY <1>1, <2>1, <2>6 DEF Row
    <2>8. \A k \in DOMAIN deliv : k # key => deliv'[k] = deliv[k]
      BY <2>1, <2>2
    <2> QED BY <1>2, <2>1, <2>5, <2>7, <2>8
  <1> QED BY <1>3, <1>4

-----------------------------------------------------------------------------
(* Types.                                                                    *)
RequestHandler == \/ RequestRead \/ RequestRollBack \/ RequestOwn
                  \/ ConfirmPayment \/ RejectPayment \/ UpdatePayment

LEMMA WorkerTyped == ASSUME Typed, NEW w \in Workers
    PROVE  /\ worker[w] \in {Resting} \cup Claimed \cup Checked
           /\ worker[w].pc # "idle" => worker[w].key \in Deliveries
           /\ worker[w].pc \in {"send", "drop"} \cup Outcomes => worker[w] \in Checked
           /\ worker[w].pc = "claimed" => worker[w] \in Claimed
  BY DEF Typed, Resting, Claimed, Checked, Outcomes

LEMMA RestTyped == ASSUME Typed, NEW w \in Workers, worker' = [worker EXCEPT ![w] = Resting]
    PROVE  /\ worker' \in [Workers -> {Resting} \cup Claimed \cup Checked]
           /\ worker'[w] = Resting
           /\ \A v \in Workers \ {w} : worker'[v] = worker[v]
  BY DEF Typed

LEMMA MaxOfTwo == ASSUME NEW m \in Nat, NEW n \in Nat
    PROVE  Max({m, n}) \in Nat /\ Max({m, n}) >= m /\ Max({m, n}) >= n
  <1> DEFINE top == IF m >= n THEN m ELSE n
  <1>1. top \in {m, n} /\ \A y \in {m, n} : top >= y
    OBVIOUS
  <1>2. \E x \in {m, n} : \A y \in {m, n} : x >= y
    BY <1>1
  <1>3. Max({m, n}) = CHOOSE x \in {m, n} : \A y \in {m, n} : x >= y
    BY DEF Max
  <1>4. Max({m, n}) \in {m, n} /\ \A y \in {m, n} : Max({m, n}) >= y
    BY <1>2, <1>3
  <1> QED BY <1>4

LEMMA RequestsTyped == ASSUME Typed, RequestHandler PROVE Typed'
  <1>1. /\ UNCHANGED <<reg, lastId, deliv, enrol, worker>>
        /\ Registered \subseteq Ids
    BY DEF RequestHandler, RequestRead, RequestRollBack, RequestOwn, ConfirmPayment,
           RejectPayment, UpdatePayment, outboxVars, Registered, Typed
  <1>2. CASE RequestRead
    <2>1. PICK r \in Revisions : request' = [open |-> TRUE, rev |-> r, ids |-> Registered]
      BY <1>2 DEF RequestRead
    <2>2. UNCHANGED payment
      BY <1>2 DEF RequestRead
    <2> QED BY <1>1, <2>1, <2>2 DEF Typed
  <1>3. CASE RequestRollBack
    BY <1>1, <1>3 DEF RequestRollBack, NoRequest, Typed
  <1>4. CASE RequestOwn \/ ConfirmPayment \/ RejectPayment
    BY <1>1, <1>4 DEF RequestOwn, ConfirmPayment, RejectPayment, Typed
  <1>5. CASE UpdatePayment
    BY <1>1, <1>5 DEF UpdatePayment, Typed
  <1> QED BY <1>2, <1>3, <1>4, <1>5 DEF RequestHandler

LEMMA CommitTyped == ASSUME Typed, RequestCommit
    PROVE  /\ Typed'
           /\ ({<<request.rev, "all">>} \X request.ids) \in SUBSET Deliveries
           /\ deliv' = WithDeliveries({<<request.rev, "all">>} \X request.ids)
  <1> DEFINE S == {<<request.rev, "all">>} \X request.ids
  <1>1. request.rev \in Revisions /\ request.ids \subseteq Ids
    BY DEF RequestCommit, Typed
  <1>2. S \in SUBSET Deliveries
    BY <1>1 DEF Deliveries, Notices
  <1>3. /\ deliv' = WithDeliveries(S)
        /\ UNCHANGED <<reg, lastId, enrol, worker>>
        /\ payment' = [status |-> "awaiting_confirmation", requested |-> request.rev]
        /\ request' = NoRequest
    BY DEF RequestCommit, workerVars
  <1> HIDE DEF S
  <1>4. deliv' \in [DOMAIN deliv' -> Row] /\ DOMAIN deliv' \subseteq Deliveries
    BY <1>2, <1>3, RowsAdded
  <1> QED BY <1>1, <1>2, <1>3, <1>4 DEF Typed, NoRequest, S

LEMMA EnrolReadTyped == ASSUME Typed, NEW d \in Devices, EnrolRead(d)
    PROVE  /\ Typed'
           /\ UNCHANGED <<reg, deliv, expired, worker>>
           /\ enrol'.open /\ enrol'.device = d
           /\ lastId' >= lastId /\ enrol'.id <= lastId'
           /\ IF reg[d] = 0 THEN enrol'.fresh /\ enrol'.id = NextId
              ELSE ~enrol'.fresh
           /\ enrol'.notice # NoNotice => Late(enrol'.notice, d)
  <1> DEFINE fresh == reg[d] = 0
             id == IF fresh THEN NextId ELSE reg[d]
             r == payment.requested
             notice == IF Outstanding(r) THEN CatchUpNotice(r, d) ELSE NoNotice
  <1>1. /\ id \in Ids
        /\ lastId' = Max({lastId, id})
        /\ enrol' = [open |-> TRUE, device |-> d, id |-> id, fresh |-> fresh, notice |-> notice]
        /\ UNCHANGED <<payment, reg, expired, deliv, request, worker>>
    BY DEF EnrolRead, workerVars
  <1>2. notice \in Notices \cup {NoNotice} /\ (notice # NoNotice => Late(notice, d))
    <2>1. CASE Outstanding(r)
      <3>1. r \in Revisions
        BY <2>1 DEF Outstanding, Typed
      <3>2. notice = CatchUpNotice(r, d)
        BY <2>1
      <3> QED BY <3>1, <3>2 DEF CatchUpNotice, Notices, Late
    <2>2. CASE ~Outstanding(r)
      BY <2>2 DEF NoNotice
    <2> QED BY <2>1, <2>2
  <1>3. lastId' \in Nat /\ lastId' >= lastId /\ lastId' >= id
    <2>1. lastId \in Nat /\ id \in Nat
      BY <1>1 DEF Typed, Ids
    <2> HIDE DEF id
    <2> QED BY <1>1, <2>1, MaxOfTwo
  <1>4. /\ enrol'.open /\ enrol'.device = d /\ enrol'.id = id /\ enrol'.fresh = fresh
        /\ enrol'.notice = notice
    BY <1>1
  <1>5. id \in Nat
    BY <1>1 DEF Ids
  <1>6. Typed'
    <2> HIDE DEF id, notice
    <2> QED BY <1>1, <1>2, <1>3 DEF Typed
  <1> QED BY <1>1, <1>2, <1>3, <1>4, <1>5, <1>6 DEF Late

LEMMA EnrolCommitTyped == ASSUME Typed, EnrolCommit
    PROVE  /\ Typed'
           /\ (({enrol.notice} \ {NoNotice}) \X {enrol.id}) \in SUBSET Deliveries
           /\ deliv' = WithDeliveries(({enrol.notice} \ {NoNotice}) \X {enrol.id})
           /\ reg' = [reg EXCEPT ![enrol.device] = enrol.id]
           /\ enrol.device \in Devices /\ enrol.id \in Ids
           /\ ~enrol'.open
           /\ UNCHANGED <<lastId, expired, worker>>
  <1> DEFINE S == ({enrol.notice} \ {NoNotice}) \X {enrol.id}
  <1>1. enrol.device \in Devices /\ enrol.id \in Ids /\ enrol.notice \in Notices \cup {NoNotice}
    BY DEF EnrolCommit, Typed
  <1>2. S \in SUBSET Deliveries
    BY <1>1 DEF Deliveries
  <1>3. /\ deliv' = WithDeliveries(S)
        /\ reg' = [reg EXCEPT ![enrol.device] = enrol.id]
        /\ enrol' = NoEnrol
        /\ UNCHANGED <<payment, lastId, expired, request, worker>>
    BY DEF EnrolCommit, workerVars
  <1> HIDE DEF S
  <1>4. deliv' \in [DOMAIN deliv' -> Row] /\ DOMAIN deliv' \subseteq Deliveries
    BY <1>2, <1>3, RowsAdded
  <1>5. reg' \in [Devices -> Ids \cup {0}]
    BY <1>1, <1>3 DEF Typed
  <1>6. Typed'
    BY <1>3, <1>4, <1>5 DEF Typed, NoEnrol
  <1> QED BY <1>1, <1>2, <1>3, <1>6 DEF NoEnrol, S

(* A registration goes: with its device, or because the provider forgot it.  *)
Forgets(id) ==
    /\ deliv' = WithoutId(id)
    /\ reg' = [d \in Devices |-> IF reg[d] = id THEN 0 ELSE reg[d]]

LEMMA ForgetsTyped == ASSUME Typed, NEW id \in Ids, Forgets(id)
    PROVE  /\ reg' \in [Devices -> Ids \cup {0}]
           /\ deliv' \in [DOMAIN deliv' -> Row] /\ DOMAIN deliv' \subseteq Deliveries
  <1>1. deliv' = WithoutId(id)
    BY DEF Forgets
  <1>2. deliv' \in [DOMAIN deliv' -> Row] /\ DOMAIN deliv' \subseteq Deliveries
    BY <1>1, RowsRemoved
  <1> QED BY <1>2 DEF Forgets, Typed

LEMMA ClaimTyped == ASSUME Typed, NEW w \in Workers, Claim(w)
    PROVE  /\ Typed' /\ worker[w].pc = "idle"
           /\ UNCHANGED <<tables, reg>>
           /\ DOMAIN deliv' = DOMAIN deliv
           /\ \E k \in DOMAIN deliv :
                 /\ deliv[k].status \in Open
                 /\ deliv'[k] = [deliv[k] EXCEPT !.status = "sending", !.token = w, !.attempts = @ + 1]
                 /\ \A j \in DOMAIN deliv \ {k} : deliv'[j] = deliv[j]
                 /\ worker' = [worker EXCEPT ![w] = [pc |-> "claimed", key |-> k]]
  <1>1. PICK k \in DOMAIN deliv :
          /\ Ready(k)
          /\ deliv' = [deliv EXCEPT ![k].status = "sending", ![k].token = w, ![k].attempts = @ + 1]
          /\ worker' = [worker EXCEPT ![w] = [pc |-> "claimed", key |-> k]]
    BY DEF Claim
  <1>2. deliv[k] \in Row /\ k \in Deliveries /\ DOMAIN deliv \subseteq Deliveries
        /\ deliv \in [DOMAIN deliv -> Row]
    BY DEF Typed
  <1> DEFINE row == [deliv[k] EXCEPT !.status = "sending", !.token = w, !.attempts = @ + 1]
  <1>3. row \in Row
    <2>1. \A r \in Row : [r EXCEPT !.status = "sending", !.token = w, !.attempts = @ + 1] \in Row
      <3>1. \A r \in Row : [r EXCEPT !.status = "sending"] \in Row
        BY DEF Row, Open
      <3>2. \A r \in Row : [r EXCEPT !.token = w] \in Row
        BY DEF Row
      <3>3. \A r \in Row : [r EXCEPT !.attempts = @ + 1] \in Row
        BY DEF Row
      <3>4. \A r \in Row : [r EXCEPT !.status = "sending", !.token = w, !.attempts = @ + 1]
               = [[[r EXCEPT !.status = "sending"] EXCEPT !.token = w] EXCEPT !.attempts = @ + 1]
        OBVIOUS
      <3> HIDE DEF Row
      <3> QED BY <3>1, <3>2, <3>3, <3>4
    <2> QED BY <1>2, <2>1
  <1>4. deliv' = [deliv EXCEPT ![k] = row]
    BY <1>1, <1>2 DEF Row
  <1> HIDE DEF row
  <1>5. /\ deliv' \in [DOMAIN deliv' -> Row] /\ DOMAIN deliv' = DOMAIN deliv
        /\ deliv'[k] = row /\ \A j \in DOMAIN deliv \ {k} : deliv'[j] = deliv[j]
    BY <1>2, <1>3, <1>4
  <1>6. worker' \in [Workers -> {Resting} \cup Claimed \cup Checked]
    BY <1>1, <1>2 DEF Claimed, Typed
  <1>7. UNCHANGED <<tables, reg>> /\ worker[w].pc = "idle"
    BY DEF Claim
  <1>8. Typed'
    BY <1>2, <1>5, <1>6, <1>7 DEF Typed, tables
  <1> QED BY <1>1, <1>5, <1>7, <1>8 DEF Ready, row

LEMMA CheckTyped == ASSUME Typed, NEW w \in Workers, Check(w)
    PROVE  /\ Typed' /\ worker[w].pc = "claimed"
           /\ UNCHANGED <<tables, reg, deliv>>
           /\ \A v \in Workers \ {w} : worker'[v] = worker[v]
           /\ \/ worker'[w] = Resting
              \/ /\ Holds(w)
                 /\ worker'[w].key = worker[w].key
                 /\ \/ worker'[w].pc = "drop"
                    \/ worker'[w].pc = "send" /\ deliv[worker[w].key].attempts <= MaxAttempts
  <1> DEFINE k == worker[w].key
             n == deliv[k].attempts
             sendable == HasPayload(k) /\ n <= MaxAttempts
             next == IF ~Holds(w) THEN Resting
                     ELSE [pc |-> IF sendable THEN "send" ELSE "drop", key |-> k, attempts |-> n]
  <1>1. /\ worker[w].pc = "claimed"
        /\ worker' = [worker EXCEPT ![w] = next]
        /\ UNCHANGED <<tables, reg, deliv>>
    BY DEF Check
  <1>2. k \in Deliveries
    BY <1>1, WorkerTyped
  <1>3. next \in {Resting} \cup Checked
    <2>1. CASE Holds(w)
      <3>1. n \in Nat
        BY <2>1 DEF Holds, Typed, Row
      <3> QED BY <1>2, <2>1, <3>1 DEF Checked
    <2> QED BY <2>1
  <1>4. \/ next = Resting
        \/ Holds(w) /\ next.key = k /\ (next.pc = "drop" \/ (next.pc = "send" /\ n <= MaxAttempts))
    <2>1. CASE Holds(w) /\ sendable
      BY <2>1
    <2>2. CASE Holds(w) /\ ~sendable
      BY <2>2
    <2> QED BY <2>1, <2>2
  <1> HIDE DEF next
  <1>5. worker' \in [Workers -> {Resting} \cup Claimed \cup Checked]
        /\ worker'[w] = next /\ \A v \in Workers \ {w} : worker'[v] = worker[v]
    BY <1>1, <1>3 DEF Typed
  <1>6. Typed'
    BY <1>1, <1>5 DEF Typed, tables
  <1> QED BY <1>1, <1>4, <1>5, <1>6

(* The worker answers for a row it holds, and rests.                         *)
Finishes(w) ==
    /\ worker[w].pc \notin {"idle", "claimed", "send"}
    /\ \E status \in Open \cup Settled : Record(w, status)
    /\ worker' = [worker EXCEPT ![w] = Resting]
    /\ UNCHANGED <<tables, reg>>

LEMMA Finished == ASSUME Typed, NEW w \in Workers, Drop(w) \/ Settle(w) PROVE Finishes(w)
  BY DEF Drop, Settle, Finishes, Open, Settled

LEMMA FinishTyped == ASSUME Typed, NEW w \in Workers, Finishes(w) PROVE Typed'
  <1>1. PICK status \in Open \cup Settled : Record(w, status)
    BY DEF Finishes
  <1>2. deliv' \in [DOMAIN deliv' -> Row] /\ DOMAIN deliv' \subseteq Deliveries
    BY <1>1, RowRecorded
  <1>3. worker' \in [Workers -> {Resting} \cup Claimed \cup Checked]
    BY RestTyped DEF Finishes
  <1> QED BY <1>2, <1>3 DEF Finishes, tables, Typed

LEMMA SendTyped == ASSUME Typed, NEW w \in Workers, Send(w)
    PROVE  /\ Typed' /\ worker[w].pc = "send"
           /\ UNCHANGED <<tables, reg>>
           /\ DOMAIN deliv' = DOMAIN deliv
           /\ \A k \in DOMAIN deliv :
                 deliv'[k] = IF k = worker[w].key THEN [deliv[k] EXCEPT !.sends = @ + 1] ELSE deliv[k]
           /\ \A v \in Workers \ {w} : worker'[v] = worker[v]
           /\ worker'[w].pc \in Outcomes /\ worker'[w].key = worker[w].key
  <1> DEFINE key == worker[w].key
  <1>1. PICK outcome \in Outcomes : worker' = [worker EXCEPT ![w].pc = outcome]
    BY DEF Send
  <1>2. /\ worker[w].pc = "send" /\ UNCHANGED <<tables, reg>>
        /\ deliv' = IF key \in DOMAIN deliv THEN [deliv EXCEPT ![key].sends = @ + 1] ELSE deliv
    BY DEF Send
  <1>3. worker[w] \in Checked
    BY <1>2, WorkerTyped
  <1>4. [worker[w] EXCEPT !.pc = outcome] \in Checked
        /\ [worker[w] EXCEPT !.pc = outcome].pc = outcome
        /\ [worker[w] EXCEPT !.pc = outcome].key = key
    BY <1>3 DEF Checked
  <1>5. /\ worker' \in [Workers -> {Resting} \cup Claimed \cup Checked]
        /\ worker'[w] = [worker[w] EXCEPT !.pc = outcome]
        /\ \A v \in Workers \ {w} : worker'[v] = worker[v]
    BY <1>1, <1>4 DEF Typed
  <1>6. /\ deliv \in [DOMAIN deliv -> Row] /\ DOMAIN deliv \subseteq Deliveries
        /\ \A k \in DOMAIN deliv : deliv[k] \in Row /\ [deliv[k] EXCEPT !.sends = @ + 1] \in Row
    <2>1. \A row \in Row : [row EXCEPT !.sends = @ + 1] \in Row
      BY DEF Row
    <2> QED BY <2>1 DEF Typed
  <1> HIDE DEF key
  <1>7. /\ DOMAIN deliv' = DOMAIN deliv
        /\ \A k \in DOMAIN deliv :
              deliv'[k] = IF k = key THEN [deliv[k] EXCEPT !.sends = @ + 1] ELSE deliv[k]
        /\ deliv' \in [DOMAIN deliv -> Row]
    BY <1>2, <1>6
  <1>8. Typed'
    BY <1>2, <1>5, <1>6, <1>7 DEF Typed, tables
  <1> QED BY <1>2, <1>4, <1>5, <1>7, <1>8 DEF key

LEMMA GoneForgets == ASSUME Typed, NEW w \in Workers, SettleGone(w)
    PROVE  /\ Forgets(worker[w].key[2]) /\ worker[w].key[2] \in Ids
           /\ worker' = [worker EXCEPT ![w] = Resting]
           /\ UNCHANGED tables
  <1>1. worker[w].key \in Deliveries
    BY WorkerTyped DEF SettleGone
  <1> QED BY <1>1 DEF SettleGone, Forgets, Deliveries

LEMMA GoneTyped == ASSUME Typed, NEW w \in Workers, SettleGone(w) PROVE Typed'
  <1>1. worker' \in [Workers -> {Resting} \cup Claimed \cup Checked]
    BY GoneForgets, RestTyped
  <1>2. /\ reg' \in [Devices -> Ids \cup {0}] /\ deliv' \in [DOMAIN deliv' -> Row]
        /\ DOMAIN deliv' \subseteq Deliveries /\ UNCHANGED tables
    BY GoneForgets, ForgetsTyped
  <1> QED BY <1>1, <1>2 DEF Typed, tables

LEMMA CrashTyped == ASSUME Typed, NEW w \in Workers, Crash(w)
    PROVE  Typed' /\ worker' = [worker EXCEPT ![w] = Resting] /\ UNCHANGED <<tables, reg, deliv>>
  <1>1. worker' = [worker EXCEPT ![w] = Resting] /\ UNCHANGED <<tables, reg, deliv>>
    BY DEF Crash
  <1>2. worker' \in [Workers -> {Resting} \cup Claimed \cup Checked]
    BY <1>1, RestTyped
  <1> QED BY <1>1, <1>2 DEF Typed, tables

LEMMA LeavingTyped == ASSUME Typed, NEW d \in Devices, Unsubscribe(d) PROVE Typed'
  <1>1. /\ reg' = [reg EXCEPT ![d] = 0] /\ deliv' = WithoutId(reg[d])
        /\ UNCHANGED <<payment, lastId, request, enrol, worker>>
    BY DEF Unsubscribe, workerVars
  <1>2. deliv' \in [DOMAIN deliv' -> Row] /\ DOMAIN deliv' \subseteq Deliveries
    BY <1>1, RowsRemoved
  <1>3. reg' \in [Devices -> Ids \cup {0}]
    BY <1>1 DEF Typed
  <1> QED BY <1>1, <1>2, <1>3 DEF Typed

LEMMA LeavingForgets == ASSUME Typed, RegistryStands, NEW d \in Devices, Unsubscribe(d)
    PROVE  /\ Forgets(reg[d]) /\ reg[d] \in Ids
           /\ UNCHANGED <<lastId, expired, enrol, worker>>
  <1>1. reg[d] # 0 /\ reg[d] \in Ids /\ reg' = [reg EXCEPT ![d] = 0]
        /\ deliv' = WithoutId(reg[d])
        /\ UNCHANGED <<lastId, expired, enrol, worker>>
    BY DEF Unsubscribe, Typed, workerVars
  <1>2. reg' = [e \in Devices |-> IF reg[e] = reg[d] THEN 0 ELSE reg[e]]
    BY <1>1 DEF RegistryStands, Typed
  <1> QED BY <1>1, <1>2 DEF Forgets

(* Every step is one of these.                                               *)
LEMMA Steps == ASSUME Typed, [Next]_vars
    PROVE  \/ RequestHandler \/ RequestCommit \/ EnrolCommit \/ EnrolRollBack
           \/ \E d \in Devices : EnrolRead(d) \/ Unsubscribe(d)
           \/ \E w \in Workers : \/ Claim(w) \/ Check(w) \/ Send(w) \/ Finishes(w)
                                \/ SettleGone(w) \/ Crash(w)
           \/ Expire \/ UNCHANGED vars
  BY Finished DEF Next, Work, RequestHandler

LEMMA TypedKept == ASSUME Typed, [Next]_vars PROVE Typed'
  <1>1. CASE RequestHandler \/ RequestCommit \/ EnrolCommit
    BY <1>1, RequestsTyped, CommitTyped, EnrolCommitTyped
  <1>2. CASE EnrolRollBack
    BY <1>2 DEF EnrolRollBack, NoEnrol, workerVars, Typed
  <1>3. CASE \E d \in Devices : EnrolRead(d) \/ Unsubscribe(d)
    BY <1>3, EnrolReadTyped, LeavingTyped
  <1>4. CASE \E w \in Workers : Claim(w) \/ Check(w) \/ Send(w)
    BY <1>4, ClaimTyped, CheckTyped, SendTyped
  <1>5. CASE \E w \in Workers : Finishes(w) \/ SettleGone(w) \/ Crash(w)
    BY <1>5, FinishTyped, GoneTyped, CrashTyped
  <1>6. CASE Expire
    BY <1>6 DEF Expire, workerVars, Typed
  <1>7. CASE UNCHANGED vars
    BY <1>7 DEF vars, Typed
  <1> QED BY <1>1, <1>2, <1>3, <1>4, <1>5, <1>6, <1>7, Steps

-----------------------------------------------------------------------------
(* What a step does to one row: it is created, left alone, settled by who    *)
(* holds it, or claimed.                                                     *)
LEMMA RowSteps == ASSUME Typed, [Next]_vars
    PROVE  /\ \A k \in DOMAIN deliv' \ DOMAIN deliv : deliv'[k] = NewDelivery
           /\ \A k \in DOMAIN deliv \cap DOMAIN deliv' :
                 \/ deliv'[k].status = deliv[k].status /\ deliv'[k].token = deliv[k].token
                 \/ deliv[k].token # NoWorker /\ deliv'[k].token = NoWorker
                 \/ deliv[k].status \in Open /\ deliv'[k].status = "sending"
  <1>1. CASE UNCHANGED deliv
    BY <1>1
  <1>2. CASE RequestCommit \/ EnrolCommit
    BY <1>2, CommitTyped, EnrolCommitTyped, RowsAdded
  <1>3. CASE \E id : deliv' = WithoutId(id)
    BY <1>3, RowsRemoved
  <1>4. CASE \E w \in Workers : Claim(w)
    <2>1. PICK w \in Workers : Claim(w)
      BY <1>4
    <2>2. PICK k \in DOMAIN deliv :
            /\ deliv[k].status \in Open
            /\ deliv'[k] = [deliv[k] EXCEPT !.status = "sending", !.token = w, !.attempts = @ + 1]
            /\ \A j \in DOMAIN deliv \ {k} : deliv'[j] = deliv[j]
      BY <2>1, ClaimTyped
    <2>3. deliv[k] \in Row /\ DOMAIN deliv' = DOMAIN deliv
      BY <2>1, ClaimTyped DEF Typed
    <2>4. deliv'[k].status = "sending"
      BY <2>2, <2>3 DEF Row
    <2> QED BY <2>2, <2>3, <2>4
  <1>5. CASE \E w \in Workers : Send(w)
    <2>1. PICK w \in Workers : Send(w)
      BY <1>5
    <2>2. \A k \in DOMAIN deliv : deliv[k] \in Row
      BY DEF Typed
    <2>3. DOMAIN deliv' = DOMAIN deliv
          /\ \A k \in DOMAIN deliv : deliv'[k] = IF k = worker[w].key
                                               THEN [deliv[k] EXCEPT !.sends = @ + 1] ELSE deliv[k]
      BY <2>1, SendTyped
    <2> QED BY <2>2, <2>3 DEF Row
  <1>6. CASE \E w \in Workers : Finishes(w)
    <2>1. PICK w \in Workers, status \in Open \cup Settled : Record(w, status)
      BY <1>6 DEF Finishes
    <2> QED BY <2>1, RowRecorded
  <1>7. \/ UNCHANGED deliv \/ RequestCommit \/ EnrolCommit \/ \E id : deliv' = WithoutId(id)
        \/ \E w \in Workers : Claim(w) \/ Send(w) \/ Finishes(w)
    <2>1. RequestHandler \/ EnrolRollBack \/ Expire \/ UNCHANGED vars => UNCHANGED deliv
      BY DEF RequestHandler, RequestRead, RequestRollBack, RequestOwn, ConfirmPayment,
             RejectPayment, UpdatePayment, outboxVars, EnrolRollBack, Expire, vars
    <2>2. \A d \in Devices : EnrolRead(d) => UNCHANGED deliv
      BY DEF EnrolRead
    <2>3. \A w \in Workers : Check(w) \/ Crash(w) => UNCHANGED deliv
      BY DEF Check, Crash
    <2>4. \A d \in Devices : Unsubscribe(d) => \E id : deliv' = WithoutId(id)
      BY DEF Unsubscribe
    <2>5. \A w \in Workers : SettleGone(w) => \E id : deliv' = WithoutId(id)
      BY DEF SettleGone
    <2> QED BY <2>1, <2>2, <2>3, <2>4, <2>5, Steps, ZenonT(60)
  <1> QED BY <1>1, <1>2, <1>3, <1>4, <1>5, <1>6, <1>7

LEMMA ClaimsKept == ASSUME Typed, ClaimsStand, [Next]_vars PROVE ClaimsStand'
  <1> SUFFICES ASSUME NEW k \in DOMAIN deliv', deliv'[k].token # NoWorker
               PROVE  deliv'[k].status = "sending"
    BY DEF ClaimsStand
  <1>1. CASE k \in DOMAIN deliv
    BY <1>1, RowSteps DEF ClaimsStand
  <1>2. CASE k \notin DOMAIN deliv
    BY <1>2, RowSteps DEF NewDelivery
  <1> QED BY <1>1, <1>2

LEMMA SettledKept == ASSUME Typed, ClaimsStand, [Next]_vars
    PROVE  \A k \in DOMAIN deliv \cap DOMAIN deliv' :
              deliv[k].status \in Settled => deliv'[k].status = deliv[k].status
  BY RowSteps DEF ClaimsStand, Open, Settled

LEMMA InitTyped == ASSUME Init PROVE Typed /\ ClaimsStand
  <1>1. DOMAIN deliv = {} /\ deliv \in [DOMAIN deliv -> Row]
    BY DEF Init
  <1> QED BY <1>1 DEF Init, Typed, ClaimsStand, NoRequest, NoEnrol

(* The outcome recorded for a delivery stays, on either database: no worker  *)
(* whose claim passed to another writes over what the other recorded         *)
(* (push_service.py: WHERE claim_token).                                     *)
THEOREM SettledAlwaysStays == Spec => SettledStays
  <1>1. Init => Typed /\ ClaimsStand
    BY InitTyped
  <1>2. (Typed /\ ClaimsStand) /\ [Next]_vars => (Typed /\ ClaimsStand)'
    BY TypedKept, ClaimsKept
  <1>3. (Typed /\ ClaimsStand) /\ [Next]_vars =>
          [\A k \in DOMAIN deliv \cap DOMAIN deliv' :
              deliv[k].status \in Settled => deliv'[k].status = deliv[k].status]_vars
    BY SettledKept
  <1> QED BY <1>1, <1>2, <1>3, PTL DEF Spec, SettledStays

-----------------------------------------------------------------------------
(* Ids on PostgreSQL.                                                        *)
LEMMA EnrolReadNew == ASSUME RowLocks, Typed, NEW d \in Devices, EnrolRead(d), reg[d] = 0
    PROVE  enrol'.id = lastId + 1
  <1>1. enrol'.id = NextId
    BY EnrolReadTyped
  <1> QED BY <1>1 DEF NextId

(* What a step does to the registrations and to which rows there are.        *)
Stays == UNCHANGED <<reg, lastId, enrol>> /\ DOMAIN deliv' = DOMAIN deliv
Removes == (\E id \in Ids : Forgets(id)) /\ UNCHANGED <<lastId, enrol, expired>>
LEMMA RegistrySteps == ASSUME Typed, RegistryStands, [Next]_vars
    PROVE  /\ expired \subseteq expired'
           /\ Stays \/ RequestCommit \/ EnrolRollBack \/ EnrolCommit \/ Removes
              \/ \E d \in Devices : EnrolRead(d)
  <1>1. RequestHandler \/ Expire \/ UNCHANGED vars => Stays /\ expired \subseteq expired'
    BY DEF RequestHandler, RequestRead, RequestRollBack, RequestOwn, ConfirmPayment,
           RejectPayment, UpdatePayment, outboxVars, workerVars, Expire, vars, Stays
  <1>2. \A d \in Devices : Unsubscribe(d) => Removes
    BY LeavingForgets DEF Removes
  <1>3. \A w \in Workers : Check(w) \/ Crash(w) => Stays /\ UNCHANGED expired
    BY DEF Check, Crash, tables, Stays
  <1>4. \A w \in Workers : Claim(w) \/ Send(w) => Stays /\ UNCHANGED expired
    BY ClaimTyped, SendTyped DEF tables, Stays
  <1>5. \A w \in Workers : Finishes(w) => Stays /\ UNCHANGED expired
    BY RowRecorded DEF Finishes, tables, Stays
  <1>6. \A w \in Workers : SettleGone(w) => Removes
    BY GoneForgets DEF tables, Removes
  <1>7. /\ RequestCommit \/ EnrolRollBack \/ EnrolCommit => UNCHANGED expired
        /\ \A d \in Devices : EnrolRead(d) => UNCHANGED expired
    BY DEF RequestCommit, EnrolRollBack, EnrolCommit, EnrolRead
  <1>8. Removes => UNCHANGED expired
    BY DEF Removes
  <1> HIDE DEF Stays, Removes
  <1>9. Stays \/ RequestCommit \/ EnrolRollBack \/ EnrolCommit \/ Removes
        \/ \E d \in Devices : EnrolRead(d)
    BY <1>1, <1>2, <1>3, <1>4, <1>5, <1>6, Steps, ZenonT(60)
  <1>10. expired \subseteq expired'
    <2>1. RequestCommit \/ EnrolRollBack \/ EnrolCommit => expired \subseteq expired'
      BY <1>7
    <2>2. \A d \in Devices : EnrolRead(d) \/ Unsubscribe(d) => expired \subseteq expired'
      BY <1>2, <1>7, <1>8
    <2>3. \A w \in Workers : Claim(w) \/ Check(w) \/ Send(w) \/ Finishes(w) \/ SettleGone(w) \/ Crash(w)
            => expired \subseteq expired'
      BY <1>3, <1>4, <1>5, <1>6, <1>8
    <2> QED BY <1>1, <2>1, <2>2, <2>3, Steps, ZenonT(60)
  <1> QED BY <1>9, <1>10

LEMMA RegistryKept == ASSUME RowLocks, Typed, RegistryStands, [Next]_vars PROVE RegistryStands'
  <1>1. \A d \in Devices : reg[d] \in Nat
    BY DEF Typed, Ids
  <1>2. CASE UNCHANGED <<reg, lastId, enrol>>
    BY <1>2 DEF RegistryStands
  <1>3. CASE EnrolRollBack
    BY <1>3 DEF EnrolRollBack, NoEnrol, RegistryStands
  <1>4. CASE EnrolCommit
    <2>1. /\ reg' = [reg EXCEPT ![enrol.device] = enrol.id]
          /\ enrol.open /\ enrol.device \in Devices /\ ~enrol'.open /\ UNCHANGED lastId
          /\ (enrol.fresh \/ reg[enrol.device] = enrol.id)
      BY <1>4, EnrolCommitTyped DEF EnrolCommit
    <2>2. \A d \in Devices : reg'[d] = IF d = enrol.device THEN enrol.id ELSE reg[d]
      BY <2>1 DEF Typed
    <2>3. \A d \in Devices : d # enrol.device => reg[d] # enrol.id \/ enrol.id = 0
      BY <2>1 DEF RegistryStands
    <2> QED BY <2>1, <2>2, <2>3 DEF RegistryStands
  <1>5. CASE \E d \in Devices : EnrolRead(d)
    <2>1. PICK d \in Devices : EnrolRead(d)
      BY <1>5
    <2>2. /\ UNCHANGED reg /\ lastId' >= lastId /\ enrol'.id <= lastId' /\ enrol'.device = d
          /\ enrol'.fresh => reg[d] = 0
          /\ lastId \in Nat /\ lastId' \in Nat
      BY <2>1, EnrolReadTyped DEF Typed
    <2>3. enrol'.fresh => \A e \in Devices : reg[e] # enrol'.id
      BY <1>1, <2>1, <2>2, EnrolReadNew DEF RegistryStands
    <2>4. \A e \in Devices : reg[e] <= lastId'
      BY <1>1, <2>2 DEF RegistryStands
    <2> QED BY <2>2, <2>3, <2>4 DEF RegistryStands
  <1>6. CASE Removes
    <2>1. /\ \A d \in Devices : reg'[d] = reg[d] \/ reg'[d] = 0
          /\ UNCHANGED <<lastId, enrol>>
      BY <1>6 DEF Removes, Forgets
    <2>2. lastId \in Nat /\ (enrol.open => enrol.id # 0 /\ enrol.device \in Devices)
      BY DEF Typed, Ids
    <2> QED BY <1>6, <2>1, <2>2 DEF RegistryStands
  <1>7. Stays => UNCHANGED <<reg, lastId, enrol>>
    BY DEF Stays
  <1>8. RequestCommit => UNCHANGED <<reg, lastId, enrol>>
    BY DEF RequestCommit
  <1> QED BY <1>2, <1>3, <1>4, <1>5, <1>6, <1>7, <1>8, RegistrySteps

(* Rows, and the notices they are of.                                        *)
LEMMA RowsKept == ASSUME RowLocks, Typed, RegistryStands, RowsStand, [Next]_vars PROVE RowsStand'
  <1>1. \A n, d : Late(n, d) => Late(n, d)'
    BY RegistrySteps DEF Late
  <1>2. \A k \in DOMAIN deliv : k[2] \in Ids
    BY DEF Typed, Deliveries
  <1>3. (enrol.open /\ enrol.notice # NoNotice => Late(enrol.notice, enrol.device))'
    <2>1. CASE UNCHANGED enrol
      BY <1>1, <2>1 DEF RowsStand
    <2>2. CASE EnrolRollBack \/ EnrolCommit
      BY <2>2 DEF EnrolRollBack, EnrolCommit, NoEnrol
    <2>3. CASE \E d \in Devices : EnrolRead(d)
      BY <1>1, <2>3, EnrolReadTyped DEF Late
    <2> QED BY <2>1, <2>2, <2>3, RegistrySteps DEF Stays, Removes, RequestCommit
  <1> SUFFICES ASSUME NEW k \in DOMAIN deliv'
               PROVE  \E d \in Devices : reg'[d] = k[2] /\ Late(k[1], d)'
    BY <1>3 DEF RowsStand
  <1>4. CASE k \in DOMAIN deliv /\ UNCHANGED reg
    BY <1>1, <1>4 DEF RowsStand
  <1>5. CASE RequestCommit
    <2>1. CASE k \notin DOMAIN deliv
      <3>1. k \in {<<request.rev, "all">>} \X request.ids /\ request.ids \subseteq Registered /\ UNCHANGED reg
        BY <1>5, <2>1, CommitTyped, RowsAdded DEF RequestCommit
      <3>2. PICK d \in Devices : reg[d] = k[2]
        BY <3>1 DEF Registered
      <3> QED BY <3>1, <3>2 DEF Late
    <2> QED BY <1>4, <1>5, <2>1 DEF RequestCommit
  <1>6. CASE EnrolCommit
    <2>1. /\ reg' = [reg EXCEPT ![enrol.device] = enrol.id] /\ enrol.device \in Devices
          /\ enrol.open /\ (enrol.fresh \/ reg[enrol.device] = enrol.id)
      BY <1>6, EnrolCommitTyped DEF EnrolCommit
    <2>2. \A d \in Devices : reg'[d] = IF d = enrol.device THEN enrol.id ELSE reg[d]
      BY <2>1 DEF Typed
    <2>3. CASE k \in DOMAIN deliv
      <3>1. PICK d \in Devices : reg[d] = k[2] /\ Late(k[1], d)
        BY <2>3 DEF RowsStand
      <3>2. reg'[d] = reg[d]
        BY <1>2, <2>1, <2>2, <2>3, <3>1 DEF RegistryStands, Ids
      <3> QED BY <1>1, <3>1, <3>2
    <2>4. CASE k \notin DOMAIN deliv
      <3>1. k \in ({enrol.notice} \ {NoNotice}) \X {enrol.id}
        BY <1>6, <2>4, EnrolCommitTyped, RowsAdded
      <3>2. PICK d \in Devices : d = enrol.device
        BY <2>1
      <3>3. k[1] = enrol.notice /\ k[2] = enrol.id /\ enrol.notice # NoNotice
        BY <3>1
      <3>4. Late(k[1], d)
        <4>1. Late(enrol.notice, enrol.device)
          BY <2>1, <3>3 DEF RowsStand
        <4> QED BY <3>2, <3>3, <4>1 DEF Late
      <3>5. reg'[d] = k[2]
        BY <2>2, <3>2, <3>3
      <3> QED BY <1>1, <3>4, <3>5
    <2> QED BY <2>3, <2>4
  <1>7. CASE Removes
    <2>1. PICK id \in Ids : Forgets(id)
      BY <1>7 DEF Removes
    <2>2. k \in DOMAIN deliv /\ k[2] # id
      BY <2>1, RowsRemoved DEF Forgets
    <2>3. PICK d \in Devices : reg[d] = k[2] /\ Late(k[1], d)
      BY <2>2 DEF RowsStand
    <2>4. reg'[d] = reg[d]
      BY <2>1, <2>2, <2>3 DEF Forgets
    <2> QED BY <1>1, <2>3, <2>4
  <1>8. CASE EnrolRollBack \/ \E d \in Devices : EnrolRead(d)
    BY <1>4, <1>8 DEF EnrolRollBack, EnrolRead
  <1>9. CASE Stays
    BY <1>4, <1>9 DEF Stays
  <1> QED BY <1>5, <1>6, <1>7, <1>8, <1>9, RegistrySteps

(* A device has at most one notice of a request that has not expired: the    *)
(* one for it alone comes only after the request's own has expired, and an   *)
(* id never belongs to two devices.                                          *)
LEMMA OneLive == ASSUME Typed, RegistryStands, RowsStand PROVE OneLivePush
  <1> SUFFICES ASSUME NEW k \in DOMAIN deliv, NEW j \in DOMAIN deliv,
                      k # j, k[2] = j[2], k[1][1] = j[1][1], k[1] \notin expired, j[1] \notin expired
               PROVE  FALSE
    BY DEF OneLivePush
  <1>1. /\ k = <<<<k[1][1], k[1][2]>>, k[2]>> /\ j = <<<<j[1][1], j[1][2]>>, j[2]>>
        /\ k[2] \in Ids
    BY DEF Typed, Deliveries, Notices
  <1>2. PICK d \in Devices : reg[d] = k[2] /\ Late(k[1], d)
    BY DEF RowsStand
  <1>3. PICK e \in Devices : reg[e] = j[2] /\ Late(j[1], e)
    BY DEF RowsStand
  <1>4. d = e
    BY <1>1, <1>2, <1>3 DEF RegistryStands, Ids
  <1>5. k[1][2] # j[1][2]
    BY <1>1
  <1>6. k[1] = <<k[1][1], k[1][2]>> /\ j[1] = <<j[1][1], j[1][2]>>
    BY <1>1
  <1> QED BY <1>2, <1>3, <1>4, <1>5, <1>6 DEF Late

-----------------------------------------------------------------------------
(* Workers and the rows they work on.                                        *)
LEMMA WorkerSteps == ASSUME Typed, RegistryStands, [Next]_vars
    PROVE  \A w \in Workers : worker'[w].pc # "idle" =>
              \/ worker[w].pc # "idle" /\ worker'[w].key = worker[w].key
              \/ worker'[w].key \in DOMAIN deliv /\ Stays
  <1>1. CASE UNCHANGED worker
    BY <1>1
  <1>2. ASSUME NEW v \in Workers, worker' = [worker EXCEPT ![v] = Resting]
        PROVE  \A w \in Workers : worker'[w].pc # "idle" =>
                  worker[w].pc # "idle" /\ worker'[w].key = worker[w].key
    BY <1>2, RestTyped DEF Resting
  <1>3. ASSUME NEW v \in Workers, Claim(v)
        PROVE  \A w \in Workers : worker'[w].pc # "idle" =>
                  \/ worker[w].pc # "idle" /\ worker'[w].key = worker[w].key
                  \/ worker'[w].key \in DOMAIN deliv /\ Stays
    <2>1. Stays
      BY <1>3, ClaimTyped DEF tables, Stays
    <2>2. PICK k \in DOMAIN deliv : worker' = [worker EXCEPT ![v] = [pc |-> "claimed", key |-> k]]
      BY <1>3, ClaimTyped
    <2> QED BY <2>1, <2>2 DEF Typed
  <1>4. ASSUME NEW v \in Workers, Check(v) \/ Send(v)
        PROVE  \A w \in Workers : worker'[w].pc # "idle" =>
                  worker[w].pc # "idle" /\ worker'[w].key = worker[w].key
    <2>1. /\ \A w \in Workers \ {v} : worker'[w] = worker[w]
          /\ worker[v].pc # "idle"
          /\ worker'[v] = Resting \/ worker'[v].key = worker[v].key
      BY <1>4, CheckTyped, SendTyped
    <2> QED BY <2>1 DEF Resting
  <1>5. \A v \in Workers : Finishes(v) \/ SettleGone(v) \/ Crash(v) => worker' = [worker EXCEPT ![v] = Resting]
    BY DEF Finishes, SettleGone, Crash
  <1>6. RequestHandler \/ RequestCommit \/ EnrolCommit \/ EnrolRollBack \/ Expire \/ UNCHANGED vars
          => UNCHANGED worker
    BY DEF RequestHandler, RequestRead, RequestCommit, RequestRollBack, RequestOwn, ConfirmPayment,
           RejectPayment, UpdatePayment, outboxVars, workerVars, EnrolCommit, EnrolRollBack, Expire, vars
  <1>7. \A d \in Devices : EnrolRead(d) \/ Unsubscribe(d) => UNCHANGED worker
    BY DEF EnrolRead, Unsubscribe, workerVars
  <1>8. \/ UNCHANGED worker \/ \E v \in Workers : worker' = [worker EXCEPT ![v] = Resting]
        \/ \E v \in Workers : Claim(v) \/ Check(v) \/ Send(v)
    BY <1>5, <1>6, <1>7, Steps
  <1> QED BY <1>1, <1>2, <1>3, <1>4, <1>8

LEMMA WorkersKept == ASSUME RowLocks, Typed, RegistryStands, RowsStand, WorkersStand, [Next]_vars
    PROVE WorkersStand'
  <1> DEFINE Stands(k) == /\ k[2] <= lastId
                          /\ k[2] \in Registered => k \in DOMAIN deliv
                          /\ enrol.open /\ enrol.fresh => k[2] # enrol.id
  <1>1. SUFFICES \A k \in Deliveries : (\E w \in Workers : worker'[w].pc # "idle" /\ worker'[w].key = k)
                    => Stands(k)'
    BY TypedKept, WorkerTyped DEF WorkersStand, Typed, Claimed, Checked, Resting
  <1>2. \A k \in Deliveries : k[2] \in Ids
    BY DEF Deliveries
  <1>3. \A k \in DOMAIN deliv : k \in Deliveries /\ Stands(k)
    BY <1>2 DEF Typed, RowsStand, RegistryStands
  <1>4. \A k \in Deliveries : (\E w \in Workers : worker'[w].pc # "idle" /\ worker'[w].key = k)
          => Stands(k)
    BY <1>3, WorkerSteps DEF WorkersStand
  <1> SUFFICES ASSUME NEW k \in Deliveries, Stands(k) PROVE Stands(k)'
    BY <1>4
  <1>5. k[2] \in Nat /\ k[2] # 0 /\ lastId \in Nat
    BY <1>2 DEF Ids, Typed
  <1>6. CASE Stays
    BY <1>6 DEF Stays, Registered
  <1>7. CASE RequestCommit
    <2>1. UNCHANGED <<reg, lastId, enrol>> /\ DOMAIN deliv \subseteq DOMAIN deliv'
      BY <1>7, CommitTyped, RowsAdded DEF RequestCommit, workerVars
    <2> QED BY <2>1 DEF Registered
  <1>8. CASE EnrolRollBack
    BY <1>8 DEF EnrolRollBack, NoEnrol, Registered
  <1>9. CASE EnrolCommit
    <2>1. /\ reg' = [reg EXCEPT ![enrol.device] = enrol.id] /\ enrol.device \in Devices
          /\ enrol.open /\ (enrol.fresh \/ reg[enrol.device] = enrol.id)
          /\ ~enrol'.open /\ UNCHANGED lastId /\ DOMAIN deliv \subseteq DOMAIN deliv'
      BY <1>9, EnrolCommitTyped, RowsAdded DEF EnrolCommit
    <2>2. \A d \in Devices : reg'[d] = IF d = enrol.device THEN enrol.id ELSE reg[d]
      BY <2>1 DEF Typed
    <2>3. ASSUME k[2] \in Registered' PROVE k[2] \in Registered
      <3>1. PICK d \in Devices : reg'[d] = k[2]
        BY <2>3 DEF Registered
      <3>2. reg[d] = k[2]
        BY <2>1, <2>2, <3>1
      <3> QED BY <1>5, <3>2 DEF Registered
    <2> QED BY <2>1, <2>3
  <1>10. CASE Removes
    <2>1. PICK id \in Ids : Forgets(id)
      BY <1>10 DEF Removes
    <2>2. DOMAIN deliv' = {j \in DOMAIN deliv : j[2] # id} /\ UNCHANGED <<lastId, enrol>>
      BY <1>10, <2>1, RowsRemoved DEF Forgets, Removes
    <2>3. ASSUME k[2] \in Registered' PROVE k[2] \in Registered /\ k[2] # id
      BY <1>5, <2>1, <2>3 DEF Forgets, Registered
    <2> QED BY <2>2, <2>3
  <1>11. CASE \E d \in Devices : EnrolRead(d)
    <2>1. PICK d \in Devices : EnrolRead(d)
      BY <1>11
    <2>2. /\ UNCHANGED <<reg, deliv>> /\ lastId' >= lastId /\ lastId' \in Nat
          /\ enrol'.fresh => reg[d] = 0
      BY <2>1, EnrolReadTyped DEF Typed
    <2>3. enrol'.fresh => enrol'.id = lastId + 1
      BY <2>1, <2>2, EnrolReadNew
    <2>4. k[2] <= lastId' /\ (enrol'.fresh => k[2] # enrol'.id)
      BY <1>5, <2>2, <2>3
    <2> QED BY <2>2, <2>4 DEF Registered
  <1> QED BY <1>6, <1>7, <1>8, <1>9, <1>10, <1>11, RegistrySteps

-----------------------------------------------------------------------------
(* Sends.                                                                    *)
LEMMA SendingFinite == ASSUME NEW k
    PROVE  IsFiniteSet(Sending(k)) /\ Cardinality(Sending(k)) \in Nat
           /\ (Sending(k) = {} => Cardinality(Sending(k)) = 0)
  <1>1. Sending(k) \subseteq Workers /\ IsFiniteSet(Workers)
    BY DEF Sending
  <1>2. IsFiniteSet(Sending(k))
    BY <1>1, FS_Subset
  <1> QED BY <1>2, FS_CardinalityType, FS_EmptySet

(* A row of which nothing moves but the claim and an attempt, and nobody     *)
(* begins to send it, keeps its count.                                       *)
CountedOf(k) ==
    LET sends == deliv[k].sends + Cardinality(Sending(k)) IN
    /\ sends <= MaxAttempts
    /\ sends <= deliv[k].attempts
    /\ MaySend(k) => sends + 1 <= deliv[k].attempts
LEMMA CountKept ==
    ASSUME Typed, NEW k \in DOMAIN deliv, CountedOf(k), k \in DOMAIN deliv',
           deliv'[k].sends = deliv[k].sends, deliv'[k].attempts = deliv[k].attempts,
           Sending(k)' \subseteq Sending(k), MaySend(k)' => MaySend(k)
    PROVE  CountedOf(k)'
  <1>1. deliv[k].sends \in Nat /\ deliv[k].attempts \in Nat
    BY DEF Typed, Row
  <1>2. Cardinality(Sending(k)') <= Cardinality(Sending(k))
        /\ Cardinality(Sending(k)') \in Nat /\ Cardinality(Sending(k)) \in Nat
    BY SendingFinite, FS_Subset, FS_CardinalityType
  <1> QED BY <1>1, <1>2 DEF CountedOf

LEMMA CountedKept ==
    ASSUME RowLocks, Typed, RegistryStands, RowsStand, WorkersStand, Counted, [Next]_vars
    PROVE  Counted'
  <1>1. \A k \in DOMAIN deliv : CountedOf(k) /\ deliv[k] \in Row /\ k \in Deliveries
    BY DEF Counted, CountedOf, Typed
  <1> SUFFICES ASSUME NEW k \in DOMAIN deliv' PROVE CountedOf(k)'
    BY DEF Counted, CountedOf
  <1>2. CASE k \in DOMAIN deliv /\ UNCHANGED <<deliv, worker>>
    BY <1>1, <1>2, CountKept DEF Sending, MaySend
  <1>3. ASSUME NEW v \in Workers, worker' = [worker EXCEPT ![v] = Resting], k \in DOMAIN deliv,
               deliv'[k].sends = deliv[k].sends, deliv'[k].attempts = deliv[k].attempts,
               deliv'[k] = deliv[k] \/ deliv'[k].token = NoWorker
        PROVE  CountedOf(k)'
    <2>1. Sending(k)' \subseteq Sending(k)
      BY <1>3, RestTyped DEF Sending, Resting
    <2>2. MaySend(k)' => MaySend(k)
      BY <1>3, RestTyped DEF MaySend, Resting
    <2> QED BY <1>1, <1>3, <2>1, <2>2, CountKept
  <1>4. CASE k \notin DOMAIN deliv
    <2>1. deliv'[k] = NewDelivery
      BY <1>4, RowSteps
    <2>2. \A w \in Workers : worker'[w].pc # "idle" => worker'[w].key # k
      <3>1. CASE RequestCommit
        <4>1. k \in {<<request.rev, "all">>} \X request.ids /\ request.ids \subseteq Registered
              /\ UNCHANGED worker
          BY <1>4, <3>1, CommitTyped, RowsAdded DEF RequestCommit, workerVars
        <4>2. k[2] \in Registered
          BY <4>1
        <4> QED BY <1>4, <4>1, <4>2 DEF WorkersStand
      <3>2. CASE EnrolCommit
        <4>1. k \in ({enrol.notice} \ {NoNotice}) \X {enrol.id} /\ UNCHANGED worker
          BY <1>4, <3>2, EnrolCommitTyped, RowsAdded
        <4>2. k[2] = enrol.id /\ enrol.id \in Ids /\ enrol.device \in Devices /\ enrol.open
              /\ (enrol.fresh \/ reg[enrol.device] = enrol.id)
          BY <3>2, <4>1, EnrolCommitTyped DEF EnrolCommit
        <4>3. enrol.fresh \/ k[2] \in Registered
          BY <4>2 DEF Registered, Ids
        <4> QED BY <1>4, <4>1, <4>2, <4>3 DEF WorkersStand
      <3>3. CASE Removes
        BY <1>4, <3>3, RowsRemoved DEF Removes, Forgets
      <3>4. CASE Stays \/ EnrolRollBack \/ \E d \in Devices : EnrolRead(d)
        BY <1>4, <3>4 DEF Stays, EnrolRollBack, EnrolRead
      <3> QED BY <3>1, <3>2, <3>3, <3>4, RegistrySteps
    <2>3. Sending(k)' = {} /\ ~MaySend(k)'
      BY <2>2 DEF Sending, MaySend
    <2>4. Cardinality(Sending(k)') = 0
      BY <2>3, FS_EmptySet
    <2> QED BY <2>1, <2>3, <2>4 DEF CountedOf, NewDelivery
  <1>5. ASSUME NEW w \in Workers, Claim(w), k \in DOMAIN deliv PROVE CountedOf(k)'
    <2>1. PICK j \in DOMAIN deliv :
            /\ deliv'[j] = [deliv[j] EXCEPT !.status = "sending", !.token = w, !.attempts = @ + 1]
            /\ \A i \in DOMAIN deliv \ {j} : deliv'[i] = deliv[i]
            /\ worker' = [worker EXCEPT ![w] = [pc |-> "claimed", key |-> j]]
      BY <1>5, ClaimTyped
    <2>2. /\ worker'[w] = [pc |-> "claimed", key |-> j]
          /\ \A v \in Workers \ {w} : worker'[v] = worker[v]
      BY <2>1 DEF Typed
    <2>3. Sending(k)' \subseteq Sending(k)
      BY <2>2 DEF Sending
    <2>4. CASE k # j
      <3>1. MaySend(k)' => MaySend(k)
        BY <2>1, <2>2, <2>4, <1>5 DEF MaySend
      <3>2. deliv'[k] = deliv[k]
        BY <1>5, <2>1, <2>4
      <3> QED BY <1>1, <1>5, <2>3, <3>1, <3>2, CountKept
    <2>5. CASE k = j
      <3>1. deliv[k] \in Row /\ CountedOf(k)
        BY <1>1, <1>5
      <3>2. deliv'[k].sends = deliv[k].sends /\ deliv'[k].attempts = deliv[k].attempts + 1
            /\ deliv[k].sends \in Nat /\ deliv[k].attempts \in Nat
        BY <2>1, <2>5, <3>1 DEF Row
      <3>3. Cardinality(Sending(k)') <= Cardinality(Sending(k))
            /\ Cardinality(Sending(k)') \in Nat /\ Cardinality(Sending(k)) \in Nat
        BY <2>3, SendingFinite, FS_Subset, FS_CardinalityType
      <3> QED BY <3>1, <3>2, <3>3 DEF CountedOf
    <2> QED BY <2>4, <2>5
  <1>6. ASSUME NEW w \in Workers, Check(w), k \in DOMAIN deliv PROVE CountedOf(k)'
    <2>1. /\ worker[w].pc = "claimed" /\ UNCHANGED deliv
          /\ \A v \in Workers \ {w} : worker'[v] = worker[v]
          /\ \/ worker'[w] = Resting
             \/ /\ Holds(w)
                /\ worker'[w].key = worker[w].key
                /\ \/ worker'[w].pc = "drop"
                   \/ worker'[w].pc = "send" /\ deliv[worker[w].key].attempts <= MaxAttempts
      BY <1>6, CheckTyped
    <2>2. MaySend(k)' => MaySend(k)
      BY <2>1 DEF MaySend, Resting
    <2>3. CASE worker'[w].pc # "send" \/ worker[w].key # k
      <3>1. Sending(k)' \subseteq Sending(k)
        BY <2>1, <2>3 DEF Sending, Resting
      <3> QED BY <1>1, <1>6, <2>1, <2>2, <3>1, CountKept
    <2>4. CASE worker'[w].pc = "send" /\ worker[w].key = k
      <3>1. Sending(k)' = Sending(k) \cup {w} /\ w \notin Sending(k)
        BY <2>1, <2>4 DEF Sending, Resting
      <3>2. Cardinality(Sending(k)') = Cardinality(Sending(k)) + 1
        BY <3>1, SendingFinite, FS_AddElement
      <3>3. MaySend(k) /\ deliv[k].attempts <= MaxAttempts
        BY <2>1, <2>4 DEF MaySend, Holds, Resting
      <3>4. ~MaySend(k)'
        BY <2>1, <2>4, <3>3 DEF MaySend, Holds, Resting
      <3>5. deliv[k].sends \in Nat /\ deliv[k].attempts \in Nat /\ CountedOf(k)
        BY <1>1, <1>6 DEF Row
      <3>6. deliv[k].sends + Cardinality(Sending(k)) + 1 <= deliv[k].attempts
        BY <3>3, <3>5 DEF CountedOf
      <3> QED BY <2>1, <3>2, <3>3, <3>4, <3>5, <3>6, SendingFinite DEF CountedOf
    <2> QED BY <2>3, <2>4
  <1>7. ASSUME NEW w \in Workers, Send(w), k \in DOMAIN deliv PROVE CountedOf(k)'
    <2>1. /\ worker[w].pc = "send"
          /\ deliv'[k] = IF k = worker[w].key THEN [deliv[k] EXCEPT !.sends = @ + 1] ELSE deliv[k]
          /\ \A v \in Workers \ {w} : worker'[v] = worker[v]
          /\ worker'[w].pc \in Outcomes /\ worker'[w].key = worker[w].key
      BY <1>7, SendTyped
    <2>2. deliv[k] \in Row /\ CountedOf(k)
      BY <1>1, <1>7
    <2>3. deliv'[k].token = deliv[k].token /\ deliv'[k].attempts = deliv[k].attempts
      BY <2>1, <2>2 DEF Row
    <2>4. MaySend(k)' => MaySend(k)
      BY <2>1, <2>3 DEF MaySend, Outcomes
    <2>5. CASE k # worker[w].key
      <3>1. Sending(k)' \subseteq Sending(k) /\ deliv'[k].sends = deliv[k].sends
        BY <2>1, <2>5 DEF Sending, Outcomes
      <3> QED BY <1>7, <2>2, <2>3, <2>4, <3>1, CountKept
    <2>6. CASE k = worker[w].key
      <3>1. deliv'[k].sends = deliv[k].sends + 1 /\ deliv[k].sends \in Nat /\ deliv[k].attempts \in Nat
        BY <2>1, <2>2, <2>6 DEF Row
      <3>2. Sending(k)' = Sending(k) \ {w} /\ w \in Sending(k)
        BY <2>1, <2>6 DEF Sending, Outcomes
      <3>3. Cardinality(Sending(k)') = Cardinality(Sending(k)) - 1
        BY <3>2, SendingFinite, FS_RemoveElement
      <3> QED BY <2>2, <2>3, <2>4, <3>1, <3>3, SendingFinite DEF CountedOf
    <2> QED BY <2>5, <2>6
  <1>8. ASSUME NEW w \in Workers, Finishes(w) \/ SettleGone(w) \/ Crash(w), k \in DOMAIN deliv
        PROVE  CountedOf(k)'
    <2>1. worker' = [worker EXCEPT ![w] = Resting]
      BY <1>8 DEF Finishes, SettleGone, Crash
    <2>2. CASE Finishes(w)
      BY <1>3, <1>8, <2>1, <2>2, RowRecorded DEF Finishes
    <2>3. CASE SettleGone(w)
      BY <1>3, <1>8, <2>1, <2>3, GoneForgets, RowsRemoved DEF Forgets
    <2>4. CASE Crash(w)
      BY <1>3, <1>8, <2>1, <2>4 DEF Crash
    <2> QED BY <1>8, <2>2, <2>3, <2>4
  <1>9. ASSUME UNCHANGED worker, k \in DOMAIN deliv, deliv'[k] = deliv[k] PROVE CountedOf(k)'
    BY <1>1, <1>9, CountKept DEF Sending, MaySend
  <1>10. RequestHandler \/ EnrolRollBack \/ Expire \/ UNCHANGED vars => UNCHANGED <<deliv, worker>>
    BY DEF RequestHandler, RequestRead, RequestRollBack, RequestOwn, ConfirmPayment,
           RejectPayment, UpdatePayment, outboxVars, workerVars, EnrolRollBack, Expire, vars
  <1>11. k \in DOMAIN deliv /\ (RequestCommit \/ EnrolCommit) => UNCHANGED worker /\ deliv'[k] = deliv[k]
    BY CommitTyped, EnrolCommitTyped, RowsAdded DEF RequestCommit, workerVars
  <1>12. \A d \in Devices : k \in DOMAIN deliv /\ (EnrolRead(d) \/ Unsubscribe(d))
            => UNCHANGED worker /\ deliv'[k] = deliv[k]
    BY EnrolReadTyped, LeavingForgets, RowsRemoved DEF Forgets
  <1>13. CASE k \in DOMAIN deliv
    BY <1>13, <1>2, <1>5, <1>6, <1>7, <1>8, <1>9, <1>10, <1>11, <1>12, Steps
  <1> QED BY <1>4, <1>13

-----------------------------------------------------------------------------
LEMMA InitIInv == ASSUME Init PROVE IInv
  <1>1. DOMAIN deliv = {}
    BY DEF Init
  <1>2. \A w \in Workers : worker[w].pc = "idle"
    BY DEF Init, Resting
  <1>3. RegistryStands
    BY DEF Init, RegistryStands, NoEnrol
  <1>4. RowsStand /\ Counted
    BY <1>1 DEF Init, RowsStand, Counted, NoEnrol
  <1>5. WorkersStand
    BY <1>2 DEF WorkersStand
  <1> QED BY <1>3, <1>4, <1>5, InitTyped DEF IInv

LEMMA IInvKept == ASSUME RowLocks, IInv, [Next]_vars PROVE IInv'
  BY TypedKept, ClaimsKept, RegistryKept, RowsKept, WorkersKept, CountedKept DEF IInv

LEMMA BoundedIn == ASSUME IInv PROVE SendsBounded
  <1> SUFFICES ASSUME NEW k \in DOMAIN deliv PROVE deliv[k].sends <= MaxAttempts
    BY DEF SendsBounded
  <1>1. deliv[k].sends \in Nat /\ deliv[k].sends + Cardinality(Sending(k)) <= MaxAttempts
    BY DEF IInv, Typed, Row, Counted
  <1> QED BY <1>1, SendingFinite

(* On PostgreSQL a delivery is handed to the provider at most MAX_ATTEMPTS   *)
(* times, through crashes, lapsed leases and workers that come back late     *)
(* (push_service.py: _claim_one, MAX_ATTEMPTS).                              *)
THEOREM SendsAlwaysBounded == ASSUME RowLocks PROVE Spec => []SendsBounded
  <1>1. Init => IInv
    BY InitIInv
  <1>2. IInv /\ [Next]_vars => IInv'
    BY IInvKept
  <1>3. IInv => SendsBounded
    BY BoundedIn
  <1> QED BY <1>1, <1>2, <1>3, PTL DEF Spec

(* On PostgreSQL a device never has two notices of one request that have not *)
(* expired, however registrations, requests and departures interleave        *)
(* (push_service.py: enqueue_outstanding_for_device).                        *)
THEOREM OneLivePushAlways == ASSUME RowLocks PROVE Spec => []OneLivePush
  <1>1. Init => IInv
    BY InitIInv
  <1>2. IInv /\ [Next]_vars => IInv'
    BY IInvKept
  <1>3. IInv => OneLivePush
    BY OneLive DEF IInv
  <1> QED BY <1>1, <1>2, <1>3, PTL DEF Spec
=============================================================================
