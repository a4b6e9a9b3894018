------------------------------- MODULE Outbox -------------------------------
(***************************************************************************)
(* The transactional outbox of web-push notices (services/push_service.py) *)
(* with the payment confirmations that feed it (services/                  *)
(* investment_service.py, api/v1/investments.py) and the delivery worker   *)
(* that drains it (main.py).                                               *)
(*                                                                         *)
(* One payment of one investor with one account.  A manager who says the   *)
(* money was sent opens a request; each request is a revision, the time it *)
(* was made.  The request's transaction queues a delivery for every device *)
(* registered then, and a device that registers later catches up on the    *)
(* request that is outstanding.  Workers claim a delivery under a lease,   *)
(* check it against the current data, call the push provider outside any   *)
(* transaction and record the outcome only if the claim is still theirs.   *)
(*                                                                         *)
(* Abstractions: the notice's text and the amounts are left out.  A        *)
(* pending date amendment makes every handler refuse (Agreement.tla), here *)
(* a request that does not happen; "scheduled" stands for skipped as well, *)
(* which no handler here tells apart.  Clocks are left out: a queued       *)
(* delivery may be due, a lease over and a notice expired at any moment.   *)
(* A worker tries ready rows lowest id first and moves on when another     *)
(* took one: any ready row may be the next.                                *)
(***************************************************************************)
EXTENDS Integers, FiniteSets, FiniteSetsExt

CONSTANTS
    RowLocks,       \* TRUE on PostgreSQL; FALSE on SQLite, which has one writer
    Devices,        \* the browsers of the account, fewer than MAX_SUBSCRIPTIONS
    Workers,        \* processes running _push_delivery_loop
    MaxAttempts,    \* MAX_ATTEMPTS
    MaxRevisions,   \* bound: payment requests
    MaxIds,         \* bound: registration ids
    MaxFaults       \* bound: worker crashes and leases outlived by their worker

NoWorker == "none"
ASSUME OutboxAssumption ==
    /\ RowLocks \in BOOLEAN
    /\ MaxAttempts \in Nat \ {0}
    /\ MaxRevisions \in Nat /\ MaxIds \in Nat /\ MaxFaults \in Nat
    /\ \A d \in Devices, w \in Workers : d # w
    /\ IsFiniteSet(Workers) /\ NoWorker \notin Workers /\ "all" \notin Devices

VARIABLES
    payment,    \* [status, requested]; requested is a revision, 0 for None
    lastRev,    \* revisions handed out
    reg,        \* device -> id of its registration, 0 when not registered
    lastId,     \* ids the sequence handed out
    notices,    \* <<revision, "all">>, or <<revision, device>> for a late catch-up
    expired,    \* the notices past expires_at
    deliv,      \* <<notice, registration id>> -> delivery row
    request,    \* the open transaction of a payment request
    enrol,      \* the open transaction of a registration
    worker,     \* worker -> where it is in run_pending_pushes
    faults

vars == <<payment, lastRev, reg, lastId, notices, expired, deliv, request, enrol,
          worker, faults>>

Revisions == 1..MaxRevisions
Ids == 1..MaxIds
Notices == Revisions \X ({"all"} \cup Devices)
Deliveries == Notices \X Ids
NoNotice == <<>>
NoDevice == "none"

Open == {"queued", "sending"}
Settled == {"sent", "failed", "cancelled"}
Outcomes == {"accepted", "gone", "retry", "refused"}

NoRequest == [open |-> FALSE, rev |-> 0, ids |-> {}]
NoEnrol == [open |-> FALSE, device |-> NoDevice, id |-> 0, fresh |-> FALSE, notice |-> NoNotice]
Resting == [pc |-> "idle"]
NewDelivery == [status |-> "queued", attempts |-> 0, token |-> NoWorker, sends |-> 0]

Registered == {reg[d] : d \in Devices} \ {0}

(* The one writer of SQLite.  BEGIN IMMEDIATE opens a request; the INSERT   *)
(* of a new registration takes the writer too.                              *)
WriterFree == RowLocks \/ ~(request.open \/ (enrol.open /\ enrol.fresh))

(* The investor's row, locked by every handler of a payment.                *)
PaymentFree == ~request.open /\ WriterFree

(* A confirmation is waiting, with the time it was asked for.               *)
Outstanding(r) == payment.status = "awaiting_confirmation" /\ payment.requested = r /\ r # 0

(* PostgreSQL draws ids from a sequence; SQLite's is one past the largest.  *)
NextId == IF RowLocks THEN lastId + 1 ELSE Max(Registered \cup {0}) + 1

(* _insert_ignore on deliveries: rows already there are kept.               *)
WithDeliveries(keys) ==
    [k \in DOMAIN deliv \cup keys |-> IF k \in DOMAIN deliv THEN deliv[k] ELSE NewDelivery]

(* ON DELETE CASCADE from a registration to its deliveries.                 *)
WithoutId(id) == [k \in {j \in DOMAIN deliv : j[2] # id} |-> deliv[k]]

(* The notice a registering device catches up on: the request's own, or one *)
(* for this device alone when the request's has expired.                    *)
(* Mutant: a catch-up always gets a notice of its own.                      *)
CatchUpNoticeOwn(r, d) == <<r, d>>
CatchUpNotice(r, d) ==
    IF <<r, "all">> \in notices /\ <<r, "all">> \in expired THEN <<r, d>> ELSE <<r, "all">>
-----------------------------------------------------------------------------
Init ==
    /\ payment = [status |-> "scheduled", requested |-> 0]
    /\ lastRev = 0
    /\ reg = [d \in Devices |-> 0]
    /\ lastId = 0
    /\ notices = {}
    /\ expired = {}
    /\ deliv = [k \in {} |-> NewDelivery]
    /\ request = NoRequest
    /\ enrol = NoEnrol
    /\ worker = [w \in Workers |-> Resting]
    /\ faults = 0

outboxVars == <<reg, lastId, notices, expired, deliv, enrol, worker, faults>>
workerVars == <<worker, faults>>
-----------------------------------------------------------------------------
(* request_payment_confirmation: the devices are read before the rows that  *)
(* refer to them are inserted.  A request already open keeps its revision.  *)
RequestRead ==
    /\ PaymentFree
    /\ payment.status # "paid"
    /\ \E r \in Revisions :
          /\ r = IF payment.requested = 0 THEN lastRev + 1 ELSE payment.requested
          /\ lastRev' = Max({lastRev, r})
          /\ request' = [open |-> TRUE, rev |-> r, ids |-> Registered]
    /\ UNCHANGED <<payment, outboxVars>>

(* The commit.  A device that is gone by now breaks the foreign key of its  *)
(* delivery and fails the whole request.                                    *)
RequestCommit ==
    /\ request.open
    /\ request.ids \subseteq Registered
    /\ payment' = [status |-> "awaiting_confirmation", requested |-> request.rev]
    /\ LET notice == <<request.rev, "all">>
       IN  /\ notices' = IF request.ids = {} THEN notices ELSE notices \cup {notice}
           /\ deliv' = WithDeliveries({notice} \X request.ids)
    /\ request' = NoRequest
    /\ UNCHANGED <<lastRev, reg, lastId, expired, enrol, workerVars>>

RequestRollBack ==
    /\ request.open
    /\ request' = NoRequest
    /\ UNCHANGED <<payment, lastRev, outboxVars>>

(* The same, by a manager for a payment of their own.                       *)
RequestOwn ==
    /\ PaymentFree
    /\ payment.status # "paid"
    /\ payment' = [status |-> "paid", requested |-> 0]
    /\ UNCHANGED <<lastRev, request, outboxVars>>

ConfirmPayment ==
    /\ PaymentFree
    /\ payment.status = "awaiting_confirmation"
    /\ payment' = [status |-> "paid", requested |-> 0]
    /\ UNCHANGED <<lastRev, request, outboxVars>>

RejectPayment ==
    /\ PaymentFree
    /\ payment.status = "awaiting_confirmation"
    /\ payment' = [status |-> "scheduled", requested |-> 0]
    /\ UNCHANGED <<lastRev, request, outboxVars>>

(* update_payment with a status other than paid: awaiting_confirmation is   *)
(* written as it comes, with no request behind it.                          *)
UpdatePayment ==
    /\ PaymentFree
    /\ \E s \in {"scheduled", "awaiting_confirmation"} :
          payment' = [status |-> s,
                      requested |-> IF s = "awaiting_confirmation" THEN payment.requested ELSE 0]
    /\ UNCHANGED <<lastRev, request, outboxVars>>
-----------------------------------------------------------------------------
(* subscribe and enqueue_outstanding_for_device, up to their commit.  The   *)
(* account's row lets one registration run at a time.  A device already     *)
(* registered writes nothing before it has read the outstanding request.    *)
EnrolRead(d) ==
    /\ ~enrol.open
    /\ LET fresh == reg[d] = 0
           id == IF fresh THEN NextId ELSE reg[d]
           r == payment.requested
       IN  /\ id \in Ids
           /\ fresh => WriterFree
           /\ lastId' = Max({lastId, id})
           /\ enrol' = [open |-> TRUE, device |-> d, id |-> id, fresh |-> fresh,
                        notice |-> IF Outstanding(r) THEN CatchUpNotice(r, d) ELSE NoNotice]
    /\ UNCHANGED <<payment, lastRev, reg, notices, expired, deliv, request, workerVars>>

(* A registration deleted meanwhile fails the update of its row.            *)
EnrolCommit ==
    /\ enrol.open
    /\ RowLocks \/ ~request.open
    /\ enrol.fresh \/ reg[enrol.device] = enrol.id
    /\ reg' = [reg EXCEPT ![enrol.device] = enrol.id]
    /\ LET new == {enrol.notice} \ {NoNotice}
       IN  /\ notices' = notices \cup new
           /\ deliv' = WithDeliveries(new \X {enrol.id})
    /\ enrol' = NoEnrol
    /\ UNCHANGED <<payment, lastRev, lastId, expired, request, workerVars>>

EnrolRollBack ==
    /\ enrol.open
    /\ enrol' = NoEnrol
    /\ UNCHANGED <<payment, lastRev, reg, lastId, notices, expired, deliv, request, workerVars>>

Unsubscribe(d) ==
    /\ WriterFree
    /\ reg[d] # 0
    /\ reg' = [reg EXCEPT ![d] = 0]
    /\ deliv' = WithoutId(reg[d])
    /\ UNCHANGED <<payment, lastRev, lastId, notices, expired, request, enrol, workerVars>>
-----------------------------------------------------------------------------
tables == <<payment, lastRev, lastId, notices, expired, request, enrol>>

(* A row is due when it is queued and its retry time has come, or when the  *)
(* lease on it is over: the worker that claimed it died, or it is one of    *)
(* the bounded faults that the lease ends under a worker still busy.        *)
BusyWith(k) == \E w \in Workers : worker[w].pc # "idle" /\ worker[w].key = k /\ deliv[k].token = w
Overtaken(k) == deliv[k].status = "sending" /\ BusyWith(k)
(* Mutant: a lease that is over is not taken over.                          *)
ReadyQueued(k) == deliv[k].status = "queued"
Ready(k) == deliv[k].status \in Open /\ (Overtaken(k) => faults < MaxFaults)

(* _payload: the account still has the device, and the notice is about the  *)
(* request that is outstanding now.                                         *)
HasPayload(k) == k[1] \notin expired /\ Outstanding(k[1][1])

(* WHERE id = ... AND claim_token = ...                                     *)
(* Mutant: the row is updated whoever holds it now.                         *)
HoldsUnchecked(w) == worker[w].key \in DOMAIN deliv
Holds(w) == worker[w].key \in DOMAIN deliv /\ deliv[worker[w].key].token = w

(* An update of the claimed row that does nothing when the claim is lost.   *)
Record(w, status) ==
    deliv' = IF Holds(w)
             THEN [deliv EXCEPT ![worker[w].key].status = status,
                                ![worker[w].key].token = NoWorker]
             ELSE deliv

(* _claim_one                                                               *)
(* Mutant: taking over a lapsed lease does not count as an attempt.         *)
ClaimUncounted(w) ==
    /\ worker[w].pc = "idle"
    /\ WriterFree
    /\ \E k \in DOMAIN deliv :
          /\ Ready(k)
          /\ deliv' = [deliv EXCEPT ![k].status = "sending", ![k].token = w,
                                    ![k].attempts = IF deliv[k].status = "sending" THEN @ ELSE @ + 1]
          /\ worker' = [worker EXCEPT ![w] = [pc |-> "claimed", key |-> k]]
          /\ faults' = IF Overtaken(k) THEN faults + 1 ELSE faults
    /\ UNCHANGED <<tables, reg>>
Claim(w) ==
    /\ worker[w].pc = "idle"
    /\ WriterFree
    /\ \E k \in DOMAIN deliv :
          /\ Ready(k)
          /\ deliv' = [deliv EXCEPT ![k].status = "sending", ![k].token = w, ![k].attempts = @ + 1]
          /\ worker' = [worker EXCEPT ![w] = [pc |-> "claimed", key |-> k]]
          /\ faults' = IF Overtaken(k) THEN faults + 1 ELSE faults
    /\ UNCHANGED <<tables, reg>>

(* The rows are read again after the claim has committed.                   *)
Check(w) ==
    /\ worker[w].pc = "claimed"
    /\ LET k == worker[w].key
           n == deliv[k].attempts
           sendable == HasPayload(k) /\ n <= MaxAttempts
       IN  worker' = [worker EXCEPT ![w] =
                        IF ~Holds(w) THEN Resting
                        ELSE [pc |-> IF sendable THEN "send" ELSE "drop", key |-> k, attempts |-> n]]
    /\ UNCHANGED <<tables, reg, deliv, faults>>

Drop(w) ==
    /\ worker[w].pc = "drop"
    /\ WriterFree
    /\ Record(w, IF worker[w].attempts <= MaxAttempts THEN "cancelled" ELSE "failed")
    /\ worker' = [worker EXCEPT ![w] = Resting]
    /\ UNCHANGED <<tables, reg, faults>>

(* _send_push, outside any transaction.  A retry stands for a refusal worth *)
(* retrying and for an answer that was lost after the push was accepted.    *)
Send(w) ==
    /\ worker[w].pc = "send"
    /\ deliv' = IF worker[w].key \in DOMAIN deliv
                THEN [deliv EXCEPT ![worker[w].key].sends = @ + 1] ELSE deliv
    /\ \E outcome \in Outcomes : worker' = [worker EXCEPT ![w].pc = outcome]
    /\ UNCHANGED <<tables, reg, faults>>

(* The provider no longer knows the endpoint: the registration and all of   *)
(* its deliveries go, whoever holds the claim.                              *)
SettleGone(w) ==
    /\ worker[w].pc = "gone"
    /\ WriterFree
    /\ reg' = [d \in Devices |-> IF reg[d] = worker[w].key[2] THEN 0 ELSE reg[d]]
    /\ deliv' = WithoutId(worker[w].key[2])
    /\ worker' = [worker EXCEPT ![w] = Resting]
    /\ UNCHANGED <<tables, faults>>

Settle(w) ==
    /\ WriterFree
    /\ \/ worker[w].pc = "accepted" /\ Record(w, "sent")
       \/ worker[w].pc = "retry" /\ Record(w, IF worker[w].attempts < MaxAttempts THEN "queued" ELSE "failed")
       \/ worker[w].pc = "refused" /\ Record(w, "failed")
    /\ worker' = [worker EXCEPT ![w] = Resting]
    /\ UNCHANGED <<tables, reg, faults>>

(* The process dies, or a database error ends this pass of the loop; the    *)
(* row keeps its claim until the lease is over.                             *)
Crash(w) ==
    /\ worker[w].pc # "idle"
    /\ faults < MaxFaults
    /\ worker' = [worker EXCEPT ![w] = Resting]
    /\ faults' = faults + 1
    /\ UNCHANGED <<tables, reg, deliv>>
-----------------------------------------------------------------------------
Expire ==
    /\ \E n \in notices \ expired : expired' = expired \cup {n}
    /\ UNCHANGED <<payment, lastRev, reg, lastId, notices, deliv, request, enrol, workerVars>>
-----------------------------------------------------------------------------
Work(w) == Claim(w) \/ Check(w) \/ Drop(w) \/ Send(w) \/ SettleGone(w) \/ Settle(w)

Next ==
    \/ RequestRead \/ RequestCommit \/ RequestRollBack \/ RequestOwn
    \/ ConfirmPayment \/ RejectPayment \/ UpdatePayment
    \/ \E d \in Devices : EnrolRead(d) \/ Unsubscribe(d)
    \/ EnrolCommit \/ EnrolRollBack
    \/ \E w \in Workers : Work(w) \/ Crash(w)
    \/ Expire

Spec == Init /\ [][Next]_vars

(* _push_delivery_loop never returns, catches every exception and comes     *)
(* back every five seconds, by when a retry has fallen due or a lease is    *)
(* over in the end.  On PostgreSQL no handler keeps a row from it; on       *)
(* SQLite the wait for the writer may time out again and again, and nothing *)
(* is claimed of the eventual there.                                        *)
Fairness == \A w \in Workers : WF_vars(Work(w))

FairSpec == Spec /\ Fairness
-----------------------------------------------------------------------------
(* A delivery is handed to the provider at most MAX_ATTEMPTS times, however *)
(* many workers take it over from each other, crash or outlive their lease. *)
SendsBounded == \A k \in DOMAIN deliv : deliv[k].sends <= MaxAttempts

(* While a notice of a request has not expired, a device has no second one  *)
(* of the same request: a registration repeated, or one that runs alongside *)
(* the request itself, does not make the phone ring twice.                  *)
OneLivePush ==
    \A k, j \in DOMAIN deliv :
        (k # j /\ k[2] = j[2] /\ k[1][1] = j[1][1]) => (k[1] \in expired \/ j[1] \in expired)

(* What was recorded of a delivery stays: a worker that comes back from a   *)
(* slow call after its lease passed to another does not reopen a delivery   *)
(* the other one settled, nor turn sent into failed.                        *)
SettledStays ==
    [][\A k \in DOMAIN deliv \cap DOMAIN deliv' :
          deliv[k].status \in Settled => deliv'[k].status = deliv[k].status]_vars

(* enqueue_outstanding_for_device: requests created before opt-in had no    *)
(* deliveries and are caught up on at registration, so a device that is     *)
(* registered while a request is outstanding has a delivery of it.          *)
OutstandingReachesDevice ==
    \A r \in Revisions, d \in Devices : (Outstanding(r) /\ reg[d] # 0) =>
        \E n \in notices : n[1] = r /\ <<n, reg[d]>> \in DOMAIN deliv

(* A queued delivery does not stay in the outbox: it is sent, fails, is     *)
(* cancelled or goes with its device, whatever crashed on the way.          *)
DeliveryEnds ==
    \A k \in Deliveries :
        (k \in DOMAIN deliv /\ deliv[k].status \in Open)
            ~> (k \notin DOMAIN deliv \/ deliv[k].status \in Settled)
=============================================================================
