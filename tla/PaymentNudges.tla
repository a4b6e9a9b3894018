---------------------------- MODULE PaymentNudges ----------------------------
(***************************************************************************)
(* The reminder of transfers that wait for their confirmation for three    *)
(* business days: the dialog over every page                               *)
(* (components/PaymentNudgeDialog.tsx), and the scan that each of its      *)
(* reads runs on the server, which writes one activity event per payment   *)
(* and day (services/israel_business_days.py, investment_service.py).      *)
(*                                                                         *)
(* Time is counted in half days of UTC: the second half is the next day in *)
(* Israel.  Day 0 is a Sunday.                                             *)
(***************************************************************************)
EXTENDS Naturals, FiniteSets

CONSTANTS Null,
          Owner,            \* payment -> its investor
          Started,          \* [now, asked]: asked says when each request was sent
          Manager, MaxNow, MaxScans, MaxEvents

VARIABLES view, server, calls
vars == <<view, server, calls>>
Async == INSTANCE AsyncData

Payments == DOMAIN Owner

(***************************************************************************)
(* Days.                                                                   *)
(***************************************************************************)
AsIsraelDate(time) == (time + 1) \div 2
Today == AsIsraelDate(server.now)

IsBusinessDay(day) == day % 7 \notin {5, 6}        \* Friday and Saturday

\* Those after the start, through today.
BusinessDaysElapsed(start, today) == Cardinality({d \in start + 1 .. today : IsBusinessDay(d)})

Due(p) == BusinessDaysElapsed(AsIsraelDate(server.asked[p]), Today) >= 3

\* list_payment_confirmation_nudges, of one investor or (Manager) of all.
Nudges(who) == {p \in Payments : /\ server.status[p] = "awaiting_confirmation" /\ Due(p)
                                 /\ who \in {Manager, Owner[p]}}

(***************************************************************************)
(* A read begins: what it answers, and the scan that goes with it.  The    *)
(* scan covers all investors, whoever reads.                               *)
(***************************************************************************)
Scan == [id |-> server.scans + 1, today |-> Today, items |-> Nudges(Manager), read |-> FALSE, saw |-> {}]
CanScan == server.scans < MaxScans
WithScan == [server EXCEPT !.scans = @ + 1]

Read(v) == [hook |-> "nudges", answer |-> Async!Answer(v.me, Nudges(v.me)), alive |-> TRUE, scan |-> Scan.id]

Reading(v) == /\ view' = [v EXCEPT !.hook = Async!Begun(@)]
              /\ server' = WithScan

(***************************************************************************)
(* The scan: the newest event of each payment is looked up, then those     *)
(* that are missing are written.  Two scans may run side by side.          *)
(***************************************************************************)
EventsOf(p) == {e \in server.log : e.payment = p}
Newest(p) == CHOOSE e \in EventsOf(p) : \A f \in EventsOf(p) : f.at <= e.at

\* Mutant: the stamp's own date is compared, which is that of UTC.
StampedOn(e) == e.at \div 2

NudgedOn(e) == AsIsraelDate(e.at)

ScanReads(s) ==
    /\ s \in calls.scans /\ ~s.read
    /\ calls' = [calls EXCEPT !.scans = (@ \ {s}) \cup
         {[s EXCEPT !.read = TRUE, !.saw = {e.scan : e \in server.log},
                    !.items = {p \in @ : EventsOf(p) # {} => NudgedOn(Newest(p)) # s.today}]}]
    /\ UNCHANGED <<view, server>>

ScanCommits(s) ==
    /\ s \in calls.scans /\ s.read
    /\ server' = [server EXCEPT !.log = @ \cup
         {[payment |-> p, at |-> server.now, scan |-> s.id, today |-> s.today, saw |-> s.saw] : p \in s.items}]
    /\ calls' = [calls EXCEPT !.scans = @ \ {s}]
    /\ UNCHANGED view

\* An error of the scan is logged and swallowed: the list is answered all the same.
ScanFails(s) ==
    /\ s \in calls.scans /\ calls.left > 0
    /\ calls' = [calls EXCEPT !.scans = @ \ {s}, !.left = @ - 1]
    /\ UNCHANGED <<view, server>>

(***************************************************************************)
(* The dialog.                                                             *)
(***************************************************************************)
Items == IF view.hook.data = Null THEN {} ELSE view.hook.data.rows

\* The list is hidden as long as it is the very list that was put off.
Open == Items # {} /\ view.dismissed # Items

\* Closing it, in whichever way, or going to the page of one payment.
Dismiss ==
    /\ Open
    /\ view' = [view EXCEPT !.dismissed = Items]
    /\ UNCHANGED <<server, calls>>

\* Only the row of the last click is disabled.
ConfirmMine(p) ==
    /\ calls.left > 0 /\ Open /\ view.me # Manager /\ p \in Items /\ view.busy # p
    /\ \A c \in calls.confirms : c.payment # p
    /\ view' = [view EXCEPT !.busy = p]
    /\ calls' = [calls EXCEPT !.left = @ - 1, !.confirms = @ \cup {[payment |-> p, outcome |-> "none"]}]
    /\ UNCHANGED server

ConfirmApplied(c) ==
    /\ c \in calls.confirms /\ c.outcome = "none"
    /\ LET ok == server.status[c.payment] = "awaiting_confirmation"
       IN /\ server' = IF ok THEN [server EXCEPT !.status[c.payment] = "paid"] ELSE server
          /\ calls' = [calls EXCEPT !.confirms = (@ \ {c}) \cup
                          {[c EXCEPT !.outcome = IF ok THEN "done" ELSE "refused"]}]
    /\ UNCHANGED view

ConfirmAnswered(c) ==
    /\ c \in calls.confirms /\ c.outcome = "done" /\ CanScan
    /\ Reading([view EXCEPT !.busy = Null, !.confirmed = @ \cup {c.payment}])
    /\ calls' = [calls EXCEPT !.confirms = @ \ {c}, !.scans = @ \cup {Scan},
                              !.loads = Async!Retired(@, {"nudges"}) \cup {Read(view)}]

\* Refused, or no answer came: a note, and the list stays as it is.
ConfirmFailed(c) ==
    /\ c \in calls.confirms /\ (c.outcome # "refused" => calls.left > 0)
    /\ view' = [view EXCEPT !.busy = Null]
    /\ calls' = [calls EXCEPT !.confirms = @ \ {c}, !.left = IF c.outcome = "refused" THEN @ ELSE @ - 1]
    /\ UNCHANGED server

\* The tab is loaded again, or somebody else signs in on it: what was put off is read back.
Remount(who) ==
    /\ calls.left > 0 /\ CanScan
    /\ LET blank == [view EXCEPT !.me = who, !.hook = Async!Unmounted, !.busy = Null, !.confirmed = {}]
       IN /\ Reading(blank)
          /\ calls' = [calls EXCEPT !.left = @ - 1, !.confirms = {}, !.loads = {Read(blank)}, !.scans = @ \cup {Scan}]

\* The list is sent when its scan is over.
ScanIsOver(l) == \A s \in calls.scans : s.id # l.scan

LoadDelivered(l) ==
    /\ l \in calls.loads /\ ScanIsOver(l)
    /\ view' = [view EXCEPT !.hook = Async!Delivered(@, l)]
    /\ calls' = [calls EXCEPT !.loads = @ \ {l}]
    /\ UNCHANGED server

LoadFailed(l) ==
    /\ l \in calls.loads /\ calls.left > 0
    /\ view' = [view EXCEPT !.hook = Async!Failed(@, l)]
    /\ calls' = [calls EXCEPT !.loads = @ \ {l}, !.left = @ - 1]
    /\ UNCHANGED server

(***************************************************************************)
(* Elsewhere: time passes, another browser reads the list or the server    *)
(* starts, a transfer is confirmed, denied or sent again.                  *)
(***************************************************************************)
Tick ==
    /\ server.now < MaxNow
    /\ server' = [server EXCEPT !.now = @ + 1]
    /\ UNCHANGED <<view, calls>>

OtherReads ==
    /\ CanScan
    /\ server' = WithScan
    /\ calls' = [calls EXCEPT !.scans = @ \cup {Scan}]
    /\ UNCHANGED view

Elsewhere ==
    /\ calls.left > 0
    /\ \E p \in Payments :
          \/ /\ server.status[p] = "awaiting_confirmation"
             /\ \E status \in {"paid", "scheduled"} : server' = [server EXCEPT !.status[p] = status]
          \/ /\ server.status[p] = "scheduled"
             /\ server' = [server EXCEPT !.status[p] = "awaiting_confirmation", !.asked[p] = server.now]
    /\ calls' = [calls EXCEPT !.left = @ - 1]
    /\ UNCHANGED view

Init ==
    /\ \E start \in Started :
          server = [now |-> start.now, asked |-> start.asked, scans |-> 1, log |-> {},
                    status |-> [p \in Payments |-> "awaiting_confirmation"]]
    /\ \E who \in {Owner[p] : p \in Payments} \cup {Manager} :
          /\ view = [me |-> who, hook |-> Async!Unmounted, dismissed |-> {}, busy |-> Null, confirmed |-> {}]
          /\ LET first == [Scan EXCEPT !.id = 1]
             IN calls = [left |-> MaxEvents, confirms |-> {}, scans |-> {first},
                         loads |-> {[Read(view) EXCEPT !.scan = 1]}]

Next ==
    \/ \E s \in calls.scans : ScanReads(s) \/ ScanCommits(s) \/ ScanFails(s)
    \/ Dismiss \/ \E p \in Items : ConfirmMine(p)
    \/ \E c \in calls.confirms : ConfirmApplied(c) \/ ConfirmAnswered(c) \/ ConfirmFailed(c)
    \/ \E who \in {Owner[p] : p \in Payments} \cup {Manager} : Remount(who)
    \/ \E l \in calls.loads : LoadDelivered(l) \/ LoadFailed(l)
    \/ Tick \/ OtherReads \/ Elsewhere

Spec == Init /\ [][Next]_vars

\* One event per payment and Israeli day, whichever browsers and restarts scan, unless the two
\* scans ran side by side or across midnight: a scan that began after another had committed
\* does not repeat it, in the evening of UTC either.  And once its reads are answered, the
\* dialog asks for nothing that its reader confirmed, though a read begun before may come late
\* (investment_service.py: record_overdue_payment_nudge_events; PaymentNudgeDialog.tsx: confirmMine).
NudgedOnceADay ==
    /\ \A e, f \in server.log :
          /\ e.payment = f.payment /\ AsIsraelDate(e.at) = e.today /\ AsIsraelDate(f.at) = f.today
          /\ e.today = f.today /\ e.scan \in f.saw
          => e = f
    /\ Async!Settled(view.hook) /\ ~view.hook.error => Items \cap view.confirmed = {}
=============================================================================
