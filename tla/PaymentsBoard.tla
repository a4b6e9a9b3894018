---------------------------- MODULE PaymentsBoard ----------------------------
(***************************************************************************)
(* The payments page (pages/PaymentsPage.tsx) over the payments of the     *)
(* server: the selection, the four loads that follow it, the rows and the  *)
(* buttons it offers, and the requests those send, while the other party   *)
(* (the investor for a manager's page, the manager for an investor's) and  *)
(* the amendments go on changing the same payments.                        *)
(***************************************************************************)
EXTENDS Naturals, FiniteSets

CONSTANTS Null, Due,       \* payment -> [investor, plan, year, month]: the schedule
          Years, ThisYear, Investors,
          Started,         \* the statuses the payments may start with
          MaxEvents,       \* user and server events in one behaviour
          MaxLoads         \* loads under way

Payments == DOMAIN Due
Hooks == {"list", "report", "yearAll", "plans"}
Every == 0                   \* no filter on the investor or the year
EveryStatus == "any"
Statuses == {"scheduled", "awaiting_confirmation", "paid", "skipped"}
Deleted == "deleted"         \* a payment that went with its plan
Plans == {Due[p].plan : p \in Payments}

VARIABLES view,    \* the state of the mounted page
          server,  \* [rows, frozen, closed, agreed]: payments, plans awaiting an amendment,
                   \* plans closed, investors with agreements
          calls    \* [loads, request, behind, left]: what the page waits for

vars == <<view, server, calls>>
Async == INSTANCE AsyncData

Manager == view.me = Every      \* user.is_manager; else the page of one investor

(***************************************************************************)
(* The server's payments.                                                  *)
(***************************************************************************)
Frozen(p) == Due[p].plan \in server.frozen

\* request_payment_confirmation: the manager says the money was sent.
Requested(p) ==
    IF server.rows[p] = "paid" THEN server
    ELSE [server EXCEPT !.rows[p] = "awaiting_confirmation"]

\* confirm_payment and reject_payment_confirmation refuse a payment that is not awaiting.
Answered(p, status) ==
    IF server.rows[p] # "awaiting_confirmation" THEN server
    ELSE [server EXCEPT !.rows[p] = status]

\* PATCH of the status: no condition on the status it replaces.
Patched(p, status) == [server EXCEPT !.rows[p] = status]

InYear(y, i) == {p \in Payments : Due[p].year = y /\ i \in {Every, Due[p].investor}}

\* mark-year-paid: all or nothing when one of them awaits an amendment.
YearRequested(y, i) ==
    LET due == {p \in InYear(y, i) : server.rows[p] = "scheduled"}
    IN IF \E p \in due : Frozen(p) THEN server
       ELSE [server EXCEPT !.rows = [p \in Payments |->
                IF p \in due THEN "awaiting_confirmation" ELSE @[p]]]

\* remove-from-calendar-year: the plans that start in the year go, with their payments;
\* refused for an investor who has agreements.
Starting(y, i) == {pl \in Plans : /\ \E p \in InYear(y, i) : Due[p].plan = pl
                                 /\ \A p \in Payments : Due[p].plan = pl => Due[p].year >= y}
YearRemoved(y, i) ==
    IF i \in server.agreed THEN server
    ELSE [server EXCEPT !.rows = [p \in Payments |->
              IF Due[p].plan \in Starting(y, i) THEN Deleted ELSE @[p]]]

Effect(r) ==
    LET open == server.rows[r.id] # Deleted /\ ~Frozen(r.id) IN
    CASE r.op \in {"confirm", "reject"} /\ open -> Answered(r.id, IF r.op = "confirm" THEN "paid" ELSE "scheduled")
      [] r.op = "markPaid" /\ open -> Requested(r.id)
      [] r.op = "markScheduled" /\ open -> Patched(r.id, "scheduled")
      [] r.op = "markYear" -> YearRequested(r.year, r.investor)
      [] r.op = "remove" -> YearRemoved(r.year, r.investor)
      [] OTHER -> server       \* refused; or sync, which changes amounts alone

(***************************************************************************)
(* The selection and the loads that follow it.                             *)
(***************************************************************************)
KeyOf(sel, hook) ==
    CASE hook = "list"    -> [year |-> IF sel.allYears THEN Every ELSE sel.year, investor |-> sel.investor, status |-> sel.status]
      [] hook = "report"  -> [year |-> sel.year, investor |-> sel.investor, status |-> EveryStatus]
      [] hook = "yearAll" -> [year |-> sel.year, investor |-> Every, status |-> EveryStatus]
      [] hook = "plans"   -> [year |-> Every, investor |-> Every, status |-> EveryStatus]

\* list_payments with the filters of the request.  The report is figures: no row is kept.
Snapshot(hook, key) ==
    [status |-> [p \in {p \in Payments : /\ hook \in {"list", "yearAll"}
                                        /\ server.rows[p] # Deleted
                                        /\ key.year \in {Every, Due[p].year}
                                        /\ key.investor \in {Every, Due[p].investor}
                                        /\ key.status \in {EveryStatus, server.rows[p]}} |-> server.rows[p]],
     frozen |-> IF hook = "report" THEN {} ELSE server.frozen,
     closed |-> IF hook = "plans" THEN server.closed ELSE {}]

LoadOf(sel, hook) == Async!Load(hook, Async!Answer(KeyOf(sel, hook), Snapshot(hook, KeyOf(sel, hook))))

\* Every hook of the set runs its loader for the selection.
Reload(sel, hooks) ==
    /\ view' = [view EXCEPT !.sel = sel,
                  !.hooks = [h \in Hooks |-> IF h \in hooks THEN Async!Begun(@[h]) ELSE @[h]]]
    /\ calls' = [calls EXCEPT !.left = @ - 1, !.behind = @ /\ "list" \notin hooks,
                   !.loads = Async!Retired(@, hooks) \cup
                      {LoadOf(sel, h) : h \in hooks}]
    /\ UNCHANGED server

Select(sel) ==
    LET changed == {h \in Hooks : KeyOf(sel, h) # KeyOf(view.sel, h)} IN
    /\ calls.left > 0 /\ sel # view.sel
    /\ Cardinality(calls.loads) + Cardinality(changed) <= MaxLoads
    /\ Reload(sel, changed)

SelectYear      == \E y \in Years : Select([view.sel EXCEPT !.year = y, !.allYears = FALSE, !.detail = "none"])
SelectAllYears  == Select([view.sel EXCEPT !.allYears = TRUE,
                              !.detail = IF @ = "none" THEN "lifetime-planned" ELSE @])
SelectStatus    == \E s \in {EveryStatus, "awaiting_confirmation"} : Select([view.sel EXCEPT !.status = s, !.detail = "none"])
SelectInvestor  == Manager /\ \E i \in Investors \cup {Every} :
                      Select([view.sel EXCEPT !.investor = i, !.detail = "none"])
ToggleCancelled == /\ ~view.sel.allYears /\ view.sel.status # "skipped"
                   /\ Select([view.sel EXCEPT !.cancelled = ~@])

\* A figure opens the list it sums up; the savings figures leave the list alone.
YearDetails == {"yearly-paid", "yearly-awaiting"}                      \* the summary of the year
LifetimeDetails == {"lifetime-planned", "lifetime-savings-now"}        \* that of all years
Details == YearDetails \cup LifetimeDetails
OpenDetail == \E d \in Details :
    Select([view.sel EXCEPT !.detail = d, !.allYears = d = "lifetime-planned",
               !.status = IF d = "yearly-paid" THEN "paid"
                          ELSE IF d = "yearly-awaiting" THEN "awaiting_confirmation" ELSE EveryStatus])
ClearDetail == view.sel.detail # "none" /\ Select([view.sel EXCEPT !.detail = "none", !.allYears = FALSE])

\* A deep link (of the dashboard, a nudge or a push) to one payment: parsePaymentsFocusSearch.
FollowLink == \E p \in Payments :
    /\ Manager \/ Due[p].investor = view.me
    /\ Select([view.sel EXCEPT !.year = Due[p].year, !.status = EveryStatus, !.investor = Due[p].investor,
                  !.allYears = FALSE, !.detail = "none", !.link = p])

(***************************************************************************)
(* What is on the screen.                                                  *)
(***************************************************************************)
Loaded(hook) == view.hooks[hook].data.rows
HasData(hook) == view.hooks[hook].data # Null
ListScreen == HasData("list")          \* else the loading or the error screen

Priority(s) == CASE s = "paid" -> 3 [] s = "awaiting_confirmation" -> 2 [] s = "scheduled" -> 1 [] s = "skipped" -> 0

\* One row for a plan and a due date: the most advanced, the first of equals.
Twins(p, q) == Due[p].plan = Due[q].plan /\ Due[p].year = Due[q].year /\ Due[p].month = Due[q].month
Deduped(status) ==
    {p \in DOMAIN status : \A q \in DOMAIN status \ {p} : Twins(p, q) =>
        \/ Priority(status[p]) > Priority(status[q])
        \/ Priority(status[p]) = Priority(status[q]) /\ p < q}

ClosedShown == IF HasData("plans") THEN Loaded("plans").closed ELSE {}
ShowCancelled == view.sel.cancelled \/ view.sel.allYears \/ view.sel.status = "skipped"

\* buildPaymentDisplayRows: the answer, cut to the selection of this moment.
DisplayedRows ==
    LET status == Loaded("list").status IN
    {p \in Deduped(status) :
        /\ view.sel.allYears \/ Due[p].year = view.sel.year
        /\ view.sel.investor \in {Every, Due[p].investor}
        /\ view.sel.status \in {EveryStatus, status[p]}
        /\ ShowCancelled \/ status[p] # "skipped" \/ Due[p].plan \notin ClosedShown}

FrozenShown(p) == Due[p].plan \in Loaded("list").frozen

\* frozenYearBatch: read from the load of the whole year, whatever year that was for.
FrozenYearBatch ==
    HasData("yearAll") /\ \E p \in DOMAIN Loaded("yearAll").status :
        /\ view.sel.investor \in {Every, Due[p].investor}
        /\ Loaded("yearAll").status[p] = "scheduled" /\ Due[p].plan \in Loaded("yearAll").frozen

\* frozenYearAmounts: also a plan of the year whose payments are not in that load.
FrozenYearAmounts ==
    \/ HasData("yearAll") /\ \E p \in DOMAIN Loaded("yearAll").status :
          /\ view.sel.investor \in {Every, Due[p].investor}
          /\ Due[p].plan \in Loaded("yearAll").frozen
    \/ HasData("plans") /\ \E i \in Investors :
          /\ view.sel.investor \in {Every, i}
          /\ Starting(view.sel.year, i) \cap Loaded("plans").frozen # {}

\* paymentRowActions: the buttons of a row.
Offered(p) ==
    LET s == Loaded("list").status[p] IN
    IF FrozenShown(p) \/ calls.request.id = p THEN {}
    ELSE IF Manager
    THEN CASE s = "scheduled" -> {"markPaid"}
           [] s \in {"awaiting_confirmation", "paid"} -> {"markScheduled"}
           [] OTHER -> {}
    ELSE IF s = "awaiting_confirmation" THEN {"confirm", "reject"} ELSE {}

\* PaymentCeremonyCard: an investor answers every row that was loaded, the displayed or not.
Ceremony ==
    IF Manager THEN {} ELSE
    {p \in Deduped(Loaded("list").status) : /\ Loaded("list").status[p] = "awaiting_confirmation"
                                            /\ ~FrozenShown(p) /\ calls.request.id # p}

\* The table, or on a telephone the cards: the rows with their buttons; and below them the
\* investors of the year, each with the button that removes it.
Buttons == (Ceremony \X {"confirm", "reject"}) \cup UNION {{<<p, op>> : op \in Offered(p)} : p \in DisplayedRows}
\* The buttons of the whole year (whose figures, and so their count, are left out).
MarkYearOffered == Manager /\ ~view.sel.allYears /\ ~FrozenYearBatch
SyncOffered == Manager /\ ~FrozenYearAmounts
Removable == IF HasData("yearAll") THEN {Due[p].investor : p \in DOMAIN Loaded("yearAll").status} ELSE {}

(***************************************************************************)
(* The handlers.  A handler sends one request, and reloads everything when *)
(* the answer comes.  Its row is busy meanwhile (markBusyId).  One request *)
(* or dialog at a time bounds them: the page allows one of each kind.      *)
(***************************************************************************)
NoCall == [op |-> "none", id |-> Null, year |-> Every, investor |-> Every, applied |-> FALSE]
Idle == calls.request = NoCall /\ view.dialog = NoCall
Call(op, id) == [op |-> op, id |-> id, year |-> view.sel.year, investor |-> view.sel.investor, applied |-> FALSE]

\* The investor is asked in a dialog first; the request carries the id alone.
RowAction(p, op) ==
    /\ calls.left > 0 /\ Idle /\ ListScreen /\ <<p, op>> \in Buttons
    /\ IF op \in {"confirm", "reject"}
       THEN /\ view' = [view EXCEPT !.dialog = Call(op, p)]
            /\ calls' = [calls EXCEPT !.left = @ - 1]
       ELSE /\ calls' = [calls EXCEPT !.left = @ - 1, !.request = Call(op, p)]
            /\ UNCHANGED view
    /\ UNCHANGED server

DialogConfirmed ==
    /\ view.dialog # NoCall
    /\ view' = [view EXCEPT !.dialog = NoCall]
    /\ calls' = [calls EXCEPT !.request = view.dialog]
    /\ UNCHANGED server

DialogCancelled ==
    /\ view.dialog # NoCall
    /\ view' = [view EXCEPT !.dialog = NoCall]
    /\ UNCHANGED <<server, calls>>

\* markEntireYearPaid, syncYearAmounts and removeInvestorFromYear, after window.confirm.
YearAction(op) ==
    /\ calls.left > 0 /\ Idle /\ ListScreen /\ Manager
    /\ op = "markYear" => MarkYearOffered
    /\ op = "sync" => SyncOffered
    /\ \E i \in IF op = "remove" THEN Removable ELSE {view.sel.investor} :
          calls' = [calls EXCEPT !.left = @ - 1, !.request = [Call(op, Null) EXCEPT !.investor = i]]
    /\ UNCHANGED <<view, server>>

RequestApplied ==
    /\ calls.request # NoCall /\ ~calls.request.applied
    /\ server' = Effect(calls.request)
    /\ calls' = [calls EXCEPT !.request.applied = TRUE]
    /\ UNCHANGED view

\* removeInvestorFromYear deselects the investor it removed.
SelectionAfter(r) == IF r.op = "remove" /\ view.sel.investor = r.investor
                     THEN [view.sel EXCEPT !.investor = Every] ELSE view.sel

\* Mutant: an answer reloads all but the list it changed.
ReloadedButList == Hooks \ {"list"}

\* refreshAll().
ReloadedAfterAnswer == Hooks

RequestAnswered ==
    /\ calls.request.applied
    /\ Cardinality(calls.loads) + Cardinality(Hooks) <= MaxLoads
    /\ LET sel == SelectionAfter(calls.request)
           again == ReloadedAfterAnswer \cup {h \in Hooks : KeyOf(sel, h) # KeyOf(view.sel, h)}
       IN /\ view' = [view EXCEPT !.sel = sel,
                         !.hooks = [h \in Hooks |-> IF h \in again THEN Async!Begun(@[h]) ELSE @[h]]]
          /\ calls' = [calls EXCEPT !.request = NoCall, !.behind = @ /\ "list" \notin again,
                         !.loads = Async!Retired(@, again) \cup
                            {LoadOf(sel, h) : h \in again}]
    /\ UNCHANGED server

\* The request or its answer is lost: the message is shown and nothing is reloaded.
RequestLost ==
    /\ calls.request # NoCall /\ calls.left > 0
    /\ calls' = [calls EXCEPT !.request = NoCall, !.left = @ - 1, !.behind = @ \/ calls.request.applied]
    /\ UNCHANGED <<view, server>>

LoadDelivered(l) ==
    /\ l \in calls.loads
    /\ calls' = [calls EXCEPT !.loads = @ \ {l}]
    /\ view' = [view EXCEPT !.hooks[l.hook] = Async!Delivered(@, l)]
    /\ UNCHANGED server

LoadFailed(l) ==
    /\ l \in calls.loads /\ calls.left > 0
    /\ calls' = [calls EXCEPT !.loads = @ \ {l}, !.left = @ - 1]
    /\ view' = [view EXCEPT !.hooks[l.hook] = Async!Failed(@, l)]
    /\ UNCHANGED server

\* The error screen's button, and refreshAll() of the pull-down.
Retry ==
    /\ ~HasData("list") /\ view.hooks["list"].error /\ calls.left > 0
    /\ Cardinality(calls.loads) + Cardinality(Hooks) <= MaxLoads
    /\ Reload(view.sel, Hooks)

(***************************************************************************)
(* The other party and the agreements, behind the page's back.             *)
(***************************************************************************)
OtherParty ==
    /\ calls.left > 0
    /\ \E p \in {p \in Payments : server.rows[p] # Deleted} :
         \/ /\ Manager /\ ~Frozen(p)
            /\ \E status \in {"paid", "scheduled"} : server' = Answered(p, status)
         \/ /\ ~Manager /\ ~Frozen(p)
            /\ server' \in {Requested(p), Patched(p, "scheduled")}
         \/ server' = [server EXCEPT !.agreed = @ \cup {Due[p].investor},
                            !.frozen = IF Frozen(p) THEN @ \ {Due[p].plan} ELSE @ \cup {Due[p].plan}]
         \/ /\ Due[p].plan \notin server.closed
            /\ server' = [server EXCEPT !.closed = @ \cup {Due[p].plan}, !.frozen = @ \ {Due[p].plan},
                            !.agreed = @ \cup {Due[p].investor},
                            !.rows = [q \in Payments |-> IF Due[q].plan = Due[p].plan /\ @[q] = "scheduled"
                                                         THEN "skipped" ELSE @[q]]]
    /\ server' # server
    /\ calls' = [calls EXCEPT !.left = @ - 1, !.behind = TRUE]
    /\ UNCHANGED view

\* A page that has just mounted, or one whose first answers have come.
Init ==
    /\ server \in [rows: Started, frozen: {{}}, closed: {{}}, agreed: {{}, Investors}]
    /\ \E mounting \in BOOLEAN, me \in Investors \cup {Every} :
         LET sel == [year |-> ThisYear, allYears |-> FALSE, status |-> EveryStatus, investor |-> Every, detail |-> "none",
                     cancelled |-> FALSE, link |-> Null]
             first == [h \in Hooks |-> LoadOf(sel, h)]
         IN /\ view = [me |-> me, sel |-> sel, dialog |-> NoCall,
                       hooks |-> [h \in Hooks |-> IF mounting THEN Async!Unmounted
                                                  ELSE Async!Resolved(Async!Unmounted, first[h].answer)]]
            /\ calls = [left |-> MaxEvents, request |-> NoCall, behind |-> FALSE,
                        loads |-> IF mounting THEN {first[h] : h \in Hooks} ELSE {}]

Next ==
    \/ SelectYear \/ SelectAllYears \/ SelectStatus \/ SelectInvestor \/ ToggleCancelled
    \/ OpenDetail \/ ClearDetail \/ FollowLink
    \/ \E p \in Payments, op \in {"markPaid", "markScheduled", "confirm", "reject"} : RowAction(p, op)
    \/ \E op \in {"markYear", "sync", "remove"} : YearAction(op)
    \/ DialogConfirmed \/ DialogCancelled \/ RequestApplied \/ RequestAnswered \/ RequestLost
    \/ \E l \in calls.loads : LoadDelivered(l) \/ LoadFailed(l)
    \/ Retry \/ OtherParty

Spec == Init /\ [][Next]_vars

\* The page answers the question on its screen: when nothing is loading and nothing failed,
\* each of the four answers is the one for the selection of this moment, in whatever order
\* the loads of the selections before it were answered; and at every moment, also while an
\* older answer is still on the screen, no row is shown that the selection leaves out
\* (useAsync.ts: alive; paymentDisplay.ts: inScope).
BoardShowsSelection ==
    /\ \A h \in Hooks : Async!ShowsKey(view.hooks[h], KeyOf(view.sel, h))
    /\ ListScreen => \A p \in DisplayedRows :
          /\ view.sel.allYears \/ Due[p].year = view.sel.year
          /\ view.sel.investor \in {Every, Due[p].investor}
          /\ \A q \in DisplayedRows : Twins(p, q) => p = q

\* The page shows what its own buttons did: once the answer to a request is there and the
\* loads it started have settled, every status on the screen is the server's, unless the
\* other party has acted since; a load begun before the click cannot put the old status
\* back (PaymentsPage.tsx: refreshAll; useAsync.ts: alive).
BoardReadsItsWrites ==
    LET list == view.hooks["list"] IN
    calls.request = NoCall /\ ~calls.behind /\ Async!Settled(list) /\ ~list.error
        => list.data.rows.status = Snapshot("list", KeyOf(view.sel, "list")).status
=============================================================================
