------------------------------ MODULE Dashboard ------------------------------
(***************************************************************************)
(* The home page (pages/DashboardPage.tsx) with the two work lists of the  *)
(* system administrator (components/DashboardUrgentOps.tsx): the urgent    *)
(* payments (utils/paymentOps.ts) and the queue of agreements and requests *)
(* (utils/adminActionQueue.ts), whose agreements are read investor by      *)
(* investor, and the signing reminder (AgreementReminderAction.tsx).       *)
(*                                                                         *)
(* Rendering is what starts loads: Rendered mounts and unmounts the lists  *)
(* with the page's figures, and runs again every loader whose dependencies *)
(* changed.                                                                *)
(***************************************************************************)
EXTENDS Naturals, FiniteSets, Sequences

CONSTANTS Null, Investors,
          Owner,       \* agreement or request -> its investor
          Due,         \* payment -> [investor, month, cash]; months are counted from a January
          Today,       \* the month of today
          Workers,     \* agreement reads under way at once (3 in the code)
          Started,     \* what the server may hold when the page mounts
          MaxEvents, MaxLoads

VARIABLES view, server, calls
vars == <<view, server, calls>>
Async == INSTANCE AsyncData

All == 0
Payments == DOMAIN Due
Year(month) == (month - 1) \div 12
IncludePrevYear == (Today - 1) % 12 = 0

\* The other loader of each role is an answer known in advance, and left out.
PageHooks(me) == {"figures", IF me = All THEN "investors" ELSE "own"}
QueueHooks == {"queue", "requests"}
ListHooks  == {"urgent", "previous"} \cup QueueHooks
Hooks == PageHooks(All) \cup PageHooks(Null) \cup ListHooks

Admin == view.me = All      \* isActionQueueAdmin; else the page of one investor

(***************************************************************************)
(* Which loaders are mounted, for what, and which component they live in.  *)
(***************************************************************************)
\* The figures are the page: a loading or an error screen replaces everything.
PageShown(v) == v.hooks["figures"].data # Null /\ ~v.hooks["figures"].error

Mounted(v) == PageHooks(v.me) \cup (IF v.me = All /\ PageShown(v) THEN ListHooks ELSE {})

\* The book of the queue: the investors of the list, cut to the filter.
BookReady(v) == v.hooks["investors"].data # Null
Book(v) == IF BookReady(v) THEN {i \in v.hooks["investors"].data.rows : v.filter \in {All, i}} ELSE {}

DepsOf(v, hook) ==
    CASE hook = "queue" -> [scope |-> v.filter, ids |-> Book(v), ready |-> BookReady(v)]
      [] hook \in {"figures", "urgent", "previous", "requests"} -> [scope |-> v.filter]
      [] OTHER -> [scope |-> v.me]

\* React's key: AdminActionQueue is a new component for another filter.
Instance(v, hook) == IF hook \in QueueHooks THEN v.filter ELSE All

(***************************************************************************)
(* What the server answers.                                                *)
(***************************************************************************)
Open(p) == server.payments[p] \in {"scheduled", "awaiting_confirmation"}
Before(p, q) == Due[p].month < Due[q].month \/ (Due[p].month = Due[q].month /\ p < q)
\* The k-th by due date and number is the one with k - 1 before it.
BySchedule(ps) == [k \in 1 .. Cardinality(ps) |-> CHOOSE p \in ps : Cardinality({q \in ps : Before(q, p)}) = k - 1]
OfYear(y, scope) == BySchedule({p \in Payments : Year(Due[p].month) = y /\ scope \in {All, Due[p].investor}})
WithStatus(ps) == [k \in DOMAIN ps |-> [id |-> ps[k], status |-> server.payments[ps[k]]]]
PendingOf(i) == {a \in DOMAIN Owner : Owner[a] = i /\ server.documents[a] = "pending"}

Rows(hook, deps) ==
    CASE hook = "investors" -> server.investors
      [] hook = "urgent"    -> WithStatus(OfYear(Year(Today), deps.scope))
      [] hook = "previous"  -> IF IncludePrevYear THEN WithStatus(OfYear(Year(Today) - 1, deps.scope)) ELSE <<>>
      [] hook = "own"       -> WithStatus(OfYear(Year(Today), deps.scope))
      [] hook = "requests"  -> {r \in DOMAIN Owner : /\ deps.scope \in {All, Owner[r]}
                                                      /\ server.documents[r] = "requested"}
      [] hook = "queue"     -> [todo |-> deps.ids, found |-> {}, failed |-> {},
                                asOf |-> server.changed]
      [] OTHER -> {}

(***************************************************************************)
(* One render after v was set: hooks of components that are gone lose      *)
(* their state, new and changed ones (and the reloaded ones) run.  A run   *)
(* that was replaced is dropped when it answers (AsyncData); it is left    *)
(* out here, and followed to its answer in PaymentsBoard.                  *)
(***************************************************************************)
Begin(v, h) == Async!Load(h, Async!Answer(DepsOf(v, h), Rows(h, DepsOf(v, h))))

Fresh(v, h) == view.asked[h] = Null \/ view.instance[h] # Instance(v, h)

RenderedWith(v, reloaded, loads) ==
    LET up   == Mounted(v)
        gone == {h \in Hooks : view.asked[h] # Null /\ (h \notin up \/ Fresh(v, h))}
        run  == {h \in up : h \in reloaded \/ Fresh(v, h) \/ view.asked[h] # DepsOf(v, h)}
        base == [h \in Hooks |-> IF h \in gone THEN Async!Unmounted ELSE v.hooks[h]]
        next == [v EXCEPT !.hooks = [h \in Hooks |-> IF h \in run THEN Async!Begun(base[h]) ELSE base[h]],
                          !.asked = [h \in Hooks |-> IF h \in up THEN DepsOf(v, h) ELSE Null],
                          !.instance = [h \in Hooks |-> Instance(v, h)]]
    IN [view |-> next, loads |-> {l \in loads : l.hook \notin run \cup gone} \cup {Begin(v, h) : h \in run}]

\* Mutant: the queue shows whatever answer it holds, for whichever list of investors.
QueueAnswered(v) == PageShown(v) /\ v.hooks["queue"].data # Null /\ ~v.hooks["queue"].error

\* agreementsReady of AdminActionQueue.
QueueReady(v) ==
    /\ PageShown(v) /\ v.hooks["queue"].data # Null
    /\ ~v.hooks["investors"].error /\ ~v.hooks["queue"].error
    /\ v.hooks["queue"].data.key = DepsOf(v, "queue") /\ v.hooks["queue"].data.key.ready

ShownAgreements(v) == IF v.me = All /\ QueueReady(v) THEN v.hooks["queue"].data.rows.found ELSE {}
FailedInvestors(v) == IF v.me = All /\ QueueReady(v) THEN v.hooks["queue"].data.rows.failed ELSE {}

\* pendingInvestorRequests: cut again to the investors of the book.
ShownRequests ==
    IF /\ Admin /\ PageShown(view) /\ BookReady(view) /\ ~view.hooks["investors"].error
       /\ view.hooks["requests"].data # Null
    THEN {r \in view.hooks["requests"].data.rows : Owner[r] \in Book(view)} ELSE {}

\* A reminder under review lives in the row of its agreement.
Kept(v) == [v EXCEPT !.review = IF @ \in ShownAgreements(v) THEN @ ELSE Null]

Render(v, reloaded, loads) ==
    LET next == RenderedWith(v, reloaded, loads) IN
    /\ view' = Kept(next.view)
    /\ calls' = [calls EXCEPT !.loads = next.loads]

Use(v, reloaded) ==
    LET next == RenderedWith(v, reloaded, calls.loads) IN
    /\ calls.left > 0 /\ Cardinality(next.loads) <= MaxLoads
    /\ view' = Kept(next.view)
    /\ calls' = [calls EXCEPT !.loads = next.loads, !.left = @ - 1]
    /\ UNCHANGED server

(***************************************************************************)
(* The reader's actions.                                                   *)
(***************************************************************************)
SelectScope == /\ Admin /\ PageShown(view) /\ BookReady(view)
               /\ \E f \in view.hooks["investors"].data.rows \cup {All} :
                     f # view.filter /\ Use([view EXCEPT !.filter = f], {})

RetryPage == view.hooks["figures"].error /\ Use(view, {"figures"})

\* reloadQueue: the list of investors too when it failed.
RefreshQueue ==
    /\ Admin /\ PageShown(view)
    /\ ~view.hooks["queue"].refreshing /\ ~view.hooks["requests"].refreshing
    /\ Use(view, QueueHooks \cup (IF view.hooks["investors"].error THEN {"investors"} ELSE {}))

\* confirmReceived and markNotYet of the investor's card.
OwnAwaiting == {k \in DOMAIN view.hooks["own"].data.rows :
                    view.hooks["own"].data.rows[k].status = "awaiting_confirmation"}

Answer(status) ==
    /\ ~Admin /\ PageShown(view) /\ calls.request = Null /\ calls.left > 0
    /\ view.hooks["own"].data # Null
    /\ \E k \in OwnAwaiting :
          calls' = [calls EXCEPT !.left = @ - 1, !.request =
                       [op |-> status, id |-> view.hooks["own"].data.rows[k].id, applied |-> FALSE]]
    /\ UNCHANGED <<view, server>>

(***************************************************************************)
(* The reminder: reviewed first, sent for the document that was reviewed.  *)
(***************************************************************************)
OpenReview(a) ==
    /\ calls.left > 0 /\ calls.request = Null
    /\ a \in ShownAgreements(view) /\ view.review # a
    /\ view' = [view EXCEPT !.review = a]
    /\ calls' = [calls EXCEPT !.left = @ - 1]
    /\ UNCHANGED server

CancelReview ==
    /\ view.review # Null /\ calls.request = Null
    /\ view' = [view EXCEPT !.review = Null]
    /\ UNCHANGED <<server, calls>>

SendReminder ==
    /\ view.review # Null /\ calls.request = Null
    /\ calls' = [calls EXCEPT !.request = [op |-> "remind", id |-> view.review, applied |-> FALSE]]
    /\ UNCHANGED <<view, server>>

\* The twenty seconds are over, or the row is gone and its request aborted.
ReminderAborted ==
    /\ calls.request # Null /\ calls.request.op = "remind"
    /\ view.review = Null \/ calls.left > 0
    /\ calls' = [calls EXCEPT !.request = Null, !.left = IF view.review = Null THEN @ ELSE @ - 1]
    /\ UNCHANGED <<view, server>>

(***************************************************************************)
(* Requests and loads.                                                     *)
(***************************************************************************)
Refused(r) == r.op # "remind" /\ server.payments[r.id] # "awaiting_confirmation"

RequestApplied ==
    /\ calls.request # Null /\ ~calls.request.applied /\ ~Refused(calls.request)
    /\ LET r == calls.request IN
         server' = IF r.op # "remind" THEN [server EXCEPT !.payments[r.id] = r.op] ELSE server
    /\ calls' = [calls EXCEPT !.request.applied = TRUE]
    /\ UNCHANGED view

RequestAnswered ==
    /\ calls.request # Null /\ calls.request.applied
    /\ LET told == calls.request.op # "remind"
           next == RenderedWith(IF told THEN view ELSE [view EXCEPT !.review = Null],
                                IF told THEN {"figures", "own"} ELSE {}, calls.loads)
       IN /\ view' = Kept(next.view)
          /\ calls' = [calls EXCEPT !.request = Null, !.loads = next.loads]
    /\ UNCHANGED server

\* A confirmation that was refused, or whose answer is lost: nothing is read again.
ConfirmationFailed ==
    /\ calls.request # Null /\ calls.request.op # "remind"
    /\ LET refused == ~calls.request.applied /\ Refused(calls.request) IN
       /\ refused \/ (calls.request.applied /\ calls.left > 0)
       /\ calls' = [calls EXCEPT !.request = Null, !.left = IF refused THEN @ ELSE @ - 1]
    /\ UNCHANGED <<view, server>>

\* The workers take the investors in their order: the first of those left are under way.
UnderWay(todo) == {i \in todo : Cardinality({j \in todo : j < i}) < Workers}

\* loadPendingAgreementQueue: one of the investors being read answers, or fails and is named.
QueueRead(l) ==
    /\ l \in calls.loads /\ l.hook = "queue"
    /\ \E i \in UnderWay(l.answer.rows.todo) :
         LET rest == [l EXCEPT !.answer.rows.todo = @ \ {i}] IN
         \/ calls' = [calls EXCEPT !.loads = (@ \ {l}) \cup {[rest EXCEPT !.answer.rows.found = @ \cup PendingOf(i)]}]
         \/ /\ calls.left > 0
            /\ calls' = [calls EXCEPT !.left = @ - 1,
                            !.loads = (@ \ {l}) \cup {[rest EXCEPT !.answer.rows.failed = @ \cup {i}]}]
    /\ UNCHANGED <<view, server>>

LoadDelivered(l) ==
    /\ l \in calls.loads /\ (l.hook = "queue" => l.answer.rows.todo = {})
    /\ Render([view EXCEPT !.hooks[l.hook] = Async!Delivered(@, l)], {}, calls.loads \ {l})
    /\ UNCHANGED server

\* The queue's loader never rejects: it names the investors whose read failed.
LoadFailed(l) ==
    /\ l \in calls.loads /\ l.hook # "queue" /\ calls.left > 0
    /\ LET next == RenderedWith([view EXCEPT !.hooks[l.hook] = Async!Failed(@, l)], {}, calls.loads \ {l})
       IN /\ view' = Kept(next.view)
          /\ calls' = [calls EXCEPT !.loads = next.loads, !.left = @ - 1]
    /\ UNCHANGED server

\* Elsewhere: an agreement is signed or a new one produced, a payment is sent, an investor joins.
Others ==
    /\ calls.left > 0
    /\ \/ \E a \in DOMAIN Owner, s \in {"pending", "executed"} :
             /\ server.documents[a] \in {"draft", "pending"} \ {s}
             /\ s = "executed" => server.documents[a] = "pending"
             /\ server' = [server EXCEPT !.documents[a] = s, !.changed = @ + 1]
       \/ \E p \in Payments : /\ server.payments[p] = "scheduled"
                              /\ server' = [server EXCEPT !.payments[p] = "awaiting_confirmation"]
       \/ \E i \in Investors \ server.investors : server' = [server EXCEPT !.investors = @ \cup {i}]
    /\ calls' = [calls EXCEPT !.left = @ - 1]
    /\ UNCHANGED view

(***************************************************************************)
(* The urgent payments: one row per investor, for this month and before.   *)
(***************************************************************************)
Row(r) == [id |-> r.id, status |-> r.status, due |-> Due[r.id].month, amount |-> Due[r.id].cash]

\* Mutant: the row keeps pointing at the transfer that already waits for its investor.
AbsorbedInFirst(prev, row) ==
    IF prev = Null THEN row ELSE [prev EXCEPT !.amount = @ + row.amount]

Absorbed(prev, row) ==
    IF prev = Null THEN row
    ELSE LET sum == prev.amount + row.amount IN
         IF prev.status = "awaiting_confirmation" /\ row.status = "scheduled"
         THEN [row EXCEPT !.amount = sum]
         ELSE IF row.due < prev.due
         THEN [prev EXCEPT !.amount = sum, !.due = row.due, !.id = row.id]
         ELSE [prev EXCEPT !.amount = sum]

\* buildUrgentPaymentOps: which payments make the row of the investor in the group.
IsUrgent(r, i, group) ==
    /\ Due[r.id].investor = i /\ view.filter \in {All, i}
    /\ Due[r.id].cash > 0 /\ r.status \in {"scheduled", "awaiting_confirmation"}
    /\ IF group = "missing" THEN Due[r.id].month = Today ELSE Due[r.id].month < Today

\* mergeByInvestor, for one investor: the row after the first k payments.
MergedFor(i, group, loaded) ==
    LET merged[k \in 0 .. Len(loaded)] ==
            IF k = 0 THEN Null
            ELSE IF IsUrgent(loaded[k], i, group) THEN Absorbed(merged[k - 1], Row(loaded[k]))
            ELSE merged[k - 1]
    IN merged[Len(loaded)]

LoadedOr(h) == IF view.hooks[h].data = Null THEN <<>> ELSE view.hooks[h].data.rows
LoadedPayments == LoadedOr("urgent") \o LoadedOr("previous")

UrgentRow(i, group) == MergedFor(i, group, LoadedPayments)

(***************************************************************************)
(* Specification.                                                          *)
(***************************************************************************)
Blank(me) == [me |-> me, filter |-> me, review |-> Null,
              hooks |-> [h \in Hooks |-> Async!Unmounted],
              asked |-> [h \in Hooks |-> Null], instance |-> [h \in Hooks |-> All]]

Init ==
    /\ server \in Started
    /\ \E me \in {All} \cup server.investors :
         /\ view = [Blank(me) EXCEPT
                      !.asked = [h \in Hooks |-> IF h \in PageHooks(me) THEN DepsOf(Blank(me), h) ELSE Null]]
         /\ calls = [left |-> MaxEvents, request |-> Null,
                     loads |-> {Begin(Blank(me), h) : h \in PageHooks(me)}]

Next ==
    \/ SelectScope \/ RetryPage \/ RefreshQueue
    \/ \E status \in {"paid", "scheduled"} : Answer(status)
    \/ \E a \in DOMAIN Owner : OpenReview(a)
    \/ CancelReview \/ SendReminder \/ ReminderAborted
    \/ RequestApplied \/ RequestAnswered \/ ConfirmationFailed
    \/ \E l \in calls.loads : QueueRead(l) \/ LoadDelivered(l) \/ LoadFailed(l)
    \/ Others

Spec == Init /\ [][Next]_vars

\* What the administrator's queue shows is the answer for the scope on the screen, complete
\* but for the investors it names as unread: while nothing was signed or produced since its
\* reads began, no pending agreement of the scope is missing from it and none of another
\* scope is in it, also while the list of investors is still arriving, and the reminder
\* under review is for an agreement that is shown (DashboardUrgentOps.tsx: scopeKey, ready;
\* adminActionQueue.ts: failedInvestors).
QueueMatchesScope ==
    /\ Admin /\ QueueReady(view) =>
         LET rows == view.hooks["queue"].data.rows IN
         /\ \A a \in rows.found : Owner[a] \in Book(view)
         /\ rows.asOf = server.changed =>
               rows.found = UNION {PendingOf(i) : i \in Book(view) \ rows.failed}
    /\ view.review # Null => view.review \in ShownAgreements(view)

\* Each urgent row opens the payment to handle first: the earliest one of its investor and
\* group that was not sent yet, or, when all were sent, the earliest that waits for its
\* confirmation; and its amount is the sum of all of them (paymentOps.ts: mergeByInvestor).
UrgentRowIsOldest ==
    Admin /\ PageShown(view) =>
    \A i \in Investors, group \in {"missing", "overdue"} :
        LET all   == LoadedPayments
            rows  == {k \in DOMAIN all : IsUrgent(all[k], i, group)}
            open  == {k \in rows : all[k].status = "scheduled"}
            first == IF open = {} THEN rows ELSE open
            sum[k \in 0 .. Len(all)] ==
                IF k = 0 THEN 0 ELSE sum[k - 1] + IF k \in rows THEN Due[all[k].id].cash ELSE 0
            shown == UrgentRow(i, group)
        IN IF rows = {} THEN shown = Null
           ELSE /\ \E k \in first : shown.id = all[k].id /\ shown.due = Due[all[k].id].month
                /\ \A k \in first : shown.due <= Due[all[k].id].month
                /\ shown.status = (IF open = {} THEN "awaiting_confirmation" ELSE "scheduled")
                /\ shown.amount = sum[Len(all)]
=============================================================================
