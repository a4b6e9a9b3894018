------------------------------ MODULE DeskProofs ------------------------------
(***************************************************************************)
(* Proofs about the pages of Frontend that write and read back what they   *)
(* wrote (payments, balances, quotes and accounts), for any number of rows,*)
(* calls and loads.                                                        *)
(*                                                                         *)
(* A page's state is a few records whose other fields its property does    *)
(* not look at: the invariants say which fields there are (the DOMAIN) and *)
(* what holds of those that matter.                                        *)
(***************************************************************************)
EXTENDS Frontend, TLAPS

-----------------------------------------------------------------------------
(* The payments page.                                                        *)

(* The rows list_payments answers with for a key, of a server.               *)
ListOf(s, key) ==
    [p \in {p \in PaymentsPage!Payments : /\ s.rows[p] # PaymentsPage!Deleted
                                          /\ key.year \in {PaymentsPage!Every, Dues.payments[p].year}
                                          /\ key.investor \in {PaymentsPage!Every, Dues.payments[p].investor}
                                          /\ key.status \in {PaymentsPage!EveryStatus, s.rows[p]}} |-> s.rows[p]]

RowsTyped(status) ==
    DOMAIN status \subseteq PaymentsPage!Payments /\ \A p \in DOMAIN status : status[p] \in PaymentsPage!Statuses

BoardServerOK(s) ==
    /\ DOMAIN s = {"rows", "frozen", "closed", "agreed"}
    /\ s.rows \in [PaymentsPage!Payments -> PaymentsPage!Statuses \cup {PaymentsPage!Deleted}]

RequestShape(r) == DOMAIN r = {"op", "id", "year", "investor", "applied"}

(* Nothing happened on the server that the list has not been asked about.    *)
InStep(c) == ~c.behind /\ ~c.request.applied

BoardAnswerOK(answer, h, sel, s, fresh) ==
    /\ answer.key = PaymentsPage!KeyOf(sel, h)
    /\ h = "list" /\ fresh => answer.rows.status = ListOf(s, PaymentsPage!KeyOf(sel, h))

BoardHookOK(hook, h, sel, s, fresh) ==
    /\ DOMAIN hook = {"data", "error", "loading", "refreshing"}
    /\ h = "list" /\ hook.data # Null => RowsTyped(hook.data.rows.status)
    /\ PaymentsPage!Async!Settled(hook) /\ ~hook.error => BoardAnswerOK(hook.data, h, sel, s, fresh)

BoardLoadOK(l, sel, s, fresh) ==
    /\ DOMAIN l = {"hook", "answer", "alive"} /\ l.hook \in PaymentsPage!Hooks
    /\ l.hook = "list" => RowsTyped(l.answer.rows.status)
    /\ l.alive => BoardAnswerOK(l.answer, l.hook, sel, s, fresh)

BoardShape(v, c) ==
    /\ DOMAIN v = {"me", "sel", "dialog", "hooks"} /\ DOMAIN v.hooks = PaymentsPage!Hooks
    /\ DOMAIN c = {"left", "request", "behind", "loads"}
    /\ RequestShape(c.request) /\ RequestShape(v.dialog) /\ ~v.dialog.applied
    /\ v.dialog # PaymentsPage!NoCall => c.request = PaymentsPage!NoCall

BoardInv ==
    /\ BoardServerOK(server) /\ BoardShape(view, calls)
    /\ \A h \in PaymentsPage!Hooks : BoardHookOK(view.hooks[h], h, view.sel, server, InStep(calls))
    /\ \A l \in calls.loads : BoardLoadOK(l, view.sel, server, InStep(calls))

LEMMA ListIsSnapshot == ASSUME NEW key PROVE PaymentsPage!Snapshot("list", key).status = ListOf(server, key)
  <1> DEFINE asked == {p \in PaymentsPage!Payments : /\ server.rows[p] # PaymentsPage!Deleted
                                                    /\ key.year \in {PaymentsPage!Every, Dues.payments[p].year}
                                                    /\ key.investor \in {PaymentsPage!Every, Dues.payments[p].investor}
                                                    /\ key.status \in {PaymentsPage!EveryStatus, server.rows[p]}}
             given == {p \in PaymentsPage!Payments : /\ "list" \in {"list", "yearAll"}
                                                    /\ server.rows[p] # PaymentsPage!Deleted
                                                    /\ key.year \in {PaymentsPage!Every, Dues.payments[p].year}
                                                    /\ key.investor \in {PaymentsPage!Every, Dues.payments[p].investor}
                                                    /\ key.status \in {PaymentsPage!EveryStatus, server.rows[p]}}
  <1>1. asked = given
    OBVIOUS
  <1>2. PaymentsPage!Snapshot("list", key).status = [p \in given |-> server.rows[p]]
    BY DEF PaymentsPage!Snapshot
  <1>3. ListOf(server, key) = [p \in asked |-> server.rows[p]]
    BY DEF ListOf
  <1> HIDE DEF asked, given
  <1> QED BY <1>1, <1>2, <1>3

LEMMA BoardLoads == ASSUME BoardServerOK(server), NEW sel, NEW h \in PaymentsPage!Hooks, NEW fresh
    PROVE BoardLoadOK(PaymentsPage!LoadOf(sel, h), sel, server, fresh) /\ PaymentsPage!LoadOf(sel, h).hook = h
  <1> DEFINE key == PaymentsPage!KeyOf(sel, h)
             l == PaymentsPage!LoadOf(sel, h)
  <1>1. /\ DOMAIN l = {"hook", "answer", "alive"} /\ l.hook = h /\ l.alive = TRUE
        /\ l.answer.key = key /\ l.answer.rows = PaymentsPage!Snapshot(h, key)
    BY DEF PaymentsPage!LoadOf, PaymentsPage!Async!Load, PaymentsPage!Async!Answer
  <1> HIDE DEF l, key
  <1>2. h = "list" => l.answer.rows.status = ListOf(server, key)
    BY <1>1, ListIsSnapshot
  <1>3. RowsTyped(ListOf(server, key))
    BY DEF RowsTyped, ListOf, BoardServerOK
  <1>4. BoardAnswerOK(l.answer, h, sel, server, fresh)
    BY <1>1, <1>2 DEF BoardAnswerOK, key
  <1>5. BoardLoadOK(l, sel, server, fresh)
    BY <1>1, <1>2, <1>3, <1>4 DEF BoardLoadOK
  <1> QED BY <1>1, <1>5 DEF l

LEMMA BoardStart == PaymentsPage!Init => BoardInv
  <1> SUFFICES ASSUME PaymentsPage!Init PROVE BoardInv
    OBVIOUS
  <1>1. BoardServerOK(server)
    BY PaymentsHaveStatus DEF PaymentsPage!Init, BoardServerOK, PaymentsPage!Payments, PaymentsPage!Statuses
  <1> DEFINE sel == [year |-> ThisYear, allYears |-> FALSE, status |-> PaymentsPage!EveryStatus, investor |-> PaymentsPage!Every,
                     detail |-> "none", cancelled |-> FALSE, link |-> Null]
  <1>2. PICK mounting \in BOOLEAN, me \in Investors \cup {PaymentsPage!Every} :
          LET first == [h \in PaymentsPage!Hooks |-> PaymentsPage!LoadOf(sel, h)] IN
          /\ view = [me |-> me, sel |-> sel, dialog |-> PaymentsPage!NoCall,
                     hooks |-> [h \in PaymentsPage!Hooks |->
                         IF mounting THEN PaymentsPage!Async!Unmounted
                         ELSE PaymentsPage!Async!Resolved(PaymentsPage!Async!Unmounted, first[h].answer)]]
          /\ calls = [left |-> Events.payments, request |-> PaymentsPage!NoCall, behind |-> FALSE,
                      loads |-> IF mounting THEN {first[h] : h \in PaymentsPage!Hooks} ELSE {}]
    BY DEF PaymentsPage!Init
  <1> HIDE DEF sel
  <1>3. BoardShape(view, calls)
    BY <1>2 DEF BoardShape, RequestShape, PaymentsPage!NoCall
  <1>4. \A l \in calls.loads : BoardLoadOK(l, view.sel, server, InStep(calls))
    BY <1>1, <1>2, BoardLoads
  <1>5. ASSUME NEW h \in PaymentsPage!Hooks PROVE BoardHookOK(view.hooks[h], h, view.sel, server, InStep(calls))
    <2> DEFINE l == PaymentsPage!LoadOf(sel, h)
    <2>1. BoardLoadOK(l, sel, server, InStep(calls)) /\ l.hook = h /\ l.alive
      BY <1>1, BoardLoads DEF PaymentsPage!LoadOf, PaymentsPage!Async!Load
    <2>2. \/ view.hooks[h] = PaymentsPage!Async!Unmounted
          \/ view.hooks[h] = PaymentsPage!Async!Resolved(PaymentsPage!Async!Unmounted, l.answer)
      BY <1>2
    <2> HIDE DEF l
    <2> QED BY <1>2, <2>1, <2>2 DEF BoardHookOK, BoardLoadOK, PaymentsPage!Async!Unmounted, PaymentsPage!Async!Resolved,
               PaymentsPage!Async!Settled
  <1> QED BY <1>1, <1>3, <1>4, <1>5 DEF BoardInv

(* No load, no answer, and the server is still: what is asked of the list    *)
(* does not grow.                                                            *)
LEMMA BoardCalm ==
    ASSUME BoardInv, server' = server, view'.hooks = view.hooks, view'.sel = view.sel,
           BoardShape(view', calls'), calls'.loads \subseteq calls.loads, InStep(calls') => InStep(calls)
    PROVE BoardInv'
  BY DEF BoardInv, BoardHookOK, BoardLoadOK, BoardAnswerOK

LEMMA BoardReloads ==
    ASSUME BoardInv, NEW sel, NEW again \in SUBSET PaymentsPage!Hooks, server' = server,
           \A h \in PaymentsPage!Hooks \ again : PaymentsPage!KeyOf(sel, h) = PaymentsPage!KeyOf(view.sel, h),
           view' = [view EXCEPT !.sel = sel,
                      !.hooks = [h \in PaymentsPage!Hooks |-> IF h \in again THEN PaymentsPage!Async!Begun(@[h]) ELSE @[h]]],
           DOMAIN calls' = DOMAIN calls,
           calls'.loads = PaymentsPage!Async!Retired(calls.loads, again) \cup {PaymentsPage!LoadOf(sel, h) : h \in again},
           "list" \in again \/ (InStep(calls') => InStep(calls)),
           RequestShape(calls'.request), view.dialog # PaymentsPage!NoCall => calls'.request = PaymentsPage!NoCall
    PROVE BoardInv'
  <1> DEFINE fresh == InStep(calls')
  <1>1. BoardServerOK(server) /\ BoardShape(view, calls)
    BY DEF BoardInv
  <1>2. /\ DOMAIN view' = DOMAIN view /\ view'.sel = sel /\ view'.dialog = view.dialog
        /\ view'.hooks = [h \in PaymentsPage!Hooks |->
                              IF h \in again THEN PaymentsPage!Async!Begun(view.hooks[h]) ELSE view.hooks[h]]
    BY <1>1 DEF BoardShape
  <1>3. BoardShape(view', calls')
    BY <1>1, <1>2 DEF BoardShape
  <1>4. ASSUME NEW h \in PaymentsPage!Hooks PROVE BoardHookOK(view'.hooks[h], h, sel, server, fresh)
    <2> DEFINE old == view.hooks[h]
    <2>1. BoardHookOK(old, h, view.sel, server, InStep(calls))
      BY DEF BoardInv
    <2>2. CASE h \in again
      <3> DEFINE new == PaymentsPage!Async!Begun(old)
      <3>1. view'.hooks[h] = new
        BY <1>2, <2>2
      <3> HIDE DEF old
      <3>2. DOMAIN new = DOMAIN old /\ new.data = old.data /\ (new.loading \/ new.refreshing)
        BY <2>1 DEF BoardHookOK, PaymentsPage!Async!Begun
      <3> HIDE DEF new
      <3> QED BY <2>1, <3>1, <3>2 DEF BoardHookOK, PaymentsPage!Async!Settled
    <2>3. CASE h \notin again
      <3>1. view'.hooks[h] = old /\ PaymentsPage!KeyOf(sel, h) = PaymentsPage!KeyOf(view.sel, h)
        BY <1>2, <2>3
      <3> HIDE DEF old
      <3> QED BY <2>1, <2>3, <3>1 DEF BoardHookOK, BoardAnswerOK
    <2> QED BY <2>2, <2>3
  <1>5. ASSUME NEW l \in PaymentsPage!Async!Retired(calls.loads, again) PROVE BoardLoadOK(l, sel, server, fresh)
    <2>1. PICK old \in calls.loads : l = [old EXCEPT !.alive = @ /\ old.hook \notin again]
      BY DEF PaymentsPage!Async!Retired
    <2>2. BoardLoadOK(old, view.sel, server, InStep(calls))
      BY DEF BoardInv
    <2>3. /\ DOMAIN l = DOMAIN old /\ l.hook = old.hook /\ l.answer = old.answer
          /\ l.alive => old.alive /\ old.hook \notin again
      BY <2>1, <2>2 DEF BoardLoadOK
    <2>4. l.alive => PaymentsPage!KeyOf(sel, l.hook) = PaymentsPage!KeyOf(view.sel, l.hook)
      BY <2>2, <2>3 DEF BoardLoadOK
    <2> QED BY <2>2, <2>3, <2>4 DEF BoardLoadOK, BoardAnswerOK
  <1>6. \A l \in calls'.loads : BoardLoadOK(l, sel, server, fresh)
    BY <1>1, <1>5, BoardLoads
  <1> QED BY <1>1, <1>2, <1>3, <1>4, <1>6 DEF BoardInv


LEMMA BoardReloadKeeps ==
    ASSUME BoardInv, NEW sel, NEW again \in SUBSET PaymentsPage!Hooks, PaymentsPage!Reload(sel, again),
           \A h \in PaymentsPage!Hooks \ again : PaymentsPage!KeyOf(sel, h) = PaymentsPage!KeyOf(view.sel, h)
    PROVE BoardInv'
  <1>1. BoardShape(view, calls)
    BY DEF BoardInv
  <1>2. /\ DOMAIN calls' = DOMAIN calls /\ calls'.request = calls.request
        /\ (calls'.behind <=> calls.behind /\ "list" \notin again)
        /\ calls'.loads = PaymentsPage!Async!Retired(calls.loads, again) \cup {PaymentsPage!LoadOf(sel, h) : h \in again}
    BY <1>1 DEF PaymentsPage!Reload, BoardShape
  <1>3. server' = server /\ view' = [view EXCEPT !.sel = sel,
            !.hooks = [h \in PaymentsPage!Hooks |-> IF h \in again THEN PaymentsPage!Async!Begun(@[h]) ELSE @[h]]]
    BY DEF PaymentsPage!Reload
  <1>4. "list" \in again \/ (InStep(calls') => InStep(calls))
    BY <1>2 DEF InStep
  <1>5. RequestShape(calls'.request) /\ (view.dialog # PaymentsPage!NoCall => calls'.request = PaymentsPage!NoCall)
    BY <1>1, <1>2 DEF BoardShape
  <1> QED BY <1>2, <1>3, <1>4, <1>5, BoardReloads

LEMMA BoardSelectsKeep ==
    ASSUME BoardInv,
           \/ PaymentsPage!SelectYear \/ PaymentsPage!SelectAllYears \/ PaymentsPage!SelectStatus
           \/ PaymentsPage!SelectInvestor \/ PaymentsPage!ToggleCancelled \/ PaymentsPage!OpenDetail
           \/ PaymentsPage!ClearDetail \/ PaymentsPage!FollowLink \/ PaymentsPage!Retry
    PROVE BoardInv'
  <1>1. ASSUME NEW sel, PaymentsPage!Select(sel) PROVE BoardInv'
    <2> DEFINE changed == {h \in PaymentsPage!Hooks : PaymentsPage!KeyOf(sel, h) # PaymentsPage!KeyOf(view.sel, h)}
    <2>1. PaymentsPage!Reload(sel, changed)
      BY <1>1 DEF PaymentsPage!Select
    <2>2. /\ changed \in SUBSET PaymentsPage!Hooks
          /\ \A h \in PaymentsPage!Hooks \ changed : PaymentsPage!KeyOf(sel, h) = PaymentsPage!KeyOf(view.sel, h)
      OBVIOUS
    <2> HIDE DEF changed
    <2> QED BY <2>1, <2>2, BoardReloadKeeps
  <1>2. CASE PaymentsPage!Retry
    <2>1. PaymentsPage!Hooks \in SUBSET PaymentsPage!Hooks /\ PaymentsPage!Reload(view.sel, PaymentsPage!Hooks)
      BY <1>2 DEF PaymentsPage!Retry
    <2> QED BY <2>1, BoardReloadKeeps
  <1>3. CASE PaymentsPage!SelectYear \/ PaymentsPage!SelectAllYears \/ PaymentsPage!SelectStatus
    BY <1>1, <1>3 DEF PaymentsPage!SelectYear, PaymentsPage!SelectAllYears, PaymentsPage!SelectStatus
  <1>4. CASE PaymentsPage!SelectInvestor \/ PaymentsPage!ToggleCancelled \/ PaymentsPage!ClearDetail
    BY <1>1, <1>4 DEF PaymentsPage!SelectInvestor, PaymentsPage!ToggleCancelled, PaymentsPage!ClearDetail
  <1>5. CASE PaymentsPage!OpenDetail \/ PaymentsPage!FollowLink
    BY <1>1, <1>5 DEF PaymentsPage!OpenDetail, PaymentsPage!FollowLink
  <1> QED BY <1>2, <1>3, <1>4, <1>5

(* The buttons: a request at a time, and nothing is asked again.             *)
LEMMA BoardButtonsKeep ==
    ASSUME BoardInv,
           \/ \E p \in PaymentsPage!Payments, op \in {"markPaid", "markScheduled", "confirm", "reject"} :
                 PaymentsPage!RowAction(p, op)
           \/ \E op \in {"markYear", "sync", "remove"} : PaymentsPage!YearAction(op)
           \/ PaymentsPage!DialogConfirmed \/ PaymentsPage!DialogCancelled \/ PaymentsPage!RequestLost
    PROVE BoardInv'
  <1> DEFINE none == PaymentsPage!NoCall
  <1>1. BoardShape(view, calls) /\ RequestShape(none) /\ ~none.applied
    BY DEF BoardInv, RequestShape, PaymentsPage!NoCall
  <1>2. ASSUME NEW p, NEW op, PaymentsPage!RowAction(p, op) PROVE BoardInv'
    <2> DEFINE r == PaymentsPage!Call(op, p)
    <2>1. RequestShape(r) /\ ~r.applied
      BY DEF RequestShape, PaymentsPage!Call
    <2>2. server' = server /\ view.dialog = none /\ calls.request = none
      BY <1>2 DEF PaymentsPage!RowAction, PaymentsPage!Idle
    <2>3. \/ view' = [view EXCEPT !.dialog = r] /\ calls' = [calls EXCEPT !.left = @ - 1]
          \/ view' = view /\ calls' = [calls EXCEPT !.left = @ - 1, !.request = r]
      BY <1>2 DEF PaymentsPage!RowAction
    <2> HIDE DEF r, none
    <2>4. /\ DOMAIN view' = DOMAIN view /\ view'.hooks = view.hooks /\ view'.sel = view.sel
          /\ DOMAIN calls' = DOMAIN calls /\ calls'.loads = calls.loads /\ calls'.behind = calls.behind
          /\ \/ view'.dialog = r /\ calls'.request = none
             \/ view'.dialog = none /\ calls'.request = r
      BY <1>1, <2>2, <2>3 DEF BoardShape
    <2>5. BoardShape(view', calls') /\ (InStep(calls') => InStep(calls))
      BY <1>1, <2>1, <2>2, <2>4 DEF BoardShape, InStep, none
    <2> QED BY <2>2, <2>4, <2>5, BoardCalm
  <1>3. ASSUME NEW op, PaymentsPage!YearAction(op) PROVE BoardInv'
    <2>1. PICK i : calls' = [calls EXCEPT !.left = @ - 1, !.request = [PaymentsPage!Call(op, Null) EXCEPT !.investor = i]]
      BY <1>3 DEF PaymentsPage!YearAction
    <2> DEFINE r == [PaymentsPage!Call(op, Null) EXCEPT !.investor = i]
    <2>2. RequestShape(r) /\ ~r.applied
      BY DEF RequestShape, PaymentsPage!Call
    <2> HIDE DEF r, none
    <2>3. server' = server /\ view' = view /\ view.dialog = none /\ calls.request = none
      BY <1>3 DEF PaymentsPage!YearAction, PaymentsPage!Idle, none
    <2>4. DOMAIN calls' = DOMAIN calls /\ calls'.loads = calls.loads /\ calls'.behind = calls.behind /\ calls'.request = r
      BY <1>1, <2>1 DEF BoardShape, r
    <2>5. BoardShape(view', calls') /\ (InStep(calls') => InStep(calls))
      BY <1>1, <2>2, <2>3, <2>4 DEF BoardShape, InStep, none
    <2> QED BY <2>3, <2>4, <2>5, BoardCalm
  <1>4. CASE PaymentsPage!DialogConfirmed \/ PaymentsPage!DialogCancelled
    <2>1. /\ server' = server /\ view' = [view EXCEPT !.dialog = none]
          /\ calls' = [calls EXCEPT !.request = view.dialog] \/ calls' = calls
          /\ view.dialog # none
      BY <1>4 DEF PaymentsPage!DialogConfirmed, PaymentsPage!DialogCancelled
    <2> HIDE DEF none
    <2>2. /\ DOMAIN view' = DOMAIN view /\ view'.hooks = view.hooks /\ view'.sel = view.sel /\ view'.dialog = none
          /\ DOMAIN calls' = DOMAIN calls /\ calls'.loads = calls.loads /\ calls'.behind = calls.behind
          /\ calls'.request = view.dialog \/ calls'.request = calls.request
      BY <1>1, <2>1 DEF BoardShape
    <2>3. BoardShape(view', calls') /\ (InStep(calls') => InStep(calls))
      BY <1>1, <2>1, <2>2 DEF BoardShape, InStep, none
    <2> QED BY <2>1, <2>2, <2>3, BoardCalm
  <1>5. CASE PaymentsPage!RequestLost
    <2>1. /\ server' = server /\ view' = view /\ calls.request # none
          /\ calls' = [calls EXCEPT !.request = none, !.left = @ - 1, !.behind = @ \/ calls.request.applied]
      BY <1>5 DEF PaymentsPage!RequestLost
    <2> HIDE DEF none
    <2>2. /\ DOMAIN calls' = DOMAIN calls /\ calls'.loads = calls.loads /\ calls'.request = none
          /\ (calls'.behind <=> calls.behind \/ calls.request.applied)
      BY <1>1, <2>1 DEF BoardShape
    <2>3. BoardShape(view', calls') /\ (InStep(calls') => InStep(calls))
      BY <1>1, <2>1, <2>2 DEF BoardShape, InStep, none
    <2> QED BY <2>1, <2>2, <2>3, BoardCalm
  <1> QED BY <1>2, <1>3, <1>4, <1>5

(* The server moves when a request is applied and when others act: until the *)
(* lists are read again the page is out of step with it.                     *)
LEMMA BoardServerMoves ==
    ASSUME BoardInv, BoardServerOK(server'), view' = view, BoardShape(view, calls'), calls'.loads = calls.loads, ~InStep(calls')
    PROVE BoardInv'
  BY DEF BoardInv, BoardHookOK, BoardLoadOK, BoardAnswerOK

LEMMA BoardStatuses == ASSUME BoardServerOK(server), NEW p, NEW status \in PaymentsPage!Statuses
    PROVE /\ BoardServerOK(PaymentsPage!Requested(p)) /\ BoardServerOK(PaymentsPage!Answered(p, status))
          /\ BoardServerOK(PaymentsPage!Patched(p, status))
  <1>1. ASSUME NEW new \in PaymentsPage!Statuses PROVE BoardServerOK([server EXCEPT !.rows[p] = new])
    <2> DEFINE rows == [server.rows EXCEPT ![p] = new]
    <2>1. rows \in [PaymentsPage!Payments -> PaymentsPage!Statuses \cup {PaymentsPage!Deleted}]
      BY DEF BoardServerOK
    <2> HIDE DEF rows
    <2>2. BoardServerOK([server EXCEPT !.rows = rows])
      BY <2>1 DEF BoardServerOK
    <2> QED BY <2>2 DEF rows
  <1>2. "awaiting_confirmation" \in PaymentsPage!Statuses
    BY DEF PaymentsPage!Statuses
  <1> QED BY <1>1, <1>2 DEF PaymentsPage!Requested, PaymentsPage!Answered, PaymentsPage!Patched

LEMMA BoardYears == ASSUME BoardServerOK(server), NEW y, NEW i
    PROVE BoardServerOK(PaymentsPage!YearRequested(y, i)) /\ BoardServerOK(PaymentsPage!YearRemoved(y, i))
  <1>1. ASSUME NEW rows \in [PaymentsPage!Payments -> PaymentsPage!Statuses \cup {PaymentsPage!Deleted}]
        PROVE BoardServerOK([server EXCEPT !.rows = rows])
    BY DEF BoardServerOK
  <1>2. "awaiting_confirmation" \in PaymentsPage!Statuses
    BY DEF PaymentsPage!Statuses
  <1>3. BoardServerOK(PaymentsPage!YearRequested(y, i))
    <2> DEFINE due == {p \in PaymentsPage!InYear(y, i) : server.rows[p] = "scheduled"}
               rows == [p \in PaymentsPage!Payments |-> IF p \in due THEN "awaiting_confirmation" ELSE server.rows[p]]
    <2>1. PaymentsPage!YearRequested(y, i) \in {server, [server EXCEPT !.rows = rows]}
      BY DEF PaymentsPage!YearRequested
    <2> HIDE DEF due
    <2>2. rows \in [PaymentsPage!Payments -> PaymentsPage!Statuses \cup {PaymentsPage!Deleted}]
      BY <1>2 DEF BoardServerOK
    <2> HIDE DEF rows
    <2> QED BY <1>1, <2>1, <2>2
  <1>4. BoardServerOK(PaymentsPage!YearRemoved(y, i))
    <2> DEFINE gone == PaymentsPage!Starting(y, i)
               rows == [p \in PaymentsPage!Payments |-> IF Dues.payments[p].plan \in gone THEN PaymentsPage!Deleted ELSE server.rows[p]]
    <2>1. PaymentsPage!YearRemoved(y, i) \in {server, [server EXCEPT !.rows = rows]}
      BY DEF PaymentsPage!YearRemoved
    <2> HIDE DEF gone
    <2>2. rows \in [PaymentsPage!Payments -> PaymentsPage!Statuses \cup {PaymentsPage!Deleted}]
      BY DEF BoardServerOK
    <2> HIDE DEF rows
    <2> QED BY <1>1, <2>1, <2>2
  <1> QED BY <1>3, <1>4

LEMMA BoardAppliesKeep == ASSUME BoardInv, PaymentsPage!RequestApplied PROVE BoardInv'
  <1>1. BoardServerOK(server) /\ BoardShape(view, calls)
    BY DEF BoardInv
  <1> DEFINE r == calls.request
  <1>2. "paid" \in PaymentsPage!Statuses /\ "scheduled" \in PaymentsPage!Statuses
    BY DEF PaymentsPage!Statuses
  <1>3. \/ PaymentsPage!Effect(r) = server
        \/ \E s \in {"paid", "scheduled"} : PaymentsPage!Effect(r) = PaymentsPage!Answered(r.id, s)
        \/ PaymentsPage!Effect(r) = PaymentsPage!Requested(r.id)
        \/ PaymentsPage!Effect(r) = PaymentsPage!Patched(r.id, "scheduled")
        \/ PaymentsPage!Effect(r) = PaymentsPage!YearRequested(r.year, r.investor)
        \/ PaymentsPage!Effect(r) = PaymentsPage!YearRemoved(r.year, r.investor)
    BY DEF PaymentsPage!Effect
  <1>4. BoardServerOK(server')
    BY <1>1, <1>2, <1>3, BoardStatuses, BoardYears DEF PaymentsPage!RequestApplied
  <1>5. view' = view /\ calls' = [calls EXCEPT !.request.applied = TRUE]
        /\ calls.request # PaymentsPage!NoCall
    BY DEF PaymentsPage!RequestApplied
  <1>6. /\ DOMAIN calls' = DOMAIN calls /\ calls'.loads = calls.loads
        /\ DOMAIN calls'.request = DOMAIN calls.request /\ calls'.request.applied = TRUE
    BY <1>1, <1>5 DEF BoardShape, RequestShape
  <1>7. BoardShape(view, calls') /\ ~InStep(calls')
    BY <1>1, <1>5, <1>6 DEF BoardShape, RequestShape, InStep
  <1> QED BY <1>4, <1>5, <1>6, <1>7, BoardServerMoves

LEMMA BoardOthersKeep == ASSUME BoardInv, PaymentsPage!OtherParty PROVE BoardInv'
  <1>1. BoardServerOK(server) /\ BoardShape(view, calls)
    BY DEF BoardInv
  <1> DEFINE rest(p) == [q \in PaymentsPage!Payments |->
                 IF Dues.payments[q].plan = Dues.payments[p].plan /\ server.rows[q] = "scheduled" THEN "skipped" ELSE server.rows[q]]
             who(p) == server.agreed \cup {Dues.payments[p].investor}
             iced(p) == IF PaymentsPage!Frozen(p) THEN server.frozen \ {Dues.payments[p].plan}
                        ELSE server.frozen \cup {Dues.payments[p].plan}
             shut(p) == server.closed \cup {Dues.payments[p].plan}
             thawed(p) == server.frozen \ {Dues.payments[p].plan}
  <1>2. PICK p \in PaymentsPage!Payments :
          \/ \E status \in {"paid", "scheduled"} : server' = PaymentsPage!Answered(p, status)
          \/ server' \in {PaymentsPage!Requested(p), PaymentsPage!Patched(p, "scheduled")}
          \/ server' = [server EXCEPT !.agreed = who(p), !.frozen = iced(p)]
          \/ server' = [server EXCEPT !.closed = shut(p), !.frozen = thawed(p), !.agreed = who(p), !.rows = rest(p)]
    BY DEF PaymentsPage!OtherParty
  <1>3. "paid" \in PaymentsPage!Statuses /\ "scheduled" \in PaymentsPage!Statuses /\ "skipped" \in PaymentsPage!Statuses
    BY DEF PaymentsPage!Statuses
  <1>4. rest(p) \in [PaymentsPage!Payments -> PaymentsPage!Statuses \cup {PaymentsPage!Deleted}]
    BY <1>1, <1>3 DEF BoardServerOK
  <1> HIDE DEF rest, who, iced, shut, thawed
  <1>5. BoardServerOK(server')
    <2>1. CASE \/ \E status \in {"paid", "scheduled"} : server' = PaymentsPage!Answered(p, status)
               \/ server' \in {PaymentsPage!Requested(p), PaymentsPage!Patched(p, "scheduled")}
      BY <1>1, <1>3, <2>1, BoardStatuses
    <2>2. CASE server' = [server EXCEPT !.agreed = who(p), !.frozen = iced(p)]
      BY <1>1, <2>2 DEF BoardServerOK
    <2>3. CASE server' = [server EXCEPT !.closed = shut(p), !.frozen = thawed(p), !.agreed = who(p), !.rows = rest(p)]
      BY <1>1, <1>4, <2>3 DEF BoardServerOK
    <2> QED BY <1>2, <2>1, <2>2, <2>3
  <1>6. view' = view /\ calls' = [calls EXCEPT !.left = @ - 1, !.behind = TRUE]
    BY DEF PaymentsPage!OtherParty
  <1>7. /\ DOMAIN calls' = DOMAIN calls /\ calls'.loads = calls.loads /\ calls'.request = calls.request /\ calls'.behind = TRUE
    BY <1>1, <1>6 DEF BoardShape
  <1>8. BoardShape(view, calls') /\ ~InStep(calls')
    BY <1>1, <1>7 DEF BoardShape, InStep
  <1> QED BY <1>5, <1>6, <1>7, <1>8, BoardServerMoves

LEMMA BoardAnswerKeeps == ASSUME BoardInv, PaymentsPage!RequestAnswered PROVE BoardInv'
  <1> DEFINE sel == PaymentsPage!SelectionAfter(calls.request)
             again == PaymentsPage!ReloadedAfterAnswer \cup
                        {h \in PaymentsPage!Hooks : PaymentsPage!KeyOf(sel, h) # PaymentsPage!KeyOf(view.sel, h)}
  <1>1. BoardShape(view, calls)
    BY DEF BoardInv
  <1>2. again \in SUBSET PaymentsPage!Hooks /\ PaymentsPage!Hooks \ again = {} /\ "list" \in again
    BY DEF PaymentsPage!ReloadedAfterAnswer, PaymentsPage!Hooks
  <1>3. /\ server' = server
        /\ view' = [view EXCEPT !.sel = sel,
            !.hooks = [h \in PaymentsPage!Hooks |-> IF h \in again THEN PaymentsPage!Async!Begun(@[h]) ELSE @[h]]]
        /\ calls' = [calls EXCEPT !.request = PaymentsPage!NoCall, !.behind = @ /\ "list" \notin again,
                         !.loads = PaymentsPage!Async!Retired(@, again) \cup {PaymentsPage!LoadOf(sel, h) : h \in again}]
    BY DEF PaymentsPage!RequestAnswered
  <1> HIDE DEF sel, again
  <1>4. /\ DOMAIN calls' = DOMAIN calls /\ calls'.request = PaymentsPage!NoCall
        /\ calls'.loads = PaymentsPage!Async!Retired(calls.loads, again) \cup {PaymentsPage!LoadOf(sel, h) : h \in again}
    BY <1>1, <1>3 DEF BoardShape
  <1>5. RequestShape(PaymentsPage!NoCall)
    BY DEF RequestShape, PaymentsPage!NoCall
  <1> QED BY <1>2, <1>3, <1>4, <1>5, BoardReloads

LEMMA BoardLoadsKeep ==
    ASSUME BoardInv, NEW l \in calls.loads, PaymentsPage!LoadDelivered(l) \/ PaymentsPage!LoadFailed(l) PROVE BoardInv'
  <1> DEFINE old == view.hooks[l.hook]
             hook == IF PaymentsPage!LoadDelivered(l) THEN PaymentsPage!Async!Delivered(old, l) ELSE PaymentsPage!Async!Failed(old, l)
             hooks == [view.hooks EXCEPT ![l.hook] = hook]
  <1>1. BoardShape(view, calls) /\ BoardLoadOK(l, view.sel, server, InStep(calls))
        /\ BoardHookOK(old, l.hook, view.sel, server, InStep(calls))
    BY DEF BoardInv, BoardLoadOK
  <1>2. /\ server' = server /\ view' = [view EXCEPT !.hooks = hooks]
        /\ calls' = [calls EXCEPT !.loads = @ \ {l}] \/ calls' = [calls EXCEPT !.loads = @ \ {l}, !.left = @ - 1]
    BY DEF PaymentsPage!LoadDelivered, PaymentsPage!LoadFailed
  <1>3. \/ hook = old
        \/ DOMAIN hook = DOMAIN old /\ hook.error = TRUE /\ hook.data = old.data
        \/ DOMAIN hook = DOMAIN old /\ l.alive /\ hook.data = l.answer
    BY <1>1 DEF PaymentsPage!Async!Delivered, PaymentsPage!Async!Failed, PaymentsPage!Async!Resolved,
           PaymentsPage!Async!Rejected, BoardHookOK
  <1> HIDE DEF hook, old
  <1>4. BoardHookOK(hook, l.hook, view.sel, server, InStep(calls))
    BY <1>1, <1>3 DEF BoardHookOK, BoardLoadOK
  <1>5. /\ DOMAIN hooks = PaymentsPage!Hooks /\ hooks[l.hook] = hook
        /\ \A h \in PaymentsPage!Hooks \ {l.hook} : hooks[h] = view.hooks[h]
    BY <1>1 DEF BoardShape, BoardLoadOK
  <1> HIDE DEF hooks
  <1>6. /\ DOMAIN view' = DOMAIN view /\ view'.hooks = hooks /\ view'.sel = view.sel /\ view'.dialog = view.dialog
        /\ DOMAIN calls' = DOMAIN calls /\ calls'.loads = calls.loads \ {l} /\ calls'.request = calls.request
        /\ calls'.behind = calls.behind
    BY <1>1, <1>2 DEF BoardShape
  <1>7. BoardShape(view', calls') /\ (InStep(calls') <=> InStep(calls))
    BY <1>1, <1>5, <1>6 DEF BoardShape, InStep
  <1>8. \A h \in PaymentsPage!Hooks : BoardHookOK(view'.hooks[h], h, view.sel, server, InStep(calls))
    BY <1>4, <1>5, <1>6 DEF BoardInv
  <1>9. \A h \in PaymentsPage!Hooks : BoardHookOK(view'.hooks[h], h, view'.sel, server', InStep(calls'))
    BY <1>2, <1>6, <1>7, <1>8 DEF BoardHookOK, BoardAnswerOK
  <1>10. \A k \in calls'.loads : BoardLoadOK(k, view'.sel, server', InStep(calls'))
    BY <1>2, <1>6, <1>7 DEF BoardInv, BoardLoadOK, BoardAnswerOK
  <1> QED BY <1>2, <1>7, <1>9, <1>10 DEF BoardInv

LEMMA BoardStep == ASSUME BoardInv, PaymentsPage!Next PROVE BoardInv'
  BY BoardSelectsKeep, BoardButtonsKeep, BoardAppliesKeep, BoardOthersKeep, BoardAnswerKeeps, BoardLoadsKeep
     DEF PaymentsPage!Next

LEMMA BoardSays == BoardInv => PaymentsPage!BoardShowsSelection /\ PaymentsPage!BoardReadsItsWrites
  <1> SUFFICES ASSUME BoardInv PROVE PaymentsPage!BoardShowsSelection /\ PaymentsPage!BoardReadsItsWrites
    OBVIOUS
  <1>1. \A h \in PaymentsPage!Hooks : PaymentsPage!Async!ShowsKey(view.hooks[h], PaymentsPage!KeyOf(view.sel, h))
    BY DEF BoardInv, BoardHookOK, BoardAnswerOK, PaymentsPage!Async!ShowsKey
  <1>2. BoardHookOK(view.hooks["list"], "list", view.sel, server, InStep(calls))
    BY DEF BoardInv, PaymentsPage!Hooks
  <1>3. ASSUME PaymentsPage!ListScreen, NEW p \in PaymentsPage!DisplayedRows, NEW q \in PaymentsPage!DisplayedRows,
               PaymentsPage!Twins(p, q)
        PROVE p = q
    <2> DEFINE status == PaymentsPage!Loaded("list").status
    <2>1. RowsTyped(status)
      BY <1>2, <1>3 DEF BoardHookOK, PaymentsPage!ListScreen, PaymentsPage!HasData, PaymentsPage!Loaded
    <2>2. p \in PaymentsPage!Deduped(status) /\ q \in PaymentsPage!Deduped(status)
      BY <1>3 DEF PaymentsPage!DisplayedRows
    <2> HIDE DEF status
    <2>3. PaymentsPage!Twins(q, p)
      BY <1>3 DEF PaymentsPage!Twins
    <2>4. p \in Nat /\ q \in Nat /\ PaymentsPage!Priority(status[p]) \in Nat /\ PaymentsPage!Priority(status[q]) \in Nat
      BY <2>1, <2>2, PaymentsHaveStatus
         DEF RowsTyped, PaymentsPage!Deduped, PaymentsPage!Payments, PaymentsPage!Statuses, PaymentsPage!Priority
    <2> QED BY <1>3, <2>2, <2>3, <2>4 DEF PaymentsPage!Deduped
  <1>4. PaymentsPage!BoardShowsSelection
    BY <1>1, <1>3 DEF PaymentsPage!BoardShowsSelection, PaymentsPage!DisplayedRows
  <1>5. calls.request = PaymentsPage!NoCall => ~calls.request.applied
    BY DEF PaymentsPage!NoCall
  <1>6. PaymentsPage!BoardReadsItsWrites
    BY <1>2, <1>5, ListIsSnapshot DEF PaymentsPage!BoardReadsItsWrites, BoardHookOK, BoardAnswerOK, InStep
  <1> QED BY <1>4, <1>6

-----------------------------------------------------------------------------
(* The balance panel.                                                        *)

(* What a request says of itself: a movement keeps it.                       *)
TokenOf(r) == [key |-> r.key, intent |-> r.intent, body |-> MoneyPage!Body(r)]
TokenOfMove(m) == [key |-> m.key, intent |-> m.intent, body |-> m.body]

Pending(c) == IF c.request = Null THEN {} ELSE {c.request}

(* All that was said: sent, under way without anybody waiting, or done.      *)
Told(c, s) == {TokenOf(r) : r \in c.adrift \cup Pending(c)} \cup {TokenOfMove(m) : m \in s.moves}

(* A key is of one operation, and one intent has one key.                    *)
TokensOK(told, serial) ==
    /\ \A t \in told : t.key \in 1 .. serial /\ t.intent \in 0 .. serial
    /\ \A t, u \in told : /\ t.key = u.key => t.body = u.body
                          /\ t.intent = u.intent => t.key = u.key

FormBody(f, shown) ==
    [kind |-> f.kind, amount |-> f.amount, to |-> f.to, shown |-> IF f.kind = "transfer" THEN shown ELSE 0]

FormOK(f, serial) ==
    /\ DOMAIN f = {"kind", "to", "amount", "ticked", "key", "intent"}
    /\ f.kind \in {"none"} \cup MoneyPage!Kinds
    /\ f.to \in Recipients \cup {Null} /\ f.amount \in Nat
    /\ f.key \in 1 .. serial \cup {Null} /\ f.intent \in 0 .. serial

(* What would be sent agrees with what was told.  A transfer that is not     *)
(* ticked has no key; ticked and not yet sent, its intent is a new one.      *)
FormFits(f, shown, told) ==
    /\ f.kind \in {"deposit", "withdraw"} => f.key # Null
    /\ f.kind = "transfer" /\ f.ticked = Null => f.key = Null
    /\ f.kind = "transfer" /\ f.ticked # Null /\ f.key = Null => \A t \in told : t.intent # f.intent
    /\ f.key # Null => \A t \in told : /\ t.key = f.key => t.body = FormBody(f, shown)
                                       /\ t.intent = f.intent => t.key = f.key

RequestOK(r) ==
    /\ DOMAIN r = {"kind", "amount", "to", "key", "intent", "shown", "stage", "answer"}
    /\ r.amount \in Nat /\ r.answer # "clash"

Figures(h) == IF h = "wallet" THEN Nat ELSE [MoneyPage!Book -> Nat]

FiguresOK(hooks) ==
    /\ DOMAIN hooks = MoneyPage!Hooks
    /\ \A h \in MoneyPage!Hooks : /\ DOMAIN hooks[h] = {"data", "error", "loading", "refreshing"}
                                  /\ hooks[h].data # Null => hooks[h].data.rows \in Figures(h)

FigureLoadOK(l) ==
    DOMAIN l = {"hook", "answer", "alive"} /\ l.hook \in MoneyPage!Hooks /\ l.answer.rows \in Figures(l.hook)

MoneyServerOK(s) ==
    /\ DOMAIN s = {"balance", "moves", "noticed"}
    /\ s.balance \in [MoneyPage!Book -> Nat]
    /\ \A m, n \in s.moves : m.key = n.key => m = n
    /\ \A m \in s.moves : m.body.kind = "transfer" => m.before = m.body.shown

MoneyViewOK(v, serial, told) ==
    /\ DOMAIN v = {"hooks", "form"} /\ FiguresOK(v.hooks)
    /\ FormOK(v.form, serial) /\ FormFits(v.form, MoneyPage!Data(v, "wallet"), told)

MoneyCallsOK(c) ==
    /\ DOMAIN c = {"left", "serial", "request", "adrift", "clashed", "loads"}
    /\ c.serial \in Nat /\ c.clashed = FALSE
    /\ \A r \in c.adrift \cup Pending(c) : RequestOK(r)
    /\ \A l \in c.loads : FigureLoadOK(l)

MoneyInv ==
    /\ MoneyServerOK(server) /\ MoneyCallsOK(calls)
    /\ TokensOK(Told(calls, server), calls.serial)
    /\ MoneyViewOK(view, calls.serial, Told(calls, server))

LEMMA MoneyStart == MoneyPage!Init => MoneyInv
  <1> SUFFICES ASSUME MoneyPage!Init PROVE MoneyInv
    OBVIOUS
  <1>1. PICK b \in Opening : server = [balance |-> b, moves |-> {}, noticed |-> FALSE]
    BY DEF MoneyPage!Init
  <1>2. server.balance \in [MoneyPage!Book -> Nat] /\ MoneyServerOK(server) /\ server.moves = {}
    BY <1>1, MoneyIsCounted DEF MoneyServerOK, MoneyPage!Book
  <1> DEFINE load == MoneyPage!Async!Load("wallet", MoneyPage!Async!Answer("wallet", server.balance[Source]))
  <1>3. calls = [left |-> Events.money, serial |-> 0, request |-> Null, adrift |-> {}, clashed |-> FALSE, loads |-> {load}]
    BY DEF MoneyPage!Init
  <1>4. FigureLoadOK(load)
    BY <1>2 DEF FigureLoadOK, Figures, MoneyPage!Hooks, MoneyPage!Book, MoneyPage!Async!Load, MoneyPage!Async!Answer
  <1> HIDE DEF load
  <1>5. MoneyCallsOK(calls) /\ Told(calls, server) = {} /\ calls.serial = 0
    BY <1>2, <1>3, <1>4 DEF MoneyCallsOK, Told, Pending
  <1>6. TokensOK(Told(calls, server), calls.serial)
    BY <1>5 DEF TokensOK
  <1> DEFINE listed == MoneyPage!Async!Resolved(MoneyPage!Async!Unmounted, MoneyPage!Async!Answer("investors", server.balance))
  <1>7. view = [hooks |-> [wallet |-> MoneyPage!Async!Unmounted, investors |-> listed], form |-> MoneyPage!NoForm]
    BY DEF MoneyPage!Init
  <1>8. DOMAIN listed = {"data", "error", "loading", "refreshing"} /\ listed.data.rows = server.balance
    BY DEF MoneyPage!Async!Resolved, MoneyPage!Async!Unmounted, MoneyPage!Async!Answer
  <1> HIDE DEF listed
  <1>9. FiguresOK(view.hooks)
    BY <1>2, <1>7, <1>8 DEF FiguresOK, Figures, MoneyPage!Hooks, MoneyPage!Async!Unmounted
  <1>10. FormOK(view.form, calls.serial) /\ FormFits(view.form, MoneyPage!Data(view, "wallet"), {})
    BY <1>5, <1>7 DEF FormOK, FormFits, MoneyPage!NoForm
  <1>11. DOMAIN view = {"hooks", "form"}
    BY <1>7
  <1> QED BY <1>2, <1>5, <1>6, <1>9, <1>10, <1>11 DEF MoneyInv, MoneyViewOK

(* One render: the review stands only if no figure of it changed.            *)
LEMMA MoneyRenders ==
    ASSUME MoneyServerOK(server), DOMAIN view = {"hooks", "form"},
           NEW serial \in Nat, NEW told,
           NEW v, DOMAIN v = {"hooks", "form"}, FiguresOK(v.hooks), FormOK(v.form, serial),
           v.form.kind # "transfer" \/ MoneyPage!Facts(v) = MoneyPage!Facts(view)
              => FormFits(v.form, MoneyPage!Data(v, "wallet"), told),
           NEW reloaded \in SUBSET MoneyPage!Hooks, NEW loads, \A l \in loads : FigureLoadOK(l)
    PROVE /\ MoneyViewOK(MoneyPage!RenderedWith(v, reloaded, loads).view, serial, told)
          /\ \A l \in MoneyPage!RenderedWith(v, reloaded, loads).loads : FigureLoadOK(l)
  <1> DEFINE run == reloaded \cup (IF MoneyPage!Listed(v, Source) # MoneyPage!Listed(view, Source) THEN {"wallet"} ELSE {})
             next == IF MoneyPage!Facts(v) # MoneyPage!Facts(view) THEN MoneyPage!ReviewReset(v) ELSE v
             hooks == [h \in MoneyPage!Hooks |-> IF h \in run THEN MoneyPage!Async!Begun(v.hooks[h]) ELSE v.hooks[h]]
             shown == [next EXCEPT !.hooks = hooks]
             begun == {MoneyPage!Begin(v, h) : h \in run}
  <1>1. run \subseteq MoneyPage!Hooks
    BY DEF MoneyPage!Hooks
  <1>2. DOMAIN next = {"hooks", "form"} /\ next.hooks = v.hooks
    BY DEF MoneyPage!ReviewReset
  <1>3. MoneyPage!RenderedWith(v, reloaded, loads) =
          [view |-> [next EXCEPT !.hooks = [h \in MoneyPage!Hooks |-> IF h \in run THEN MoneyPage!Async!Begun(@[h]) ELSE @[h]]],
           loads |-> MoneyPage!Async!Retired(loads, run) \cup begun]
    BY DEF MoneyPage!RenderedWith
  <1>4. /\ MoneyPage!RenderedWith(v, reloaded, loads).view = shown
        /\ MoneyPage!RenderedWith(v, reloaded, loads).loads = MoneyPage!Async!Retired(loads, run) \cup begun
    BY <1>2, <1>3
  <1>5. /\ DOMAIN next.form = DOMAIN v.form /\ next.form.kind = v.form.kind /\ next.form.to = v.form.to
        /\ next.form.amount = v.form.amount /\ next.form.intent = v.form.intent
        /\ \/ next.form.ticked = v.form.ticked /\ next.form.key = v.form.key
              /\ (v.form.kind # "transfer" \/ MoneyPage!Facts(v) = MoneyPage!Facts(view))
           \/ v.form.kind = "transfer" /\ next.form.ticked = Null /\ next.form.key = Null
    <2>1. CASE MoneyPage!Facts(v) = MoneyPage!Facts(view)
      BY <2>1
    <2>2. CASE MoneyPage!Facts(v) # MoneyPage!Facts(view)
      <3> DEFINE ticked == IF v.form.kind = "transfer" THEN Null ELSE v.form.ticked
                 key == IF v.form.kind = "transfer" THEN Null ELSE v.form.key
                 form == [v.form EXCEPT !.ticked = ticked]
      <3>1. next = [[v EXCEPT !.form = form] EXCEPT !.form = [@ EXCEPT !.key = key]]
        BY <2>2 DEF MoneyPage!ReviewReset
      <3>2. next.form = [form EXCEPT !.key = key]
        <4> HIDE DEF form, key, next
        <4> QED BY <3>1
      <3>3. DOMAIN next.form = DOMAIN v.form /\ next.form.ticked = ticked /\ next.form.key = key
            /\ next.form.kind = v.form.kind /\ next.form.to = v.form.to /\ next.form.amount = v.form.amount
            /\ next.form.intent = v.form.intent
        <4> HIDE DEF key, ticked, next
        <4> QED BY <3>2 DEF FormOK
      <3> HIDE DEF next
      <3> QED BY <3>3
    <2> QED BY <2>1, <2>2
  <1>6. FormOK(next.form, serial)
    BY <1>5 DEF FormOK
  <1>7. FormFits(next.form, MoneyPage!Data(v, "wallet"), told)
    BY <1>5 DEF FormFits, FormBody
  <1> HIDE DEF next, run
  <1>8. FiguresOK(hooks) /\ \A h \in MoneyPage!Hooks : hooks[h].data = v.hooks[h].data
    BY DEF FiguresOK, MoneyPage!Async!Begun
  <1> HIDE DEF hooks
  <1>9. DOMAIN shown = {"hooks", "form"} /\ shown.hooks = hooks /\ shown.form = next.form
    BY <1>2
  <1>10. MoneyPage!Data(shown, "wallet") = MoneyPage!Data(v, "wallet")
    BY <1>8, <1>9 DEF MoneyPage!Data, MoneyPage!Hooks
  <1>11. MoneyViewOK(shown, serial, told)
    BY <1>6, <1>7, <1>8, <1>9, <1>10 DEF MoneyViewOK
  <1>12. \A l \in begun : FigureLoadOK(l)
    <2>1. server.balance \in [MoneyPage!Book -> Nat] /\ server.balance[Source] \in Nat
      BY DEF MoneyServerOK, MoneyPage!Book
    <2>2. ASSUME NEW h \in run PROVE FigureLoadOK(MoneyPage!Begin(v, h))
      <3>1. h \in {"wallet", "investors"}
        BY <1>1, <2>2 DEF MoneyPage!Hooks
      <3>2. MoneyPage!Begin(v, h) = [hook |-> h, answer |-> [key |-> h, rows |-> IF h = "wallet" THEN server.balance[Source]
                                                                            ELSE server.balance], alive |-> TRUE]
        BY DEF MoneyPage!Begin, MoneyPage!Async!Load, MoneyPage!Async!Answer
      <3> QED BY <2>1, <3>1, <3>2 DEF FigureLoadOK, Figures, MoneyPage!Hooks
    <2> QED BY <2>2
  <1>13. \A l \in MoneyPage!Async!Retired(loads, run) : FigureLoadOK(l)
    BY DEF MoneyPage!Async!Retired, FigureLoadOK
  <1> HIDE DEF shown, begun
  <1> QED BY <1>4, <1>11, <1>12, <1>13

(* Steps that say nothing new and leave the form alone.                      *)
LEMMA MoneyCalm ==
    ASSUME MoneyInv, MoneyServerOK(server'), MoneyCallsOK(calls'), calls'.serial = calls.serial,
           Told(calls', server') \subseteq Told(calls, server),
           MoneyViewOK(view', calls.serial, Told(calls, server))
    PROVE MoneyInv'
  <1>1. TokensOK(Told(calls', server'), calls'.serial)
    BY DEF MoneyInv, TokensOK
  <1>2. MoneyViewOK(view', calls'.serial, Told(calls', server'))
    BY DEF MoneyViewOK, FormFits
  <1> QED BY <1>1, <1>2 DEF MoneyInv

(* A step of the manager has a number of its own.                            *)
LEMMA MoneyUses ==
    ASSUME MoneyInv, NEW form, FormOK(form, calls.serial + 1),
           FormFits(form, MoneyPage!Data(view, "wallet"), Told(calls, server)), MoneyPage!Use(form)
    PROVE MoneyInv'
  <1> DEFINE v == [view EXCEPT !.form = form]
             told == Told(calls, server)
             next == MoneyPage!RenderedWith(v, {}, calls.loads)
             serial == calls.serial + 1
  <1>1. DOMAIN v = {"hooks", "form"} /\ v.hooks = view.hooks /\ v.form = form /\ DOMAIN view = {"hooks", "form"}
        /\ FiguresOK(view.hooks)
    BY DEF MoneyInv, MoneyViewOK
  <1>2. /\ server' = server /\ view' = next.view
        /\ calls' = [calls EXCEPT !.left = @ - 1, !.serial = @ + 1]
    BY DEF MoneyPage!Use
  <1> HIDE DEF v, told
  <1>3. MoneyPage!Data(v, "wallet") = MoneyPage!Data(view, "wallet")
    BY <1>1 DEF MoneyPage!Data
  <1>4. FormFits(v.form, MoneyPage!Data(v, "wallet"), told)
    BY <1>1, <1>3 DEF told
  <1>5. MoneyServerOK(server) /\ serial \in Nat /\ (\A l \in calls.loads : FigureLoadOK(l)) /\ {} \in SUBSET MoneyPage!Hooks
    BY DEF MoneyInv, MoneyCallsOK
  <1> HIDE DEF serial
  <1>6. MoneyViewOK(next.view, serial, told)
    BY <1>1, <1>4, <1>5, MoneyRenders DEF serial
  <1> HIDE DEF next
  <1>7. /\ DOMAIN calls' = DOMAIN calls /\ calls'.serial = serial /\ calls'.request = calls.request
        /\ calls'.adrift = calls.adrift /\ calls'.loads = calls.loads /\ calls'.clashed = calls.clashed
    BY <1>2 DEF MoneyInv, MoneyCallsOK, serial
  <1>8. MoneyCallsOK(calls')
    BY <1>5, <1>7 DEF MoneyInv, MoneyCallsOK, Pending
  <1>9. Told(calls', server') = told
    BY <1>2, <1>7 DEF Told, Pending, told
  <1>10. TokensOK(told, calls'.serial)
    BY <1>7 DEF MoneyInv, MoneyCallsOK, TokensOK, told, serial
  <1> QED BY <1>2, <1>6, <1>7, <1>8, <1>9, <1>10 DEF MoneyInv

LEMMA MoneyFormsKeep ==
    ASSUME MoneyInv,
           \/ MoneyPage!OpenTransfer \/ MoneyPage!Edit \/ MoneyPage!Tick
           \/ \E kind \in {"deposit", "withdraw"} : MoneyPage!OpenAction(kind)
    PROVE MoneyInv'
  <1> DEFINE told == Told(calls, server)
             shown == MoneyPage!Data(view, "wallet")
             serial == calls.serial
             old == view.form
  <1>1. serial \in Nat /\ Null \notin Nat /\ MoneyPage!New = serial + 1
    BY MoneyIsCounted DEF MoneyInv, MoneyCallsOK, MoneyPage!New
  <1>2. \A t \in told : t.key \in 1 .. serial /\ t.intent \in 0 .. serial
    BY DEF MoneyInv, TokensOK
  <1>3. FormOK(old, serial) /\ FormFits(old, shown, told)
    BY DEF MoneyInv, MoneyViewOK
  <1> HIDE DEF told, shown, serial, old
  <1>4. CASE MoneyPage!OpenTransfer
    <2>1. PICK to \in Recipients, a \in Amounts :
            MoneyPage!Use([MoneyPage!NoForm EXCEPT !.kind = "transfer", !.to = to, !.amount = a, !.intent = MoneyPage!New])
      BY <1>4 DEF MoneyPage!OpenTransfer
    <2> DEFINE form == [MoneyPage!NoForm EXCEPT !.kind = "transfer", !.to = to, !.amount = a, !.intent = MoneyPage!New]
    <2>2. /\ DOMAIN form = {"kind", "to", "amount", "ticked", "key", "intent"} /\ form.kind = "transfer" /\ form.to = to
          /\ form.amount = a /\ form.ticked = Null /\ form.key = Null /\ form.intent = serial + 1
      BY <1>1 DEF MoneyPage!NoForm
    <2>3. a \in Nat
      BY MoneyIsCounted
    <2> HIDE DEF form
    <2>4. FormOK(form, serial + 1) /\ FormFits(form, shown, told)
      BY <1>1, <1>2, <2>2, <2>3 DEF FormOK, FormFits, MoneyPage!Kinds
    <2>5. MoneyPage!Use(form)
      BY <2>1 DEF form
    <2> QED BY <2>4, <2>5, MoneyUses DEF serial, told, shown
  <1>5. ASSUME NEW kind \in {"deposit", "withdraw"}, MoneyPage!OpenAction(kind) PROVE MoneyInv'
    <2>1. PICK a \in Amounts :
            MoneyPage!Use([MoneyPage!NoForm EXCEPT !.kind = kind, !.amount = a, !.key = MoneyPage!New, !.intent = MoneyPage!New])
      BY <1>5 DEF MoneyPage!OpenAction
    <2> DEFINE form == [MoneyPage!NoForm EXCEPT !.kind = kind, !.amount = a, !.key = MoneyPage!New, !.intent = MoneyPage!New]
    <2>2. /\ DOMAIN form = {"kind", "to", "amount", "ticked", "key", "intent"} /\ form.kind = kind /\ form.to = Null
          /\ form.amount = a /\ form.ticked = Null /\ form.key = serial + 1 /\ form.intent = serial + 1
      BY <1>1 DEF MoneyPage!NoForm
    <2>3. a \in Nat
      BY MoneyIsCounted
    <2> HIDE DEF form
    <2>4. FormOK(form, serial + 1) /\ FormFits(form, shown, told)
      BY <1>1, <1>2, <2>2, <2>3 DEF FormOK, FormFits, MoneyPage!Kinds
    <2>5. MoneyPage!Use(form)
      BY <2>1 DEF form
    <2> QED BY <2>4, <2>5, MoneyUses DEF serial, told, shown
  <1>6. CASE MoneyPage!Edit
    <2>1. PICK a \in Amounts :
            MoneyPage!Use([view.form EXCEPT !.amount = a, !.ticked = Null, !.intent = MoneyPage!New,
                  !.key = IF view.form.kind = "transfer" THEN Null ELSE MoneyPage!New])
      BY <1>6 DEF MoneyPage!Edit
    <2> DEFINE form == [view.form EXCEPT !.amount = a, !.ticked = Null, !.intent = MoneyPage!New,
                  !.key = IF view.form.kind = "transfer" THEN Null ELSE MoneyPage!New]
    <2>2. /\ DOMAIN form = DOMAIN old /\ form.kind = old.kind /\ form.to = old.to /\ form.amount = a
          /\ form.ticked = Null /\ form.intent = serial + 1
          /\ form.key = IF old.kind = "transfer" THEN Null ELSE serial + 1
      BY <1>1, <1>3 DEF FormOK, old
    <2>3. a \in Nat
      BY MoneyIsCounted
    <2> HIDE DEF form
    <2>4. FormOK(form, serial + 1) /\ FormFits(form, shown, told)
      BY <1>1, <1>2, <1>3, <2>2, <2>3 DEF FormOK, FormFits, MoneyPage!Kinds
    <2>5. MoneyPage!Use(form)
      BY <2>1 DEF form
    <2> QED BY <2>4, <2>5, MoneyUses DEF serial, told, shown
  <1>7. CASE MoneyPage!Tick
    <2> DEFINE form == [view.form EXCEPT !.ticked = MoneyPage!Fingerprint(view),
                           !.intent = IF view.form.kind = "transfer" THEN MoneyPage!New ELSE @]
    <2>1. MoneyPage!Use(form) /\ old.ticked = Null /\ old.kind \in {"transfer", "deposit"}
      BY <1>7 DEF MoneyPage!Tick, old
    <2>2. /\ DOMAIN form = DOMAIN old /\ form.kind = old.kind /\ form.to = old.to /\ form.amount = old.amount
          /\ form.key = old.key /\ form.intent = IF old.kind = "transfer" THEN serial + 1 ELSE old.intent
      BY <1>1, <1>3 DEF FormOK, old
    <2> HIDE DEF form
    <2>3. FormOK(form, serial + 1)
      BY <1>1, <1>3, <2>2 DEF FormOK
    <2>4. FormFits(form, shown, told)
      BY <1>1, <1>2, <1>3, <2>1, <2>2 DEF FormFits, FormBody
    <2> QED BY <2>1, <2>3, <2>4, MoneyUses DEF serial, told, shown
  <1> QED BY <1>4, <1>5, <1>6, <1>7

(* A request is sent with the key it had, or with a new one.                 *)
LEMMA MoneySubmits == ASSUME MoneyInv, MoneyPage!Submit PROVE MoneyInv'
  <1> DEFINE told == Told(calls, server)
             shown == MoneyPage!Data(view, "wallet")
             f == view.form
             key == MoneyPage!KeyToSend
             form == [f EXCEPT !.key = key]
             later == IF f.key = Null THEN calls.serial + 1 ELSE calls.serial
             r == [kind |-> f.kind, amount |-> f.amount, to |-> f.to, key |-> key, intent |-> f.intent,
                   shown |-> IF f.kind = "transfer" THEN shown ELSE 0,
                   stage |-> IF f.kind = "withdraw" THEN "notice" ELSE "move", answer |-> Null]
             token == [key |-> key, intent |-> f.intent, body |-> FormBody(f, shown)]
  <1>1. /\ server' = server /\ view' = [view EXCEPT !.form.key = key]
        /\ calls' = [calls EXCEPT !.serial = later, !.request = r]
    BY DEF MoneyPage!Submit, MoneyPage!New
  <1>2. /\ calls.serial \in Nat /\ Null \notin Nat
        /\ FormOK(f, calls.serial) /\ FormFits(f, shown, told) /\ TokensOK(told, calls.serial)
        /\ key = IF f.key = Null THEN calls.serial + 1 ELSE f.key
    BY MoneyIsCounted DEF MoneyInv, MoneyCallsOK, MoneyViewOK, MoneyPage!KeyToSend, MoneyPage!New
  <1>3. f.kind \in MoneyPage!Kinds /\ (f.kind = "transfer" => f.ticked = MoneyPage!Fingerprint(view))
    BY <1>2 DEF MoneyPage!Submit, MoneyPage!TransferConfirmed, MoneyPage!Kinds, FormOK
  <1>4. f.kind = "transfer" => f.ticked # Null
    <2>1. ASSUME NEW h \in MoneyPage!Hooks, MoneyPage!Data(view, h) # Null PROVE MoneyPage!Data(view, h) \in Figures(h)
      BY <2>1 DEF MoneyPage!Data, MoneyInv, MoneyViewOK, FiguresOK
    <2>2. shown \in Figure
      BY <2>1 DEF MoneyPage!Hooks, Figures, Figure
    <2>3. \A i \in MoneyPage!Book : MoneyPage!Listed(view, i) \in Figure
      BY <2>1 DEF MoneyPage!Hooks, Figures, MoneyPage!Listed, Figure
    <2>4. f.to \in Recipients \cup {Null} /\ f.amount \in Nat
      BY <1>2 DEF FormOK
    <2> DEFINE facts == MoneyPage!Facts(view)
    <2>5. facts \in [available : Figure, source : Figure, recipient : Figure]
      BY <2>2, <2>3, <2>4 DEF MoneyPage!Facts, MoneyPage!Book, Figure
    <2> HIDE DEF facts
    <2>6. MoneyPage!Fingerprint(view) \in [facts : [available : Figure, source : Figure, recipient : Figure],
                                           to : Recipients \cup {Null}, amount : Nat]
      BY <2>4, <2>5 DEF MoneyPage!Fingerprint, facts
    <2> QED BY <1>3, <2>6, MoneyIsCounted
  <1>5. TokenOf(r) = token
    BY DEF TokenOf, MoneyPage!Body, FormBody
  <1>6. RequestOK(r)
    BY <1>2, MoneyIsCounted DEF RequestOK, FormOK
  <1>7. /\ DOMAIN form = DOMAIN f /\ form.kind = f.kind /\ form.to = f.to /\ form.amount = f.amount
        /\ form.key = key /\ form.intent = f.intent /\ form.ticked = f.ticked
    BY <1>2 DEF FormOK
  <1>8. view'.form = form /\ view'.hooks = view.hooks /\ DOMAIN view' = DOMAIN view
    BY <1>1 DEF MoneyInv, MoneyViewOK
  <1>9. /\ DOMAIN calls' = DOMAIN calls /\ calls'.serial = later /\ calls'.request = r /\ calls'.adrift = calls.adrift
        /\ calls'.loads = calls.loads /\ calls'.clashed = calls.clashed
    BY <1>1 DEF MoneyInv, MoneyCallsOK
  <1>10. token.key = key /\ token.intent = f.intent /\ token.body = FormBody(f, shown)
    OBVIOUS
  <1> HIDE DEF told, shown, f, key, form, r, token, later
  <1>11. Told(calls', server') \subseteq told \cup {token}
    BY <1>1, <1>5, <1>9 DEF Told, Pending, told
  <1>12. /\ later \in Nat /\ later >= calls.serial /\ key \in 1 .. later
         /\ \/ key = f.key /\ f.key # Null
            \/ key = calls.serial + 1 /\ f.key = Null
    BY <1>2 DEF FormOK, later
  <1>13. FormOK(form, later)
    BY <1>2, <1>7, <1>12 DEF FormOK
  <1>14. f.kind \in {"deposit", "withdraw", "transfer"}
    BY <1>3 DEF MoneyPage!Kinds
  <1>15. \A t \in told : /\ t.key = key => t.body = FormBody(f, shown)
                         /\ t.intent = f.intent => t.key = key
    BY <1>2, <1>4, <1>12, <1>14 DEF FormFits, TokensOK
  <1>16. TokensOK(told \cup {token}, later)
    BY <1>2, <1>10, <1>12, <1>15 DEF TokensOK, FormOK
  <1>17. FormBody(form, shown) = FormBody(f, shown)
    BY <1>7 DEF FormBody
  <1>18. FormFits(form, shown, told \cup {token})
    BY <1>2, <1>4, <1>7, <1>10, <1>12, <1>14, <1>15, <1>17 DEF FormFits
  <1>19. MoneyPage!Data(view', "wallet") = shown
    BY <1>8 DEF MoneyPage!Data, shown
  <1>20. MoneyCallsOK(calls')
    BY <1>6, <1>9, <1>12 DEF MoneyInv, MoneyCallsOK, Pending
  <1>21. TokensOK(Told(calls', server'), calls'.serial)
    BY <1>9, <1>11, <1>16 DEF TokensOK
  <1>22. MoneyViewOK(view', calls'.serial, Told(calls', server'))
    BY <1>8, <1>9, <1>11, <1>13, <1>18, <1>19 DEF MoneyViewOK, FormFits, MoneyInv
  <1> QED BY <1>1, <1>20, <1>21, <1>22 DEF MoneyInv

LEMMA MoneyCancels == ASSUME MoneyInv, MoneyPage!Cancel PROVE MoneyInv'
  <1>1. server' = server /\ calls' = calls /\ view'.form = MoneyPage!NoForm /\ view'.hooks = view.hooks /\ DOMAIN view' = DOMAIN view
    BY DEF MoneyPage!Cancel, MoneyInv, MoneyViewOK
  <1>2. FormOK(MoneyPage!NoForm, calls.serial) /\ FormFits(MoneyPage!NoForm, MoneyPage!Data(view', "wallet"), Told(calls, server))
    BY DEF FormOK, FormFits, MoneyPage!NoForm, MoneyInv, MoneyCallsOK
  <1>3. MoneyViewOK(view', calls.serial, Told(calls, server))
    BY <1>1, <1>2 DEF MoneyInv, MoneyViewOK
  <1> QED BY <1>1, <1>3 DEF MoneyInv

(* The server: one movement for a key, over the balance the review showed.   *)
LEMMA MoneyHandled ==
    ASSUME MoneyServerOK(server), NEW r, RequestOK(r), NEW told, NEW serial, TokensOK(told, serial), TokenOf(r) \in told,
           {TokenOfMove(m) : m \in server.moves} \subseteq told
    PROVE /\ MoneyServerOK(MoneyPage!Handled(r).server)
          /\ {TokenOfMove(m) : m \in MoneyPage!Handled(r).server.moves} \subseteq told
          /\ MoneyPage!Handled(r).answer # "clash"
  <1> DEFINE same == {m \in server.moves : m.key = r.key}
             new == [key |-> r.key, intent |-> r.intent, body |-> MoneyPage!Body(r), before |-> server.balance[Source]]
             balance == MoneyPage!Balances(r)
             next == [server EXCEPT !.balance = balance, !.moves = @ \cup {new}]
  <1>1. \A m \in same : m.body = MoneyPage!Body(r)
    <2>1. \A m \in server.moves : TokenOfMove(m) \in told
      OBVIOUS
    <2>2. TokenOf(r).key = r.key /\ TokenOf(r).body = MoneyPage!Body(r)
      BY DEF TokenOf
    <2>3. \A m : TokenOfMove(m).key = m.key /\ TokenOfMove(m).body = m.body
      BY DEF TokenOfMove
    <2> QED BY <2>1, <2>2, <2>3 DEF TokensOK
  <1>2. CASE same # {}
    <2>1. MoneyPage!Handled(r) = [answer |-> "ok", server |-> server]
      BY <1>1, <1>2 DEF MoneyPage!Handled
    <2> QED BY <2>1
  <1>3. CASE same = {} /\ MoneyPage!Refused(r)
    BY <1>3 DEF MoneyPage!Handled
  <1>4. CASE same = {} /\ ~MoneyPage!Refused(r)
    <2>1. MoneyPage!Handled(r) = [answer |-> "ok", server |-> next]
      BY <1>4 DEF MoneyPage!Handled
    <2>2. /\ r.amount \in Nat /\ server.balance \in [MoneyPage!Book -> Nat]
          /\ r.kind # "deposit" => r.amount <= server.balance[Source]
          /\ r.kind = "transfer" => r.shown = server.balance[Source]
      BY <1>4 DEF MoneyPage!Refused, MoneyServerOK, RequestOK, MoneyPage!Book
    <2>3. balance \in [MoneyPage!Book -> Nat]
      <3>1. \A i \in MoneyPage!Book : server.balance[i] \in Nat
        BY <2>2
      <3>2. Source \in MoneyPage!Book
        BY DEF MoneyPage!Book
      <3>3. \A i \in MoneyPage!Book :
              (CASE i = Source  -> IF r.kind = "deposit" THEN server.balance[i] + r.amount ELSE server.balance[i] - r.amount
                 [] i = r.to    -> server.balance[i] + r.amount
                 [] OTHER       -> server.balance[i]) \in Nat
        <4> SUFFICES ASSUME NEW i \in MoneyPage!Book
                     PROVE (CASE i = Source  -> IF r.kind = "deposit" THEN server.balance[i] + r.amount ELSE server.balance[i] - r.amount
                              [] i = r.to    -> server.balance[i] + r.amount
                              [] OTHER       -> server.balance[i]) \in Nat
          OBVIOUS
        <4>1. CASE i = Source
          BY <2>2, <3>1, <4>1
        <4>2. CASE i # Source
          BY <2>2, <3>1, <4>2
        <4> QED BY <4>1, <4>2
      <3> QED BY <3>3 DEF MoneyPage!Balances
    <2>4. TokenOfMove(new) = TokenOf(r)
      BY DEF TokenOfMove, TokenOf
    <2>5. /\ new.key = r.key
          /\ new.body.kind = "transfer" => new.before = new.body.shown
      BY <2>2 DEF MoneyPage!Body
    <2> HIDE DEF new, balance
    <2>6. DOMAIN next = DOMAIN server /\ next.balance = balance /\ next.moves = server.moves \cup {new}
      BY DEF MoneyServerOK
    <2> HIDE DEF next
    <2>7. MoneyServerOK(next)
      BY <1>4, <2>3, <2>5, <2>6 DEF MoneyServerOK
    <2>8. {TokenOfMove(m) : m \in next.moves} \subseteq told
      BY <2>4, <2>6
    <2>9. MoneyPage!Handled(r).server = next /\ MoneyPage!Handled(r).answer = "ok"
      BY <2>1
    <2> QED BY <2>7, <2>8, <2>9
  <1> QED BY <1>2, <1>3, <1>4


(* The rest of the panel's view stays.                                       *)
LEMMA MoneyServes ==
    ASSUME MoneyInv, view' = view, MoneyServerOK(server'), MoneyCallsOK(calls'), calls'.serial = calls.serial,
           Told(calls', server') \subseteq Told(calls, server)
    PROVE MoneyInv'
  <1>1. MoneyViewOK(view', calls.serial, Told(calls, server))
    BY DEF MoneyInv
  <1> QED BY <1>1, MoneyCalm

LEMMA MoneyRequestKeeps ==
    ASSUME MoneyInv, MoneyPage!NoticeRecorded \/ MoneyPage!RequestHandled \/ MoneyPage!RequestLost
    PROVE MoneyInv'
  <1> DEFINE r == calls.request
             told == Told(calls, server)
  <1>1. r # Null /\ RequestOK(r) /\ TokenOf(r) \in told /\ {TokenOfMove(m) : m \in server.moves} \subseteq told
    BY DEF MoneyPage!NoticeRecorded, MoneyPage!RequestHandled, MoneyPage!RequestLost, MoneyPage!Busy, MoneyInv, MoneyCallsOK,
           Pending, Told
  <1>2. MoneyCallsOK(calls) /\ MoneyServerOK(server) /\ TokensOK(told, calls.serial)
    BY DEF MoneyInv
  <1>3. ASSUME NEW s, MoneyServerOK(s), {TokenOfMove(m) : m \in s.moves} \subseteq told, NEW later, TokenOf(later) = TokenOf(r),
               RequestOK(later), server' = s, view' = view, calls' = [calls EXCEPT !.request = later]
        PROVE MoneyInv'
    <2>1. /\ DOMAIN calls' = DOMAIN calls /\ calls'.serial = calls.serial /\ calls'.request = later /\ calls'.adrift = calls.adrift
          /\ calls'.loads = calls.loads /\ calls'.clashed = calls.clashed
      BY <1>2, <1>3 DEF MoneyCallsOK
    <2>2. MoneyCallsOK(calls')
      BY <1>2, <1>3, <2>1 DEF MoneyCallsOK, Pending
    <2>3. Told(calls', server') \subseteq told
      BY <1>1, <1>3, <2>1 DEF Told, Pending
    <2> QED BY <1>3, <2>1, <2>2, <2>3, MoneyServes
  <1>4. CASE MoneyPage!NoticeRecorded
    <2> DEFINE later == [r EXCEPT !.stage = "move"]
               s == [server EXCEPT !.noticed = TRUE]
    <2>1. server' = s /\ calls' = [calls EXCEPT !.request = later] /\ view' = view
      BY <1>4 DEF MoneyPage!NoticeRecorded
    <2>2. TokenOf(later) = TokenOf(r) /\ RequestOK(later)
      BY <1>1 DEF RequestOK, TokenOf, MoneyPage!Body
    <2>3. MoneyServerOK(s) /\ s.moves = server.moves
      BY <1>2 DEF MoneyServerOK
    <2> HIDE DEF later, s, r
    <2> QED BY <1>1, <1>3, <2>1, <2>2, <2>3
  <1>5. CASE MoneyPage!RequestHandled
    <2> DEFINE answer == MoneyPage!Handled(r).answer
               later == [r EXCEPT !.answer = answer]
               s == MoneyPage!Handled(r).server
    <2>1. server' = s /\ calls' = [calls EXCEPT !.request = later] /\ view' = view
      BY <1>5 DEF MoneyPage!RequestHandled
    <2> HIDE DEF r, told
    <2>2. MoneyServerOK(s) /\ {TokenOfMove(m) : m \in s.moves} \subseteq told /\ answer # "clash"
      BY <1>1, <1>2, MoneyHandled
    <2> HIDE DEF answer, s
    <2>3. TokenOf(later) = TokenOf(r) /\ RequestOK(later)
      BY <1>1, <2>2 DEF RequestOK, TokenOf, MoneyPage!Body
    <2> HIDE DEF later
    <2> QED BY <1>3, <2>1, <2>2, <2>3 DEF r
  <1>6. CASE MoneyPage!RequestLost
    <2>1. /\ server' = server /\ view' = view
          /\ DOMAIN calls' = DOMAIN calls /\ calls'.serial = calls.serial /\ calls'.request = Null
          /\ calls'.loads = calls.loads /\ calls'.clashed = calls.clashed
          /\ calls'.adrift \in {calls.adrift, calls.adrift \cup {r}}
      BY <1>2, <1>6 DEF MoneyPage!RequestLost, MoneyCallsOK
    <2>2. MoneyCallsOK(calls')
      BY <1>1, <1>2, <2>1 DEF MoneyCallsOK, Pending
    <2>3. Told(calls', server') \subseteq told
      BY <1>1, <2>1 DEF Told, Pending
    <2> QED BY <1>2, <2>1, <2>2, <2>3, MoneyServes
  <1> QED BY <1>4, <1>5, <1>6

LEMMA MoneyElsewhereKeeps ==
    ASSUME MoneyInv, MoneyPage!OtherManager \/ \E r \in calls.adrift : MoneyPage!LateArrival(r)
    PROVE MoneyInv'
  <1> DEFINE told == Told(calls, server)
  <1>1. MoneyCallsOK(calls) /\ MoneyServerOK(server) /\ TokensOK(told, calls.serial)
    BY DEF MoneyInv
  <1>2. CASE MoneyPage!OtherManager
    <2>1. PICK i \in MoneyPage!Book : server' = [server EXCEPT !.balance[i] = @ + 1]
      BY <1>2 DEF MoneyPage!OtherManager
    <2> DEFINE balance == [server.balance EXCEPT ![i] = @ + 1]
    <2>2. balance \in [MoneyPage!Book -> Nat]
      BY <1>1 DEF MoneyServerOK
    <2>3. DOMAIN server' = DOMAIN server /\ server'.balance = balance /\ server'.moves = server.moves
      BY <1>1, <2>1 DEF MoneyServerOK
    <2> HIDE DEF balance
    <2>4. MoneyServerOK(server')
      BY <1>1, <2>2, <2>3 DEF MoneyServerOK
    <2>5. /\ view' = view /\ DOMAIN calls' = DOMAIN calls /\ calls'.serial = calls.serial /\ calls'.request = calls.request
          /\ calls'.adrift = calls.adrift /\ calls'.loads = calls.loads /\ calls'.clashed = calls.clashed
      BY <1>1, <1>2 DEF MoneyPage!OtherManager, MoneyCallsOK
    <2>6. MoneyCallsOK(calls') /\ Told(calls', server') = told
      BY <1>1, <2>3, <2>5 DEF MoneyCallsOK, Told, Pending
    <2> QED BY <2>4, <2>5, <2>6, MoneyServes
  <1>3. ASSUME NEW r \in calls.adrift, MoneyPage!LateArrival(r) PROVE MoneyInv'
    <2>1. RequestOK(r) /\ TokenOf(r) \in told /\ {TokenOfMove(m) : m \in server.moves} \subseteq told
      BY <1>1 DEF MoneyCallsOK, Told
    <2> DEFINE s == MoneyPage!Handled(r).server
    <2>2. MoneyServerOK(s) /\ {TokenOfMove(m) : m \in s.moves} \subseteq told
      <3> HIDE DEF told
      <3> QED BY <1>1, <2>1, MoneyHandled
    <2>3. server' = s /\ view' = view /\ calls' = [calls EXCEPT !.adrift = @ \ {r}]
      BY <1>3 DEF MoneyPage!LateArrival
    <2> HIDE DEF s
    <2>4. /\ DOMAIN calls' = DOMAIN calls /\ calls'.serial = calls.serial /\ calls'.request = calls.request
          /\ calls'.adrift = calls.adrift \ {r} /\ calls'.loads = calls.loads /\ calls'.clashed = calls.clashed
      BY <1>1, <2>3 DEF MoneyCallsOK
    <2>5. MoneyCallsOK(calls')
      BY <1>1, <2>4 DEF MoneyCallsOK, Pending
    <2>6. Told(calls', server') \subseteq told
      BY <2>2, <2>3, <2>4 DEF Told, Pending
    <2> QED BY <2>2, <2>3, <2>4, <2>5, <2>6, MoneyServes
  <1> QED BY <1>2, <1>3

(* Loads are rendered.                                                       *)
LEMMA MoneyRendered ==
    ASSUME MoneyInv, NEW v, DOMAIN v = {"hooks", "form"}, FiguresOK(v.hooks), FormOK(v.form, calls.serial),
           v.form.kind # "transfer" \/ MoneyPage!Facts(v) = MoneyPage!Facts(view)
              => FormFits(v.form, MoneyPage!Data(v, "wallet"), Told(calls, server)),
           NEW reloaded \in SUBSET MoneyPage!Hooks, NEW loads, \A l \in loads : FigureLoadOK(l),
           server' = server, view' = MoneyPage!RenderedWith(v, reloaded, loads).view,
           DOMAIN calls' = DOMAIN calls, calls'.loads = MoneyPage!RenderedWith(v, reloaded, loads).loads,
           calls'.serial = calls.serial, calls'.adrift = calls.adrift, calls'.request \in {calls.request, Null},
           calls'.clashed = calls.clashed
    PROVE MoneyInv'
  <1> DEFINE told == Told(calls, server)
             next == MoneyPage!RenderedWith(v, reloaded, loads)
  <1>1. MoneyServerOK(server) /\ MoneyCallsOK(calls) /\ DOMAIN view = {"hooks", "form"} /\ calls.serial \in Nat
    BY DEF MoneyInv, MoneyViewOK, MoneyCallsOK
  <1>2. MoneyViewOK(next.view, calls.serial, told) /\ \A l \in next.loads : FigureLoadOK(l)
    BY <1>1, MoneyRenders
  <1> HIDE DEF next
  <1>3. MoneyCallsOK(calls')
    BY <1>1, <1>2 DEF MoneyCallsOK, Pending, next
  <1>4. Told(calls', server') \subseteq told
    BY DEF Told, Pending
  <1> QED BY <1>1, <1>2, <1>3, <1>4, MoneyCalm DEF next

LEMMA MoneyLoadsKeep ==
    ASSUME MoneyInv,
           \/ MoneyPage!RequestAnswered \/ MoneyPage!Refresh
           \/ \E l \in calls.loads : MoneyPage!LoadDelivered(l) \/ MoneyPage!LoadFailed(l)
    PROVE MoneyInv'
  <1> DEFINE told == Told(calls, server)
             shown == MoneyPage!Data(view, "wallet")
  <1>1. /\ MoneyCallsOK(calls) /\ DOMAIN view = {"hooks", "form"} /\ FiguresOK(view.hooks)
        /\ FormOK(view.form, calls.serial) /\ FormFits(view.form, shown, told)
        /\ \A l \in calls.loads : FigureLoadOK(l)
    BY DEF MoneyInv, MoneyViewOK, MoneyCallsOK
  <1> HIDE DEF told, shown
  <1>2. CASE MoneyPage!RequestAnswered
    <2> DEFINE done == calls.request.answer = "ok"
               v == IF done THEN [view EXCEPT !.form = MoneyPage!NoForm] ELSE view
               reloaded == IF done THEN MoneyPage!Hooks ELSE {}
               next == MoneyPage!RenderedWith(v, reloaded, calls.loads)
    <2>1. calls.request.answer # "clash" /\ calls.clashed = FALSE
      BY <1>1, <1>2 DEF MoneyPage!RequestAnswered, MoneyPage!Busy, MoneyCallsOK, Pending, RequestOK
    <2>2. /\ server' = server /\ view' = next.view
          /\ calls' = [calls EXCEPT !.request = Null, !.loads = next.loads, !.clashed = @ \/ calls.request.answer = "clash"]
      BY <1>2 DEF MoneyPage!RequestAnswered
    <2>3. DOMAIN v = {"hooks", "form"} /\ v.hooks = view.hooks /\ v.form \in {view.form, MoneyPage!NoForm}
      BY <1>1
    <2> HIDE DEF v, next, done
    <2>4. FormOK(v.form, calls.serial) /\ FormFits(v.form, MoneyPage!Data(v, "wallet"), Told(calls, server))
      <3>1. FormOK(MoneyPage!NoForm, calls.serial) /\ FormFits(MoneyPage!NoForm, shown, told)
        BY <1>1 DEF FormOK, FormFits, MoneyPage!NoForm, MoneyCallsOK
      <3>2. MoneyPage!Data(v, "wallet") = shown
        BY <2>3 DEF MoneyPage!Data, shown
      <3> QED BY <1>1, <2>3, <3>1, <3>2 DEF told
    <2>5. /\ DOMAIN calls' = DOMAIN calls /\ calls'.loads = next.loads /\ calls'.serial = calls.serial
          /\ calls'.adrift = calls.adrift /\ calls'.request = Null /\ calls'.clashed = calls.clashed
      BY <1>1, <2>1, <2>2 DEF MoneyCallsOK
    <2>6. reloaded \in SUBSET MoneyPage!Hooks
      OBVIOUS
    <2> HIDE DEF reloaded
    <2> QED BY <1>1, <2>2, <2>3, <2>4, <2>5, <2>6, MoneyRendered DEF next
  <1>3. CASE MoneyPage!Refresh
    <2>1. PICK run \in {{"wallet"}, {"investors"}} :
            /\ view' = MoneyPage!RenderedWith(view, run, calls.loads).view
            /\ calls' = [calls EXCEPT !.loads = MoneyPage!RenderedWith(view, run, calls.loads).loads, !.left = @ - 1]
      BY <1>3 DEF MoneyPage!Refresh
    <2> DEFINE next == MoneyPage!RenderedWith(view, run, calls.loads)
    <2>2. run \in SUBSET MoneyPage!Hooks /\ server' = server
      BY <1>3 DEF MoneyPage!Refresh, MoneyPage!Hooks
    <2> HIDE DEF next
    <2>3. /\ DOMAIN calls' = DOMAIN calls /\ calls'.loads = next.loads /\ calls'.serial = calls.serial
          /\ calls'.adrift = calls.adrift /\ calls'.request = calls.request /\ calls'.clashed = calls.clashed
      BY <1>1, <2>1 DEF MoneyCallsOK, next
    <2> QED BY <1>1, <2>1, <2>2, <2>3, MoneyRendered DEF next, told, shown
  <1>4. ASSUME NEW l \in calls.loads, MoneyPage!LoadDelivered(l) PROVE MoneyInv'
    <2> DEFINE hook == MoneyPage!Async!Delivered(view.hooks[l.hook], l)
               hooks == [view.hooks EXCEPT ![l.hook] = hook]
               v == [view EXCEPT !.hooks = hooks]
               next == MoneyPage!RenderedWith(v, {}, calls.loads \ {l})
    <2>1. server' = server /\ view' = next.view /\ calls' = [calls EXCEPT !.loads = next.loads]
      BY <1>4 DEF MoneyPage!LoadDelivered
    <2>2. l.hook \in MoneyPage!Hooks /\ l.answer.rows \in Figures(l.hook)
      BY <1>1 DEF FigureLoadOK
    <2>3. DOMAIN hook = DOMAIN view.hooks[l.hook] /\ hook.data \in {view.hooks[l.hook].data, l.answer}
      BY <1>1, <2>2 DEF FiguresOK, MoneyPage!Async!Delivered, MoneyPage!Async!Resolved
    <2> HIDE DEF hook
    <2>4. FiguresOK(hooks)
      BY <1>1, <2>2, <2>3 DEF FiguresOK
    <2> HIDE DEF hooks
    <2>5. DOMAIN v = {"hooks", "form"} /\ v.hooks = hooks /\ v.form = view.form
      BY <1>1
    <2> HIDE DEF v, next
    <2>6. v.form.kind # "transfer" \/ MoneyPage!Facts(v) = MoneyPage!Facts(view)
              => FormFits(v.form, MoneyPage!Data(v, "wallet"), Told(calls, server))
      <3>1. MoneyPage!Facts(v) = MoneyPage!Facts(view) => MoneyPage!Data(v, "wallet") = shown
        BY DEF MoneyPage!Facts, shown
      <3>2. v.form.kind # "transfer" => \A x : FormBody(v.form, x) = FormBody(v.form, shown)
        BY DEF FormBody
      <3> QED BY <1>1, <2>5, <3>1, <3>2 DEF FormFits, told
    <2>7. /\ DOMAIN calls' = DOMAIN calls /\ calls'.loads = next.loads /\ calls'.serial = calls.serial
          /\ calls'.adrift = calls.adrift /\ calls'.request = calls.request /\ calls'.clashed = calls.clashed
      BY <1>1, <2>1 DEF MoneyCallsOK
    <2>8. {} \in SUBSET MoneyPage!Hooks /\ \A k \in calls.loads \ {l} : FigureLoadOK(k)
      BY <1>1
    <2> QED BY <1>1, <2>1, <2>4, <2>5, <2>6, <2>7, <2>8, MoneyRendered DEF next
  <1>5. ASSUME NEW l \in calls.loads, MoneyPage!LoadFailed(l) PROVE MoneyInv'
    <2> DEFINE hook == MoneyPage!Async!Failed(view.hooks[l.hook], l)
               hooks == [view.hooks EXCEPT ![l.hook] = hook]
    <2>1. server' = server /\ view' = [view EXCEPT !.hooks = hooks] /\ calls' = [calls EXCEPT !.loads = @ \ {l}, !.left = @ - 1]
      BY <1>5 DEF MoneyPage!LoadFailed
    <2>2. l.hook \in MoneyPage!Hooks
      BY <1>1 DEF FigureLoadOK
    <2>3. DOMAIN hook = DOMAIN view.hooks[l.hook] /\ hook.data = view.hooks[l.hook].data
      BY <1>1, <2>2 DEF FiguresOK, MoneyPage!Async!Failed, MoneyPage!Async!Rejected
    <2> HIDE DEF hook
    <2>4. FiguresOK(hooks) /\ \A h \in MoneyPage!Hooks : hooks[h].data = view.hooks[h].data
      BY <1>1, <2>2, <2>3 DEF FiguresOK
    <2> HIDE DEF hooks
    <2>5. DOMAIN view' = {"hooks", "form"} /\ view'.hooks = hooks /\ view'.form = view.form
      BY <1>1, <2>1
    <2>6. MoneyPage!Data(view', "wallet") = shown
      BY <2>4, <2>5 DEF MoneyPage!Data, shown, MoneyPage!Hooks
    <2>7. MoneyViewOK(view', calls.serial, told)
      BY <1>1, <2>4, <2>5, <2>6 DEF MoneyViewOK
    <2>8. /\ DOMAIN calls' = DOMAIN calls /\ calls'.loads = calls.loads \ {l} /\ calls'.serial = calls.serial
          /\ calls'.adrift = calls.adrift /\ calls'.request = calls.request /\ calls'.clashed = calls.clashed
      BY <1>1, <2>1 DEF MoneyCallsOK
    <2>9. MoneyCallsOK(calls') /\ Told(calls', server') = told
      BY <1>1, <2>1, <2>8 DEF MoneyCallsOK, Pending, Told, told
    <2>10. MoneyServerOK(server')
      BY <2>1 DEF MoneyInv
    <2> QED BY <2>7, <2>8, <2>9, <2>10, MoneyCalm DEF told
  <1> QED BY <1>2, <1>3, <1>4, <1>5

LEMMA MoneyStep == ASSUME MoneyInv, MoneyPage!Next PROVE MoneyInv'
  BY MoneyFormsKeep, MoneySubmits, MoneyCancels, MoneyRequestKeeps, MoneyElsewhereKeeps, MoneyLoadsKeep DEF MoneyPage!Next

LEMMA MoneySays == MoneyInv => MoneyPage!OneMovePerReview
  <1> SUFFICES ASSUME MoneyInv PROVE MoneyPage!OneMovePerReview
    OBVIOUS
  <1>1. \A m, n \in server.moves : m.intent = n.intent => m.key = n.key
    <2> SUFFICES ASSUME NEW m \in server.moves, NEW n \in server.moves, m.intent = n.intent PROVE m.key = n.key
      OBVIOUS
    <2>1. TokenOfMove(m) \in Told(calls, server) /\ TokenOfMove(n) \in Told(calls, server)
      BY DEF Told
    <2>2. TokenOfMove(m).intent = TokenOfMove(n).intent
      BY DEF TokenOfMove
    <2>3. TokenOfMove(m).key = TokenOfMove(n).key
      BY <2>1, <2>2 DEF MoneyInv, TokensOK
    <2> QED BY <2>3 DEF TokenOfMove
  <1> QED BY <1>1 DEF MoneyInv, MoneyServerOK, MoneyCallsOK, MoneyPage!OneMovePerReview

-----------------------------------------------------------------------------
(* The access an offer shows.                                                *)

(* A converted row has the access of the account, unless a request crossed   *)
(* its conversion; and what was converted stays so while the offer is there. *)
RowsKept(rows, s) == \A q \in DOMAIN rows :
    /\ q \in Quotes \ s.unused
    /\ q \notin s.crossed /\ rows[q].status = "converted"
         => /\ rows[q].access = s.accounts[q]
            /\ q \in DOMAIN s.quotes => s.quotes[q].status = "converted"

Columns == {"status", "access"}

QuoteServerOK(s) ==
    /\ DOMAIN s = {"quotes", "accounts", "unused", "crossed"}
    /\ DOMAIN s.accounts = Quotes
    /\ s.unused \subseteq Quotes
    /\ \A q \in DOMAIN s.quotes : DOMAIN s.quotes[q] = Columns
    /\ RowsKept(s.quotes, s)

QuoteLoadOK(l, s) == DOMAIN l = {"hook", "answer", "alive"} /\ RowsKept(l.answer.rows, s)

(* A handler past its checks holds a row that passed them.                   *)
QuoteCallOK(c) ==
    /\ DOMAIN c = {"op", "id", "access", "row", "answer", "heard"}
    /\ c.row # Null => DOMAIN c.row = Columns /\ QuotesPage!Accepts(c, c.row)

QuotesInv ==
    /\ QuoteServerOK(server)
    /\ DOMAIN view = {"list", "tab", "form", "asked", "converting", "issued", "share", "busy", "pdfBusy", "attempted", "filling"}
    /\ DOMAIN view.list = {"data", "error", "loading", "refreshing"}
    /\ DOMAIN calls = {"sent", "loads", "left"}
    /\ view.list.data # Null => RowsKept(view.list.data.rows, server)
    /\ \A l \in calls.loads : QuoteLoadOK(l, server)
    /\ \A c \in calls.sent : QuoteCallOK(c)

LEMMA QuotesStart == QuotesPage!Init => QuotesInv
  <1> SUFFICES ASSUME QuotesPage!Init PROVE QuotesInv
    OBVIOUS
  <1>1. PICK old \in SUBSET Quotes :
          server \in [quotes : [old -> [status : {"pending", "approved", "rejected"}, access : {0} \cup Accesses]],
                      accounts : {[q \in Quotes |-> 0]}, unused : {Quotes \ old}, crossed : {{}}]
    BY DEF QuotesPage!Init
  <1>2. \A q \in old : DOMAIN server.quotes[q] = {"status", "access"} /\ server.quotes[q].status # "converted"
    BY <1>1
  <1>3. QuoteServerOK(server)
    BY <1>1, <1>2 DEF QuoteServerOK, RowsKept, Columns
  <1> QED BY <1>3 DEF QuotesPage!Init, QuotesInv, QuoteLoadOK, QuoteServerOK, QuotesPage!ListLoad, QuotesPage!Async!Load,
             QuotesPage!Async!Answer, QuotesPage!Async!Unmounted

(* Steps of the page: it shows what it showed or what a load brings.         *)
LEMMA QuotesCalm == ASSUME QuotesInv, server' = server, DOMAIN view' = DOMAIN view, DOMAIN view'.list = DOMAIN view.list,
                           DOMAIN calls' = DOMAIN calls,
                           view'.list.data = view.list.data \/ \E l \in calls.loads : view'.list.data = l.answer,
                           \A l \in calls'.loads : l \in calls.loads \/ QuoteLoadOK(l, server),
                           \A c \in calls'.sent : c \in calls.sent \/ QuoteCallOK(c)
    PROVE QuotesInv'
  <1>1. \A l \in calls.loads : RowsKept(l.answer.rows, server)
    BY DEF QuotesInv, QuoteLoadOK
  <1>2. view'.list.data # Null => RowsKept(view'.list.data.rows, server)
    BY <1>1 DEF QuotesInv
  <1>3. (\A l \in calls'.loads : QuoteLoadOK(l, server)) /\ (\A c \in calls'.sent : QuoteCallOK(c))
    BY DEF QuotesInv
  <1> QED BY <1>2, <1>3 DEF QuotesInv

LEMMA QuoteReload == ASSUME QuotesInv
    PROVE /\ \A l \in QuotesPage!LoadsReloaded : QuoteLoadOK(l, server)
          /\ \A v : DOMAIN v = DOMAIN view /\ v.list = view.list
               => /\ DOMAIN QuotesPage!Reload(v) = DOMAIN view
                  /\ DOMAIN QuotesPage!Reload(v).list = DOMAIN view.list
                  /\ QuotesPage!Reload(v).list.data = view.list.data
  <1>1. QuoteLoadOK(QuotesPage!ListLoad, server)
    BY DEF QuotesInv, QuoteServerOK, QuoteLoadOK, QuotesPage!ListLoad, QuotesPage!Async!Load, QuotesPage!Async!Answer
  <1>2. \A l \in QuotesPage!Async!Retired(calls.loads, {"list"}) : QuoteLoadOK(l, server)
    BY DEF QuotesPage!Async!Retired, QuotesInv, QuoteLoadOK
  <1>3. ASSUME NEW v, DOMAIN v = DOMAIN view, v.list = view.list
        PROVE /\ DOMAIN QuotesPage!Reload(v) = DOMAIN view
              /\ DOMAIN QuotesPage!Reload(v).list = DOMAIN view.list
              /\ QuotesPage!Reload(v).list.data = view.list.data
    BY <1>3 DEF QuotesPage!Reload, QuotesPage!Async!Begun, QuotesInv
  <1> QED BY <1>1, <1>2, <1>3 DEF QuotesPage!LoadsReloaded

(* The calls of the page have read nothing yet.                              *)
LEMMA QuoteCallStarts == \A op, id, access :
    /\ QuoteCallOK(QuotesPage!Call(op, id, access))
    /\ QuoteCallOK([QuotesPage!Call(op, id, access) EXCEPT !.answer = "done"])
  BY DEF QuoteCallOK, QuotesPage!Call

(* What is written into a call beside its row leaves it in order.            *)
LEMMA QuoteCallMarked == ASSUME NEW c, QuoteCallOK(c)
    PROVE /\ \A x : QuoteCallOK([c EXCEPT !.answer = x]) /\ QuoteCallOK([c EXCEPT !.heard = x])
          /\ \A x : QuoteCallOK([c EXCEPT !.row = Null, !.answer = x])
  <1>1. ASSUME NEW d, DOMAIN d = DOMAIN c, d.op = c.op, d.row = c.row PROVE QuoteCallOK(d)
    BY <1>1 DEF QuoteCallOK, QuotesPage!Accepts
  <1>2. ASSUME NEW x PROVE QuoteCallOK([c EXCEPT !.answer = x])
    <2>1. DOMAIN [c EXCEPT !.answer = x] = DOMAIN c /\ [c EXCEPT !.answer = x].op = c.op /\ [c EXCEPT !.answer = x].row = c.row
      BY DEF QuoteCallOK
    <2> QED BY <1>1, <2>1
  <1>3. ASSUME NEW x PROVE QuoteCallOK([c EXCEPT !.heard = x])
    <2>1. DOMAIN [c EXCEPT !.heard = x] = DOMAIN c /\ [c EXCEPT !.heard = x].op = c.op /\ [c EXCEPT !.heard = x].row = c.row
      BY DEF QuoteCallOK
    <2> QED BY <1>1, <2>1
  <1>4. ASSUME NEW x PROVE QuoteCallOK([c EXCEPT !.row = Null, !.answer = x])
    BY DEF QuoteCallOK
  <1> QED BY <1>2, <1>3, <1>4

LEMMA QuoteSends == ASSUME QuotesInv, NEW v, DOMAIN v = DOMAIN view, v.list = view.list, NEW c, QuoteCallOK(c),
                           NEW cost, QuotesPage!Send(v, c, cost)
    PROVE QuotesInv'
  <1>1. /\ server' = server /\ view' = v /\ DOMAIN calls' = DOMAIN calls /\ calls'.loads = calls.loads
        /\ calls'.sent = calls.sent \cup {c}
    BY DEF QuotesPage!Send, QuotesInv
  <1> QED BY <1>1, QuotesCalm

LEMMA QuoteTurns == ASSUME QuotesInv, NEW v, DOMAIN v = DOMAIN view, v.list = view.list, QuotesPage!Turn(v) \/ QuotesPage!Costly(v)
    PROVE QuotesInv'
  <1>1. /\ server' = server /\ view' = v /\ DOMAIN calls' = DOMAIN calls /\ calls'.loads = calls.loads
        /\ calls'.sent = calls.sent
    BY DEF QuotesPage!Turn, QuotesPage!Costly, QuotesInv
  <1> QED BY <1>1, QuotesCalm

LEMMA QuoteRefetches == ASSUME QuotesInv, NEW v, DOMAIN v = DOMAIN view, v.list = view.list, QuotesPage!Refetched(v)
    PROVE QuotesInv'
  <1>1. /\ server' = server /\ view' = QuotesPage!Reload(v) /\ DOMAIN calls' = DOMAIN calls
        /\ calls'.loads = QuotesPage!LoadsReloaded /\ calls'.sent = calls.sent
    BY DEF QuotesPage!Refetched, QuotesInv
  <1> QED BY <1>1, QuoteReload, QuotesCalm

(* The buttons change fields of the view, never the list.                    *)
LEMMA QuoteFields == ASSUME QuotesInv
    PROVE \A x : /\ DOMAIN [view EXCEPT !.tab = x] = DOMAIN view /\ [view EXCEPT !.tab = x].list = view.list
                 /\ DOMAIN [view EXCEPT !.form = x] = DOMAIN view /\ [view EXCEPT !.form = x].list = view.list
                 /\ DOMAIN [view EXCEPT !.busy = x] = DOMAIN view /\ [view EXCEPT !.busy = x].list = view.list
                 /\ DOMAIN [view EXCEPT !.asked = x] = DOMAIN view /\ [view EXCEPT !.asked = x].list = view.list
                 /\ DOMAIN [view EXCEPT !.converting = x] = DOMAIN view /\ [view EXCEPT !.converting = x].list = view.list
                 /\ DOMAIN [view EXCEPT !.pdfBusy = x] = DOMAIN view /\ [view EXCEPT !.pdfBusy = x].list = view.list
                 /\ DOMAIN [view EXCEPT !.issued = x] = DOMAIN view /\ [view EXCEPT !.issued = x].list = view.list
                 /\ DOMAIN [view EXCEPT !.share = x] = DOMAIN view /\ [view EXCEPT !.share = x].list = view.list
                 /\ DOMAIN [view EXCEPT !.filling = x] = DOMAIN view /\ [view EXCEPT !.filling = x].list = view.list
                 /\ DOMAIN [view EXCEPT !.attempted = x] = DOMAIN view /\ [view EXCEPT !.attempted = x].list = view.list
  BY DEF QuotesInv

LEMMA QuoteButtonsKeep ==
    ASSUME QuotesInv,
           \/ QuotesPage!ChooseTab \/ QuotesPage!OpenForm \/ QuotesPage!CloseForm \/ QuotesPage!OnSave \/ QuotesPage!Ask
           \/ QuotesPage!Answer \/ QuotesPage!SetQuoteStatus \/ QuotesPage!OpenConversion \/ QuotesPage!ConvertQuote
           \/ QuotesPage!MakePdf \/ QuotesPage!CloseModal \/ QuotesPage!Share \/ QuotesPage!Retry
    PROVE QuotesInv'
  <1>1. CASE QuotesPage!ChooseTab \/ QuotesPage!OpenForm \/ QuotesPage!CloseForm \/ QuotesPage!Ask \/ QuotesPage!OpenConversion \/ QuotesPage!CloseModal
    <2>1. PICK v : DOMAIN v = DOMAIN view /\ v.list = view.list /\ (QuotesPage!Turn(v) \/ QuotesPage!Costly(v))
      BY <1>1, QuoteFields DEF QuotesPage!ChooseTab, QuotesPage!OpenForm, QuotesPage!CloseForm, QuotesPage!Ask,
             QuotesPage!OpenConversion, QuotesPage!CloseModal
    <2> QED BY <2>1, QuoteTurns
  <1>2. CASE QuotesPage!OnSave \/ QuotesPage!SetQuoteStatus \/ QuotesPage!ConvertQuote
    <2>1. PICK v, c, cost : DOMAIN v = DOMAIN view /\ v.list = view.list /\ QuoteCallOK(c) /\ QuotesPage!Send(v, c, cost)
      BY <1>2, QuoteFields, QuoteCallStarts DEF QuotesPage!OnSave, QuotesPage!SetQuoteStatus, QuotesPage!ConvertQuote
    <2> QED BY <2>1, QuoteSends
  <1>3. CASE QuotesPage!MakePdf
    <2>1. PICK v, c : DOMAIN v = DOMAIN view /\ v.list = view.list /\ QuoteCallOK(c) /\ QuotesPage!Send(v, c, 1)
      BY <1>3, QuoteFields, QuoteCallStarts DEF QuotesPage!MakePdf
    <2> QED BY <2>1, QuoteSends
  <1>4. CASE QuotesPage!Answer
    BY <1>4, QuoteFields, QuoteSends, QuoteTurns, QuoteCallStarts DEF QuotesPage!Answer
  <1>5. CASE QuotesPage!Share \/ QuotesPage!Retry
    BY <1>5, QuoteFields, QuoteRefetches DEF QuotesPage!Share, QuotesPage!Retry
  <1> QED BY <1>1, <1>2, <1>3, <1>4, <1>5

(* The server: a handler's commit over the row its checks saw, or another.   *)
LEMMA QuoteAssigned == ASSUME NEW c, QuoteCallOK(c), c.row # Null, c.op # "delete"
    PROVE /\ c.row.status # "converted"
          /\ QuotesPage!Assigned(c).status = "converted" => c.op = "convert" /\ QuotesPage!Assigned(c).access = c.access
          /\ DOMAIN QuotesPage!Assigned(c) = Columns
  <1>1. DOMAIN c.row = {"status", "access"} /\ QuotesPage!Accepts(c, c.row)
    BY DEF QuoteCallOK, Columns
  <1>2. CASE c.op \in QuotesPage!StatusOps
    <2> DEFINE to == QuotesPage!Target[c.op]
    <2>1. c.op \in {"approve", "reject", "restore"}
      BY <1>2 DEF QuotesPage!StatusOps, QuotesPage!Target
    <2>2. to \in {"approved", "rejected", "pending"}
      BY <2>1 DEF QuotesPage!Target
    <2>3. to \in QuotesPage!Transitions[c.row.status] \cup {c.row.status}
      BY <1>1, <1>2, <2>1 DEF QuotesPage!Accepts
    <2>4. c.row.status # "converted"
      BY <2>2, <2>3 DEF QuotesPage!Transitions
    <2>5. QuotesPage!Assigned(c) = [c.row EXCEPT !.status = to]
      BY <1>2, <2>1 DEF QuotesPage!Assigned, QuotesPage!StatusOps
    <2>6. to # "converted"
      BY <2>2
    <2> HIDE DEF to
    <2> QED BY <1>1, <2>4, <2>5, <2>6 DEF Columns
  <1>3. CASE c.op = "convert"
    <2>1. c.row.status = "approved"
      BY <1>1, <1>3 DEF QuotesPage!Accepts, QuotesPage!CanConvert, QuotesPage!StatusOps, QuotesPage!Target
    <2>2. QuotesPage!Assigned(c) = [status |-> "converted", access |-> c.access]
      BY <1>3 DEF QuotesPage!Assigned, QuotesPage!StatusOps, QuotesPage!Target
    <2> QED BY <1>3, <2>1, <2>2 DEF Columns
  <1>4. CASE c.op \notin QuotesPage!StatusOps \cup {"delete", "convert"}
    <2>1. c.row.status \in {"pending", "approved"}
      BY <1>1, <1>4 DEF QuotesPage!Accepts, QuotesPage!Editable, QuotesPage!IsPipeline
    <2>2. QuotesPage!Assigned(c) = [c.row EXCEPT !.access = c.access]
      BY <1>4 DEF QuotesPage!Assigned
    <2> QED BY <1>1, <2>1, <2>2 DEF Columns
  <1> QED BY <1>2, <1>3, <1>4

LEMMA QuoteMerged == ASSUME QuoteServerOK(server), NEW c, QuoteCallOK(c), c.row # Null, c.op # "delete",
                            c.id \in DOMAIN server.quotes, ~QuotesPage!Crosses(c)
    PROVE /\ server.quotes[c.id].status # "converted"
          /\ QuotesPage!Merged(c).status = "converted" => c.op = "convert" /\ QuotesPage!Merged(c).access = c.access
          /\ c.op = "convert" => QuotesPage!Merged(c).status = "converted"
  <1> DEFINE row == server.quotes[c.id]
             to == QuotesPage!Assigned(c)
  <1>1. /\ QuotesPage!Merged(c).status = IF to.status # c.row.status THEN to.status ELSE row.status
        /\ QuotesPage!Merged(c).access = IF to.access # c.row.access THEN to.access ELSE row.access
    BY DEF QuotesPage!Merged
  <1>2. row = c.row \/ (row.status # "converted" /\ to.status # "converted")
    BY DEF QuotesPage!Crosses
  <1>3. c.op = "convert" => to.status = "converted"
    BY DEF QuotesPage!Assigned, QuotesPage!StatusOps, QuotesPage!Target
  <1> HIDE DEF row, to
  <1>4. /\ c.row.status # "converted"
        /\ to.status = "converted" => c.op = "convert" /\ to.access = c.access
    BY QuoteAssigned DEF to
  <1>5. row.status # "converted"
    BY <1>2, <1>4
  <1>6. CASE row = c.row
    BY <1>1, <1>3, <1>4, <1>5, <1>6 DEF row
  <1>7. CASE row.status # "converted" /\ to.status # "converted"
    BY <1>1, <1>3, <1>4, <1>7 DEF row
  <1> QED BY <1>2, <1>6, <1>7

LEMMA QuoteUpdated == ASSUME QuoteServerOK(server), NEW c, QuoteCallOK(c), c.row # Null, c.op # "delete",
                             c.id \in DOMAIN server.quotes
    PROVE /\ QuoteServerOK(QuotesPage!Updated(c))
          /\ \A rows : RowsKept(rows, server) => RowsKept(rows, QuotesPage!Updated(c))
  <1> DEFINE next == QuotesPage!Updated(c)
             new == QuotesPage!Merged(c)
             book == [server.quotes EXCEPT ![c.id] = new]
             accounts == [server.accounts EXCEPT ![c.id] = IF c.op = "convert" THEN c.access ELSE @]
  <1>1. c.id \in Quotes
    BY DEF QuoteServerOK, RowsKept
  <1>2. /\ DOMAIN book = DOMAIN server.quotes /\ book[c.id] = new
        /\ \A q \in DOMAIN server.quotes \ {c.id} : book[q] = server.quotes[q]
    OBVIOUS
  <1>3. /\ DOMAIN accounts = Quotes /\ \A q \in Quotes \ {c.id} : accounts[q] = server.accounts[q]
        /\ c.op = "convert" => accounts[c.id] = c.access
    BY <1>1 DEF QuoteServerOK
  <1>4. DOMAIN new = Columns
    BY DEF QuotesPage!Merged, Columns
  <1>5. ~QuotesPage!Crosses(c) => /\ server.quotes[c.id].status # "converted"
                                  /\ new.status = "converted" => c.op = "convert" /\ new.access = c.access
    BY QuoteMerged
  <1> HIDE DEF new
  <1>6. /\ DOMAIN next = DOMAIN server /\ next.quotes = book /\ next.accounts = accounts
        /\ next.unused = server.unused
        /\ next.crossed = IF QuotesPage!Crosses(c) THEN server.crossed \cup {c.id} ELSE server.crossed
    BY DEF QuotesPage!Updated, QuoteServerOK, new
  <1> HIDE DEF next, book, accounts
  <1>7. server.crossed \subseteq next.crossed /\ (c.id \notin next.crossed => ~QuotesPage!Crosses(c))
    BY <1>6
  <1>8. ASSUME NEW rows, RowsKept(rows, server) PROVE RowsKept(rows, next)
    <2> SUFFICES ASSUME NEW q \in DOMAIN rows
                 PROVE /\ q \in Quotes \ next.unused
                       /\ q \notin next.crossed /\ rows[q].status = "converted"
                            => /\ rows[q].access = next.accounts[q]
                               /\ q \in DOMAIN next.quotes => next.quotes[q].status = "converted"
      BY DEF RowsKept
    <2>1. /\ q \in Quotes \ server.unused
          /\ q \notin server.crossed /\ rows[q].status = "converted"
               => /\ rows[q].access = server.accounts[q]
                  /\ q \in DOMAIN server.quotes => server.quotes[q].status = "converted"
      BY <1>8 DEF RowsKept
    <2>2. CASE q = c.id
      BY <1>5, <1>6, <1>7, <2>1, <2>2
    <2>3. CASE q # c.id
      BY <1>2, <1>3, <1>6, <1>7, <2>1, <2>3
    <2> QED BY <2>2, <2>3
  <1>9. RowsKept(next.quotes, next)
    <2> SUFFICES ASSUME NEW q \in DOMAIN server.quotes
                 PROVE /\ q \in Quotes \ next.unused
                       /\ q \notin next.crossed /\ book[q].status = "converted" => book[q].access = next.accounts[q]
      BY <1>2, <1>6 DEF RowsKept
    <2>1. /\ q \in Quotes \ server.unused
          /\ q \notin server.crossed /\ server.quotes[q].status = "converted"
               => server.quotes[q].access = server.accounts[q]
      BY DEF QuoteServerOK, RowsKept
    <2>2. CASE q = c.id
      BY <1>2, <1>3, <1>5, <1>6, <1>7, <2>1, <2>2
    <2>3. CASE q # c.id
      BY <1>2, <1>3, <1>6, <1>7, <2>1, <2>3
    <2> QED BY <2>2, <2>3
  <1>10. \A q \in DOMAIN next.quotes : DOMAIN next.quotes[q] = Columns
    BY <1>2, <1>4, <1>6 DEF QuoteServerOK
  <1>11. QuoteServerOK(next)
    BY <1>3, <1>6, <1>9, <1>10 DEF QuoteServerOK
  <1> QED BY <1>8, <1>11 DEF next

LEMMA QuoteCreated == ASSUME QuoteServerOK(server), NEW c, c.id \in server.unused
    PROVE /\ QuoteServerOK(QuotesPage!Created(c))
          /\ \A rows : RowsKept(rows, server) => RowsKept(rows, QuotesPage!Created(c))
  <1> DEFINE next == QuotesPage!Created(c)
             new == [status |-> "pending", access |-> c.access]
             book == [q \in DOMAIN server.quotes \cup {c.id} |-> IF q = c.id THEN new ELSE server.quotes[q]]
  <1>1. next = [server EXCEPT !.unused = @ \ {c.id}, !.quotes = book]
    BY DEF QuotesPage!Created
  <1>2. /\ DOMAIN book = DOMAIN server.quotes \cup {c.id} /\ c.id \notin DOMAIN server.quotes /\ c.id \in Quotes
        /\ book[c.id].status = "pending" /\ DOMAIN book[c.id] = Columns
        /\ \A q \in DOMAIN server.quotes : book[q] = server.quotes[q]
    BY DEF QuoteServerOK, RowsKept, Columns
  <1> HIDE DEF book
  <1>3. /\ DOMAIN next = DOMAIN server /\ next.quotes = book /\ next.accounts = server.accounts
        /\ next.unused = server.unused \ {c.id} /\ next.crossed = server.crossed
    BY <1>1 DEF QuoteServerOK
  <1> HIDE DEF next
  <1>4. \A rows : RowsKept(rows, server) => RowsKept(rows, next)
    BY <1>2, <1>3 DEF QuoteServerOK, RowsKept
  <1>5. RowsKept(next.quotes, next)
    BY <1>2, <1>3 DEF QuoteServerOK, RowsKept
  <1>6. \A q \in DOMAIN next.quotes : DOMAIN next.quotes[q] = Columns
    BY <1>2, <1>3 DEF QuoteServerOK
  <1>7. QuoteServerOK(next)
    BY <1>3, <1>5, <1>6 DEF QuoteServerOK
  <1> QED BY <1>4, <1>7 DEF next

LEMMA QuoteDeleted == ASSUME QuoteServerOK(server), NEW c
    PROVE /\ QuoteServerOK(QuotesPage!Deleted(c))
          /\ \A rows : RowsKept(rows, server) => RowsKept(rows, QuotesPage!Deleted(c))
  <1> DEFINE next == QuotesPage!Deleted(c)
             book == [q \in DOMAIN server.quotes \ {c.id} |-> server.quotes[q]]
  <1>1. next = [server EXCEPT !.quotes = book]
    BY DEF QuotesPage!Deleted
  <1>2. /\ DOMAIN book = DOMAIN server.quotes \ {c.id}
        /\ \A q \in DOMAIN book : book[q] = server.quotes[q]
    OBVIOUS
  <1> HIDE DEF book
  <1>3. /\ DOMAIN next = DOMAIN server /\ next.quotes = book /\ next.accounts = server.accounts
        /\ next.unused = server.unused /\ next.crossed = server.crossed
    BY <1>1 DEF QuoteServerOK
  <1> HIDE DEF next
  <1>4. \A rows : RowsKept(rows, server) => RowsKept(rows, next)
    BY <1>2, <1>3 DEF QuoteServerOK, RowsKept
  <1>5. RowsKept(next.quotes, next)
    BY <1>2, <1>3 DEF QuoteServerOK, RowsKept
  <1>6. QuoteServerOK(next)
    BY <1>2, <1>3, <1>5 DEF QuoteServerOK
  <1> QED BY <1>4, <1>6 DEF next

(* What becomes of a call replaces it among the calls.                       *)
LEMMA QuoteBecomes == ASSUME QuotesInv, NEW c \in calls.sent, NEW next, QuoteCallOK(next), QuotesPage!Became(c, next)
    PROVE /\ DOMAIN calls' = DOMAIN calls /\ calls'.loads = calls.loads
          /\ \A d \in calls'.sent : QuoteCallOK(d)
  <1>1. calls' = [calls EXCEPT !.sent = (@ \ {c}) \cup {n \in {next} : n.heard \/ n.answer = Null}]
    BY DEF QuotesPage!Became
  <1>2. DOMAIN calls' = DOMAIN calls /\ calls'.loads = calls.loads /\ calls'.sent \subseteq calls.sent \cup {next}
    BY <1>1 DEF QuotesInv
  <1> QED BY <1>2 DEF QuotesInv

LEMMA QuoteReadKeeps == ASSUME QuotesInv, NEW c \in calls.sent, QuotesPage!Read(c) PROVE QuotesInv'
  <1> DEFINE passed == [c EXCEPT !.row = server.quotes[c.id]]
  <1>1. QuoteCallOK(c)
    BY DEF QuotesInv
  <1>2. CASE c.id \in DOMAIN server.quotes /\ QuotesPage!Accepts(c, server.quotes[c.id])
    <2>1. DOMAIN passed = DOMAIN c /\ passed.op = c.op /\ passed.row = server.quotes[c.id]
      BY <1>1 DEF QuoteCallOK
    <2>2. QuotesPage!Became(c, passed)
      BY <1>2 DEF QuotesPage!Read
    <2> HIDE DEF passed
    <2>3. QuotesPage!Accepts(passed, passed.row) /\ DOMAIN passed.row = Columns
      BY <1>2, <2>1 DEF QuotesPage!Accepts, QuotesInv, QuoteServerOK
    <2>4. QuoteCallOK(passed)
      BY <1>1, <2>1, <2>3 DEF QuoteCallOK
    <2> QED BY <2>2, <2>4, QuoteBecomes, QuotesCalm DEF QuotesPage!Read
  <1>3. CASE ~(c.id \in DOMAIN server.quotes /\ QuotesPage!Accepts(c, server.quotes[c.id]))
    <2>1. QuotesPage!Became(c, [c EXCEPT !.answer = "refused"])
      BY <1>3 DEF QuotesPage!Read
    <2>2. QuoteCallOK([c EXCEPT !.answer = "refused"])
      BY <1>1, QuoteCallMarked
    <2> QED BY <2>1, <2>2, QuoteBecomes, QuotesCalm DEF QuotesPage!Read
  <1> QED BY <1>2, <1>3

LEMMA QuoteCommitKeeps == ASSUME QuotesInv, NEW c \in calls.sent, QuotesPage!Commit(c) PROVE QuotesInv'
  <1>1. QuoteCallOK(c) /\ QuoteServerOK(server)
    BY DEF QuotesInv
  <1>2. \/ server' = server
        \/ c.op = "create" /\ c.id \in server.unused /\ server' = QuotesPage!Created(c)
        \/ c.op = "delete" /\ server' = QuotesPage!Deleted(c)
        \/ c.op # "delete" /\ c.row # Null /\ c.id \in DOMAIN server.quotes /\ server' = QuotesPage!Updated(c)
    BY DEF QuotesPage!Commit
  <1>3. QuoteServerOK(server') /\ \A rows : RowsKept(rows, server) => RowsKept(rows, server')
    BY <1>1, <1>2, QuoteCreated, QuoteDeleted, QuoteUpdated
  <1>4. PICK x : QuotesPage!Became(c, [c EXCEPT !.row = Null, !.answer = x])
    BY DEF QuotesPage!Commit
  <1>5. QuoteCallOK([c EXCEPT !.row = Null, !.answer = x])
    BY <1>1, QuoteCallMarked
  <1>6. view' = view
    BY DEF QuotesPage!Commit
  <1>7. /\ DOMAIN calls' = DOMAIN calls /\ calls'.loads = calls.loads
        /\ \A d \in calls'.sent : QuoteCallOK(d)
    BY <1>4, <1>5, QuoteBecomes
  <1> QED BY <1>3, <1>6, <1>7 DEF QuotesInv, QuoteLoadOK

LEMMA QuoteFinished == ASSUME QuotesInv, NEW c
    PROVE /\ \A v : DOMAIN v = DOMAIN view /\ v.list = view.list
                      => /\ DOMAIN QuotesPage!Finished(c, v) = DOMAIN view
                         /\ QuotesPage!Finished(c, v).list = view.list
          /\ DOMAIN QuotesPage!Succeeded(c) = DOMAIN view
          /\ QuotesPage!Succeeded(c).list = view.list
  <1>1. ASSUME NEW v, DOMAIN v = DOMAIN view, v.list = view.list
        PROVE /\ DOMAIN QuotesPage!Finished(c, v) = DOMAIN view
              /\ QuotesPage!Finished(c, v).list = view.list
    BY <1>1 DEF QuotesPage!Finished, QuotesInv
  <1>2. DOMAIN QuotesPage!Succeeded(c) = DOMAIN view /\ QuotesPage!Succeeded(c).list = view.list
    BY DEF QuotesPage!Succeeded, QuotesInv
  <1> QED BY <1>1, <1>2

LEMMA QuoteAnswerKeeps == ASSUME QuotesInv, NEW c \in calls.sent, QuotesPage!Answered(c) \/ QuotesPage!CallFailed(c)
    PROVE QuotesInv'
  <1> DEFINE v == QuotesPage!Finished(c, QuotesPage!Succeeded(c))
             failed == IF c.op = "fill" THEN [view EXCEPT !.attempted = @ \ {c.id}] ELSE QuotesPage!Finished(c, view)
  <1>1. DOMAIN v = DOMAIN view /\ v.list = view.list
    BY QuoteFinished
  <1>2. DOMAIN failed = DOMAIN view /\ failed.list = view.list
    BY QuoteFinished, QuoteFields DEF QuotesInv
  <1>3. CASE QuotesPage!Answered(c)
    <2>1. /\ server' = server /\ DOMAIN calls' = DOMAIN calls /\ calls'.sent \subseteq calls.sent
          /\ \/ view' = v /\ calls'.loads = calls.loads
             \/ view' = QuotesPage!Reload(v) /\ calls'.loads = QuotesPage!LoadsReloaded
      BY <1>3 DEF QuotesPage!Answered, QuotesInv
    <2> HIDE DEF v
    <2> QED BY <1>1, <2>1, QuoteReload, QuotesCalm
  <1>4. CASE QuotesPage!CallFailed(c)
    <2>1. /\ server' = server /\ DOMAIN calls' = DOMAIN calls /\ view' = failed /\ calls'.loads = calls.loads
          /\ calls'.sent \subseteq calls.sent \cup {[c EXCEPT !.heard = FALSE]}
      BY <1>4 DEF QuotesPage!CallFailed, QuotesInv
    <2>2. QuoteCallOK([c EXCEPT !.heard = FALSE])
      BY QuoteCallMarked DEF QuotesInv
    <2> HIDE DEF failed
    <2> QED BY <1>2, <2>1, <2>2, QuotesCalm
  <1> QED BY <1>3, <1>4

LEMMA QuoteFillKeeps == ASSUME QuotesInv, QuotesPage!FillNext \/ QuotesPage!FillEnds PROVE QuotesInv'
  <1> DEFINE v == [view EXCEPT !.filling = QuotesPage!Idle]
  <1>1. CASE QuotesPage!FillNext
    <2>1. PICK q, access : /\ view' = [view EXCEPT !.filling.left = @ \ {q}]
                           /\ calls' = [calls EXCEPT !.sent = @ \cup {QuotesPage!Call("fill", q, access)}]
                           /\ server' = server
      BY <1>1 DEF QuotesPage!FillNext
    <2>2. /\ DOMAIN view' = DOMAIN view /\ view'.list = view.list /\ DOMAIN calls' = DOMAIN calls
          /\ calls'.loads = calls.loads /\ calls'.sent = calls.sent \cup {QuotesPage!Call("fill", q, access)}
          /\ server' = server
      BY <2>1 DEF QuotesInv
    <2> DEFINE sent == QuotesPage!Call("fill", q, access)
    <2>3. QuoteCallOK(sent)
      BY QuoteCallStarts
    <2>4. calls'.sent = calls.sent \cup {sent}
      BY <2>2
    <2> HIDE DEF sent
    <2>5. \A c \in calls'.sent : c \in calls.sent \/ QuoteCallOK(c)
      BY <2>3, <2>4
    <2> QED BY <2>2, <2>5, QuotesCalm
  <1>2. CASE QuotesPage!FillEnds
    <2>1. /\ server' = server
          /\ \/ view' = v /\ calls' = calls
             \/ view' = QuotesPage!Reload(v) /\ calls' = [calls EXCEPT !.loads = QuotesPage!LoadsReloaded]
      BY <1>2 DEF QuotesPage!FillEnds
    <2>2. DOMAIN v = DOMAIN view /\ v.list = view.list
      BY DEF QuotesInv
    <2> HIDE DEF v
    <2>3. /\ DOMAIN calls' = DOMAIN calls /\ calls'.sent = calls.sent
          /\ calls'.loads = calls.loads \/ calls'.loads = QuotesPage!LoadsReloaded
      BY <2>1 DEF QuotesInv
    <2> QED BY <2>1, <2>2, <2>3, QuoteReload, QuotesCalm
  <1> QED BY <1>1, <1>2

LEMMA QuoteListKeeps == ASSUME QuotesInv, NEW l \in calls.loads, QuotesPage!ListDelivered(l) \/ QuotesPage!ListFailed(l)
    PROVE QuotesInv'
  <1> DEFINE shown == [view EXCEPT !.list = QuotesPage!Async!Delivered(@, l)]
             failed == [view EXCEPT !.list = QuotesPage!Async!Failed(@, l)]
  <1>1. /\ DOMAIN shown = DOMAIN view /\ DOMAIN shown.list = DOMAIN view.list
        /\ shown.list.data \in {view.list.data, l.answer}
    BY DEF QuotesPage!Async!Delivered, QuotesPage!Async!Resolved, QuotesInv
  <1>2. DOMAIN failed = DOMAIN view /\ DOMAIN failed.list = DOMAIN view.list /\ failed.list.data = view.list.data
    BY DEF QuotesPage!Async!Failed, QuotesPage!Async!Rejected, QuotesInv
  <1>3. CASE QuotesPage!ListDelivered(l)
    <2> HIDE DEF shown, failed
    <2>1. /\ server' = server /\ view' \in {view, QuotesPage!Noticed(shown)}
          /\ calls' = [calls EXCEPT !.loads = @ \ {l}]
      BY <1>3 DEF QuotesPage!ListDelivered, shown
    <2>2. DOMAIN QuotesPage!Noticed(shown) = DOMAIN shown /\ QuotesPage!Noticed(shown).list = shown.list
      BY <1>1 DEF QuotesPage!Noticed, QuotesInv
    <2> QED BY <1>1, <2>1, <2>2, QuotesCalm DEF QuotesInv
  <1>4. CASE QuotesPage!ListFailed(l)
    <2>1. server' = server /\ view' = failed /\ DOMAIN calls' = DOMAIN calls /\ calls'.loads = calls.loads \ {l}
          /\ calls'.sent = calls.sent
      BY <1>4 DEF QuotesPage!ListFailed, QuotesInv
    <2> HIDE DEF shown, failed
    <2> QED BY <1>2, <2>1, QuotesCalm
  <1> QED BY <1>3, <1>4

LEMMA QuotesStep == ASSUME QuotesInv, QuotesPage!Next PROVE QuotesInv'
  BY QuoteButtonsKeep, QuoteReadKeeps, QuoteCommitKeeps, QuoteAnswerKeeps, QuoteFillKeeps, QuoteListKeeps DEF QuotesPage!Next

LEMMA QuotesSays == QuotesInv => QuotesPage!AccessShownOpens
  BY DEF QuotesInv, RowsKept, QuotesPage!AccessShownOpens, QuotesPage!Rows

-----------------------------------------------------------------------------
(* The managers' page of accounts.                                           *)

(* What is over on the server does not come back: numbers and names are not  *)
(* used again.                                                               *)
AnsweredFor(q, s) == q \notin s.pending /\ q.id \in 0 .. s.serial
DeletedFor(u, s) == u \notin DOMAIN s.accounts /\ u \notin s.unused

AccountServerOK(s) ==
    /\ DOMAIN s = {"accounts", "pending", "serial", "unused"}
    /\ s.serial \in Nat /\ \A q \in s.pending : q.id \in 0 .. s.serial
    /\ s.unused \cap DOMAIN s.accounts = {}

ChangeOK(r, s) ==
    /\ DOMAIN r = {"kind", "target", "form", "answer", "closed"}
    /\ r.kind \in {"save", "create", "fulfill", "reject", "delete"}
    /\ \A q \in r.closed : AnsweredFor(q, s)
    /\ r.kind = "create" => r.closed = {}
    /\ r.kind = "delete" /\ r.answer # Null /\ r.answer.ok => DeletedFor(r.target, s)

(* What a list offers, and what was closed of it.                            *)
Offered(h, rows) == IF h = "requests" THEN rows ELSE DOMAIN rows
ClosedOf(v, h) == IF h = "requests" THEN v.resolved ELSE v.removed

HookFree(hook, h, closed) ==
    /\ DOMAIN hook = {"data", "error", "loading", "refreshing"}
    /\ hook.data # Null => DOMAIN hook.data = {"key", "rows"}
    /\ AccountsPage!Async!Settled(hook) /\ ~hook.error
         => Offered(h, hook.data.rows) \cap closed = {}

LoadFree(l, closed) ==
    /\ DOMAIN l = {"hook", "answer", "alive"} /\ l.hook \in AccountsPage!Hooks
    /\ DOMAIN l.answer = {"key", "rows"}
    /\ l.alive => Offered(l.hook, l.answer.rows) \cap closed = {}

(* Only a list that was read is saved into.                                  *)
Listed(v) == DOMAIN v.hooks["users"].data = {"key", "rows"}

ClosedOK(v, s) == (\A q \in v.resolved : AnsweredFor(q, s)) /\ \A u \in v.removed : DeletedFor(u, s)

AccountViewOK(v) ==
    /\ DOMAIN v = {"hooks", "form", "open", "query", "creating", "fulfilling", "asking", "saving", "resolved", "removed"}
    /\ DOMAIN v.hooks = AccountsPage!Hooks
    /\ \A h \in AccountsPage!Hooks : HookFree(v.hooks[h], h, ClosedOf(v, h))
    /\ v.asking # Null => v.asking.kind \in {"reject", "delete"}

AccountsInv ==
    /\ AccountServerOK(server) /\ ClosedOK(view, server) /\ AccountViewOK(view)
    /\ DOMAIN calls = {"left", "requests", "loads"}
    /\ \A r \in calls.requests : ChangeOK(r, server) /\ (r.kind = "save" => Listed(view))
    /\ \A l \in calls.loads : LoadFree(l, ClosedOf(view, l.hook))

LEMMA AccountLoads == ASSUME AccountServerOK(server), NEW v, ClosedOK(v, server), NEW h \in AccountsPage!Hooks
    PROVE LoadFree(AccountsPage!Begin(h), ClosedOf(v, h)) /\ AccountsPage!Begin(h).hook = h
  <1> DEFINE rows == IF h = "users" THEN server.accounts ELSE server.pending
  <1>1. AccountsPage!Begin(h) = [hook |-> h, answer |-> [key |-> h, rows |-> rows], alive |-> TRUE]
    BY DEF AccountsPage!Begin, AccountsPage!Async!Load, AccountsPage!Async!Answer
  <1>2. Offered(h, rows) \cap ClosedOf(v, h) = {}
    BY DEF Offered, ClosedOf, ClosedOK, AnsweredFor, DeletedFor, AccountsPage!Hooks
  <1> HIDE DEF rows
  <1> QED BY <1>1, <1>2 DEF LoadFree

LEMMA AccountsStart == AccountsPage!Init => AccountsInv
  <1> SUFFICES ASSUME AccountsPage!Init PROVE AccountsInv
    OBVIOUS
  <1>1. AccountServerOK(server)
    BY AccountsAreNumbered DEF AccountsPage!Init, AccountServerOK
  <1>2. AccountViewOK(view) /\ view.resolved = {} /\ view.removed = {}
    BY DEF AccountsPage!Init, AccountViewOK, HookFree, AccountsPage!Async!Unmounted, AccountsPage!Async!Settled
  <1>3. ClosedOK(view, server)
    BY <1>2 DEF ClosedOK
  <1>4. calls = [left |-> Events.accounts, requests |-> {}, loads |-> {AccountsPage!Begin(h) : h \in AccountsPage!Hooks}]
    BY DEF AccountsPage!Init
  <1>5. \A l \in calls.loads : LoadFree(l, ClosedOf(view, l.hook))
    BY <1>1, <1>3, <1>4, AccountLoads
  <1> QED BY <1>1, <1>2, <1>3, <1>4, <1>5 DEF AccountsInv

(* The manager's hands: no list changes.                                     *)
LEMMA AccountsCalm ==
    ASSUME AccountsInv, server' = server, DOMAIN view' = DOMAIN view, view'.hooks = view.hooks,
           view'.resolved = view.resolved, view'.removed = view.removed,
           view'.asking # Null => view'.asking.kind \in {"reject", "delete"},
           DOMAIN calls' = DOMAIN calls, calls'.loads \subseteq calls.loads,
           \A r \in calls'.requests : \/ r \in calls.requests
                                      \/ ChangeOK(r, server) /\ (r.kind = "save" => Listed(view))
    PROVE AccountsInv'
  <1>1. ClosedOK(view', server') /\ AccountViewOK(view') /\ (Listed(view) => Listed(view')) /\ \A h : ClosedOf(view', h) = ClosedOf(view, h)
    BY DEF AccountsInv, ClosedOK, AccountViewOK, ClosedOf, Listed
  <1> QED BY <1>1 DEF AccountsInv

LEMMA AccountHandsKeep ==
    ASSUME AccountsInv,
           \/ AccountsPage!Search \/ AccountsPage!OpenCreate \/ AccountsPage!CloseCreate \/ AccountsPage!TypeFulfill
           \/ AccountsPage!CloseFulfill \/ AccountsPage!Decline
           \/ \E u \in Accounts : \/ AccountsPage!Toggle(u) \/ AccountsPage!JumpToPassword(u) \/ AccountsPage!Type(u)
                                  \/ AccountsPage!AskDelete(u)
           \/ \E q \in AccountsPage!PendingResets(view) : AccountsPage!OpenFulfill(q) \/ AccountsPage!AskReject(q)
    PROVE AccountsInv'
  <1>1. AccountViewOK(view)
    BY DEF AccountsInv
  <1>2. ASSUME NEW v, DOMAIN v = DOMAIN view, v.hooks = view.hooks, v.resolved = view.resolved, v.removed = view.removed,
               v.asking \in {view.asking, Null} \/ v.asking.kind \in {"reject", "delete"}, AccountsPage!Use(v)
        PROVE AccountsInv'
    <2>1. server' = server /\ view' = v /\ DOMAIN calls' = DOMAIN calls /\ calls'.loads = calls.loads
          /\ calls'.requests = calls.requests
      BY <1>2 DEF AccountsPage!Use, AccountsInv
    <2> QED BY <1>1, <1>2, <2>1, AccountsCalm DEF AccountViewOK
  <1> DEFINE calm(v) == /\ DOMAIN v = DOMAIN view /\ v.hooks = view.hooks /\ v.resolved = view.resolved /\ v.removed = view.removed
                        /\ v.asking \in {view.asking, Null} \/ v.asking.kind \in {"reject", "delete"}
  <1>3. CASE AccountsPage!Search
    <2>1. PICK q : AccountsPage!Use([view EXCEPT !.query = q])
      BY <1>3 DEF AccountsPage!Search
    <2>2. calm([view EXCEPT !.query = q])
      BY <1>1 DEF AccountViewOK
    <2> QED BY <1>2, <2>1, <2>2
  <1>4. CASE AccountsPage!OpenCreate \/ AccountsPage!CloseCreate
    <2>1. calm([view EXCEPT !.creating = TRUE]) /\ calm([view EXCEPT !.creating = FALSE])
      BY <1>1 DEF AccountViewOK
    <2> QED BY <1>2, <1>4, <2>1 DEF AccountsPage!OpenCreate, AccountsPage!CloseCreate
  <1>5. CASE AccountsPage!TypeFulfill \/ AccountsPage!CloseFulfill \/ AccountsPage!Decline
    <2>1. calm([view EXCEPT !.fulfilling.typed = TRUE]) /\ calm([view EXCEPT !.fulfilling = Null]) /\ calm([view EXCEPT !.asking = Null])
      BY <1>1 DEF AccountViewOK
    <2> QED BY <1>2, <1>5, <2>1 DEF AccountsPage!TypeFulfill, AccountsPage!CloseFulfill, AccountsPage!Decline
  <1>6. ASSUME NEW u \in Accounts, AccountsPage!Toggle(u) \/ AccountsPage!JumpToPassword(u) \/ AccountsPage!Type(u) PROVE AccountsInv'
    <2>1. \A x : /\ calm([view EXCEPT !.open[u] = x]) /\ calm([view EXCEPT !.query = Null, !.open[u] = TRUE])
                 /\ calm([view EXCEPT !.form[u] = x])
      BY <1>1 DEF AccountViewOK
    <2>2. \E x : \/ AccountsPage!Use([view EXCEPT !.open[u] = x])
                 \/ AccountsPage!Use([view EXCEPT !.query = Null, !.open[u] = TRUE])
                 \/ AccountsPage!Use([view EXCEPT !.form[u] = x])
      BY <1>6 DEF AccountsPage!Toggle, AccountsPage!JumpToPassword, AccountsPage!Type
    <2> HIDE DEF calm
    <2>3. PICK v : calm(v) /\ AccountsPage!Use(v)
      BY <2>1, <2>2
    <2> QED BY <1>2, <2>3 DEF calm
  <1>7. ASSUME NEW u \in Accounts, AccountsPage!AskDelete(u) PROVE AccountsInv'
    <2> DEFINE v == [view EXCEPT !.asking = [kind |-> "delete", target |-> u]]
    <2>1. calm(v)
      BY <1>1 DEF AccountViewOK
    <2>2. AccountsPage!Use(v)
      BY <1>7 DEF AccountsPage!AskDelete
    <2> HIDE DEF v
    <2> QED BY <1>2, <2>1, <2>2
  <1>8. ASSUME NEW q \in AccountsPage!PendingResets(view), AccountsPage!OpenFulfill(q) \/ AccountsPage!AskReject(q) PROVE AccountsInv'
    <2> DEFINE v == IF AccountsPage!AskReject(q) THEN [view EXCEPT !.asking = [kind |-> "reject", target |-> q]]
                    ELSE [view EXCEPT !.fulfilling = [request |-> q, typed |-> FALSE]]
    <2>1. calm(v)
      BY <1>1 DEF AccountViewOK
    <2>2. AccountsPage!Use(v)
      BY <1>8 DEF AccountsPage!OpenFulfill, AccountsPage!AskReject
    <2> HIDE DEF v
    <2> QED BY <1>2, <2>1, <2>2
  <1> QED BY <1>3, <1>4, <1>5, <1>6, <1>7, <1>8

LEMMA AccountSendsKeep ==
    ASSUME AccountsInv,
           \/ AccountsPage!Create \/ AccountsPage!Fulfill \/ AccountsPage!Confirm
           \/ \E u \in Accounts : AccountsPage!Save(u)
    PROVE AccountsInv'
  <1>1. AccountViewOK(view)
    BY DEF AccountsInv
  <1>2. PICK kind, target, form, v :
          /\ kind \in {"save", "create", "fulfill", "reject", "delete"}
          /\ AccountsPage!Send(AccountsPage!Request(kind, target, form), v)
          /\ v \in {[view EXCEPT !.saving = kind], [view EXCEPT !.asking = Null]}
    <2>1. CASE AccountsPage!Create
      BY <2>1 DEF AccountsPage!Create
    <2>2. CASE AccountsPage!Fulfill
      BY <2>2 DEF AccountsPage!Fulfill
    <2>3. CASE AccountsPage!Confirm
      BY <1>1, <2>3 DEF AccountsPage!Confirm, AccountViewOK
    <2>4. CASE \E u \in Accounts : AccountsPage!Save(u)
      BY <2>4 DEF AccountsPage!Save
    <2> QED BY <2>1, <2>2, <2>3, <2>4
  <1> DEFINE r == AccountsPage!Request(kind, target, form)
  <1>3. ChangeOK(r, server)
    BY <1>2 DEF ChangeOK, AccountsPage!Request
  <1>4. Listed(view) /\ server' = server /\ view' = v
        /\ calls' = [calls EXCEPT !.requests = @ \cup {r}]
    BY <1>1, <1>2 DEF AccountsPage!Send, AccountsPage!PageShown, AccountViewOK, HookFree, AccountsPage!Hooks, Listed
  <1>5. DOMAIN v = DOMAIN view /\ v.hooks = view.hooks /\ v.resolved = view.resolved /\ v.removed = view.removed
        /\ v.asking \in {view.asking, Null}
    BY <1>1, <1>2 DEF AccountViewOK
  <1> HIDE DEF r
  <1> QED BY <1>1, <1>3, <1>4, <1>5, AccountsCalm DEF AccountsInv, AccountViewOK


(* The server: what is over stays over.                                      *)
LEMMA AccountsForward ==
    ASSUME AccountServerOK(server), NEW t, DOMAIN t = DOMAIN server, t.serial \in Nat, t.serial >= server.serial,
           DOMAIN t.accounts \subseteq DOMAIN server.accounts \cup server.unused,
           t.unused \subseteq server.unused, t.unused \cap DOMAIN t.accounts = {},
           \A q \in t.pending : q \in server.pending \/ q.id \in server.serial + 1 .. t.serial
    PROVE /\ AccountServerOK(t)
          /\ \A q : AnsweredFor(q, server) => AnsweredFor(q, t)
          /\ \A u : DeletedFor(u, server) => DeletedFor(u, t)
          /\ \A q \in server.pending \ t.pending : AnsweredFor(q, t)
          /\ \A r : ChangeOK(r, server) => ChangeOK(r, t)
          /\ \A v : ClosedOK(v, server) => ClosedOK(v, t)
  <1>1. \A q : AnsweredFor(q, server) => AnsweredFor(q, t)
    BY DEF AnsweredFor, AccountServerOK
  <1>2. \A u : DeletedFor(u, server) => DeletedFor(u, t)
    BY DEF DeletedFor
  <1>3. AccountServerOK(t) /\ \A q \in server.pending \ t.pending : AnsweredFor(q, t)
    BY DEF AnsweredFor, AccountServerOK
  <1>4. \A r : ChangeOK(r, server) => ChangeOK(r, t)
    BY <1>1, <1>2 DEF ChangeOK
  <1>5. \A v : ClosedOK(v, server) => ClosedOK(v, t)
    BY <1>1, <1>2 DEF ClosedOK
  <1> QED BY <1>1, <1>2, <1>3, <1>4, <1>5

LEMMA AccountApplied == ASSUME AccountServerOK(server), NEW r, ChangeOK(r, server), ~AccountsPage!Refused(server, r)
    PROVE LET t == AccountsPage!Applied(server, r) IN
          /\ DOMAIN t = DOMAIN server /\ t.serial = server.serial
          /\ DOMAIN t.accounts \subseteq DOMAIN server.accounts \cup server.unused
          /\ t.unused \subseteq server.unused /\ t.unused \cap DOMAIN t.accounts = {}
          /\ t.pending \subseteq server.pending /\ (r.kind = "create" => t.pending = server.pending)
          /\ r.kind = "delete" => DeletedFor(r.target, t)
  <1> DEFINE t == AccountsPage!Applied(server, r)
             u == r.target
             narrower(s) == /\ DOMAIN s = DOMAIN server /\ s.serial = server.serial
                            /\ DOMAIN s.accounts = DOMAIN server.accounts
                            /\ s.unused = server.unused /\ s.pending \subseteq server.pending
  <1>1. \A s : narrower(s) => s.unused \cap DOMAIN s.accounts = {}
    BY DEF AccountServerOK
  <1>2. CASE r.kind = "save"
    <2> DEFINE changed == [server EXCEPT !.accounts[u].role = r.form.role, !.accounts[u].active = r.form.active]
    <2>1. t = IF r.form.typed THEN AccountsPage!WithPassword(changed, u) ELSE changed
      BY <1>2 DEF AccountsPage!Applied, AccountsPage!Updated
    <2>2. narrower(changed)
      BY DEF AccountServerOK
    <2> HIDE DEF changed
    <2>3. narrower(AccountsPage!WithPassword(changed, u))
      BY <2>2 DEF AccountsPage!WithPassword, AccountServerOK
    <2>4. narrower(t)
      BY <2>1, <2>2, <2>3
    <2> HIDE DEF t
    <2> QED BY <1>1, <1>2, <2>4 DEF t
  <1>3. CASE r.kind = "fulfill"
    <2>1. t = [server EXCEPT !.accounts[u.of].password = "set", !.pending = @ \ {u}]
      BY <1>3 DEF AccountsPage!Applied
    <2> HIDE DEF t
    <2>2. narrower(t)
      BY <2>1 DEF AccountServerOK
    <2> QED BY <1>1, <1>3, <2>2 DEF t
  <1>4. CASE r.kind = "reject"
    <2>1. t = [server EXCEPT !.pending = @ \ {u}]
      BY <1>4 DEF AccountsPage!Applied
    <2> HIDE DEF t
    <2>2. narrower(t)
      BY <2>1 DEF AccountServerOK
    <2> QED BY <1>1, <1>4, <2>2 DEF t
  <1>5. CASE r.kind = "create"
    <2> DEFINE book == [o \in AccountsPage!Existing(server) \cup {u} |->
                           IF o = u THEN [role |-> "investor", active |-> TRUE, password |-> "set"] ELSE server.accounts[o]]
    <2>1. t = [server EXCEPT !.unused = @ \ {u}, !.accounts = book]
      BY <1>5 DEF AccountsPage!Applied
    <2>2. DOMAIN book = DOMAIN server.accounts \cup {u} /\ u \in server.unused
      BY <1>5 DEF AccountsPage!Existing, AccountsPage!Refused
    <2> HIDE DEF t, book
    <2>3. /\ DOMAIN t = DOMAIN server /\ t.serial = server.serial /\ t.pending = server.pending
          /\ t.unused = server.unused \ {u} /\ t.accounts = book
      BY <2>1 DEF AccountServerOK
    <2>4. t.unused \cap DOMAIN t.accounts = {} /\ DOMAIN t.accounts \subseteq DOMAIN server.accounts \cup server.unused
      BY <2>2, <2>3 DEF AccountServerOK
    <2> QED BY <1>5, <2>3, <2>4 DEF t
  <1>6. CASE r.kind = "delete"
    <2> DEFINE book == [o \in AccountsPage!Existing(server) \ {u} |-> server.accounts[o]]
               kept == {q \in server.pending : q.of # u}
    <2>1. t = [server EXCEPT !.accounts = book, !.pending = kept]
      BY <1>6 DEF AccountsPage!Applied, AccountsPage!Removed
    <2>2. DOMAIN book = DOMAIN server.accounts \ {u} /\ u \in DOMAIN server.accounts
      BY <1>6 DEF AccountsPage!Existing, AccountsPage!Refused
    <2>3. kept \subseteq server.pending
      OBVIOUS
    <2> HIDE DEF t, book, kept
    <2>4. /\ DOMAIN t = DOMAIN server /\ t.serial = server.serial /\ t.pending = kept
          /\ t.unused = server.unused /\ t.accounts = book
      BY <2>1 DEF AccountServerOK
    <2>5. t.unused \cap DOMAIN t.accounts = {} /\ DOMAIN t.accounts \subseteq DOMAIN server.accounts \cup server.unused
          /\ DeletedFor(u, t)
      BY <2>2, <2>4 DEF AccountServerOK, DeletedFor
    <2> QED BY <1>6, <2>3, <2>4, <2>5 DEF t
  <1> QED BY <1>2, <1>3, <1>4, <1>5, <1>6 DEF ChangeOK

LEMMA AccountArrivalKeeps == ASSUME AccountsInv, NEW r \in calls.requests, AccountsPage!Arrive(r) PROVE AccountsInv'
  <1> DEFINE refused == AccountsPage!Refused(server, r)
             next == IF refused THEN server ELSE AccountsPage!Applied(server, r)
             answer == [ok |-> ~refused, row |-> IF r.kind = "save" /\ ~refused THEN next.accounts[r.target] ELSE Null]
             closed == server.pending \ next.pending
             answered == [r EXCEPT !.closed = closed, !.answer = answer]
  <1>1. server' = next /\ view' = view /\ calls' = [calls EXCEPT !.requests = (@ \ {r}) \cup {answered}]
    BY DEF AccountsPage!Arrive
  <1>2. AccountServerOK(server) /\ ChangeOK(r, server) /\ server.serial \in Nat
    BY DEF AccountsInv, AccountServerOK
  <1>3. /\ DOMAIN next = DOMAIN server /\ next.serial = server.serial
        /\ DOMAIN next.accounts \subseteq DOMAIN server.accounts \cup server.unused
        /\ next.unused \subseteq server.unused /\ next.unused \cap DOMAIN next.accounts = {}
        /\ next.pending \subseteq server.pending /\ (r.kind = "create" => next.pending = server.pending)
        /\ r.kind = "delete" /\ ~refused => DeletedFor(r.target, next)
    BY <1>2, AccountApplied DEF AccountServerOK
  <1>4. answer.ok => ~refused
    OBVIOUS
  <1> HIDE DEF next, answer, refused
  <1>5. next.serial >= server.serial /\ next.serial \in Nat /\ \A q \in next.pending : q \in server.pending
    BY <1>2, <1>3
  <1>6. /\ AccountServerOK(next) /\ ClosedOK(view, next)
        /\ \A q \in closed : AnsweredFor(q, next)
        /\ \A c \in calls.requests : ChangeOK(c, next)
    BY <1>2, <1>3, <1>5, AccountsForward DEF AccountsInv
  <1>7. r.kind = "create" => closed = {}
    BY <1>3
  <1> HIDE DEF closed
  <1>8. DOMAIN answered = DOMAIN r /\ answered.kind = r.kind /\ answered.target = r.target /\ answered.closed = closed
        /\ answered.answer = answer
    BY <1>2 DEF ChangeOK
  <1> HIDE DEF answered
  <1>9. ChangeOK(answered, next)
    BY <1>2, <1>3, <1>4, <1>6, <1>7, <1>8 DEF ChangeOK
  <1>10. DOMAIN calls' = DOMAIN calls /\ calls'.loads = calls.loads /\ calls'.requests = (calls.requests \ {r}) \cup {answered}
    BY <1>1 DEF AccountsInv
  <1> QED BY <1>1, <1>6, <1>8, <1>9, <1>10 DEF AccountsInv

LEMMA AccountElsewhereKeeps == ASSUME AccountsInv, AccountsPage!Elsewhere PROVE AccountsInv'
  <1>1. AccountServerOK(server) /\ server.serial \in Nat
    BY DEF AccountsInv, AccountServerOK
  <1>2. PICK u \in AccountsPage!Existing(server) :
          \/ server' = [server EXCEPT !.serial = @ + 1, !.pending = @ \cup {[id |-> server.serial + 1, of |-> u]}]
          \/ server' = [server EXCEPT !.accounts[u].password = "own"]
          \/ server' = AccountsPage!WithPassword(server, u)
          \/ server' = [server EXCEPT !.accounts[u].active = FALSE]
    BY DEF AccountsPage!Elsewhere
  <1> DEFINE new == [id |-> server.serial + 1, of |-> u]
             kept == {q \in server.pending : q.of # u}
  <1>3. new.id = server.serial + 1 /\ kept \subseteq server.pending
    OBVIOUS
  <1>4. /\ DOMAIN server' = DOMAIN server /\ DOMAIN server'.accounts = DOMAIN server.accounts
        /\ server'.unused = server.unused
        /\ \/ server'.serial = server.serial /\ server'.pending \in {server.pending, kept}
           \/ server'.serial = server.serial + 1 /\ server'.pending = server.pending \cup {new}
    BY <1>1, <1>2 DEF AccountServerOK, AccountsPage!WithPassword
  <1> HIDE DEF new, kept
  <1>5. /\ server'.serial \in Nat /\ server'.serial >= server.serial
        /\ server'.unused \cap DOMAIN server'.accounts = {}
        /\ \A q \in server'.pending : q \in server.pending \/ q.id \in server.serial + 1 .. server'.serial
    BY <1>1, <1>3, <1>4 DEF AccountServerOK
  <1>6. AccountServerOK(server') /\ ClosedOK(view, server') /\ \A r \in calls.requests : ChangeOK(r, server')
    BY <1>1, <1>4, <1>5, AccountsForward DEF AccountsInv
  <1>7. view' = view /\ DOMAIN calls' = DOMAIN calls /\ calls'.requests = calls.requests /\ calls'.loads = calls.loads
    BY DEF AccountsPage!Elsewhere, AccountsInv
  <1> QED BY <1>6, <1>7 DEF AccountsInv

(* Lists are read again: those that are not, are free of what was closed.    *)
LEMMA AccountReloads ==
    ASSUME AccountServerOK(server), NEW v, ClosedOK(v, server), DOMAIN v = DOMAIN view, AccountViewOK(view),
           DOMAIN v.hooks = AccountsPage!Hooks,
           \A h \in AccountsPage!Hooks : /\ DOMAIN v.hooks[h] = {"data", "error", "loading", "refreshing"}
                                         /\ v.hooks[h].data # Null => DOMAIN v.hooks[h].data = {"key", "rows"},
           v.asking # Null => v.asking.kind \in {"reject", "delete"},
           NEW run \in SUBSET AccountsPage!Hooks,
           \A h \in AccountsPage!Hooks \ run : HookFree(v.hooks[h], h, ClosedOf(v, h)),
           \A l \in calls.loads : LoadFree(l, ClosedOf(v, l.hook)) \/ (l.hook \in run /\ LoadFree(l, {}))
    PROVE LET next == AccountsPage!Reloading(v, run) IN
          /\ AccountViewOK(next.view) /\ ClosedOK(next.view, server)
          /\ \A l \in next.loads : LoadFree(l, ClosedOf(next.view, l.hook))
          /\ next.view.hooks["users"].data = v.hooks["users"].data
  <1> DEFINE hooks == [h \in AccountsPage!Hooks |-> IF h \in run THEN AccountsPage!Async!Begun(v.hooks[h]) ELSE v.hooks[h]]
             begun == [v EXCEPT !.hooks = hooks]
             shown == AccountsPage!Rendered(begun)
             new == {AccountsPage!Begin(h) : h \in run}
             loads == AccountsPage!Async!Retired(calls.loads, run) \cup new
             next == AccountsPage!Reloading(v, run)
  <1>1. next = [view |-> shown, loads |-> loads]
    BY DEF AccountsPage!Reloading
  <1>2. DOMAIN begun = DOMAIN v /\ begun.hooks = hooks /\ begun.resolved = v.resolved /\ begun.removed = v.removed
        /\ begun.asking = v.asking
    BY DEF AccountViewOK
  <1> HIDE DEF begun
  <1>3. DOMAIN shown = DOMAIN view /\ shown.hooks = hooks /\ shown.resolved = v.resolved /\ shown.removed = v.removed
        /\ shown.asking = v.asking
    BY <1>2 DEF AccountsPage!Rendered, AccountViewOK
  <1>4. DOMAIN hooks = AccountsPage!Hooks /\ hooks["users"].data = v.hooks["users"].data
    BY DEF AccountsPage!Hooks, AccountsPage!Async!Begun
  <1>5. \A h \in AccountsPage!Hooks : HookFree(hooks[h], h, ClosedOf(v, h))
    BY DEF HookFree, AccountsPage!Async!Begun, AccountsPage!Async!Settled
  <1>6. \A h : ClosedOf(shown, h) = ClosedOf(v, h)
    BY <1>3 DEF ClosedOf
  <1> HIDE DEF hooks, shown
  <1>7. AccountViewOK(shown) /\ ClosedOK(shown, server)
    BY <1>3, <1>4, <1>5, <1>6 DEF AccountViewOK, ClosedOK
  <1>8. \A l \in new : LoadFree(l, ClosedOf(v, l.hook))
    BY AccountLoads
  <1>9. \A l \in AccountsPage!Async!Retired(calls.loads, run) : LoadFree(l, ClosedOf(v, l.hook))
    <2> SUFFICES ASSUME NEW old \in calls.loads
                 PROVE LET l == [old EXCEPT !.alive = @ /\ old.hook \notin run] IN LoadFree(l, ClosedOf(v, l.hook))
      BY DEF AccountsPage!Async!Retired
    <2> DEFINE l == [old EXCEPT !.alive = @ /\ old.hook \notin run]
    <2>1. LoadFree(old, ClosedOf(v, old.hook)) \/ (old.hook \in run /\ LoadFree(old, {}))
      OBVIOUS
    <2>2. DOMAIN l = DOMAIN old /\ l.hook = old.hook /\ l.answer = old.answer /\ (l.alive => old.alive /\ old.hook \notin run)
      BY <2>1 DEF LoadFree
    <2> HIDE DEF l
    <2>3. LoadFree(l, ClosedOf(v, l.hook))
      BY <2>1, <2>2 DEF LoadFree
    <2> QED BY <2>3 DEF l
  <1> HIDE DEF new
  <1>10. \A l \in loads : LoadFree(l, ClosedOf(shown, l.hook))
    BY <1>6, <1>8, <1>9
  <1> HIDE DEF loads
  <1>11. next.view = shown /\ next.loads = loads
    BY <1>1
  <1> QED BY <1>3, <1>4, <1>7, <1>10, <1>11

LEMMA AccountAnswerKeeps == ASSUME AccountsInv, NEW r \in calls.requests, AccountsPage!Answered(r) \/ AccountsPage!Lost(r)
    PROVE AccountsInv'
  <1> DEFINE freed == AccountsPage!Released(view, r)
             put == AccountsPage!Kept(freed, r)
             kept == [put EXCEPT !.resolved = @ \cup r.closed, !.removed = IF r.kind = "delete" THEN @ \cup {r.target} ELSE @]
             run == AccountsPage!Reloads(r.kind)
             next == AccountsPage!Reloading(kept, run)
  <1>1. AccountServerOK(server) /\ ClosedOK(view, server) /\ AccountViewOK(view) /\ ChangeOK(r, server)
        /\ (r.kind = "save" => Listed(view))
    BY DEF AccountsInv
  <1>2. DOMAIN freed = DOMAIN view /\ freed.hooks = view.hooks /\ freed.asking = view.asking
        /\ freed.resolved = view.resolved /\ freed.removed = view.removed
    BY <1>1 DEF AccountsPage!Released, AccountViewOK
  <1> HIDE DEF freed
  <1>3. CASE AccountsPage!Lost(r) \/ (AccountsPage!Answered(r) /\ ~r.answer.ok)
    <2>1. server' = server /\ view' = freed /\ DOMAIN calls' = DOMAIN calls /\ calls'.loads = calls.loads
          /\ calls'.requests = calls.requests \ {r}
      BY <1>3 DEF AccountsPage!Lost, AccountsPage!Answered, AccountsInv, freed
    <2> QED BY <1>1, <1>2, <2>1, AccountsCalm DEF AccountViewOK
  <1>4. CASE AccountsPage!Answered(r) /\ r.answer.ok
    <2>1. server' = server /\ view' = next.view /\ calls' = [calls EXCEPT !.requests = @ \ {r}, !.loads = next.loads]
          /\ r.answer # Null
      BY <1>4 DEF AccountsPage!Answered, freed
    <2>2. /\ DOMAIN put = DOMAIN view /\ put.asking = view.asking /\ put.resolved = view.resolved /\ put.removed = view.removed
          /\ DOMAIN put.hooks = AccountsPage!Hooks /\ put.hooks["requests"] = view.hooks["requests"]
          /\ DOMAIN put.hooks["users"] = DOMAIN view.hooks["users"]
          /\ \/ put.hooks["users"] = view.hooks["users"]
             \/ /\ Listed(view)
                /\ DOMAIN put.hooks["users"].data = {"key", "rows"}
                /\ DOMAIN put.hooks["users"].data.rows = DOMAIN view.hooks["users"].data.rows
                /\ put.hooks["users"].error = view.hooks["users"].error
                /\ put.hooks["users"].loading = view.hooks["users"].loading
                /\ put.hooks["users"].refreshing = view.hooks["users"].refreshing
      <3>1. CASE r.kind # "save"
        <4>1. DOMAIN put = DOMAIN freed /\ put.asking = freed.asking /\ put.resolved = freed.resolved /\ put.removed = freed.removed
              /\ put.hooks = freed.hooks
          BY <1>1, <1>2, <3>1 DEF AccountsPage!Kept, AccountViewOK
        <4> QED BY <1>1, <1>2, <4>1 DEF AccountViewOK
      <3>2. CASE r.kind = "save"
        <4> DEFINE rows == AccountsPage!Data(freed, "users")
                   list == [u \in DOMAIN rows |-> IF u = r.target THEN r.answer.row ELSE rows[u]]
                   data == [freed.hooks["users"].data EXCEPT !.rows = list]
                   users == [freed.hooks["users"] EXCEPT !.data = data]
                   hooks == [freed.hooks EXCEPT !["users"] = users]
        <4>1. put = [freed EXCEPT !.hooks = hooks, !.form[r.target] = Null]
          BY <3>2 DEF AccountsPage!Kept
        <4>2. DOMAIN list = DOMAIN view.hooks["users"].data.rows
          BY <1>2 DEF AccountsPage!Data
        <4> HIDE DEF list, put
        <4>3. Listed(view) /\ DOMAIN data = {"key", "rows"} /\ data.rows = list
          BY <1>1, <1>2, <3>2 DEF Listed
        <4> HIDE DEF data
        <4>4. /\ DOMAIN users = DOMAIN view.hooks["users"] /\ users.data = data
              /\ users.error = view.hooks["users"].error /\ users.loading = view.hooks["users"].loading
              /\ users.refreshing = view.hooks["users"].refreshing
          BY <1>1, <1>2 DEF AccountViewOK, HookFree, AccountsPage!Hooks
        <4> HIDE DEF users
        <4>5. DOMAIN hooks = AccountsPage!Hooks /\ hooks["users"] = users /\ hooks["requests"] = view.hooks["requests"]
          BY <1>1, <1>2 DEF AccountViewOK, AccountsPage!Hooks
        <4> HIDE DEF hooks
        <4>6. DOMAIN put = DOMAIN view /\ put.hooks = hooks /\ put.asking = view.asking
              /\ put.resolved = view.resolved /\ put.removed = view.removed
          BY <1>1, <1>2, <4>1 DEF AccountViewOK
        <4> QED BY <4>2, <4>3, <4>4, <4>5, <4>6
      <3> QED BY <3>1, <3>2
    <2> HIDE DEF put
    <2>3. /\ DOMAIN kept = DOMAIN view /\ kept.hooks = put.hooks /\ kept.asking = view.asking
          /\ kept.resolved = view.resolved \cup r.closed
          /\ kept.removed = IF r.kind = "delete" THEN view.removed \cup {r.target} ELSE view.removed
      BY <1>1, <2>2 DEF AccountViewOK
    <2> HIDE DEF kept
    <2>4. ClosedOK(kept, server)
      BY <1>1, <1>4, <2>1, <2>3 DEF ClosedOK, ChangeOK
    <2>5. run \in SUBSET AccountsPage!Hooks /\ (r.kind # "create" => "requests" \in run) /\ (r.kind = "delete" => "users" \in run)
      BY DEF AccountsPage!Reloads, AccountsPage!Hooks
    <2> HIDE DEF run, next
    <2>6. /\ "requests" \notin run => ClosedOf(kept, "requests") = ClosedOf(view, "requests")
          /\ "users" \notin run => ClosedOf(kept, "users") = ClosedOf(view, "users")
      BY <1>1, <2>3, <2>5 DEF ClosedOf, ChangeOK
    <2>7. \A h \in AccountsPage!Hooks : /\ DOMAIN kept.hooks[h] = {"data", "error", "loading", "refreshing"}
                                        /\ kept.hooks[h].data # Null => DOMAIN kept.hooks[h].data = {"key", "rows"}
      BY <1>1, <2>2, <2>3 DEF AccountViewOK, HookFree, AccountsPage!Hooks
    <2>8. \A h \in AccountsPage!Hooks \ run : HookFree(kept.hooks[h], h, ClosedOf(kept, h))
      <3>1. "requests" \notin run => HookFree(kept.hooks["requests"], "requests", ClosedOf(kept, "requests"))
        BY <1>1, <2>2, <2>3, <2>6 DEF AccountViewOK, AccountsPage!Hooks
      <3>2. "users" \notin run => HookFree(kept.hooks["users"], "users", ClosedOf(kept, "users"))
        <4> DEFINE old == view.hooks["users"]
                   hook == kept.hooks["users"]
        <4>1. HookFree(old, "users", ClosedOf(view, "users"))
          BY <1>1 DEF AccountViewOK, AccountsPage!Hooks
        <4>2. hook = put.hooks["users"] /\ DOMAIN hook = DOMAIN old
          BY <2>2, <2>3
        <4>3. CASE hook = old
          BY <2>6, <4>1, <4>3
        <4>4. CASE /\ Listed(view)
                   /\ DOMAIN hook.data = {"key", "rows"} /\ DOMAIN hook.data.rows = DOMAIN old.data.rows
                   /\ hook.error = old.error /\ hook.loading = old.loading /\ hook.refreshing = old.refreshing
          BY <2>6, <2>7, <4>1, <4>2, <4>4 DEF HookFree, Offered, AccountsPage!Async!Settled, AccountsPage!Hooks
        <4> QED BY <2>2, <4>2, <4>3, <4>4
      <3> QED BY <3>1, <3>2 DEF AccountsPage!Hooks
    <2>9. \A l \in calls.loads : LoadFree(l, ClosedOf(kept, l.hook)) \/ (l.hook \in run /\ LoadFree(l, {}))
      BY <2>6 DEF AccountsInv, LoadFree, AccountsPage!Hooks
    <2>10. kept.asking # Null => kept.asking.kind \in {"reject", "delete"}
      BY <1>1, <2>3 DEF AccountViewOK
    <2>11. /\ AccountViewOK(next.view) /\ ClosedOK(next.view, server)
           /\ \A l \in next.loads : LoadFree(l, ClosedOf(next.view, l.hook))
           /\ next.view.hooks["users"].data = kept.hooks["users"].data
      BY <1>1, <2>2, <2>3, <2>4, <2>5, <2>7, <2>8, <2>9, <2>10, AccountReloads DEF next
    <2>12. Listed(view) => Listed(next.view)
      BY <2>2, <2>3, <2>11 DEF Listed
    <2>13. DOMAIN calls' = DOMAIN calls /\ calls'.loads = next.loads /\ calls'.requests = calls.requests \ {r}
      BY <2>1 DEF AccountsInv
    <2> QED BY <1>1, <2>1, <2>11, <2>12, <2>13 DEF AccountsInv
  <1> QED BY <1>3, <1>4

LEMMA AccountLoadsKeep ==
    ASSUME AccountsInv, AccountsPage!Retry \/ \E l \in calls.loads : AccountsPage!LoadDelivered(l) \/ AccountsPage!LoadFailed(l)
    PROVE AccountsInv'
  <1>1. AccountServerOK(server) /\ ClosedOK(view, server) /\ AccountViewOK(view)
    BY DEF AccountsInv
  <1>2. CASE AccountsPage!Retry
    <2> DEFINE next == AccountsPage!Reloading(view, {"users"})
    <2>1. server' = server /\ view' = next.view /\ calls' = [calls EXCEPT !.loads = next.loads]
      BY <1>2 DEF AccountsPage!Retry
    <2>2. {"users"} \in SUBSET AccountsPage!Hooks
      BY DEF AccountsPage!Hooks
    <2>3. /\ DOMAIN view.hooks = AccountsPage!Hooks
          /\ \A h \in AccountsPage!Hooks : HookFree(view.hooks[h], h, ClosedOf(view, h))
          /\ view.asking # Null => view.asking.kind \in {"reject", "delete"}
      BY <1>1 DEF AccountViewOK
    <2>4. \A h \in AccountsPage!Hooks : /\ DOMAIN view.hooks[h] = {"data", "error", "loading", "refreshing"}
                                        /\ view.hooks[h].data # Null => DOMAIN view.hooks[h].data = {"key", "rows"}
      BY <2>3 DEF HookFree
    <2>5. \A l \in calls.loads : LoadFree(l, ClosedOf(view, l.hook))
      BY DEF AccountsInv
    <2>6. /\ AccountViewOK(next.view) /\ ClosedOK(next.view, server)
          /\ \A l \in next.loads : LoadFree(l, ClosedOf(next.view, l.hook))
          /\ next.view.hooks["users"].data = view.hooks["users"].data
      BY <1>1, <2>2, <2>3, <2>4, <2>5, AccountReloads
    <2> HIDE DEF next
    <2>7. DOMAIN calls' = DOMAIN calls /\ calls'.loads = next.loads /\ calls'.requests = calls.requests
      BY <2>1 DEF AccountsInv
    <2> QED BY <1>1, <2>1, <2>6, <2>7 DEF AccountsInv, Listed
  <1>3. ASSUME NEW l \in calls.loads, AccountsPage!LoadDelivered(l) \/ AccountsPage!LoadFailed(l) PROVE AccountsInv'
    <2> DEFINE old == view.hooks[l.hook]
               hook == IF AccountsPage!LoadDelivered(l) THEN AccountsPage!Async!Delivered(old, l) ELSE AccountsPage!Async!Failed(old, l)
               hooks == [view.hooks EXCEPT ![l.hook] = hook]
               v == [view EXCEPT !.hooks = hooks]
    <2>1. server' = server /\ view' = AccountsPage!Rendered(v) /\ DOMAIN calls' = DOMAIN calls
          /\ calls'.loads = calls.loads \ {l} /\ calls'.requests = calls.requests
      BY <1>3 DEF AccountsPage!LoadDelivered, AccountsPage!LoadFailed, AccountsInv
    <2>2. LoadFree(l, ClosedOf(view, l.hook)) /\ HookFree(old, l.hook, ClosedOf(view, l.hook)) /\ l.hook \in AccountsPage!Hooks
      BY <1>1 DEF AccountsInv, AccountViewOK, LoadFree
    <2>3. \/ hook = old
          \/ DOMAIN hook = DOMAIN old /\ hook.error = TRUE /\ hook.data = old.data
          \/ DOMAIN hook = DOMAIN old /\ l.alive /\ hook.data = l.answer
      BY <2>2 DEF AccountsPage!Async!Delivered, AccountsPage!Async!Failed, AccountsPage!Async!Resolved,
             AccountsPage!Async!Rejected, HookFree
    <2> HIDE DEF hook, old
    <2>4. HookFree(hook, l.hook, ClosedOf(view, l.hook)) /\ (DOMAIN old.data = {"key", "rows"} => DOMAIN hook.data = {"key", "rows"})
      BY <2>2, <2>3 DEF HookFree, LoadFree
    <2>5. /\ DOMAIN hooks = AccountsPage!Hooks /\ hooks[l.hook] = hook
          /\ \A h \in AccountsPage!Hooks \ {l.hook} : hooks[h] = view.hooks[h]
      BY <1>1, <2>2 DEF AccountViewOK
    <2> HIDE DEF hooks
    <2>6. DOMAIN v = DOMAIN view /\ v.hooks = hooks /\ v.resolved = view.resolved /\ v.removed = view.removed
          /\ v.asking = view.asking
      BY <1>1 DEF AccountViewOK
    <2> HIDE DEF v
    <2>7. DOMAIN view' = DOMAIN view /\ view'.hooks = hooks /\ view'.resolved = view.resolved /\ view'.removed = view.removed
          /\ view'.asking = view.asking
      BY <1>1, <2>1, <2>6 DEF AccountsPage!Rendered, AccountViewOK
    <2>8. \A h : ClosedOf(view', h) = ClosedOf(view, h)
      BY <2>7 DEF ClosedOf
    <2>9. AccountViewOK(view') /\ ClosedOK(view', server')
      BY <1>1, <2>1, <2>4, <2>5, <2>7, <2>8 DEF AccountViewOK, ClosedOK
    <2>10. Listed(view) => Listed(view')
      BY <2>4, <2>5, <2>7 DEF AccountsPage!Hooks, old, Listed
    <2> QED BY <1>1, <2>1, <2>8, <2>9, <2>10 DEF AccountsInv
  <1> QED BY <1>2, <1>3

LEMMA AccountsStep == ASSUME AccountsInv, AccountsPage!Next PROVE AccountsInv'
  BY AccountHandsKeep, AccountSendsKeep, AccountArrivalKeeps, AccountElsewhereKeeps, AccountAnswerKeeps, AccountLoadsKeep
     DEF AccountsPage!Next

LEMMA AccountsSays == AccountsInv => AccountsPage!NothingClosedIsOffered
  <1> SUFFICES ASSUME AccountsInv PROVE AccountsPage!NothingClosedIsOffered
    OBVIOUS
  <1>1. HookFree(view.hooks["requests"], "requests", view.resolved) /\ HookFree(view.hooks["users"], "users", view.removed)
    BY DEF AccountsInv, AccountViewOK, AccountsPage!Hooks, ClosedOf
  <1> QED BY <1>1 DEF HookFree, Offered, AccountsPage!NothingClosedIsOffered, AccountsPage!PendingResets,
                AccountsPage!Cards, AccountsPage!PageShown, AccountsPage!Data

-----------------------------------------------------------------------------
(* The pages together: one is on the screen, and stays.                      *)
DesksInv ==
    /\ page = "payments" => BoardInv
    /\ page = "money" => MoneyInv
    /\ page = "quotes" => QuotesInv
    /\ page = "accounts" => AccountsInv

LEMMA DesksStart == Init => DesksInv
  BY BoardStart, MoneyStart, QuotesStart, AccountsStart
     DEF Init, NoPage, PageInit, DesksInv

(* A step of the device, and no step at all, leave the page as it is.        *)
LEMMA DesksStay == ASSUME DesksInv, UNCHANGED pageVars PROVE DesksInv'
  <1>1. page' = page /\ view' = view /\ server' = server /\ calls' = calls
    BY DEF pageVars
  <1>2. (BoardInv => BoardInv') /\ (MoneyInv => MoneyInv')
    BY <1>1 DEF BoardInv, MoneyInv
  <1>3. (QuotesInv => QuotesInv') /\ (AccountsInv => AccountsInv')
    BY <1>1 DEF QuotesInv, AccountsInv
  <1> QED BY <1>1, <1>2, <1>3 DEF DesksInv

LEMMA DesksStep == ASSUME DesksInv, [Next]_systemVars PROVE DesksInv'
  <1>1. CASE UNCHANGED pageVars
    BY <1>1, DesksStay
  <1>2. CASE PageNext /\ page' = page
    <2>1. ASSUME page \in {"dashboard", "contracts", "assistant", "vault", "bell", "nudges", "investors"} PROVE DesksInv'
      BY <1>2, <2>1 DEF DesksInv
    <2>2. CASE page = "payments" /\ PaymentsPage!Next
      BY <1>2, <2>2, BoardStep DEF DesksInv
    <2>3. CASE page = "money" /\ MoneyPage!Next
      BY <1>2, <2>3, MoneyStep DEF DesksInv
    <2>4. CASE page = "quotes" /\ QuotesPage!Next
      BY <1>2, <2>4, QuotesStep DEF DesksInv
    <2>5. CASE page = "accounts" /\ AccountsPage!Next
      BY <1>2, <2>5, AccountsStep DEF DesksInv
    <2> QED BY <1>2, <2>1, <2>2, <2>3, <2>4, <2>5 DEF PageNext
  <1> QED BY <1>1, <1>2 DEF Next, systemVars, pageVars

LEMMA DesksAlways == Spec => []DesksInv
  BY DesksStart, DesksStep, PTL DEF Spec

(* When nothing is loading, the payments page answers the question on its    *)
(* screen, whatever order the answers came in, and it never shows a row its  *)
(* selection leaves out, nor one payment twice.                              *)
THEOREM BoardIsOfItsFilter == Spec => []BoardShowsSelection
  <1>1. DesksInv => BoardShowsSelection
    BY BoardSays DEF DesksInv, BoardShowsSelection
  <1> QED BY <1>1, DesksAlways, PTL

(* Once a request of the payments page was answered and the loads it began   *)
(* settled, every status shown is the server's, unless others acted since.   *)
THEOREM BoardIsCurrent == Spec => []BoardReadsItsWrites
  <1>1. DesksInv => BoardReadsItsWrites
    BY BoardSays DEF DesksInv, BoardReadsItsWrites
  <1> QED BY <1>1, DesksAlways, PTL

(* A reviewed transfer moves money at most once, whatever was lost, retried  *)
(* or answered late.                                                         *)
THEOREM ReviewMovesOnce == Spec => []OneMovePerReview
  <1>1. DesksInv => OneMovePerReview
    BY MoneySays DEF DesksInv, OneMovePerReview
  <1> QED BY <1>1, DesksAlways, PTL

(* The access the page shows for a converted offer is the one its investor   *)
(* was given: it opens the account, unless a request crossed the conversion  *)
(* on the server.                                                            *)
THEOREM AccessOpensItsAccount == Spec => []AccessShownOpens
  <1>1. DesksInv => AccessShownOpens
    BY QuotesSays DEF DesksInv, AccessShownOpens
  <1> QED BY <1>1, DesksAlways, PTL

(* What the accounts page closed it does not offer again: no request it      *)
(* resolved, no account it deleted.                                          *)
THEOREM ClosedStaysClosed == Spec => []NothingClosedIsOffered
  <1>1. DesksInv => NothingClosedIsOffered
    BY AccountsSays DEF DesksInv, NothingClosedIsOffered
  <1> QED BY <1>1, DesksAlways, PTL

=============================================================================
