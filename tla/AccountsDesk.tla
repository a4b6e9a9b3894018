---------------------------- MODULE AccountsDesk ----------------------------
(***************************************************************************)
(* The managers' page of accounts (pages/UsersPage.tsx): cards with an     *)
(* editor each, creation, deletion, and the investors' requests for a new  *)
(* password, which a password set in a card answers too.                   *)
(*                                                                         *)
(* A form's fields are the browser's, not React's: they keep what was      *)
(* typed, and a role or status not touched keeps what it was when the card *)
(* appeared.  Names, telephones and the WhatsApp message are left out, and *)
(* a password is none, one set by a manager or the owner's own.            *)
(***************************************************************************)
EXTENDS Naturals, FiniteSets

CONSTANTS Null, Me, Accounts,
          Started,        \* the servers a behaviour may begin with
          MaxEvents, MaxCalls, MaxLoads

VARIABLES view, server, calls
vars == <<view, server, calls>>
Async == INSTANCE AsyncData

Hooks == {"users", "requests"}

(***************************************************************************)
(* auth.py and auth_service.py, one request at a time.                     *)
(***************************************************************************)
Existing(s) == DOMAIN s.accounts
Manages(s, u) == s.accounts[u].role = "manager" /\ s.accounts[u].active
LastManager(s, u) == \A other \in Existing(s) \ {u} : ~Manages(s, other)

\* _apply_user_update: the role is changed before the status is judged.
UpdateRefused(s, r) ==
    \/ r.target \notin Existing(s)
    \/ /\ s.accounts[r.target].role = "manager" /\ r.form.role # "manager"
       /\ LastManager(s, r.target)
    \/ /\ s.accounts[r.target].active /\ ~r.form.active
       /\ r.target = Me \/ (r.form.role = "manager" /\ LastManager(s, r.target))

Refused(s, r) ==
    \/ ~Manages(s, Me)
    \/ r.kind = "save" /\ UpdateRefused(s, r)
    \/ r.kind \in {"fulfill", "reject"} /\ r.target \notin s.pending
    \/ r.kind = "delete" /\ (r.target \notin Existing(s) \/ s.accounts[r.target].role = "manager")
    \/ r.kind = "create" /\ r.target \notin s.unused

\* set_user_password answers the account's open requests as well.
WithPassword(s, u) == [s EXCEPT !.accounts[u].password = "set", !.pending = {q \in @ : q.of # u}]

Updated(s, u, form) ==
    LET changed == [s EXCEPT !.accounts[u].role = form.role, !.accounts[u].active = form.active]
    IN IF form.typed THEN WithPassword(changed, u) ELSE changed

Removed(s, u) == [s EXCEPT !.accounts = [o \in Existing(s) \ {u} |-> s.accounts[o]],
                           !.pending = {q \in @ : q.of # u}]

Applied(s, r) ==
    CASE r.kind = "save"    -> Updated(s, r.target, r.form)
      [] r.kind = "create"  -> [s EXCEPT !.unused = @ \ {r.target}, !.accounts = [u \in Existing(s) \cup {r.target} |->
                                   IF u = r.target THEN [role |-> "investor", active |-> TRUE, password |-> "set"]
                                   ELSE s.accounts[u]]]
      [] r.kind = "fulfill" -> [s EXCEPT !.accounts[r.target.of].password = "set", !.pending = @ \ {r.target}]
      [] r.kind = "reject"  -> [s EXCEPT !.pending = @ \ {r.target}]
      [] r.kind = "delete"  -> Removed(s, r.target)

(***************************************************************************)
(* Rendering.                                                              *)
(***************************************************************************)
Begin(h) == Async!Load(h, Async!Answer(h, IF h = "users" THEN server.accounts ELSE server.pending))

Data(v, h) == v.hooks[h].data.rows
\* While the list is missing or its load failed there is no card: what was typed is gone.
PageShown(v) == v.hooks["users"].data # Null /\ ~v.hooks["users"].error
Cards(v) == IF PageShown(v) THEN DOMAIN Data(v, "users") ELSE {}
PendingResets(v) == IF v.hooks["requests"].data = Null THEN {} ELSE Data(v, "requests")

Untouched(row) == [role |-> row.role, active |-> row.active, typed |-> FALSE]
Rendered(v) == [v EXCEPT !.form = [u \in Accounts |->
    IF u \notin Cards(v) THEN Null ELSE IF v.form[u] = Null THEN Untouched(Data(v, "users")[u]) ELSE v.form[u]]]

Reloading(v, run) ==
    [view |-> Rendered([v EXCEPT !.hooks = [h \in Hooks |-> IF h \in run THEN Async!Begun(@[h]) ELSE @[h]]]),
     loads |-> Async!Retired(calls.loads, run) \cup {Begin(h) : h \in run}]

\* isEditorOpen: an account without a password is open until it is closed.
EditorOpen(u) ==
    IF view.open[u] = Null THEN Data(view, "users")[u].password = "none" ELSE view.open[u]
\* A search hides the other cards and keeps them mounted.
Reachable(u) == u \in Cards(view) /\ view.query \in {Null, u}

(***************************************************************************)
(* The manager's hands.                                                    *)
(***************************************************************************)
Use(v) ==
    /\ PageShown(view) /\ calls.left > 0
    /\ view' = v
    /\ calls' = [calls EXCEPT !.left = @ - 1]
    /\ UNCHANGED server

Modal == view.creating \/ view.fulfilling # Null \/ view.asking # Null

Search == ~Modal /\ \E q \in Cards(view) \cup {Null} : q # view.query /\ Use([view EXCEPT !.query = q])

Toggle(u) == ~Modal /\ Reachable(u) /\ Use([view EXCEPT !.open[u] = ~EditorOpen(u)])

\* jumpToUserPassword, offered for every account without one, searched for or not.
JumpToPassword(u) ==
    /\ ~Modal /\ u \in Cards(view) /\ Data(view, "users")[u].password = "none"
    /\ Use([view EXCEPT !.query = Null, !.open[u] = TRUE])

Type(u) ==
    /\ ~Modal /\ Reachable(u) /\ EditorOpen(u)
    /\ \E form \in {[view.form[u] EXCEPT !.typed = TRUE],
                    [view.form[u] EXCEPT !.active = ~@],
                    [view.form[u] EXCEPT !.role = IF @ = "manager" THEN "investor" ELSE "manager"]} \ {view.form[u]} :
          Use([view EXCEPT !.form[u] = form])

OpenCreate == ~Modal /\ Use([view EXCEPT !.creating = TRUE])
CloseCreate == view.creating /\ Use([view EXCEPT !.creating = FALSE])

OpenFulfill(q) ==
    /\ ~Modal /\ q \in PendingResets(view)
    /\ Use([view EXCEPT !.fulfilling = [request |-> q, typed |-> FALSE]])
TypeFulfill ==
    /\ view.fulfilling # Null /\ ~view.fulfilling.typed
    /\ Use([view EXCEPT !.fulfilling.typed = TRUE])
CloseFulfill == view.fulfilling # Null /\ Use([view EXCEPT !.fulfilling = Null])

\* A rejection and a deletion are confirmed in a dialog first.
CanDelete(u) == Data(view, "users")[u].role # "manager" /\ u # Me
AskReject(q) ==
    ~Modal /\ q \in PendingResets(view) /\ Use([view EXCEPT !.asking = [kind |-> "reject", target |-> q]])
AskDelete(u) ==
    /\ ~Modal /\ Reachable(u) /\ EditorOpen(u) /\ CanDelete(u)
    /\ Use([view EXCEPT !.asking = [kind |-> "delete", target |-> u]])
Decline == view.asking # Null /\ Use([view EXCEPT !.asking = Null])

(***************************************************************************)
(* Requests.  Saving, creating and fulfilling wait for each other          *)
(* (savingId); rejections and deletions wait for nothing.                  *)
(***************************************************************************)
Request(kind, target, form) ==
    [kind |-> kind, target |-> target, form |-> form, answer |-> Null, closed |-> {}]
Send(r, v) ==
    /\ PageShown(view) /\ Cardinality(calls.requests) < MaxCalls /\ r \notin calls.requests
    /\ view' = v
    /\ calls' = [calls EXCEPT !.requests = @ \cup {r}]
    /\ UNCHANGED server

Save(u) ==
    /\ ~Modal /\ Reachable(u) /\ EditorOpen(u) /\ view.saving = Null /\ calls.left > 0
    /\ Send(Request("save", u, view.form[u]), [view EXCEPT !.saving = "save"])
Create ==
    /\ view.creating /\ view.saving = Null
    /\ \E u \in server.unused : Send(Request("create", u, Null), [view EXCEPT !.saving = "create"])
Fulfill ==
    /\ view.fulfilling # Null /\ view.fulfilling.typed /\ view.saving = Null
    /\ Send(Request("fulfill", view.fulfilling.request, Null), [view EXCEPT !.saving = "fulfill"])
Confirm ==
    /\ view.asking # Null
    /\ Send(Request(view.asking.kind, view.asking.target, Null), [view EXCEPT !.asking = Null])

Arrive(r) ==
    /\ r \in calls.requests /\ r.answer = Null
    /\ LET next == IF Refused(server, r) THEN server ELSE Applied(server, r)
           answered == [r EXCEPT !.closed = server.pending \ next.pending,
                                 !.answer = [ok |-> ~Refused(server, r),
                                             row |-> IF r.kind = "save" /\ ~Refused(server, r)
                                                     THEN next.accounts[r.target] ELSE Null]]
       IN /\ server' = next
          /\ calls' = [calls EXCEPT !.requests = (@ \ {r}) \cup {answered}]
    /\ UNCHANGED view

\* What is read again after each change.  A save puts its row into the list instead.
(* Mutant: a save reads nothing again, though its password answers requests. *)
ReloadsButAfterSave(kind) ==
    CASE kind = "save" -> {}  [] kind = "create" -> {"users"}  [] kind = "reject" -> {"requests"}  [] OTHER -> Hooks

Reloads(kind) ==
    CASE kind = "save" -> {"requests"}  [] kind = "create" -> {"users"}
      [] kind = "reject" -> {"requests"}  [] OTHER -> Hooks

\* setData changes whatever list there is; formRev mounts the saved form anew.
Kept(v, r) ==
    CASE r.kind = "save" ->
           LET rows == Data(v, "users")
               list == [u \in DOMAIN rows |-> IF u = r.target THEN r.answer.row ELSE rows[u]]
           IN [v EXCEPT !.hooks["users"].data.rows = list, !.form[r.target] = Null]
      [] r.kind = "create"  -> [v EXCEPT !.creating = FALSE]
      [] r.kind = "fulfill" -> [v EXCEPT !.fulfilling = Null]      \* whichever dialog is open by now
      [] OTHER -> v

Released(v, r) == IF r.kind \in {"save", "create", "fulfill"} THEN [v EXCEPT !.saving = Null] ELSE v

Answered(r) ==
    /\ r \in calls.requests /\ r.answer # Null
    /\ IF r.answer.ok
       THEN LET kept == [Kept(Released(view, r), r) EXCEPT
                            !.resolved = @ \cup r.closed,
                            !.removed = IF r.kind = "delete" THEN @ \cup {r.target} ELSE @]
                next == Reloading(kept, Reloads(r.kind))
            IN /\ Cardinality(next.loads) <= MaxLoads
               /\ view' = next.view
               /\ calls' = [calls EXCEPT !.requests = @ \ {r}, !.loads = next.loads]
       ELSE /\ view' = Released(view, r)
            /\ calls' = [calls EXCEPT !.requests = @ \ {r}]
    /\ UNCHANGED server

\* The answer never comes: the request may have been applied or not, and nothing is read again.
Lost(r) ==
    /\ r \in calls.requests /\ calls.left > 0
    /\ view' = Released(view, r)
    /\ calls' = [calls EXCEPT !.requests = @ \ {r}, !.left = @ - 1]
    /\ UNCHANGED server

(***************************************************************************)
(* Loads, and the others.                                                  *)
(***************************************************************************)
LoadDelivered(l) ==
    /\ l \in calls.loads
    /\ view' = Rendered([view EXCEPT !.hooks[l.hook] = Async!Delivered(@, l)])
    /\ calls' = [calls EXCEPT !.loads = @ \ {l}]
    /\ UNCHANGED server

LoadFailed(l) ==
    /\ l \in calls.loads /\ calls.left > 0
    /\ view' = Rendered([view EXCEPT !.hooks[l.hook] = Async!Failed(@, l)])
    /\ calls' = [calls EXCEPT !.loads = @ \ {l}, !.left = @ - 1]
    /\ UNCHANGED server

Retry ==
    /\ view.hooks["users"].error
    /\ LET next == Reloading(view, {"users"}) IN
         view' = next.view /\ calls' = [calls EXCEPT !.loads = next.loads]
    /\ UNCHANGED server

\* An investor asks for a password or chooses one; another manager sets one or closes the account.
Elsewhere ==
    /\ calls.left > 0
    /\ \E u \in Existing(server) \ {Me} :
          \/ /\ server.accounts[u].active /\ {q \in server.pending : q.of = u} = {} /\ server.serial < 2
             /\ server' = [server EXCEPT !.serial = @ + 1, !.pending = @ \cup {[id |-> server.serial + 1, of |-> u]}]
          \/ /\ server.accounts[u].password = "set"
             /\ server' = [server EXCEPT !.accounts[u].password = "own"]
          \/ server' = WithPassword(server, u)
          \/ server' = [server EXCEPT !.accounts[u].active = FALSE]
    /\ calls' = [calls EXCEPT !.left = @ - 1]
    /\ UNCHANGED view

Init ==
    /\ server \in Started
    /\ view = [hooks |-> [h \in Hooks |-> Async!Unmounted], form |-> [u \in Accounts |-> Null],
               open |-> [u \in Accounts |-> Null], query |-> Null, creating |-> FALSE, fulfilling |-> Null,
               asking |-> Null, saving |-> Null, resolved |-> {}, removed |-> {}]
    /\ calls = [left |-> MaxEvents, requests |-> {}, loads |-> {Begin(h) : h \in Hooks}]

Next ==
    \/ Search \/ OpenCreate \/ CloseCreate \/ TypeFulfill \/ CloseFulfill \/ Decline
    \/ \E u \in Accounts : Toggle(u) \/ JumpToPassword(u) \/ Type(u) \/ AskDelete(u) \/ Save(u)
    \/ \E q \in PendingResets(view) : OpenFulfill(q) \/ AskReject(q)
    \/ Create \/ Fulfill \/ Confirm
    \/ \E r \in calls.requests : Arrive(r) \/ Answered(r) \/ Lost(r)
    \/ \E l \in calls.loads : LoadDelivered(l) \/ LoadFailed(l)
    \/ Retry \/ Elsewhere

Spec == Init /\ [][Next]_vars

\* What an answered change of this page closed is not offered again: once the lists have been
\* read, no request it resolved (one answered by a password set in a card included) asks for a
\* second password, and no account it deleted has a card (UsersPage.tsx: reload, reloadRequests).
NothingClosedIsOffered ==
    /\ Async!Settled(view.hooks["requests"]) /\ ~view.hooks["requests"].error =>
           PendingResets(view) \cap view.resolved = {}
    /\ Async!Settled(view.hooks["users"]) /\ ~view.hooks["users"].error =>
           Cards(view) \cap view.removed = {}
=============================================================================
