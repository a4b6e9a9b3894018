--------------------------- MODULE AssistantDesk ---------------------------
(***************************************************************************)
(* The personal assistant (components/PersonalAssistant.tsx): one          *)
(* conversation at a time, whose answers count only while its version is   *)
(* the one they were asked in, and the signed proposal it may show the     *)
(* administrator: a request that the investor confirm a payment            *)
(* (assistant_actions.py).                                                 *)
(*                                                                         *)
(* One payment; the words exchanged, the chips and the links are left out. *)
(* A call carries the answer to isCurrent(version).                        *)
(***************************************************************************)
EXTENDS Naturals, FiniteSets

CONSTANTS Null, MaxEvents, MaxCalls

VARIABLES view, server, calls
vars == <<view, server, calls>>

Kinds == {"opening", "chat", "confirm", "end", "pdf"}

(***************************************************************************)
(* The server.                                                             *)
(***************************************************************************)
\* Mutant: the proposal is compared by the payment's own figures only.
FiguresOnly == [status |-> server.status, amount |-> server.amount]

\* _snapshot: the payment's fields and the last activity about it.
Snapshot == [status |-> server.status, amount |-> server.amount, activity |-> server.activity]

Proposal == [id |-> calls.serial, amount |-> server.amount, snapshot |-> Snapshot]

\* execute_payment_confirmation: a payment already asked for or paid answers what it is.
Accepts(token) ==
    \/ server.status \in {"awaiting_confirmation", "paid"}
    \/ server.status = "scheduled" /\ token.snapshot = Snapshot

Executed(token) ==
    IF server.status \in {"awaiting_confirmation", "paid"} THEN server
    ELSE [server EXCEPT !.status = "awaiting_confirmation", !.activity = @ + 1,
                        !.sent = @ \cup {[token |-> token, amount |-> server.amount, at |-> server.activity]}]

(***************************************************************************)
(* The conversation.                                                       *)
(***************************************************************************)
\* ++requestVersion.current
Superseded == {[c EXCEPT !.current = FALSE] : c \in calls.open}

Call(kind, token) ==
    [kind |-> kind, serial |-> calls.serial + 1, token |-> token, current |-> TRUE, answer |-> Null]

Cleared(v) == [v EXCEPT !.action = Null, !.actionError = FALSE]
Closed(v) == [Cleared(v) EXCEPT !.busy = FALSE, !.confirming = FALSE, !.open = FALSE]
Idle(v) == [v EXCEPT !.busy = FALSE]

Ask(kind, token, v, earlier) ==
    /\ calls.left > 0 /\ Cardinality(calls.open) < MaxCalls
    /\ view' = v
    /\ calls' = [calls EXCEPT !.open = earlier \cup {Call(kind, token)}, !.serial = @ + 1, !.left = @ - 1]
    /\ UNCHANGED server

Open == ~view.open /\ Ask("opening", Null, [Cleared(view) EXCEPT !.open = TRUE], Superseded)

\* The round button, and every link that leads out of the panel.
Close ==
    /\ view.open
    /\ view' = Closed(view)
    /\ calls' = [calls EXCEPT !.open = Superseded]
    /\ UNCHANGED server

SendText == view.open /\ ~view.busy /\ Ask("chat", Null, [Cleared(view) EXCEPT !.busy = TRUE], Superseded)

ActionShown == view.open /\ view.canQueryAll /\ view.action # Null

ConfirmAction ==
    /\ ActionShown /\ ~view.busy
    /\ Ask("confirm", view.action, [view EXCEPT !.busy = TRUE, !.confirming = TRUE, !.actionError = FALSE], Superseded)

DismissAction ==
    /\ ActionShown /\ ~view.busy
    /\ view' = Cleared(view)
    /\ UNCHANGED <<server, calls>>

CloseAndNotify ==
    view.open /\ ~view.busy /\ Ask("end", Null, [Cleared(view) EXCEPT !.busy = TRUE], Superseded)

\* The only call that leaves the version alone.
ExportPdf == view.open /\ ~view.busy /\ Ask("pdf", Null, [view EXCEPT !.busy = TRUE], calls.open)

\* Another account, or the same with another role: the conversation is mounted anew.
Remount ==
    /\ calls.left > 0
    /\ \E all \in BOOLEAN : view' = [Closed(view) EXCEPT !.canQueryAll = all]
    /\ calls' = [calls EXCEPT !.open = Superseded, !.left = @ - 1]
    /\ UNCHANGED server

(***************************************************************************)
(* Answers.                                                                *)
(***************************************************************************)
\* The chat proposes when the administrator asked for it and the payment is only scheduled.
\* A proposal expires: the server may refuse one it would otherwise take.
Arrive(c) ==
    /\ c \in calls.open /\ c.answer = Null
    /\ \E reply \in CASE c.kind = "chat" ->
                           {[ok |-> TRUE, action |-> Null]} \cup
                           IF view.canQueryAll /\ server.status = "scheduled"
                           THEN {[ok |-> TRUE, action |-> Proposal]} ELSE {}
                      [] c.kind = "confirm" ->
                           {[ok |-> FALSE, action |-> Null]} \cup
                           IF Accepts(c.token) THEN {[ok |-> TRUE, action |-> Null]} ELSE {}
                      [] OTHER -> {[ok |-> TRUE, action |-> Null]} :
          /\ calls' = [calls EXCEPT !.open = (@ \ {c}) \cup {[c EXCEPT !.answer = reply]}, !.serial = @ + 1]
          /\ server' = IF c.kind = "confirm" /\ reply.ok THEN Executed(c.token) ELSE server
    /\ UNCHANGED view

AfterAnswer(c, reply) ==
    CASE ~c.current -> view
      [] c.current /\ c.kind = "opening" -> view
      [] c.current /\ c.kind = "chat" ->
           Idle(IF reply.ok THEN [view EXCEPT !.action = IF view.canQueryAll THEN reply.action ELSE Null] ELSE view)
      [] c.current /\ c.kind = "confirm" ->
           [Idle(IF reply.ok THEN Cleared(view) ELSE [view EXCEPT !.actionError = TRUE]) EXCEPT !.confirming = FALSE]
      [] c.current /\ c.kind = "end" -> Closed(view)
      [] c.current /\ c.kind = "pdf" -> Idle(view)

Answered(c) ==
    /\ c \in calls.open /\ c.answer # Null
    /\ view' = AfterAnswer(c, c.answer)
    /\ calls' = [calls EXCEPT !.open = IF c.kind = "end" /\ c.current THEN Superseded \ {[c EXCEPT !.current = FALSE]}
                                       ELSE @ \ {c}]
    /\ UNCHANGED server

\* The connection fails.  What had not reached the server may reach it later.
Lost(c) ==
    /\ c \in calls.open /\ calls.left > 0
    /\ view' = AfterAnswer(c, [ok |-> FALSE, action |-> Null])
    /\ calls' = [calls EXCEPT
         !.open = IF c.kind = "end" /\ c.current THEN Superseded \ {[c EXCEPT !.current = FALSE]} ELSE @ \ {c},
         !.adrift = IF c.kind = "confirm" /\ c.answer = Null THEN @ \cup {c.token} ELSE @,
         !.left = @ - 1]
    /\ UNCHANGED server

LateArrival(token) ==
    /\ token \in calls.adrift
    /\ calls' = [calls EXCEPT !.adrift = @ \ {token}]
    /\ server' = IF Accepts(token) THEN Executed(token) ELSE server
    /\ UNCHANGED view

\* The payments page and the investor: asked, confirmed, refused (each with its activity),
\* taken back by the manager (PATCH, which writes none), or another amount.
Elsewhere ==
    /\ calls.left > 0
    /\ server' \in
         (IF server.status = "scheduled"
          THEN {[server EXCEPT !.status = "awaiting_confirmation", !.activity = @ + 1], [server EXCEPT !.amount = 3 - @]}
          ELSE {}) \cup
         (IF server.status = "awaiting_confirmation"
          THEN {[server EXCEPT !.status = "paid", !.activity = @ + 1],
                [server EXCEPT !.status = "scheduled", !.activity = @ + 1],
                [server EXCEPT !.status = "scheduled"]}
          ELSE {})
    /\ calls' = [calls EXCEPT !.left = @ - 1]
    /\ UNCHANGED view

Init ==
    /\ server = [status |-> "scheduled", amount |-> 1, activity |-> 0, sent |-> {}]
    /\ \E all \in BOOLEAN :
          view = [canQueryAll |-> all, open |-> FALSE, busy |-> FALSE, confirming |-> FALSE,
                  action |-> Null, actionError |-> FALSE]
    /\ calls = [left |-> MaxEvents, serial |-> 0, open |-> {}, adrift |-> {}]

Next ==
    \/ Open \/ Close \/ SendText \/ ConfirmAction \/ DismissAction \/ CloseAndNotify \/ ExportPdf
    \/ Remount \/ Elsewhere
    \/ \E c \in calls.open : Arrive(c) \/ Answered(c) \/ Lost(c)
    \/ \E token \in calls.adrift : LateArrival(token)

Spec == Init /\ [][Next]_vars

\* One proposal asks the investor once, for the amount its card showed: whatever is confirmed
\* twice, lost and confirmed again, or arrives after the request was refused or taken back
\* (assistant_actions.py: "send at most once per proposal").
OneRequestPerProposal ==
    /\ \A r, s \in server.sent : r.token = s.token => r = s
    /\ \A r \in server.sent : r.amount = r.token.amount
=============================================================================
