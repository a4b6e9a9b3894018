------------------------------ MODULE MoneyDesk ------------------------------
(***************************************************************************)
(* The available-balance panel of an investor's portfolio                  *)
(* (components/AvailableBalancePanel.tsx): a deposit, a withdrawal or a    *)
(* transfer is filled in, reviewed and sent with an operation key, over a  *)
(* network that may lose the request, its answer, or deliver it late, and  *)
(* beside another manager who moves money too.                             *)
(*                                                                         *)
(* An intent is what the manager meant once: it ends when the form is      *)
(* opened again, edited or ticked again.  Keys and intents are numbered    *)
(* from one counter.                                                       *)
(***************************************************************************)
EXTENDS Naturals, FiniteSets

CONSTANTS Null, Source, Recipients,
          Opening,      \* what the balances may be when the panel mounts
          Amounts, MaxEvents, MaxLoads

VARIABLES view, server, calls
vars == <<view, server, calls>>
Async == INSTANCE AsyncData

Book == Recipients \cup {Source}
Hooks == {"wallet", "investors"}
Kinds == {"deposit", "withdraw", "transfer"}

(***************************************************************************)
(* wallet_service.py, as the three requests meet it: a key answers once,   *)
(* and a transfer also names the balance its review showed.                *)
(***************************************************************************)
Body(r) == [kind |-> r.kind, amount |-> r.amount, to |-> r.to, shown |-> r.shown]

Refused(r) ==
    \/ r.kind # "deposit" /\ r.amount > server.balance[Source]
    \/ r.kind = "transfer" /\ r.shown # server.balance[Source]

Balances(r) == [i \in Book |->
    CASE i = Source  -> IF r.kind = "deposit" THEN server.balance[i] + r.amount ELSE server.balance[i] - r.amount
      [] i = r.to    -> server.balance[i] + r.amount
      [] OTHER       -> server.balance[i]]

\* The answer, and the server after it.
Handled(r) ==
    LET same == {m \in server.moves : m.key = r.key} IN
    IF same # {}
    THEN IF \A m \in same : m.body = Body(r) THEN [answer |-> "ok", server |-> server]
         ELSE [answer |-> "clash", server |-> server]
    ELSE IF Refused(r) THEN [answer |-> "refused", server |-> server]
    ELSE [answer |-> "ok",
          server |-> [server EXCEPT !.balance = Balances(r),
                        !.moves = @ \cup {[key |-> r.key, intent |-> r.intent, body |-> Body(r),
                                           before |-> server.balance[Source]]}]]

(***************************************************************************)
(* The loads: the investor's wallet, again whenever the parent's list of   *)
(* investors brings another balance, and that list.                        *)
(***************************************************************************)
Data(v, h) == IF v.hooks[h].data = Null THEN Null ELSE v.hooks[h].data.rows
Listed(v, i) == IF Data(v, "investors") = Null THEN Null ELSE Data(v, "investors")[i]

Begin(v, h) == Async!Load(h, Async!Answer(h, IF h = "wallet" THEN server.balance[Source] ELSE server.balance))

(***************************************************************************)
(* The form, and what its review depends on.                               *)
(***************************************************************************)
NoForm == [kind |-> "none", to |-> Null, amount |-> 0, ticked |-> Null, key |-> Null, intent |-> 0]

\* availableCents, sourceAvailableBalance and recipientFingerprint.
Facts(v) == [available |-> Data(v, "wallet"), source |-> Listed(v, Source),
             recipient |-> IF v.form.to = Null THEN Null ELSE Listed(v, v.form.to)]
Fingerprint(v) == [facts |-> Facts(v), to |-> v.form.to, amount |-> v.form.amount]

PanelShown == ~view.hooks["wallet"].error /\ view.hooks["wallet"].data # Null
Busy == calls.request # Null

ValidTransfer ==
    /\ view.form.to # Null /\ Listed(view, view.form.to) # Null
    /\ view.form.amount > 0 /\ view.form.amount <= Data(view, "wallet")
    /\ Async!Settled(view.hooks["wallet"])

TransferConfirmed == ValidTransfer /\ view.form.ticked = Fingerprint(view)

\* The effect on the figures: the review and its key are void.
ReviewReset(v) == [v EXCEPT !.form.ticked = IF v.form.kind = "transfer" THEN Null ELSE @,
                            !.form.key = IF v.form.kind = "transfer" THEN Null ELSE @]

\* One render: the effects of changed figures, and of a changed parent balance.
RenderedWith(v, reloaded, loads) ==
    LET run == reloaded \cup (IF Listed(v, Source) # Listed(view, Source) THEN {"wallet"} ELSE {})
        next == IF Facts(v) # Facts(view) THEN ReviewReset(v) ELSE v
    IN [view |-> [next EXCEPT !.hooks = [h \in Hooks |-> IF h \in run THEN Async!Begun(@[h]) ELSE @[h]]],
        loads |-> Async!Retired(loads, run) \cup {Begin(v, h) : h \in run}]

\* A step of the manager: numbered, so that keys and intents are new.
Use(form) ==
    /\ calls.left > 0 /\ ~Busy
    /\ view' = RenderedWith([view EXCEPT !.form = form], {}, calls.loads).view
    /\ calls' = [calls EXCEPT !.left = @ - 1, !.serial = @ + 1]
    /\ UNCHANGED server

New == calls.serial + 1

OpenTransfer ==
    /\ PanelShown /\ Async!Settled(view.hooks["wallet"]) /\ Data(view, "wallet") > 0
    /\ \E to \in Recipients, a \in Amounts :     \* filled in at once; Edit changes the amount
          Use([NoForm EXCEPT !.kind = "transfer", !.to = to, !.amount = a, !.intent = New])

OpenAction(kind) ==
    /\ PanelShown /\ (kind = "withdraw" => Data(view, "wallet") > 0)
    /\ \E a \in Amounts :
          /\ kind = "withdraw" => a <= Data(view, "wallet")
          /\ Use([NoForm EXCEPT !.kind = kind, !.amount = a, !.key = New, !.intent = New])

Edit ==
    /\ PanelShown /\ view.form.kind # "none"
    /\ \E a \in Amounts \ {view.form.amount} :
          Use([view.form EXCEPT !.amount = a, !.ticked = Null, !.intent = New,
                  !.key = IF view.form.kind = "transfer" THEN Null ELSE New])

\* The box: a transfer's review is the whole summary on the screen, a deposit's that it was received.
Tick ==
    /\ PanelShown /\ view.form.kind \in {"transfer", "deposit"} /\ view.form.ticked = Null
    /\ view.form.kind = "transfer" => ValidTransfer
    /\ Use([view.form EXCEPT !.ticked = Fingerprint(view),
               !.intent = IF view.form.kind = "transfer" THEN New ELSE @])

Cancel ==
    /\ view.form.kind # "none" /\ ~Busy
    /\ view' = [view EXCEPT !.form = NoForm]
    /\ UNCHANGED <<server, calls>>

(***************************************************************************)
(* Sending: a key is minted by a transfer's first attempt, and kept.       *)
(* A withdrawal first records the investor's notice.                       *)
(***************************************************************************)
(* Mutant: every attempt is sent with a key of its own.                      *)
FreshKey == New

KeyToSend == IF view.form.key = Null THEN New ELSE view.form.key

Submit ==
    /\ PanelShown /\ ~Busy
    /\ CASE view.form.kind = "transfer" -> TransferConfirmed
         [] view.form.kind = "deposit"  -> view.form.ticked # Null
         [] OTHER -> view.form.kind = "withdraw"
    /\ view' = [view EXCEPT !.form.key = KeyToSend]
    /\ calls' = [calls EXCEPT !.serial = IF view.form.key = Null THEN New ELSE @,
                    !.request = [kind |-> view.form.kind, amount |-> view.form.amount, to |-> view.form.to,
                                 key |-> KeyToSend, intent |-> view.form.intent,
                                 shown |-> IF view.form.kind = "transfer" THEN Data(view, "wallet") ELSE 0,
                                 stage |-> IF view.form.kind = "withdraw" THEN "notice" ELSE "move",
                                 answer |-> Null]]
    /\ UNCHANGED server

NoticeRecorded ==
    /\ Busy /\ calls.request.stage = "notice"
    /\ server' = [server EXCEPT !.noticed = TRUE]
    /\ calls' = [calls EXCEPT !.request.stage = "move"]
    /\ UNCHANGED view

RequestHandled ==
    /\ Busy /\ calls.request.stage = "move" /\ calls.request.answer = Null
    /\ server' = Handled(calls.request).server
    /\ calls' = [calls EXCEPT !.request.answer = Handled(calls.request).answer]
    /\ UNCHANGED view

\* Success closes the form and reloads the wallet and the portfolio; a refusal leaves the form.
RequestAnswered ==
    /\ Busy /\ calls.request.answer # Null
    /\ LET done == calls.request.answer = "ok"
           next == RenderedWith(IF done THEN [view EXCEPT !.form = NoForm] ELSE view,
                                IF done THEN Hooks ELSE {}, calls.loads)
       IN /\ Cardinality(next.loads) <= MaxLoads
          /\ view' = next.view
          /\ calls' = [calls EXCEPT !.request = Null, !.loads = next.loads,
                          !.clashed = @ \/ calls.request.answer = "clash"]
    /\ UNCHANGED server

\* The connection fails: the form says so and may be sent again, and what was sent may still arrive.
RequestLost ==
    /\ Busy /\ calls.left > 0
    /\ calls' = [calls EXCEPT !.request = Null, !.left = @ - 1,
                    !.adrift = IF calls.request.stage = "move" /\ calls.request.answer = Null
                               THEN @ \cup {calls.request} ELSE @]
    /\ UNCHANGED <<view, server>>

LateArrival(r) ==
    /\ r \in calls.adrift
    /\ server' = Handled(r).server
    /\ calls' = [calls EXCEPT !.adrift = @ \ {r}]
    /\ UNCHANGED view

(***************************************************************************)
(* Loads, and the other manager.                                           *)
(***************************************************************************)
LoadDelivered(l) ==
    /\ l \in calls.loads
    /\ LET next == RenderedWith([view EXCEPT !.hooks[l.hook] = Async!Delivered(@, l)], {}, calls.loads \ {l})
       IN view' = next.view /\ calls' = [calls EXCEPT !.loads = next.loads]
    /\ UNCHANGED server

LoadFailed(l) ==
    /\ l \in calls.loads /\ calls.left > 0
    /\ view' = [view EXCEPT !.hooks[l.hook] = Async!Failed(@, l)]
    /\ calls' = [calls EXCEPT !.loads = @ \ {l}, !.left = @ - 1]
    /\ UNCHANGED server

\* The panel's retry button, or anything else in the portfolio that refreshes everything.
Refresh ==
    /\ ~Busy /\ calls.left > 0
    /\ \E run \in {{"wallet"}, {"investors"}} :
         LET next == RenderedWith(view, run, calls.loads) IN
         /\ run = {"wallet"} => view.hooks["wallet"].error
         /\ Cardinality(next.loads) <= MaxLoads
         /\ view' = next.view
         /\ calls' = [calls EXCEPT !.loads = next.loads, !.left = @ - 1]
    /\ UNCHANGED server

OtherManager ==
    /\ calls.left > 0
    /\ \E i \in Book : server' = [server EXCEPT !.balance[i] = @ + 1]
    /\ calls' = [calls EXCEPT !.left = @ - 1]
    /\ UNCHANGED view

Init ==
    /\ server \in {[balance |-> b, moves |-> {}, noticed |-> FALSE] : b \in Opening}
    /\ view = [hooks |-> [wallet |-> Async!Unmounted,
                          investors |-> Async!Resolved(Async!Unmounted, Async!Answer("investors", server.balance))],
               form |-> NoForm]
    /\ calls = [left |-> MaxEvents, serial |-> 0, request |-> Null, adrift |-> {}, clashed |-> FALSE,
                loads |-> {Async!Load("wallet", Async!Answer("wallet", server.balance[Source]))}]

Next ==
    \/ OpenTransfer \/ Edit \/ Tick \/ Cancel \/ Submit
    \/ \E kind \in {"deposit", "withdraw"} : OpenAction(kind)
    \/ NoticeRecorded \/ RequestHandled \/ RequestAnswered \/ RequestLost
    \/ \E r \in calls.adrift : LateArrival(r)
    \/ \E l \in calls.loads : LoadDelivered(l) \/ LoadFailed(l)
    \/ Refresh \/ OtherManager

Spec == Init /\ [][Next]_vars

\* Money moves once for what the manager meant once, and as it was reviewed: no two movements
\* come of one intent, through lost answers, retries and requests that arrive late; a transfer
\* takes place only over the balance its review showed; and a retry is never taken for another
\* operation that used its key (AvailableBalancePanel.tsx: operationKey, transferOperationKey,
\* reviewFingerprint).
OneMovePerReview ==
    /\ \A m, n \in server.moves : m.intent = n.intent => m = n
    /\ \A m \in server.moves : m.body.kind = "transfer" => m.before = m.body.shown
    /\ ~calls.clashed
=============================================================================
