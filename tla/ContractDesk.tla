----------------------------- MODULE ContractDesk -----------------------------
(***************************************************************************)
(* Requests for a new plan and their contracts on the screen               *)
(* (components/TopupRequestsPanel.tsx): the board of requests, the form of *)
(* the investor, the offer of the manager, the contract with its two       *)
(* signature blocks.  The server's side is module Topup; here it is one    *)
(* step that accepts or refuses.                                           *)
(*                                                                         *)
(* Several calls may be under way: busyId disables the buttons of one row, *)
(* and the end of any call clears it.  A call that reads a contract shows  *)
(* it when the answer comes: openContract only if it is still the one      *)
(* asked for (contractVersion), a signature and a download always.         *)
(***************************************************************************)
EXTENDS Naturals, FiniteSets

CONSTANTS Null, Requests, Investors,
          MaxEvents, MaxCalls \* the reader's and other events; calls under way

VARIABLES view, server, calls

vars == <<view, server, calls>>
Async == INSTANCE AsyncData

Manager == 0
Party == IF view.me = Manager THEN "manager" ELSE "investor"

IsOpen(status) == status \in {"pending", "contract"}
IsExecuted(status) == status = "executed"
HasOpen(investor) == \E q \in Requests : server[q].of = investor /\ IsOpen(server[q].status)

(***************************************************************************)
(* Calls: what they do on the server, and what they bring back.            *)
(***************************************************************************)
Reads == {"open", "pdf", "sign"}

\* offered: opened by offerContract, whose finally comes after it.
Sent(op, id) == [op |-> op, id |-> id, current |-> TRUE, offered |-> FALSE, answer |-> Null]

\* What a call changes; it is refused when the row does not allow it any more.
Applies(c) ==
    LET r == server[c.id] IN
    CASE c.op = "create"  -> r.status = "none" /\ ~HasOpen(r.of)
      [] c.op = "cancel"  -> IsOpen(r.status)
      [] c.op = "reject"  -> r.status = "pending"
      [] c.op = "offer"   -> r.status = "pending"
      [] c.op = "reverse" -> IsExecuted(r.status) /\ r.cooling
      [] c.op = "sign"    -> r.status = "contract" /\ Party \notin r.signed
      [] OTHER -> TRUE

After(c) ==
    LET r == server[c.id] IN
    CASE c.op = "create"  -> [r EXCEPT !.status = "pending"]
      [] c.op = "cancel"  -> [r EXCEPT !.status = "cancelled"]
      [] c.op = "reject"  -> [r EXCEPT !.status = "rejected"]
      [] c.op = "offer"   -> [r EXCEPT !.status = "contract"]
      [] c.op = "reverse" -> [r EXCEPT !.status = "reversed", !.cooling = FALSE]
      [] c.op = "sign"    -> IF r.signed = {} THEN [r EXCEPT !.signed = {Party}]
                             ELSE [r EXCEPT !.signed = {"manager", "investor"}, !.status = "executed", !.cooling = TRUE]
      [] OTHER -> r

RefusedOf(c) == [id |-> c.id, row |-> Null]

(***************************************************************************)
(* What the panel shows.                                                   *)
(***************************************************************************)
Visible == IF view.list.data = Null THEN {} ELSE DOMAIN view.list.data.rows
Row(id) == view.list.data.rows[id]
OpenRows == {id \in Visible : IsOpen(Row(id).status)}
Cooling == {id \in Visible : Row(id).cooling}
History == Visible \ (OpenRows \cup Cooling)
Covered == view.contract # Null \/ view.offer # Null \/ view.creating

\* SignBlock: the form of this party, while the contract on the screen awaits it.
CanSign == /\ view.contract # Null /\ view.contract.row.status = "contract"
           /\ Party \notin view.contract.row.signed

RowsFor(me) == [id \in {q \in Requests : server[q].status # "none" /\ me \in {Manager, server[q].of}} |-> server[id]]
Reload(v) == [v EXCEPT !.list = Async!Begun(@)]
ListLoad == Async!Load("list", Async!Answer(view.me, RowsFor(view.me)))

(***************************************************************************)
(* The reader's actions.                                                   *)
(***************************************************************************)
Start(v, c) ==
    /\ calls.left > 0 /\ Cardinality(calls.sent) < MaxCalls
    /\ ~\E other \in calls.sent : other.op = c.op /\ other.id = c.id
    /\ view' = v
    /\ calls' = [calls EXCEPT !.sent = @ \cup {c}, !.left = @ - 1]
    /\ UNCHANGED server

Superseded(sent) == {IF c.op = "open" THEN [c EXCEPT !.current = FALSE] ELSE c : c \in sent}

\* openContract: the one asked for before is not wanted any more.
StartOpen(v, id) ==
    /\ calls.left > 0 /\ Cardinality(calls.sent) < MaxCalls
    /\ view' = [v EXCEPT !.busy = id, !.wanted = id]
    /\ calls' = [calls EXCEPT !.sent = Superseded(@) \cup {Sent("open", id)}, !.left = @ - 1]
    /\ UNCHANGED server

\* A button per contract that awaits signatures (while its row is free), can be reversed, or is over.
ContractButtons == {id \in OpenRows : Row(id).status = "contract" /\ view.busy # id} \cup Cooling
                     \cup {id \in History : IsExecuted(Row(id).status)}

OpenContract == /\ ~Covered
                /\ \E id \in ContractButtons : StartOpen(view, id)

\* The link of a notification: once, for a contract of the reader's own.
FollowLink == \E id \in Visible :
    /\ view.me # Manager /\ view.link = id
    /\ view.list.data # Null /\ ~view.list.loading
    /\ Row(id).status \in {"contract", "executed"}
    /\ StartOpen([view EXCEPT !.link = Null], id)

\* closeContract: what is asked for meanwhile is not shown.  The signature block goes
\* with the contract, and its tick with it.
CloseContract ==
    /\ view.contract # Null
    /\ view' = [view EXCEPT !.contract = Null, !.busy = Null, !.wanted = Null, !.tickedOn = Null]
    /\ calls' = [calls EXCEPT !.sent = Superseded(@)]
    /\ UNCHANGED server

\* The terms are ticked and the signature drawn on the contract that is on the screen.
FillSignature ==
    /\ CanSign /\ view.tickedOn = Null
    /\ view' = [view EXCEPT !.tickedOn = view.contract.id]
    /\ UNCHANGED <<server, calls>>

SignContract ==
    /\ CanSign /\ view.tickedOn # Null /\ view.busy # view.contract.id
    /\ Start([view EXCEPT !.busy = view.contract.id], Sent("sign", view.contract.id))

DownloadPdf == /\ view.contract # Null /\ ~view.pdfBusy
               /\ Start([view EXCEPT !.pdfBusy = TRUE], Sent("pdf", view.contract.id))

OpenForm ==
    /\ ~Covered
    /\ \/ view.me # Manager /\ OpenRows = {} /\ view' = [view EXCEPT !.creating = TRUE]
       \/ \E id \in OpenRows : /\ view.me = Manager /\ Row(id).status = "pending" /\ view.busy # id
                               /\ view' = [view EXCEPT !.offer = id]
    /\ UNCHANGED <<server, calls>>

CloseForm ==
    /\ view.creating \/ view.offer # Null
    /\ view' = [view EXCEPT !.creating = FALSE, !.offer = Null]
    /\ UNCHANGED <<server, calls>>

\* The two forms, filled in; each keeps its button while its own call is under way.
CreateTrackForm == view.creating /\ view.busy # Manager
OfferForm == view.offer # Null /\ view.busy # view.offer

CreateRequest == \E id \in Requests :
    /\ CreateTrackForm /\ server[id].of = view.me /\ server[id].status = "none"
    /\ Start([view EXCEPT !.busy = Manager], Sent("create", id))      \* busyId = -1

OfferContract == /\ OfferForm
                 /\ Start([view EXCEPT !.busy = view.offer], Sent("offer", view.offer))

\* After window.confirm: cancel while can_cancel_request, reject a pending one.
CancelOrReject == \E id \in OpenRows, op \in {"cancel", "reject"} :
    /\ ~Covered /\ view.busy # id
    /\ op = "reject" => view.me = Manager /\ Row(id).status = "pending"
    /\ op = "cancel" => view.me # Manager
    /\ Start([view EXCEPT !.busy = id], Sent(op, id))

Reverse == \E id \in Cooling :
    /\ ~Covered /\ view.busy # id
    /\ Start([view EXCEPT !.busy = id], Sent("reverse", id))

\* The same from the banner of the plan's card, with a busy flag of its own.
ReverseFromCard == \E id \in Cooling : ~Covered /\ Start(view, Sent("reverse", id))

(***************************************************************************)
(* Answers.                                                                *)
(***************************************************************************)
Serve(c) ==
    /\ c \in calls.sent /\ c.answer = Null
    /\ server' = IF Applies(c) THEN [server EXCEPT ![c.id] = After(c)] ELSE server
    /\ calls' = [calls EXCEPT !.sent = (@ \ {c}) \cup
                    {[c EXCEPT !.answer = IF Applies(c) THEN [id |-> c.id, row |-> After(c)] ELSE RefusedOf(c)]}]
    /\ UNCHANGED view

\* Mutant: a contract is shown whenever its answer comes.
AnyAnswer(c) == TRUE

\* current() of openContract.
IsCurrent(c) == c.current

\* The end of a call: what finally does, and whether the list is read again (onChanged).
Ended(c, v) == IF c.op = "pdf" THEN [v EXCEPT !.pdfBusy = FALSE]
               ELSE IF c.op = "open" /\ ~IsCurrent(c) /\ ~c.offered THEN v
               ELSE [v EXCEPT !.busy = Null]

Succeeded(c) ==
    CASE c.op = "open" -> IF IsCurrent(c) THEN [view EXCEPT !.contract = c.answer] ELSE view
      [] c.op \in {"pdf", "sign"} -> [view EXCEPT !.contract = c.answer]
      [] c.op = "create" -> [view EXCEPT !.creating = FALSE]
      [] c.op = "offer" -> [view EXCEPT !.offer = Null]
      [] OTHER -> view

Answered(c) ==
    /\ c \in calls.sent /\ c.answer \notin {Null, RefusedOf(c)}
    /\ LET next == Ended(c, Succeeded(c))
           changed == c.op \notin {"open", "pdf"}
           others == calls.sent \ {c}
           \* A contract that was offered is opened at once.
           opens == c.op = "offer"
       IN /\ view' = LET v == IF opens THEN [next EXCEPT !.busy = c.id, !.wanted = c.id] ELSE next
                     IN IF changed THEN Reload(v) ELSE v
          /\ calls' = [calls EXCEPT
                !.sent = IF opens THEN Superseded(others) \cup {[Sent("open", c.id) EXCEPT !.offered = TRUE]} ELSE others,
                !.loads = IF changed THEN Async!Retired(@, {"list"}) \cup {ListLoad} ELSE @]
    /\ UNCHANGED server

\* Refused, or lost with its answer: a message, and nothing is read again.
CallFailed(c) ==
    /\ c \in calls.sent /\ (c.answer = RefusedOf(c) \/ calls.left > 0)
    /\ view' = Ended(c, view)
    /\ calls' = [calls EXCEPT !.sent = @ \ {c}, !.left = IF c.answer = RefusedOf(c) THEN @ ELSE @ - 1]
    /\ UNCHANGED server

ListDelivered(l) ==
    /\ l \in calls.loads
    /\ view' = [view EXCEPT !.list = Async!Delivered(@, l)]
    /\ calls' = [calls EXCEPT !.loads = @ \ {l}]
    /\ UNCHANGED server

ListFailed(l) ==
    /\ l \in calls.loads /\ calls.left > 0
    /\ view' = [view EXCEPT !.list = Async!Failed(@, l)]
    /\ calls' = [calls EXCEPT !.loads = @ \ {l}, !.left = @ - 1]
    /\ UNCHANGED server

\* The other party signs or withdraws; the days to reverse pass.
Others ==
    /\ calls.left > 0
    /\ \E id \in Requests :
         \/ /\ server[id].status = "contract"
            /\ \E op \in {"cancelled", "executed"} :
                  server' = [server EXCEPT ![id].status = op, ![id].cooling = op = "executed",
                                ![id].signed = IF op = "executed" THEN {"manager", "investor"} ELSE @]
         \/ server[id].cooling /\ server' = [server EXCEPT ![id].cooling = FALSE]
    /\ calls' = [calls EXCEPT !.left = @ - 1]
    /\ UNCHANGED view

(***************************************************************************)
(* Specification: a panel whose list has been read; the server lets an     *)
(* investor have one open request.                                         *)
(***************************************************************************)
Init ==
    /\ server \in [Requests -> [of : Investors, status : {"none", "pending", "contract", "executed"},
                                signed : {{}, {"manager", "investor"}}, cooling : BOOLEAN]]
    /\ \A q \in Requests : /\ server[q].cooling = IsExecuted(server[q].status)
                            /\ server[q].cooling = (server[q].signed # {})
                            /\ \A o \in Requests \ {q} : IsOpen(server[q].status) /\ IsOpen(server[o].status)
                                                          => server[q].of # server[o].of
    /\ \E me \in {Manager} \cup Investors, link \in Requests \cup {Null} :
         view = [me |-> me, link |-> IF me = Manager THEN Null ELSE link,
                 list |-> Async!Resolved(Async!Unmounted, Async!Answer(me, RowsFor(me))),
                 contract |-> Null, wanted |-> Null, offer |-> Null, creating |-> FALSE,
                 busy |-> Null, pdfBusy |-> FALSE, tickedOn |-> Null]
    /\ calls = [sent |-> {}, loads |-> {}, left |-> MaxEvents]

Next ==
    \/ OpenContract \/ FollowLink \/ CloseContract \/ FillSignature \/ SignContract \/ DownloadPdf
    \/ OpenForm \/ CloseForm \/ CreateRequest \/ OfferContract \/ CancelOrReject \/ Reverse \/ ReverseFromCard
    \/ \E c \in calls.sent : Serve(c) \/ Answered(c) \/ CallFailed(c)
    \/ \E l \in calls.loads : ListDelivered(l) \/ ListFailed(l)
    \/ Others

Spec == Init /\ [][Next]_vars

\* A contract comes on the screen only as the one the reader opened last and did not close
\* since, or with the answer to a signature or a download of that same contract: an earlier
\* opening whose answer is late never puts its contract over it (TopupRequestsPanel.tsx:
\* contractVersion, closeContract).
ShowsTheLastOpened ==
    view'.contract # Null /\ view'.contract # view.contract =>
        \/ view'.contract.id = view.wanted
        \/ \E c \in calls.sent : c.op \in {"sign", "pdf"} /\ c.id = view'.contract.id
LastOpenedIsShown == [][ShowsTheLastOpened]_vars
=============================================================================
