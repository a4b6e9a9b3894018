------------------------------ MODULE QuoteDesk ------------------------------
(***************************************************************************)
(* Offers to new investors (pages/QuotesPage.tsx, utils/quoteStatus.ts):   *)
(* the form, the three tabs, the PDF and WhatsApp dialog, the conversion   *)
(* into an investor, and the loop that fills in missing access details     *)
(* behind the manager's back.                                              *)
(*                                                                         *)
(* An access is the user name, password and start date of an offer:        *)
(* 0 while one of them is missing.  The server (api/v1/investments.py)     *)
(* keeps the offers and, of the account a conversion opened, the access it *)
(* was opened with.  server.crossed is the model's own note of the offers  *)
(* of which a conversion crossed another request: of the two, the one that *)
(* wrote later had read the offer before the other wrote it.               *)
(***************************************************************************)
EXTENDS Naturals, FiniteSets

CONSTANTS Null, Quotes, Accesses,
          MaxEvents,    \* requests, confirmations asked for, changes of tab and losses in one behaviour
          MaxCalls      \* calls under way

VARIABLES view, server, calls

vars == <<view, server, calls>>
Async == INSTANCE AsyncData

IsPipeline(status) == status \in {"pending", "approved"}
TabOf(status) == CASE status = "converted" -> "completed"
                   [] status = "rejected" -> "rejected"
                   [] OTHER -> "pipeline"
CanApprove(status) == status = "pending"
CanConvert(status) == status = "approved"
Target == [approve |-> "approved", reject |-> "rejected", restore |-> "pending"]
StatusOps == DOMAIN Target

(***************************************************************************)
(* The server.  A handler reads the offer, checks what it read and commits *)
(* later; it holds no lock in between, and its UPDATE names only the       *)
(* columns that differ from what it read.                                  *)
(***************************************************************************)
\* Mutant: an offer is updated whatever its status.
EditableAlways(row) == TRUE

\* quote_is_editable, on every update but that of the status alone.
Editable(row) == IsPipeline(row.status)

\* validate_quote_status_transition.
Transitions == [pending |-> {"approved", "rejected"}, approved |-> {"pending", "rejected"},
                converted |-> {}, rejected |-> {"pending"}]

Accepts(c, row) ==
    CASE c.op \in StatusOps -> Target[c.op] \in Transitions[row.status] \cup {row.status}
      [] c.op = "delete" -> row.status # "converted"
      [] c.op = "convert" -> CanConvert(row.status)
      [] OTHER -> Editable(row)

\* The object in memory after the handler's assignments.
Assigned(c) ==
    CASE c.op \in StatusOps -> [c.row EXCEPT !.status = Target[c.op]]
      [] c.op = "convert" -> [status |-> "converted", access |-> c.access]
      [] OTHER -> [c.row EXCEPT !.access = c.access]

Merged(c) == [column \in {"status", "access"} |->
    IF Assigned(c)[column] # c.row[column] THEN Assigned(c)[column] ELSE server.quotes[c.id][column]]

Created(c) ==
    [server EXCEPT !.unused = @ \ {c.id},
                   !.quotes = [q \in DOMAIN @ \cup {c.id} |->
                       IF q = c.id THEN [status |-> "pending", access |-> c.access] ELSE @[q]]]

Deleted(c) == [server EXCEPT !.quotes = [q \in DOMAIN @ \ {c.id} |-> @[q]]]

\* A conversion and another request wrote the offer, the later of them over a row it
\* had not read.
Crosses(c) == /\ server.quotes[c.id] # c.row
              /\ "converted" \in {server.quotes[c.id].status, Assigned(c).status}

Updated(c) ==
    [server EXCEPT !.quotes[c.id] = Merged(c),
                   !.accounts[c.id] = IF c.op = "convert" THEN c.access ELSE @,
                   !.crossed = IF Crosses(c) THEN @ \cup {c.id} ELSE @]

(***************************************************************************)
(* The page.                                                               *)
(***************************************************************************)
Rows == view.list.data.rows
PageShown == view.list.data # Null /\ ~view.list.error
Covered == view.asked # Null \/ view.converting # Null \/ view.share # Null \/ view.issued # Null
Shown == IF PageShown /\ ~Covered THEN {q \in DOMAIN Rows : TabOf(Rows[q].status) = view.tab} ELSE {}

ListLoad == Async!Load("list", Async!Answer("all", server.quotes))
Reload(v) == [v EXCEPT !.list = Async!Begun(@)]
LoadsReloaded == Async!Retired(calls.loads, {"list"}) \cup {ListLoad}

\* row: what its handler has read; heard: the page still waits for the answer.
Call(op, id, access) == [op |-> op, id |-> id, access |-> access, row |-> Null, answer |-> Null, heard |-> TRUE]

NewOffer == 0

\* A change of the screen alone; the tabs and the questions are bounded (Costly).
Turn(v) == view' = v /\ UNCHANGED <<server, calls>>
Costly(v) == calls.left > 0 /\ view' = v /\ calls' = [calls EXCEPT !.left = @ - 1] /\ UNCHANGED server

Send(v, c, cost) ==
    /\ calls.left >= cost /\ Cardinality(calls.sent) < MaxCalls /\ c \notin calls.sent
    /\ view' = v
    /\ calls' = [calls EXCEPT !.sent = @ \cup {c}, !.left = @ - cost]
    /\ UNCHANGED server

ChooseTab == ~Covered /\ PageShown /\ \E tab \in {"pipeline", "completed", "rejected"} \ {view.tab} :
                 Costly([view EXCEPT !.tab = tab])

\* The form of a new offer or of one of the pipeline; also where an offer without a
\* phone number is sent for it by the WhatsApp button.
OpenForm ==
    \/ PageShown /\ ~Covered /\ view.form # NewOffer /\ Turn([view EXCEPT !.form = NewOffer])
    \/ \E q \in Shown : IsPipeline(Rows[q].status) /\ view.form # q /\ Turn([view EXCEPT !.form = q])

\* Its fields hold the offer, or a draft password; saving alone is locked while it is busy.
FormShown == PageShown /\ ~Covered /\ view.form # Null

CloseForm == FormShown /\ Turn([view EXCEPT !.form = Null])

OnSave == \E access \in Accesses :
    /\ FormShown /\ ~view.busy
    /\ \/ \E q \in server.unused : view.form = NewOffer /\ Send([view EXCEPT !.busy = TRUE], Call("create", q, access), 1)
       \/ view.form \in Quotes /\ Send([view EXCEPT !.busy = TRUE], Call("save", view.form, access), 1)

\* What is asked before (useConfirm) keeps the offer it was asked about.
Ask == \E q \in Shown, op \in {"reject", "delete"} :
    /\ IF op = "reject" THEN IsPipeline(Rows[q].status) ELSE Rows[q].status # "converted"
    /\ Costly([view EXCEPT !.asked = [op |-> op, id |-> q]])

Answer == /\ view.asked # Null
          /\ \/ Turn([view EXCEPT !.asked = Null])
             \/ Send([view EXCEPT !.asked = Null], Call(view.asked.op, view.asked.id, 0), 0)

SetQuoteStatus == \E q \in Shown :
    \/ CanApprove(Rows[q].status) /\ Send(view, Call("approve", q, 0), 1)
    \/ Rows[q].status = "rejected" /\ Send(view, Call("restore", q, 0), 1)

OpenConversion == \E q \in Shown :
    CanConvert(Rows[q].status) /\ Turn([view EXCEPT !.converting = q])

ConvertQuote == \E access \in Accesses :
    /\ view.converting # Null /\ PageShown /\ ~view.busy
    /\ Send([view EXCEPT !.busy = TRUE], Call("convert", view.converting, access), 1)

\* sendWhatsApp and exportPdf: the missing access is stored first (persistQuoteAccess);
\* else the document is drawn from the offer as it is on the screen.
MakePdf == \E q \in Shown, op \in {"send", "pdf"}, access \in Accesses :
    /\ view.pdfBusy # q
    /\ op = "send" => IsPipeline(Rows[q].status)
    /\ Send([view EXCEPT !.pdfBusy = q],
            IF Editable(Rows[q]) /\ Rows[q].access = 0 THEN Call(op, q, access)
            ELSE [Call(op, q, Rows[q].access) EXCEPT !.answer = "done"],
            1)

\* The dialogs are closed; a conversion under way goes on.
CloseModal ==
    \/ view.converting # Null /\ Turn([view EXCEPT !.converting = Null])
    \/ view.issued # Null /\ Turn([view EXCEPT !.issued = Null])
    \/ view.share # Null /\ Turn([view EXCEPT !.share = Null])

Refetched(v) == /\ calls.left > 0
                /\ view' = Reload(v)
                /\ calls' = [calls EXCEPT !.loads = LoadsReloaded, !.left = @ - 1]
                /\ UNCHANGED server

\* shareWhatsappPdf and openWhatsappChat; and the button of the error screen.
Share == view.share # Null /\ Refetched([view EXCEPT !.share = Null])
Retry == view.list.error /\ Refetched(view)

(***************************************************************************)
(* Calls and their answers.                                                *)
(***************************************************************************)
Became(c, next) == calls' = [calls EXCEPT !.sent = (@ \ {c}) \cup {n \in {next} : n.heard \/ n.answer = Null}]

\* The first query of a handler and its checks.
Read(c) ==
    /\ c.op # "create" /\ c.row = Null /\ c.answer = Null
    /\ IF c.id \in DOMAIN server.quotes /\ Accepts(c, server.quotes[c.id])
       THEN Became(c, [c EXCEPT !.row = server.quotes[c.id]])
       ELSE Became(c, [c EXCEPT !.answer = "refused"])
    /\ UNCHANGED <<view, server>>

\* Its commit.  An UPDATE of a row that is gone fails, a DELETE of one only warns; the user
\* name of an account is unique.
Commit(c) ==
    LET found == c.id \in DOMAIN server.quotes
        done == CASE c.op \in {"create", "delete"} -> TRUE
                  [] c.op = "convert" -> found /\ \A q \in Quotes : server.accounts[q] # c.access
                  [] OTHER -> found
    IN
    /\ c.answer = Null
    /\ IF c.op = "create" THEN c.id \in server.unused ELSE c.row # Null
    /\ server' = CASE c.op = "create" -> Created(c)
                   [] c.op = "delete" /\ found -> Deleted(c)
                   [] c.op \notin {"create", "delete"} /\ done -> Updated(c)
                   [] OTHER -> server
    /\ Became(c, [c EXCEPT !.row = Null, !.answer = IF done THEN "done" ELSE "refused"])
    /\ UNCHANGED view

\* The finally blocks.
Finished(c, v) ==
    CASE c.op \in {"create", "save", "convert"} -> [v EXCEPT !.busy = FALSE]
      [] c.op \in {"send", "pdf"} -> [v EXCEPT !.pdfBusy = Null]
      [] OTHER -> v

Succeeded(c) ==
    CASE c.op \in {"create", "save"} -> [view EXCEPT !.form = Null]
      [] c.op = "reject" -> [view EXCEPT !.tab = "rejected"]
      [] c.op = "approve" -> [view EXCEPT !.tab = "pipeline"]
      [] c.op = "delete" -> [view EXCEPT !.form = IF @ = c.id THEN Null ELSE @]
      [] c.op = "convert" -> [view EXCEPT !.issued = c.id, !.converting = Null, !.tab = "completed"]
      [] c.op = "send" -> [view EXCEPT !.share = c.id]
      [] c.op = "fill" -> [view EXCEPT !.attempted = @ \cup {c.id}, !.filling.changed = TRUE]
      [] OTHER -> view

Answered(c) ==
    /\ c.answer = "done"
    /\ LET v == Finished(c, Succeeded(c)) IN
       IF c.op \in {"send", "fill"}
       THEN view' = v /\ calls' = [calls EXCEPT !.sent = @ \ {c}]
       ELSE view' = Reload(v) /\ calls' = [calls EXCEPT !.sent = @ \ {c}, !.loads = LoadsReloaded]
    /\ UNCHANGED server

\* Refused, or lost; the server may still be at it.
CallFailed(c) ==
    /\ c.heard /\ (c.answer = "refused" \/ calls.left > 0)
    /\ view' = IF c.op = "fill" THEN [view EXCEPT !.attempted = @ \ {c.id}] ELSE Finished(c, view)
    /\ calls' = [calls EXCEPT !.left = IF c.answer = "refused" THEN @ ELSE @ - 1,
                              !.sent = (@ \ {c}) \cup {[d EXCEPT !.heard = FALSE] : d \in {d \in {c} : d.answer = Null}}]
    /\ UNCHANGED server

(***************************************************************************)
(* The loop that fills in what is missing: it starts when a list arrives   *)
(* and none is running, and works through the offers as that list had them.*)
(***************************************************************************)
Idle == [running |-> FALSE, left |-> {}, changed |-> FALSE]

Lacking(v) == {q \in DOMAIN v.list.data.rows :
                  /\ IsPipeline(v.list.data.rows[q].status) /\ v.list.data.rows[q].access = 0
                  /\ q \notin v.attempted}

Noticed(v) == IF v.filling.running \/ Lacking(v) = {} THEN v
              ELSE [v EXCEPT !.filling = [running |-> TRUE, left |-> Lacking(v), changed |-> FALSE]]

NoFillSent == \A c \in calls.sent : c.op = "fill" => ~c.heard

FillNext == \E q \in view.filling.left, access \in Accesses :
    /\ NoFillSent
    /\ view' = [view EXCEPT !.filling.left = @ \ {q}]
    /\ calls' = [calls EXCEPT !.sent = @ \cup {Call("fill", q, access)}]
    /\ UNCHANGED server

FillEnds ==
    /\ view.filling.running /\ view.filling.left = {} /\ NoFillSent
    /\ LET v == [view EXCEPT !.filling = Idle] IN
       IF view.filling.changed
       THEN view' = Reload(v) /\ calls' = [calls EXCEPT !.loads = LoadsReloaded]
       ELSE view' = v /\ UNCHANGED calls
    /\ UNCHANGED server

ListDelivered(l) ==
    /\ view' = IF l.alive THEN Noticed([view EXCEPT !.list = Async!Delivered(@, l)]) ELSE view
    /\ calls' = [calls EXCEPT !.loads = @ \ {l}]
    /\ UNCHANGED server

ListFailed(l) ==
    /\ calls.left > 0
    /\ view' = [view EXCEPT !.list = Async!Failed(@, l)]
    /\ calls' = [calls EXCEPT !.loads = @ \ {l}, !.left = @ - 1]
    /\ UNCHANGED server

(***************************************************************************)
(* Specification: the page asks for the list.                              *)
(***************************************************************************)
Init ==
    /\ \E old \in SUBSET Quotes :
         server \in [quotes : [old -> [status : {"pending", "approved", "rejected"}, access : {0} \cup Accesses]],
                     accounts : {[q \in Quotes |-> 0]}, unused : {Quotes \ old},
                     crossed : {{}}]
    /\ view = [list |-> Async!Unmounted, tab |-> "pipeline", form |-> Null, asked |-> Null,
               converting |-> Null, issued |-> Null, share |-> Null, busy |-> FALSE, pdfBusy |-> Null,
               attempted |-> {}, filling |-> Idle]
    /\ calls = [sent |-> {}, loads |-> {ListLoad}, left |-> MaxEvents]

Next ==
    \/ ChooseTab \/ OpenForm \/ CloseForm \/ OnSave \/ Ask \/ Answer \/ SetQuoteStatus
    \/ OpenConversion \/ ConvertQuote \/ MakePdf \/ CloseModal \/ Share \/ Retry
    \/ \E c \in calls.sent : Read(c) \/ Commit(c) \/ Answered(c) \/ CallFailed(c)
    \/ FillNext \/ FillEnds
    \/ \E l \in calls.loads : ListDelivered(l) \/ ListFailed(l)

Spec == Init /\ [][Next]_vars

\* The details the page offers to send to a new investor are those the account was opened
\* with: no form, document or filling loop that reaches the offer after its conversion
\* writes over them, and no list loaded before shows them otherwise (QuotesPage.tsx:
\* openQuoteAccessWhatsApp; update_quote, convert_quote).  The exception is a request that
\* crosses the conversion on the server: both handlers check a row they read without a
\* lock, so an update that read the offer before the conversion committed still writes
\* its own access over the converted offer, and then the details do differ.
AccessShownOpens ==
    view.list.data # Null =>
        \A q \in DOMAIN Rows \ server.crossed :
            Rows[q].status = "converted" => Rows[q].access = server.accounts[q]
=============================================================================
