----------------------------- MODULE InvestorDesk -----------------------------
(***************************************************************************)
(* The manager's file of an investor (pages/InvestorsPage.tsx) and the     *)
(* four dialogs that prepare an agreement from it: a new plan (PlanForm),  *)
(* a closing (SavingsActions.tsx), new dates for a plan, and new dates for *)
(* an offer that waits (DateAmendmentAction.tsx); with the agreements of   *)
(* the file (AgreementPanel.tsx).                                          *)
(*                                                                         *)
(* A document is what an agreement says: its kind, what it is about, the   *)
(* date (for a closing: date and purpose) entered in the dialog, and the   *)
(* version of the investor's figures it was computed from.  Its hash is    *)
(* the document itself.                                                    *)
(***************************************************************************)
EXTENDS Naturals, FiniteSets

CONSTANTS Null, PlanOwner,   \* plan -> its investor
          Investors,         \* investors of the book, now or later
          MaxAgreement,      \* agreements are 1 .. MaxAgreement
          MaxEvents, MaxLoads

VARIABLES view, server, calls

vars == <<view, server, calls>>
Async == INSTANCE AsyncData

All == 0
Plans == DOMAIN PlanOwner
Dates == {1, 2}
Hooks == {"investors", "plans", "agreements", "preview"}

Document(kind, source, date, version) == [kind |-> kind, source |-> source, date |-> date, version |-> version]

Offers == DOMAIN server.agreements
IsPending(a) == server.agreements[a].status = "pending"
SubjectOf(kind, source) ==
    CASE kind = "new" -> source
      [] kind = "replace" -> server.agreements[source].who
      [] OTHER -> PlanOwner[source]

\* What the server would put into the document now.
Current(kind, source, date) == Document(kind, source, date, server.version[SubjectOf(kind, source)])

(***************************************************************************)
(* The loads of the page.  The agreements are those of the selected        *)
(* investor; the preview is that of the closing dialog.                    *)
(***************************************************************************)
NoDialog == [kind |-> "none", source |-> Null, date |-> 1, reviewed |-> FALSE, ticked |-> Null,
             busy |-> FALSE, sent |-> FALSE]   \* sent: the request under way is this dialog's

KeyOf(v, hook) ==
    CASE hook = "agreements" -> v.selected
      [] hook = "preview" -> IF v.dialog.kind = "close" THEN <<v.dialog.source, v.dialog.date>> ELSE <<>>
      [] OTHER -> All

Rows(v, hook) ==
    CASE hook = "investors" -> [i \in server.book |-> server.version[i]]
      [] hook = "plans" -> [p \in {p \in Plans : server.plans[p] # "deleted"} |->
                               [status |-> server.plans[p], version |-> server.version[PlanOwner[p]],
                                waits |-> \E a \in Offers : /\ IsPending(a) /\ server.agreements[a].doc.kind = "dates"
                                                           /\ server.agreements[a].doc.source = p]]
      [] hook = "agreements" -> [a \in {a \in Offers : server.agreements[a].who = v.selected} |-> server.agreements[a]]
      [] hook = "preview" -> IF v.dialog.kind \in {"none", "new"} THEN Null
                             ELSE Current(v.dialog.kind, v.dialog.source, v.dialog.date)

LoadOf(v, hook) == Async!Load(hook, Async!Answer(KeyOf(v, hook), Rows(v, hook)))

\* A render after v was set: the hooks of the set, and those whose key changed, run again.
\* A preview asked for by another dialog than the one now open can do nothing any more.
Rerun(v, hooks) == hooks \cup {h \in Hooks : KeyOf(v, h) # KeyOf(view, h)}
Begun(v, hooks) == [v EXCEPT !.hooks = [h \in Hooks |-> IF h \in Rerun(v, hooks) THEN Async!Begun(@[h]) ELSE @[h]]]
StillOpen(v, loads) == IF v.dialog.source = view.dialog.source /\ v.dialog.kind = view.dialog.kind THEN loads
                       ELSE {l \in loads : l.hook # "preview"}
LoadsAfter(v, hooks) == Async!Retired(StillOpen(v, calls.loads), Rerun(v, hooks))
                           \cup {LoadOf(v, h) : h \in Rerun(v, hooks)}

\* A dialog lives in its card or its row, and goes with it: a card while its plan is
\* active and listed, a row while the agreements are not being read again.
Listed(v, hook, id) == v.hooks[hook].data # Null /\ id \in DOMAIN v.hooks[hook].data.rows
Rendered(v) ==
    LET d == v.dialog IN
    CASE d.kind \in {"close", "dates"} ->
            /\ Listed(v, "plans", d.source) /\ v.hooks["plans"].data.rows[d.source].status = "active"
            /\ d.kind = "dates" => ~v.hooks["plans"].data.rows[d.source].waits
      [] d.kind = "replace" ->
            /\ Async!Settled(v.hooks["agreements"]) /\ Listed(v, "agreements", d.source)
            /\ v.hooks["agreements"].data.rows[d.source].status = "pending"
      [] OTHER -> TRUE
Kept(v) == IF Rendered(v) THEN v ELSE [v EXCEPT !.dialog = NoDialog, !.hooks["preview"] = Async!Unmounted]

\* refreshAll().
PageHooks == {"investors", "plans", "agreements"}

Use(v, hooks, request) ==
    /\ calls.left > 0 /\ Cardinality(LoadsAfter(v, hooks)) <= MaxLoads
    /\ view' = Kept(Begun(v, hooks))
    /\ calls' = [calls EXCEPT !.loads = LoadsAfter(v, hooks), !.request = request, !.left = @ - 1]
    /\ UNCHANGED server

(***************************************************************************)
(* What the page shows.                                                    *)
(***************************************************************************)
Shown(hook) == view.hooks[hook].data.rows
Has(hook) == view.hooks[hook].data # Null
PageShown == Has("investors")          \* else the loading or the error screen
Selected == IF PageShown /\ view.selected \in DOMAIN Shown("investors") THEN view.selected ELSE Null

SelectedPlans == IF Has("plans") /\ Selected # Null
                 THEN {p \in DOMAIN Shown("plans") : PlanOwner[p] = Selected} ELSE {}
TrackPlans(track) == {p \in SelectedPlans :
                         (Shown("plans")[p].status = "completed") = (track = "closed")}

\* selectedAgreements, and those of them that wait for a signature.
SelectedAgreements == IF Has("agreements")
                      THEN {a \in DOMAIN Shown("agreements") : Shown("agreements")[a].who = Selected} ELSE {}
PendingAgreements == {a \in SelectedAgreements : Shown("agreements")[a].status = "pending"}
AgreementsSettled == Async!Settled(view.hooks["agreements"])

\* No modal is open: a modal covers the page.
Uncovered == PageShown /\ view.dialog = NoDialog /\ view.issued = Null

(***************************************************************************)
(* Navigation.                                                             *)
(***************************************************************************)
\* The strip above the file (its search narrows it, and is left out), and in everybody's view
\* of the plans a table of the investors; the other sections ask to choose one.
Strip == IF Uncovered THEN DOMAIN Shown("investors") \cup {All} ELSE {}
Table == IF Uncovered /\ Selected = Null /\ view.section = "plans" THEN DOMAIN Shown("investors") ELSE {}

SelectInvestor == \E i \in Strip \cup Table :
    /\ i # view.selected
    /\ Use([view EXCEPT !.selected = i, !.track = "active", !.editing = Null], {}, calls.request)

GoToSection == \E s \in {"plans", "documents"} :
    /\ Uncovered /\ Selected # Null /\ s # view.section
    /\ view' = [view EXCEPT !.section = s]
    /\ UNCHANGED <<server, calls>>

ShowTrack == \E t \in {"active", "closed"} :
    /\ Uncovered /\ view.section = "plans" /\ SelectedPlans # {} /\ t # view.track
    /\ view' = [view EXCEPT !.track = t]
    /\ UNCHANGED <<server, calls>>

RetryPage == /\ view.hooks["investors"].error \/ view.hooks["agreements"].error
             /\ view.dialog = NoDialog
             /\ Use(view, IF PageShown THEN PageHooks ELSE {"investors"}, calls.request)

(***************************************************************************)
(* The dialogs.  Opening one, and every change of its date, forgets the    *)
(* preview and the tick; the fields are locked while a request is under    *)
(* way, and only the new plan's dialog can be closed meanwhile.            *)
(***************************************************************************)
Card(p) == Uncovered /\ view.section = "plans" /\ p \in TrackPlans(view.track) /\ Shown("plans")[p].status = "active"
Row(a) == /\ Uncovered /\ Selected # Null /\ view.section = "documents"
          /\ AgreementsSettled /\ a \in PendingAgreements

CanOpen(kind, source) ==
    CASE kind = "new" -> /\ Uncovered /\ Selected = source
                         /\ AgreementsSettled /\ ~view.hooks["agreements"].error /\ PendingAgreements = {}
      [] kind = "close" -> Card(source) /\ ~\E a \in PendingAgreements :
                              Shown("agreements")[a].doc.kind = "close" /\ Shown("agreements")[a].doc.source = source
      [] kind = "dates" -> Card(source) /\ ~Shown("plans")[source].waits
      [] kind = "replace" -> Row(source) /\ Shown("agreements")[source].doc.kind \in {"new", "replace"}

Opened(kind, source) == [view EXCEPT !.dialog = [NoDialog EXCEPT !.kind = kind, !.source = source],
                                     !.hooks["preview"] = Async!Unmounted]

OpenDialog ==
    \/ \E i \in Investors : CanOpen("new", i) /\ Use(Opened("new", i), {}, calls.request)
    \/ \E p \in Plans, kind \in {"close", "dates"} : CanOpen(kind, p) /\ Use(Opened(kind, p), {}, calls.request)
    \/ \E a \in PendingAgreements : CanOpen("replace", a) /\ Use(Opened("replace", a), {}, calls.request)

CloseDialog ==
    /\ view.dialog.kind # "none" /\ (view.dialog.kind = "new" \/ ~view.dialog.busy)
    /\ Use([view EXCEPT !.dialog = NoDialog], {}, calls.request)

\* Mutant: the tick outlives a change of what it was given for.
TickKept(d) == d

\* The effect of SavingsActions, and clearReview of DateAmendmentAction.
TickCleared(d) == [d EXCEPT !.reviewed = FALSE, !.ticked = Null]

\* Dates: the generation moves on, so a preview under way is not alive any more.
Regenerated(v) == [v EXCEPT !.dialog = TickCleared(@), !.hooks["preview"] = Async!Unmounted]

ChangeDate == \E d \in Dates \ {view.dialog.date} :
    /\ view.dialog.kind \notin {"none", "new"} /\ ~view.dialog.busy
    /\ LET changed == [view EXCEPT !.dialog.date = d] IN
       IF view.dialog.kind = "close"
       THEN Use([changed EXCEPT !.dialog = TickCleared(@)], {}, calls.request)
       ELSE /\ view' = Regenerated(changed)
            /\ calls' = [calls EXCEPT !.loads = Async!Retired(@, {"preview"})]
            /\ UNCHANGED server

LoadPreview ==
    /\ view.dialog.kind \in {"dates", "replace"} /\ ~view.dialog.busy
    /\ Use([Regenerated(view) EXCEPT !.dialog.busy = TRUE], {"preview"}, calls.request)

RetryPreview == view.dialog.kind = "close" /\ view.hooks["preview"].error /\ Use(view, {"preview"}, calls.request)

\* ready: the preview on the screen is that of the plan, the date and the purpose entered.
Ready ==
    CASE view.dialog.kind = "close" ->
            /\ Async!Settled(view.hooks["preview"]) /\ ~view.hooks["preview"].error /\ Has("preview")
            /\ Shown("preview") # Null
            /\ Shown("preview").source = view.dialog.source /\ Shown("preview").date = view.dialog.date
      [] view.dialog.kind \in {"dates", "replace"} -> Has("preview")
      [] OTHER -> FALSE

\* What the reader ticks: the document on the screen, with the date of the field above it.
Tick ==
    /\ Ready /\ ~view.dialog.busy
    /\ view' = [view EXCEPT !.dialog.reviewed = ~@,
                            !.dialog.ticked = IF view.dialog.reviewed THEN Null
                                              ELSE [Shown("preview") EXCEPT !.date = view.dialog.date]]
    /\ UNCHANGED <<server, calls>>

(***************************************************************************)
(* Requests.  One at a time bounds them.                                   *)
(***************************************************************************)
\* A request to prepare carries the date entered and the hash of the document reviewed;
\* current says that its dialog was not told of new figures since (the generation).  The
\* notice that a closing and a new plan record first is left out: only this request reads it.
Request(op, who, source, date, hash, ticked) ==
    [op |-> op, who |-> who, source |-> source, date |-> date, hash |-> hash, ticked |-> ticked,
     current |-> TRUE, outcome |-> "none", made |-> 0]
Simple(op, who, source) == Request(op, who, source, 1, Null, Null)

Sending(d) == [d EXCEPT !.busy = TRUE, !.sent = TRUE]
Freed(d) == [d EXCEPT !.busy = FALSE, !.sent = FALSE]

Prepare ==
    /\ calls.request = Null /\ Ready /\ view.dialog.reviewed /\ ~view.dialog.busy
    /\ LET d == view.dialog IN
       Use([view EXCEPT !.dialog = Sending(@)], {},
           Request(d.kind, SubjectOf(d.kind, d.source), d.source, d.date, Shown("preview"), d.ticked))

\* The second submit of PlanForm, with the figures on the screen at that moment.
PrepareNewPlan ==
    /\ calls.request = Null /\ view.dialog.kind = "new" /\ ~view.dialog.busy
    /\ PageShown /\ view.dialog.source \in DOMAIN Shown("investors")
    /\ LET i == view.dialog.source
           doc == Document("new", i, view.dialog.date, Shown("investors")[i])
       IN Use([view EXCEPT !.dialog = Sending(@)], {}, Request("new", i, i, doc.date, doc, doc))

CancelDraft == \E a \in PendingAgreements :
    /\ calls.request = Null /\ Row(a)
    /\ Use(view, {}, Simple("cancel", Selected, a))

ToggleEdit == \E p \in SelectedPlans :
    /\ Card(p) /\ (Shown("plans")[p].waits => view.editing = p)
    /\ view' = [view EXCEPT !.editing = IF @ = p THEN Null ELSE p]
    /\ UNCHANGED <<server, calls>>

SaveOrDeletePlan == \E op \in {"update", "delete"} :
    /\ calls.request = Null /\ view.editing # Null /\ Card(view.editing)
    /\ op = "update" => ~Shown("plans")[view.editing].waits
    /\ Use(view, {}, Simple(op, Selected, view.editing))

CreateInvestor == \E i \in Investors \ server.book :
    /\ calls.request = Null /\ Uncovered
    /\ Use(view, {}, Simple("investor", i, i))

(***************************************************************************)
(* The server's side of them.                                              *)
(***************************************************************************)
\* The preparations of services/agreement_service.py and agreement_amendment_service.py:
\* no other pending agreement, and the document that would be made is the reviewed one.
Accepts(r) ==
    /\ \A a \in Offers : IsPending(a) /\ server.agreements[a].who = r.who => r.op = "replace" /\ a = r.source
    /\ IF r.op \in {"close", "dates"} THEN server.plans[r.source] = "active"
       ELSE \A p \in Plans : PlanOwner[p] = r.who => server.plans[p] # "active"
    /\ r.op = "replace" => IsPending(r.source)
    /\ r.hash = Current(r.op, r.source, r.date)
    /\ Cardinality(Offers) < MaxAgreement

Issued(r) == [who |-> r.who, doc |-> Current(r.op, r.source, r.date), status |-> "pending"]

WithAgreement(r) ==
    LET id == Cardinality(Offers) + 1 IN
    [server EXCEPT !.agreements = [a \in Offers \cup {id} |->
        IF a = id THEN Issued(r)
        ELSE IF r.op = "replace" /\ a = r.source THEN [@[a] EXCEPT !.status = "cancelled"] ELSE @[a]]]

RequestApplied ==
    /\ calls.request # Null /\ calls.request.outcome = "none"
    /\ LET r == calls.request
           ok == CASE r.op \in {"new", "close", "dates", "replace"} -> Accepts(r)
                   [] r.op = "cancel" -> IsPending(r.source)
                   [] r.op \in {"update", "delete"} -> server.plans[r.source] = "active"
                   [] OTHER -> TRUE
       IN /\ server' =
                IF ~ok THEN server
                ELSE CASE r.op = "cancel" -> [server EXCEPT !.agreements[r.source].status = "cancelled"]
                       [] r.op = "update" -> [server EXCEPT !.version[r.who] = @ + 1]
                       [] r.op = "delete" -> [server EXCEPT !.plans[r.source] = "deleted"]
                       [] r.op = "investor" -> [server EXCEPT !.book = @ \cup {r.who}]
                       [] OTHER -> WithAgreement(r)
          /\ calls' = [calls EXCEPT !.request.outcome = IF ok THEN "done" ELSE "refused",
                                   !.request.made = Cardinality(Offers) + 1]
    /\ UNCHANGED view

\* agreementPrepared and onCreatePlan: the document is shown, whatever is selected by now,
\* and the dialog that prepared it closes, for a new plan also one opened since.  New dates
\* prepared for figures that changed meanwhile are not shown.
AfterSuccess(r) ==
    CASE r.op \in {"new", "close", "dates", "replace"} ->
            LET closed == IF view.dialog.sent \/ (r.op = "new" /\ view.dialog.kind = "new")
                          THEN [view EXCEPT !.dialog = NoDialog] ELSE view IN
            IF r.op \in {"dates", "replace"} /\ ~r.current THEN closed
            ELSE [closed EXCEPT !.issued = r.made, !.section = "documents"]
      [] r.op = "update" -> [view EXCEPT !.editing = Null]
      [] r.op = "investor" -> [view EXCEPT !.selected = r.who, !.track = "active", !.editing = Null, !.section = "plans",
                                 !.hooks["investors"].data.rows = [i \in DOMAIN @ \cup {r.who} |->
                                                                      IF i \in DOMAIN @ THEN @[i] ELSE 0],
                                 !.dialog = [NoDialog EXCEPT !.kind = "new", !.source = r.who]]
      [] OTHER -> view

RequestAnswered ==
    /\ calls.request # Null /\ calls.request.outcome = "done"
    /\ LET r == calls.request
           again == IF r.op = "investor" THEN {"investors"}
                    ELSE IF r.op \in {"dates", "replace"} /\ ~r.current THEN {} ELSE PageHooks
           next == AfterSuccess(r)
       IN /\ Cardinality(LoadsAfter(next, again)) <= MaxLoads
          /\ view' = Kept(Begun(next, again))
          /\ calls' = [calls EXCEPT !.loads = LoadsAfter(next, again), !.request = Null]
    /\ UNCHANGED server

\* A refusal, or an answer that is lost: the dialog that sent it stays, the tick of a
\* closing or of new dates is gone, and a closing reads its preview again.
RequestFailed ==
    /\ calls.request # Null
    /\ calls.request.outcome = "refused" \/ calls.left > 0
    /\ LET d == view.dialog
           again == IF d.sent /\ d.kind = "close" THEN {"preview"} ELSE {}
           cleared == IF d.kind \in {"dates", "replace"} THEN Regenerated(view)
                      ELSE [view EXCEPT !.dialog = TickCleared(@)]
           freed == IF d.sent THEN [cleared EXCEPT !.dialog = Freed(@)] ELSE view
       IN /\ view' = Begun(freed, again)
          /\ calls' = [calls EXCEPT !.request = Null, !.loads = LoadsAfter(freed, again),
                          !.left = IF calls.request.outcome = "refused" THEN @ ELSE @ - 1]
    /\ UNCHANGED server

CloseIssued ==
    /\ view.issued # Null
    /\ view' = [view EXCEPT !.issued = Null]
    /\ UNCHANGED <<server, calls>>

(***************************************************************************)
(* Answers.  New figures of the plan or of the offer on the screen clear   *)
(* the review of its dates (sourceVersion).                                *)
(***************************************************************************)
SourceChanged(next) ==
    LET d == view.dialog
        version(v) == CASE d.kind = "dates" /\ v.hooks["plans"].data # Null -> v.hooks["plans"].data.rows
                        [] d.kind = "replace" /\ v.hooks["agreements"].data # Null -> v.hooks["agreements"].data.rows
                        [] OTHER -> <<>>
        of(v) == IF d.source \in DOMAIN version(v) THEN version(v)[d.source] ELSE Null
    IN d.kind \in {"dates", "replace"} /\ of(next) # of(view)

LoadDelivered(l) ==
    /\ l \in calls.loads
    /\ LET answered == [view EXCEPT !.hooks[l.hook] = Async!Delivered(@, l)]
           released == IF l.hook = "preview" /\ view.dialog.kind \in {"dates", "replace"} /\ ~view.dialog.sent
                       THEN [answered EXCEPT !.dialog.busy = FALSE] ELSE answered
           changed == SourceChanged(released)
           next == Kept(IF changed THEN Regenerated(released) ELSE released)
       IN /\ view' = next
          /\ calls' = [calls EXCEPT
                !.loads = StillOpen(next, IF changed THEN Async!Retired(@ \ {l}, {"preview"}) ELSE @ \ {l}),
                !.request = IF changed /\ @ # Null THEN [@ EXCEPT !.current = FALSE] ELSE @]
    /\ UNCHANGED server

LoadFailed(l) ==
    /\ l \in calls.loads /\ calls.left > 0
    /\ calls' = [calls EXCEPT !.loads = @ \ {l}, !.left = @ - 1]
    /\ view' = [view EXCEPT !.hooks[l.hook] = Async!Failed(@, l),
                            !.dialog.busy = @ /\ (view.dialog.sent \/ l.hook # "preview")]
    /\ UNCHANGED server

\* Elsewhere: money moves, an agreement is signed or cancelled, a plan is completed.
Others ==
    /\ calls.left > 0
    /\ \/ \E i \in server.book : server' = [server EXCEPT !.version[i] = @ + 1]
       \/ \E a \in Offers, s \in {"signed", "cancelled"} :
             /\ IsPending(a)
             /\ server' = [server EXCEPT !.agreements[a].status = s]
       \/ \E p \in Plans : /\ server.plans[p] = "active"
                           /\ server' = [server EXCEPT !.plans[p] = "completed"]
    /\ calls' = [calls EXCEPT !.left = @ - 1]
    /\ UNCHANGED view

(***************************************************************************)
(* Specification: a page opened on an investor's file, its answers read.   *)
(***************************************************************************)
Init ==
    /\ \E waiting \in {FALSE, TRUE}, i \in {PlanOwner[p] : p \in Plans} :
         server = [version |-> [j \in Investors |-> 0],
                   plans |-> [p \in Plans |-> IF waiting /\ PlanOwner[p] = i THEN "completed" ELSE "active"],
                   book |-> {PlanOwner[p] : p \in Plans},
                   agreements |-> [a \in (IF waiting THEN {1} ELSE {}) |->
                      [who |-> i, doc |-> Document("new", i, 1, 0), status |-> "pending"]]]
    /\ \E i \in {PlanOwner[p] : p \in Plans} :
         LET blank == [selected |-> i, section |-> "plans", track |-> "active", editing |-> Null,
                       issued |-> Null, dialog |-> NoDialog, hooks |-> [h \in Hooks |-> Async!Unmounted]]
         IN view = [blank EXCEPT !.hooks = [h \in Hooks |-> IF h = "preview" THEN @[h]
                       ELSE Async!Resolved(@[h], Async!Answer(KeyOf(blank, h), Rows(blank, h)))]]
    /\ calls = [loads |-> {}, request |-> Null, left |-> MaxEvents]

Next ==
    \/ SelectInvestor \/ GoToSection \/ ShowTrack \/ RetryPage
    \/ OpenDialog \/ CloseDialog \/ ChangeDate \/ LoadPreview \/ RetryPreview \/ Tick
    \/ Prepare \/ PrepareNewPlan \/ CancelDraft \/ ToggleEdit \/ SaveOrDeletePlan \/ CreateInvestor
    \/ RequestApplied \/ RequestAnswered \/ RequestFailed \/ CloseIssued
    \/ \E l \in calls.loads : LoadDelivered(l) \/ LoadFailed(l)
    \/ Others

Spec == Init /\ [][Next]_vars

\* An agreement that the file prepares says what was on the screen, date, figures and all,
\* when the manager ticked that it had been read: no change of the date or the purpose, no
\* late or failed preview and no refresh of the file's figures comes between the tick and
\* the document (SavingsActions.tsx: ready, reviewed; DateAmendmentAction.tsx: generation,
\* reviewed_document_hash; the figures of a new plan are those on the screen when it is sent).
PreparesWhatWasTicked ==
    \A a \in DOMAIN server'.agreements \ Offers :
        /\ calls.request # Null
        /\ server'.agreements[a].doc = calls.request.ticked
PreparedAsReviewed == [][PreparesWhatWasTicked]_vars
=============================================================================
