---------------------------- MODULE DocumentVault ----------------------------
(***************************************************************************)
(* The vault of documents (pages/DocumentsPage.tsx): a manager chooses an  *)
(* investor, anyone narrows the list to a period, and a row is made into a *)
(* file when it is asked for, from one or two requests of its own.         *)
(*                                                                         *)
(* The rows of reports are the same for every investor (yearly:2026): only *)
(* the selection tells whose report a click makes.  Inside the investors'  *)
(* page (embedded) the selection is that page's and never changes here.    *)
(***************************************************************************)
EXTENDS Naturals, FiniteSets

CONSTANTS Null, Me, Investors,
          Catalogue,      \* rows: [kind, source, year, month]; source is the owner of what is signed
          Started, MaxEvents, MaxLoads

VARIABLES view, server, calls
vars == <<view, server, calls>>
Async == INSTANCE AsyncData

Hooks == {"investors", "documents"}

(***************************************************************************)
(* Scope.                                                                  *)
(***************************************************************************)
Expected(v) == IF v.manager THEN v.scope ELSE Me
CanLoad(v) == v.manager => v.scope # Null

\* The loader of documents without a scope answers null: data, but of nobody.
Loader(v, h) ==
    CASE h = "investors" -> Async!Answer(Null, IF v.manager /\ ~v.embedded THEN Investors ELSE {})
      [] h = "documents" /\ CanLoad(v) -> Async!Answer(Expected(v), server[Expected(v)])
      [] OTHER -> Async!Answer(Null, {})

Rerun(v, run) ==
    /\ Cardinality(calls.loads) + Cardinality(run) <= MaxLoads
    /\ view' = [v EXCEPT !.hooks = [h \in Hooks |-> IF h \in run THEN Async!Begun(@[h]) ELSE @[h]]]
    /\ calls' = [calls EXCEPT !.left = @ - 1,
                              !.loads = Async!Retired(@, run) \cup {Async!Load(h, Loader(v, h)) : h \in run}]
    /\ UNCHANGED server

(***************************************************************************)
(* What is on the screen.                                                  *)
(***************************************************************************)
Nobody == Async!Answer(Null, {})
Data(v) == IF v.hooks["documents"].data = Null THEN Nobody ELSE v.hooks["documents"].data

\* Mutant: what was loaded last is listed, whoever is chosen.
ScopedToLast(v) == Data(v)

\* scopedData: null unless it is the chosen investor's.
ScopedData(v) == IF Data(v).key = Expected(v) THEN Data(v) ELSE Nobody

Documents(v) == {d \in ScopedData(v).rows : v.embedded => d.kind # "agreement"}
Years(v) == {d.year : d \in Documents(v)}
InPeriod(d, period) == period.year \in {Null, d.year} /\ period.month \in {Null, d.month}
Filtered(v) == {d \in Documents(v) : InPeriod(d, v.period)}

InvestorOptions(v) == IF v.hooks["investors"].data = Null THEN {} ELSE v.hooks["investors"].data.rows
ScopeLoading(v) ==
    LET hook == v.hooks["documents"]
    IN hook.loading \/ (~hook.error /\ CanLoad(v) /\ ScopedData(v) = Nobody)

\* The first of the states that holds is shown instead of the list.
Screen(v) ==
    LET choosing == v.manager /\ ~v.embedded
    IN IF choosing /\ v.hooks["investors"].loading THEN "loadingInvestors"
       ELSE IF choosing /\ v.hooks["investors"].error THEN "investorsFailed"
       ELSE IF choosing /\ InvestorOptions(v) = {} THEN "noInvestors"
       ELSE IF v.manager /\ v.scope = Null THEN "choose"
       ELSE IF ScopeLoading(v) THEN "loading"
       ELSE IF v.hooks["documents"].error THEN "failed"
       ELSE IF Filtered(v) = {} THEN "empty" ELSE "list"

PeriodShown(v) ==
    CanLoad(v) /\ ~ScopeLoading(v) /\ ~v.hooks["documents"].error /\ Documents(v) # {}

(***************************************************************************)
(* The controls.                                                           *)
(***************************************************************************)
AnyPeriod == [year |-> Null, month |-> Null]

\* The bar stays whatever is shown below; the period is forgotten with the investor.
SelectInvestor(i) ==
    /\ calls.left > 0 /\ view.manager /\ ~view.embedded
    /\ i \in InvestorOptions(view) /\ i # view.scope
    /\ Rerun([view EXCEPT !.scope = i, !.period = AnyPeriod], {"documents"})

ChoosePeriod ==
    /\ calls.left > 0 /\ PeriodShown(view)
    /\ \E year \in Years(view) \cup {Null}, month \in {d.month : d \in Catalogue} :
          /\ [year |-> year, month |-> month] # view.period
          /\ view' = [view EXCEPT !.period = [year |-> year, month |-> month]]
    /\ calls' = [calls EXCEPT !.left = @ - 1]
    /\ UNCHANGED server

RetryInvestors == calls.left > 0 /\ Screen(view) = "investorsFailed" /\ Rerun(view, {"investors"})
RetryDocuments == calls.left > 0 /\ Screen(view) = "failed" /\ Rerun(view, {"documents"})

(***************************************************************************)
(* A file.                                                                 *)
(***************************************************************************)
\* buildPdf: what each kind asks the server for.
Parts(d) ==
    CASE d.kind = "yearly"  -> {"payments", "report"}
      [] d.kind = "monthly" -> {"dashboard", "payments"}
      [] OTHER -> {"source"}

\* The scope and the name are those of the click; asked remembers whose list was on the screen.
RunDoc(d, mode) ==
    /\ calls.left > 0 /\ Screen(view) = "list" /\ d \in Filtered(view)
    /\ view.busy # Null => view.busy.doc # d
    /\ view' = [view EXCEPT !.busy = [doc |-> d, mode |-> mode]]
    /\ calls' = [calls EXCEPT !.left = @ - 1,
         !.runs = @ \cup {[doc |-> d, mode |-> mode, scope |-> Expected(view),
                           name |-> ScopedData(view).key, asked |-> Expected(view), got |-> {}]}]
    /\ UNCHANGED server

\* The answers of the two requests come in either order.
PartAnswered(r, part) ==
    /\ r \in calls.runs /\ part \in Parts(r.doc) \ r.got
    /\ calls' = [calls EXCEPT !.runs = (@ \ {r}) \cup {[r EXCEPT !.got = @ \cup {part}]}]
    /\ UNCHANGED <<view, server>>

\* Whose figures are in it: what was signed is its own, a report is the scope's.
Contents(r) == IF Parts(r.doc) = {"source"} THEN r.doc.source ELSE r.scope

\* setBusyId(null), whichever row waits by now.
FileMade(r) ==
    /\ r \in calls.runs /\ r.got = Parts(r.doc)
    /\ view' = [view EXCEPT !.busy = Null,
         !.files = @ \cup {[doc |-> r.doc, of |-> Contents(r), name |-> r.name, asked |-> r.asked]}]
    /\ calls' = [calls EXCEPT !.runs = @ \ {r}]
    /\ UNCHANGED server

FileFailed(r) ==
    /\ r \in calls.runs /\ calls.left > 0
    /\ view' = [view EXCEPT !.busy = Null]
    /\ calls' = [calls EXCEPT !.runs = @ \ {r}, !.left = @ - 1]
    /\ UNCHANGED server

(***************************************************************************)
(* Loads and the server.                                                   *)
(***************************************************************************)
LoadDelivered(l) ==
    /\ l \in calls.loads
    /\ view' = [view EXCEPT !.hooks[l.hook] = Async!Delivered(@, l)]
    /\ calls' = [calls EXCEPT !.loads = @ \ {l}]
    /\ UNCHANGED server

LoadFailed(l) ==
    /\ l \in calls.loads /\ calls.left > 0
    /\ view' = [view EXCEPT !.hooks[l.hook] = Async!Failed(@, l)]
    /\ calls' = [calls EXCEPT !.loads = @ \ {l}, !.left = @ - 1]
    /\ UNCHANGED server

\* list_document_vault is computed from what there is: a row comes, or a quote is deleted.
Elsewhere ==
    /\ calls.left > 0
    /\ \E i \in Investors, d \in Catalogue :
          /\ d.source \in {Null, i}
          /\ server' = [server EXCEPT ![i] = IF d \notin @ THEN @ \cup {d}
                                             ELSE IF d.kind = "quote" THEN @ \ {d} ELSE @]
    /\ server' # server
    /\ calls' = [calls EXCEPT !.left = @ - 1]
    /\ UNCHANGED view

Init ==
    /\ server \in Started
    /\ \E manager, embedded \in BOOLEAN, i \in Investors :
          /\ view = [manager |-> manager, embedded |-> embedded,
                     scope |-> IF manager /\ embedded THEN i ELSE Null,
                     period |-> AnyPeriod, busy |-> Null, files |-> {},
                     hooks |-> [h \in Hooks |-> Async!Unmounted]]
          /\ calls = [left |-> MaxEvents, runs |-> {},
                      loads |-> {Async!Load(h, Loader(view, h)) : h \in Hooks}]

Next ==
    \/ \E i \in Investors : SelectInvestor(i)
    \/ ChoosePeriod \/ RetryInvestors \/ RetryDocuments
    \/ \E d \in Filtered(view), mode \in {"view", "download"} : RunDoc(d, mode)
    \/ \E r \in calls.runs : FileMade(r) \/ FileFailed(r) \/ \E part \in Parts(r.doc) : PartAnswered(r, part)
    \/ \E l \in calls.loads : LoadDelivered(l) \/ LoadFailed(l)
    \/ Elsewhere

Spec == Init /\ [][Next]_vars

\* Whoever was on the screen when a row was clicked is whose figures and whose name the file
\* has, though the list of the investor chosen before stays loaded until the next one comes and
\* the selection may change again while the file is made (DocumentsPage.tsx: scopedData, runDoc).
FileIsOfItsRow == \A f \in view.files : f.of = f.asked /\ f.name = f.asked
=============================================================================
