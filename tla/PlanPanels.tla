----------------------------- MODULE PlanPanels -----------------------------
(***************************************************************************)
(* The panels below the list of pages/PaymentsPage.tsx: the investors of   *)
(* the year, the savings that run, those that ended, and the reports.      *)
(* They are computed from the list of plans at each rendering, and each of *)
(* them chooses the tracks it shows in its own way.                        *)
(*                                                                         *)
(* Dates are numbers, two to a year.  A plan's id is its place in the      *)
(* list.  A track that is not monthly pays into savings; one that is       *)
(* paused is not over, but counts for less than an active one.             *)
(***************************************************************************)
EXTENDS Naturals, Sequences

CONSTANTS Null, Investors,
          Portfolios     \* the lists of plans as the server sends them, newest first

VARIABLE view            \* [plans, year, investor, manager, board]

Every == 0               \* no investor chosen
Tracks == {view.plans[k] : k \in 1 .. Len(view.plans)}

YearOf(p) == (p.date + 1) \div 2
InYear(p) == YearOf(p) = view.year

\* yearInvestors: who has a payment in the load of the year.
YearInvestors == view.board

(***************************************************************************)
(* One track for each investor.                                            *)
(***************************************************************************)
Active(p) == p.status = "active"
SavingsScore(p) == (IF InYear(p) THEN 4 ELSE 0) + (IF Active(p) THEN 2 ELSE 0)
ReportScore(p) == SavingsScore(p) + (IF p.monthly THEN 0 ELSE 1)

Before(p, q, Score(_)) == Score(q) > Score(p) \/ (Score(q) = Score(p) /\ q.date > p.date)

\* byInvestor: the loop over the tracks to choose among, for one investor of the map.
OneEach(among, Score(_)) ==
    LET kept(i) ==
            LET after[k \in 0 .. Len(view.plans)] ==
                    IF k = 0 THEN Null
                    ELSE IF /\ view.plans[k] \in among /\ view.plans[k].investor = i
                            /\ after[k - 1] = Null \/ Before(after[k - 1], view.plans[k], Score)
                    THEN view.plans[k] ELSE after[k - 1]
            IN after[Len(view.plans)]
    IN {kept(i) : i \in Investors} \ {Null}

(* primaryPlanForInvestor, for the row of an investor in the year's list.    *)
Latest(tracks) == CHOOSE p \in tracks : \A q \in tracks : q.date <= p.date
First(tracks) == CHOOSE p \in tracks : \A q \in tracks : p.id <= q.id
PrimaryPlan(i) ==
    LET mine == {p \in Tracks : p.investor = i}
        near == IF \E p \in mine : InYear(p) THEN {p \in mine : InYear(p)} ELSE mine
        active == {p \in near : Active(p)}
    IN IF mine = {} THEN Null ELSE IF active # {} THEN First(active) ELSE Latest(near)

(***************************************************************************)
(* The panels.                                                             *)
(***************************************************************************)
Single == view.investor # Every

\* Everyone's: those of the board, of the year, or (savings alone) that still run.
Saves == {p \in Tracks : ~p.monthly}
SavesNear == {p \in Saves : p.investor \in YearInvestors \/ InYear(p) \/ Active(p)}
SavingsInView == IF Single THEN {p \in Saves : p.investor = view.investor} ELSE OneEach(SavesNear, SavingsScore)

ActiveSavings == {p \in SavingsInView : p.status # "completed"}
ClosedSavings == {p \in SavingsInView : p.status = "completed"}

\* The loop that adds up their savings.
Sum(tracks) ==
    LET after[k \in 0 .. Len(view.plans)] ==
            IF k = 0 THEN 0
            ELSE after[k - 1] + IF view.plans[k] \in tracks THEN view.plans[k].balance ELSE 0
    IN after[Len(view.plans)]
SavingsTotal == Sum(ActiveSavings)

\* A card for each investor, with each of its tracks.
Cards == {[investor |-> i, tracks |-> {p \in ActiveSavings : p.investor = i}] : i \in {p.investor : p \in ActiveSavings}}

\* The row of an investor shows the term of one track and the savings of the first of its cards.
YearRows == {[investor |-> i, term |-> PrimaryPlan(i),
              savings |-> {p \in ActiveSavings : p.investor = i}] : i \in IF view.manager THEN YearInvestors ELSE {}}

\* Each track of the two savings panels has the button of its monthly report.
Buttons == ClosedSavings \cup UNION {card.tracks : card \in Cards}

\* The clearest track of each investor.
Near == {p \in Tracks : IF Single THEN p.investor = view.investor
                        ELSE p.investor \in YearInvestors \/ InYear(p)}
Clearest == OneEach(Near, ReportScore)

\* Mutant: only the clearest track of each investor is reported.
ClearestAlone == Clearest

StatusReports == Clearest \cup SavingsInView

\* focusStatusReport opens the report of the plan that is on the page, if it is.
ReportTargets == {p.id : p \in StatusReports}

\* Any list of plans, and any board: that of an older year stays while the new one loads.
Init ==
    \E plans \in Portfolios, year \in {1, 2}, manager \in BOOLEAN, board \in SUBSET Investors :
      \E i \in IF manager THEN Investors \cup {Every} ELSE Investors :
        view = [plans |-> plans, year |-> year, investor |-> i, manager |-> manager,
                board |-> IF manager THEN board ELSE {}]

(***************************************************************************)
(* Properties.                                                             *)
(***************************************************************************)
TheClearest(tracks, list, Score(_)) ==
    \A p \in tracks, q \in list : p.investor = q.investor => ~Before(p, q, Score)

\* The panels agree, whatever the order of the list and whichever year's board is on the page:
\* every button leads to a report that is there; the total is that of the cards, each of which
\* adds what its tracks hold, no track counted twice or left out; in everybody's view no investor
\* is shown a track while a clearer one is listed, and nobody with a track listed is left out;
\* and the year's row shows the term of a track with the year's start when there is one
\* (PaymentsPage.tsx: "Ensure every savings-table track has a status-report target").
PanelsAgree ==
    /\ {p.id : p \in Buttons} \subseteq ReportTargets
    /\ Cards = {} => SavingsTotal = 0
    /\ \A card \in Cards :
          SavingsTotal = Sum(card.tracks) + Sum(UNION {other.tracks : other \in Cards \ {card}})
    /\ ~Single => /\ TheClearest(SavingsInView, SavesNear, SavingsScore)
                  /\ \A q \in SavesNear : \E p \in SavingsInView : p.investor = q.investor
    /\ \A row \in YearRows : row.term # Null =>
           InYear(row.term) \/ ~\E p \in Tracks : p.investor = row.investor /\ InYear(p)
=============================================================================
