----------------------------- MODULE MCFrontend -----------------------------
(***************************************************************************)
(* Frontend for TLC: each page over a small portfolio.                     *)
(***************************************************************************)
EXTENDS Frontend, TLC

MCConfigs == {[enabled |-> TRUE, required |-> TRUE]}
Symmetry == Permutations(Users) \cup Permutations(OpIds) \cup Permutations(Checks)

MCEvents == [payments |-> 2, dashboard |-> 2, money |-> 4, investors |-> 3, contracts |-> 3, quotes |-> 2,
             accounts |-> 3, assistant |-> 6, bell |-> 2, vault |-> 4, nudges |-> 2]
MCLoads == [payments |-> 4, dashboard |-> 6, money |-> 4, investors |-> 3, accounts |-> 4, vault |-> 3]
MCCalls == [contracts |-> 2, quotes |-> 2, accounts |-> 2, assistant |-> 2, bell |-> 2]

\* Two investors.  Payments 1 and 3 of the payments page are two rows of one month, the second
\* skipped: the page shows one of them; payment 2 falls due a year later.  On the dashboard
\* month 13 is the January of today; 11 and 12 are of the year before.
MCInvestors == {1, 2}
MCDues ==
    [payments |-> [p \in 1 .. 3 |-> [investor |-> IF p = 2 THEN 2 ELSE 1, plan |-> IF p = 2 THEN 2 ELSE 1,
                                     year |-> IF p = 2 THEN 2 ELSE 1, month |-> 1]],
     dashboard |-> <<[investor |-> 1, month |-> 11, cash |-> 1], [investor |-> 1, month |-> 12, cash |-> 2],
                     [investor |-> 2, month |-> 13, cash |-> 4]>>]
MCYears == {1, 2}
MCToday == 13

MCOwner == [dashboard |-> (11 :> 1 @@ 12 :> 2), nudges |-> <<1, 2>>]
MCPlanOwner == 11 :> 1

\* Balances of the wallet and of the recipient.
MCOpening == {<<2, 1>>}

\* Each investor has an agreement, a quote or nothing, and the reports of one month and its year.
Paper(kind, source, month) == [kind |-> kind, source |-> source, year |-> 1, month |-> month]
MCCatalogue == {Paper("agreement", 1, 1), Paper("quote", 2, 1), Paper("yearly", Null, Null), Paper("monthly", Null, 1)}

\* Three plans of the first investor or of both, newest first; panels only render.
Track(k, owner, start, status, monthly) ==
    [id |-> k, investor |-> owner, date |-> start, status |-> status, monthly |-> monthly, balance |-> 2 ^ k]
MCPortfolios ==
    {[k \in 1 .. 3 |-> Track(k, IF k = other THEN 2 ELSE 1, on[k], status[k], k \in monthly)] :
        other \in 0 .. 3, status \in [1 .. 3 -> {"active", "paused", "completed"}], monthly \in SUBSET (1 .. 3),
        on \in {<<4, 3, 2>>, <<4, 3, 3>>, <<3, 2, 1>>, <<3, 2, 2>>, <<2, 2, 1>>}}

\* Account 1 is the manager at the page, 3 a name for the account that may be created.
Office(password, pending) ==
    [accounts |-> (1 :> [role |-> "manager", active |-> TRUE, password |-> "own"]
                   @@ 2 :> [role |-> "investor", active |-> TRUE, password |-> password]),
     pending |-> pending, serial |-> 1, unused |-> {3}]

Book(investors, payments, first, second) ==
    [investors |-> investors, payments |-> payments, documents |-> (11 :> first @@ 12 :> second), changed |-> 0]

\* Payment 1 was asked for on a Tuesday, 2 on the day after; it is the Saturday that follows.
MCStarted ==
    [payments |-> {<<"scheduled", "awaiting_confirmation", "skipped">>},
     dashboard |-> {Book({1, 2}, <<"awaiting_confirmation", "scheduled", "scheduled">>, "pending", "pending"),
                    Book({2}, <<"scheduled", "scheduled", "awaiting_confirmation">>, "draft", "requested")},
     accounts |-> {Office("set", {[id |-> 1, of |-> 2]}), Office("none", {})},
     vault |-> {[i \in {1, 2} |-> {Paper("yearly", Null, Null)} \cup
                                  IF i = 1 THEN {Paper("agreement", 1, 1)} ELSE {Paper("quote", 2, 1)}]},
     nudges |-> {[now |-> 12, asked |-> <<3, 5>>]}]

\* The pages leave the device alone: one state of it is enough where a page is on the screen.
MCInit ==
    /\ DeviceSystemInit
    /\ \/ NoPage
       \/ auth.token = Guest /\ browser.sub = None /\ browser.permission = "default" /\ PageInit
MCSpec == MCInit /\ [][Next]_systemVars
=============================================================================
