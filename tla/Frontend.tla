------------------------------ MODULE Frontend ------------------------------
(***************************************************************************)
(* The browser: the session and the device of PushDevice, and the pages.   *)
(* A behaviour has one of them on the screen and only that one moves: the  *)
(* pages share nothing but the server.                                     *)
(*                                                                         *)
(* Dues, Owner and Started, and the bounds Events, Loads and Calls, have a *)
(* field for each page that takes them.                                    *)
(***************************************************************************)
EXTENDS PushDevice, FiniteSets

CONSTANTS Null,
          Investors,                            \* of every page but the contracts
          Dues, Owner, Started,
          Events, Loads, Calls,
          YearsShown, ThisYear,                 \* payments
          ThisMonth, Workers,                   \* dashboard
          Source, Recipients, Opening, Amounts, \* money
          PlanOwner, MaxAgreement,              \* investors
          Requests, Signers,                    \* contracts
          Quotes, Accesses,                     \* quotes
          Me, Accounts,                         \* accounts, and the reader of the vault
          MaxLog,                               \* bell
          Catalogue,                            \* vault
          Portfolios,                           \* panels
          TheManager, MaxNow, MaxScans          \* nudges

\* Reports are of nobody; what was signed is of an investor and is listed for that one alone.
ASSUME VaultHasOwners ==
    /\ Null \notin Investors /\ Me \in Investors
    /\ \A d \in Catalogue : d.kind \notin {"yearly", "monthly"} => d.source \in Investors
    /\ \A s \in Started.vault : /\ DOMAIN s = Investors
                               /\ \A i \in Investors : \A d \in s[i] : d.kind \notin {"yearly", "monthly"} => d.source = i

\* The payments are numbered and each has a status.
ASSUME PaymentsHaveStatus ==
    /\ DOMAIN Dues.payments \subseteq Nat
    /\ Started.payments \subseteq [DOMAIN Dues.payments -> {"scheduled", "awaiting_confirmation", "paid", "skipped"}]

\* Months are counted from a January, and so is cash; no row of a list is null.
ASSUME DuesAreCounted ==
    /\ DOMAIN Dues.dashboard \subseteq Nat /\ IsFiniteSet(DOMAIN Dues.dashboard) /\ ThisMonth \in Nat \ {0}
    /\ \A p \in DOMAIN Dues.dashboard : Dues.dashboard[p].month \in Nat \ {0} /\ Dues.dashboard[p].cash \in Nat
    /\ Null \notin [id : Nat, status : {"scheduled", "awaiting_confirmation"}, due : Nat, amount : Nat]

\* The plans of a list are of investors and say when they start and what they hold.
PlanTrack == [id : Nat, investor : Investors, date : Nat, status : {"active", "paused", "completed"},
              monthly : BOOLEAN, balance : Nat]
ASSUME PlansAreListed == Portfolios \subseteq Seq(PlanTrack) /\ Null \notin PlanTrack

\* The changes of the dashboard's documents are counted.
ASSUME ChangesAreCounted == \A s \in Started.dashboard :
    DOMAIN s = {"investors", "payments", "documents", "changed"} /\ s.changed \in Nat

ASSUME NudgesStartAtATime == \A start \in Started.nudges : start.now \in Nat

\* Money is counted; no figure, and no review, is null.
Figure == Nat \cup {Null}
ASSUME MoneyIsCounted ==
    /\ Amounts \subseteq Nat /\ Opening \subseteq [Recipients \cup {Source} -> Nat]
    /\ Null \notin Nat \cup {"clash"}
    /\ Null \notin [facts : [available : Figure, source : Figure, recipient : Figure],
                    to : Recipients \cup {Null}, amount : Nat]

\* Requests for a password are numbered, and no name is both taken and free.
ASSUME AccountsAreNumbered == \A s \in Started.accounts :
    /\ DOMAIN s = {"accounts", "pending", "serial", "unused"} /\ s.serial \in Nat
    /\ \A q \in s.pending : q.id \in 0 .. s.serial
    /\ s.unused \cap DOMAIN s.accounts = {}

VARIABLES page, view, server, calls

pageVars == <<page, view, server, calls>>
systemVars == <<deviceSystemVars, pageVars>>

PaymentsPage == INSTANCE PaymentsBoard WITH
    Due <- Dues.payments, Years <- YearsShown, Started <- Started.payments,
    MaxEvents <- Events.payments, MaxLoads <- Loads.payments
DashboardPage == INSTANCE Dashboard WITH
    Due <- Dues.dashboard, Today <- ThisMonth, Owner <- Owner.dashboard, Started <- Started.dashboard,
    MaxEvents <- Events.dashboard, MaxLoads <- Loads.dashboard
MoneyPage == INSTANCE MoneyDesk WITH MaxEvents <- Events.money, MaxLoads <- Loads.money
InvestorsPage == INSTANCE InvestorDesk WITH MaxEvents <- Events.investors, MaxLoads <- Loads.investors
ContractsPage == INSTANCE ContractDesk WITH
    Investors <- Signers, MaxEvents <- Events.contracts, MaxCalls <- Calls.contracts
QuotesPage == INSTANCE QuoteDesk WITH MaxEvents <- Events.quotes, MaxCalls <- Calls.quotes
AccountsPage == INSTANCE AccountsDesk WITH
    Started <- Started.accounts, MaxEvents <- Events.accounts, MaxCalls <- Calls.accounts, MaxLoads <- Loads.accounts
AssistantPage == INSTANCE AssistantDesk WITH MaxEvents <- Events.assistant, MaxCalls <- Calls.assistant
BellPage == INSTANCE ActivityBell WITH MaxEvents <- Events.bell, MaxCalls <- Calls.bell
VaultPage == INSTANCE DocumentVault WITH
    Started <- Started.vault, MaxEvents <- Events.vault, MaxLoads <- Loads.vault
PanelsPage == INSTANCE PlanPanels
NudgesPage == INSTANCE PaymentNudges WITH
    Owner <- Owner.nudges, Manager <- TheManager, Started <- Started.nudges, MaxEvents <- Events.nudges

PageInit ==
    \/ page = "payments" /\ PaymentsPage!Init
    \/ page = "dashboard" /\ DashboardPage!Init
    \/ page = "money" /\ MoneyPage!Init
    \/ page = "investors" /\ InvestorsPage!Init
    \/ page = "contracts" /\ ContractsPage!Init
    \/ page = "quotes" /\ QuotesPage!Init
    \/ page = "accounts" /\ AccountsPage!Init
    \/ page = "assistant" /\ AssistantPage!Init
    \/ page = "bell" /\ BellPage!Init
    \/ page = "vault" /\ VaultPage!Init
    \/ page = "nudges" /\ NudgesPage!Init
    \/ page = "panels" /\ PanelsPage!Init /\ server = Null /\ calls = Null

NoPage == page = "device" /\ view = Null /\ server = Null /\ calls = Null

Init == DeviceSystemInit /\ (NoPage \/ PageInit)

PageNext ==
    \/ page = "payments" /\ PaymentsPage!Next
    \/ page = "dashboard" /\ DashboardPage!Next
    \/ page = "money" /\ MoneyPage!Next
    \/ page = "investors" /\ InvestorsPage!Next
    \/ page = "contracts" /\ ContractsPage!Next
    \/ page = "quotes" /\ QuotesPage!Next
    \/ page = "accounts" /\ AccountsPage!Next
    \/ page = "assistant" /\ AssistantPage!Next
    \/ page = "bell" /\ BellPage!Next
    \/ page = "vault" /\ VaultPage!Next
    \/ page = "nudges" /\ NudgesPage!Next

Next ==
    \/ page = "device" /\ DeviceSystemNext /\ UNCHANGED pageVars
    \/ PageNext /\ UNCHANGED <<deviceSystemVars, page>>

Spec == Init /\ [][Next]_systemVars

(***************************************************************************)
(* The properties of the pages, where they are stated and explained.       *)
(***************************************************************************)
\* PaymentsBoard: the rows on the screen are those of the chosen investor and year.
BoardShowsSelection == page = "payments" => PaymentsPage!BoardShowsSelection
\* PaymentsBoard: after an answered change the board comes to show it.
BoardReadsItsWrites == page = "payments" => PaymentsPage!BoardReadsItsWrites
\* Dashboard: the queue of agreements is that of the chosen scope.
QueueMatchesScope == page = "dashboard" => DashboardPage!QueueMatchesScope
\* Dashboard: the urgent payment offered is the oldest one due.
UrgentRowIsOldest == page = "dashboard" => DashboardPage!UrgentRowIsOldest
\* MoneyDesk: one reviewed transfer moves money once.
OneMovePerReview == page = "money" => MoneyPage!OneMovePerReview
\* InvestorDesk: an agreement says what was ticked.
PreparedAsReviewed == [][page = "investors" => InvestorsPage!PreparesWhatWasTicked]_systemVars
\* ContractDesk: a late answer puts no other contract on the screen.
LastOpenedIsShown == [][page = "contracts" => ContractsPage!ShowsTheLastOpened]_systemVars
\* QuoteDesk: the access shown for a converted offer opens its account.
AccessShownOpens == page = "quotes" => QuotesPage!AccessShownOpens
\* AccountsDesk: what the page closed is not offered again.
NothingClosedIsOffered == page = "accounts" => AccountsPage!NothingClosedIsOffered
\* AssistantDesk: one proposal asks the investor once.
OneRequestPerProposal == page = "assistant" => AssistantPage!OneRequestPerProposal
\* ActivityBell: news is announced once.
AnnouncedOnce == page = "bell" => BellPage!AnnouncedOnce
\* DocumentVault: a file is of the investor whose row was clicked.
FileIsOfItsRow == page = "vault" => VaultPage!FileIsOfItsRow
\* PlanPanels: the panels of plans agree with each other.
PanelsAgree == page = "panels" => PanelsPage!PanelsAgree
\* PaymentNudges: a payment is announced once a day, and not asked for after its confirmation.
NudgedOnceADay == page = "nudges" => NudgesPage!NudgedOnceADay
=============================================================================
