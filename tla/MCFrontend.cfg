\* The browser: session, device and pages.
SPECIFICATION MCSpec
CONSTANTS
  Null = Null
  Users = {a, b}
  Guest = Guest
  OpIds = {o1, o2}
  Free = Free
  Checks = {c1, c2}
  MaxEndpoint = 2
  MaxEvents = 2
  Configs <- MCConfigs
  Investors <- MCInvestors
  Dues <- MCDues
  Owner <- MCOwner
  Started <- MCStarted
  Events <- MCEvents
  Loads <- MCLoads
  Calls <- MCCalls
  YearsShown <- MCYears
  ThisYear = 1
  ThisMonth <- MCToday
  Workers = 3
  Source = 1
  Recipients = {2}
  Opening <- MCOpening
  Amounts = {1, 2}
  PlanOwner <- MCPlanOwner
  MaxAgreement = 2
  Requests = {o1, o2}
  Signers = {a, b}
  Quotes = {q1}
  Accesses = {a, b}
  Me = 1
  Accounts = {1, 2, 3}
  MaxLog = 3
  Catalogue <- MCCatalogue
  Portfolios <- MCPortfolios
  TheManager = 0
  MaxNow = 15
  MaxScans = 3
SYMMETRY Symmetry
INVARIANTS
  ShownAccountHoldsToken
  SilentAfterSignOut
  VerifiedIsMarked
  BoardShowsSelection
  BoardReadsItsWrites
  QueueMatchesScope
  UrgentRowIsOldest
  OneMovePerReview
  AccessShownOpens
  NothingClosedIsOffered
  OneRequestPerProposal
  AnnouncedOnce
  FileIsOfItsRow
  PanelsAgree
  NudgedOnceADay
PROPERTIES
  PreparedAsReviewed
  LastOpenedIsShown
\* Each behaviour ends when its events are spent.
CHECK_DEADLOCK FALSE
