# Tazrim: formal models of the investment tracker

Tazrim (תזרים) keeps, for a fund manager and the investors of the fund, the
investors' available balances, their investment plans, the agreements and
contracts that open, change and close the plans, and the monthly payments. The
backend (`src/backend/app`) is a FastAPI program over one relational database:
PostgreSQL in production, SQLite for local installations. Every request runs in
a thread with a database session of its own, possibly in several processes, so
the correctness of the server is that of transactions that interleave. The
frontend (`src/frontend/src`) is a React program whose pages hold answers of the
server while later ones are on their way, so its correctness is that of answers
that overtake each other, are lost, or come after the question has changed. This
directory models both in TLA+, checks the models with TLC and proves the central
properties with TLAPS.

Paths without a prefix are relative to `src/backend/app`; those that end in
`.tsx`, and those under `hooks/`, `context/`, `pages/`, `components/`, `utils/`
and `services/*.ts`, are relative to `src/frontend/src`.

## 1. Inventory

### The server

| Component | State it keeps | Operations | What is hard about it | What makes it correct |
|---|---|---|---|---|
| Wallet and ledger (`services/wallet_service.py`) | `available_balance_cents` of each investor, `WalletEntry` rows, `WalletTransfer` receipts | `deposit`, `withdraw`, `transfer`, `fund_from_balance`, `close_plan`, deletion of an investor; each with an operation key and a replay lookup | two locks of a transfer, SQLite where `FOR UPDATE` is void, clients that resend, handlers that die | balance = ledger; a key moves money once; a transfer is whole; no money disappears with an investor; no deadlock; every request answered |
| Agreements and amendments (`services/agreement_service.py`, `agreement_amendment_service.py`, `api/v1/agreements.py`) | `PlanAgreement` (kind, status, snapshot and its hash, link, attempts, expiry), plans, payment dates | offer, closing offer, date amendment, replacement, new link, cancel, sign by link, sign logged in | read, decide, write with other managers and devices in between; link replaced while it is used; money or payments that move after the investor saw the document | one pending offer; executed iff signed, once; executed as shown; one current plan; lock order |
| Plan requests and contracts (`services/investment_service.py` 3009-3344, `api/v1/investments.py` 809-1068) | `InvestmentTopupRequest` (status, terms, two signatures, plan, cooling-off window) | create, cancel, reject, offer, sign (two parties), execute, reverse | the row is read without a lock and written column by column | terms fixed after a signature; signatures not lost; one current plan; a plan has its signed contract |
| Payment confirmations (`services/investment_service.py` 2308-2517, `api/v1/investments.py` 1387-1520) | `Payment` (status, time of the request, amounts) | request, confirm, reject, edit, yearly batch, nudges | a request enters the push outbox in the same transaction; a pending amendment stops it | the investor hears of each outstanding request; nothing written during an amendment |
| Push outbox (`services/push_service.py`, `models/push.py`, `main.py`) | `PushSubscription`, `PushNotice`, `PushDelivery` with claim token, attempts, status | subscribe with catch-up, unsubscribe, enqueue, claim, revalidate, send, settle; reminders | leases that lapse under a live worker, crashes, lost answers, devices that come and go | bounded sends, one live push per request and device, no outcome overwritten, every delivery ends |
| Overdue confirmations (`services/israel_business_days.py`, `investment_service.py` 2520-2640, `PaymentNudgeDialog.tsx`) | one activity event per payment and day | scan at each read and at startup | stamps in UTC against the day in Israel; scans of several browsers | one event a day; nothing asked for after its confirmation |
| Payment schedule, savings, reconciliation (`investment_service.py`, `payment_schedule_reconciliation.py`) | payment rows of a plan, savings actions | generate, sync amounts, reconcile with a digest, accrual, redemption | date and rate arithmetic, partial rebuilds, batches over many investors | paid rows untouched; all-or-nothing batches |
| Accounts and access (`services/auth_service.py`, `api/v1/auth.py`) | `User`, roles, `PasswordResetRequest`; startup clean-up of duplicates | login, roles, resets, `dedupe_investors_and_users` | check-then-write without locks | a manager remains; a reset is used once; the clean-up removes only what is empty |
| Quotes (`api/v1/investments.py`) | quote and its status | approve, reject, convert | no row lock on conversion | converted at most once |
| Assistant (`services/assistant_*.py`) | signed proposals with a snapshot hash | propose, execute | the payment changed since the proposal | executes only what was shown, once |
| Activity feed (`services/activity_service.py`) | numbered events | append, list with a filter | ids given by an index, read by polls | see the bell below |
| Mail, tutorials, schema and configuration, legacy lottery statistics, architecture canvases | append-only rows, files, DDL, draws, drawings | | not concurrent, or no behaviour | |

### The browser

| Component | State it keeps | Operations | What is hard about it | What makes it correct |
|---|---|---|---|---|
| Session of the tab (`context/AuthContext.tsx`, `services/api.ts`, `RequireAuth.tsx`) | token in `localStorage`, account in React, version number | start, sign-in, refresh, password change, expiry (401), sign-out with cleanup | answers of a session that ended; a cleanup awaited before the token goes | the account shown is the one whose token the requests send |
| Push on this device (`context/PushNotificationsContext.tsx`, `services/pushNotifications.ts`, `public/push-sw.js`) | browser subscription, marker and owner hint in IndexedDB, server registration | check on mount and focus, activation, detach, show a push | checks that overlap an account change; the queue of writes to the marker; timeouts | silent after sign-out; "active" on the screen means the service worker shows pushes of this account |
| Data of a page (`hooks/useAsync.ts`) | last answer, loading, error | load, reload, change of key | late answers; old rows kept on screen | the last question's answer wins |
| Payments page, home page, balance panel, investor file, contracts, quotes, accounts, documents (`pages/*.tsx`, `components/*.tsx`) | selection, answers, dialogs, the operation under way | see the modules | rows acted on after they changed; dialogs whose subject changes under them; retries after a lost answer | what is shown belongs to what is selected; what is reviewed is what is done; once |
| Bell, assistant, nudge dialog (`NotificationCenter.tsx`, `PersonalAssistant.tsx`, `PaymentNudgeDialog.tsx`) | what has been seen, the conversation, what was dismissed | poll, announce, ask, confirm | overlapping polls, reloads, lost confirmations | announced once; one request per proposal |

How they interact. All writers of money, plans and payments meet at the lock of
the investor's row (`lock_investor`; `begin_wallet_write` reserves the only
writer of SQLite). An agreement or a contract opens a plan through the wallet
and closes it through the wallet. A pending date amendment stops the payment
handlers. Payments, agreements and contracts put notices into the outbox inside
their own transactions; the delivery loop of `main.py` drains them afterwards
and checks each against the data of that moment. In the browser every request
carries the token of `localStorage`; a 401 of any page ends the session; leaving
an account awaits the device's cleanup; a push of the outbox reaches the service
worker, which compares it with the marker the page wrote. Pages share nothing
with each other but the session and the server.

## 2. Modules

| Module | Models |
|---|---|
| `WalletOps` | requests, keys, refusals and admissible amounts of the wallet: the pure part shared by promise and implementation |
| `WalletPromise` | the abstract wallet: every request takes effect at one instant, no key twice, only what is empty disappears |
| `Wallet` | the transactions: stages `precheck`, `lock`, `check`, `commit` of each handler; row locks or the SQLite writer; compare-and-set of the balance; crash at every stage; resent requests; the startup clean-up |
| `Agreement` | agreements: `Submit`, `Acquire`, `Decide` and one writing action per operation; what the wallet, payments and the calendar do around them |
| `Topup` | requests and contracts: `Load` without a lock, decide, write columns; `Acquire`, `Check`, `Execute` of the completing signature |
| `Outbox` | payment requests, registrations as two-step transactions, deliveries, workers with claim, check, send, settle |
| `BrowserSession` | the session of one tab: each operation as its stretches between two awaits |
| `PushDevice` | the device: checks, activation, the queue of writes to the marker, what the service worker shows; `EXTENDS BrowserSession` and takes its cleanup apart |
| `AsyncData` | the hook `useAsync`: which answers count |
| `PaymentsBoard` | the payments page: selection, its four loads, rows and buttons, against the other party and amendments |
| `PlanPanels` | the panels of the payments page that choose one track of each investor |
| `Dashboard` | the home page with the urgent list and the administrator's queue read investor by investor |
| `MoneyDesk` | deposit, withdrawal and transfer with review, key and retry over a network that loses and delays |
| `InvestorDesk` | the investor file and the four dialogs that prepare an agreement |
| `ContractDesk` | requests and contracts on the screen: board, form, offer, contract with signature |
| `QuoteDesk` | offers to new investors and the loop that fills in missing access details, over a server whose handlers read and check (`Read`) and later write what differs (`Commit`), without a lock |
| `AccountsDesk` | the managers' page of accounts and requests for a new password |
| `AssistantDesk` | the conversation and the proposal it may confirm |
| `ActivityBell` | polls, toasts, filters and marks of the bell |
| `DocumentVault` | choice of investor and period, and the files built from one or two answers |
| `PaymentNudges` | the reminder dialog, the business days of Israel and the scan on the server |
| `Frontend` | the browser: the device, and one of the pages on the screen beside it |
| `MCWallet`, `MCAgreement`, `MCTopup`, `MCOutbox`, `MCFrontend` | instances for TLC: sets of model values, the requests that occur, symmetry |
| `WalletProofs`, `WalletHistory`, `TopupProofs`, `AgreementProofs`, `OutboxProofs`, `SessionProofs`, `DeskProofs`, `PageProofs` | the proofs (section 5) |

On the server, state corresponds to tables: `balance`, `ledger`, `receipts`,
`plan`, `agreement`, `request`, `payment`, `notices`, `deliv`, `reg` are rows
that have been committed. What a handler has read and not yet used is in its own
record (`seen`, `gain`, `job`, `enrol`, `worker`), so that an action that uses it
later uses the stale value, as the code does. An action is what happens between
two points at which another transaction can be observed: a lock wait, an
unlocked read, a commit.

In the browser, an action is one synchronous stretch of JavaScript, from one
await to the next. `view` holds the state of React and its refs, `calls` the
requests whose answers are still to come, each with what its closure captured,
and `server` the rows that matter to the page; what the server's modules
describe in steps is there one step that accepts or refuses. `QuoteDesk` has no
module of the server beside it and takes its unlocked handlers apart itself. A
comparison the code makes after an await (`alive`, `current()`, `valid(request)`,
`isCurrent(version)`, `generation`) is a flag of the call, cleared wherever the
code changes the number it compares with. `PROJECT.json` maps each definition to
its lines.

**Locks.** With `RowLocks = TRUE` (PostgreSQL) a row lock is held from
`SELECT ... FOR UPDATE` to the end of the transaction. With `RowLocks = FALSE`
(SQLite) `FOR UPDATE` does nothing and `BEGIN IMMEDIATE`, where the code issues
it, excludes all other writers; a handler that does not issue it
(`deposit`, `withdraw`, `cancel`, `new_link`) reads unprotected.

**Composition.** `Wallet` is shown to implement `WalletPromise` (`KeepsPromise`,
an INSTANCE with a refinement mapping, as a property of `wallet_pg`).
`PushDevice` composes the device with the session and refines it: its
specification implies that of the session alone (`DeviceKeepsSession`). The
pages are composed in `Frontend`, one on the screen at a time.

## 3. Runs

| Run | Question | Result |
|---|---|---|
| `wallet_pg` | Do deposits, withdrawals, opposite transfers, openings, closings and a deletion under row locks implement `WalletPromise` (`KeepsPromise`)? Also `TypeOK` (balances in range), `TransferIsWhole`, `PrincipalAccounted`, `AnswerIsRecorded` | holds |
| `wallet_sqlite` | Are ledger, keys, plans and deletions consistent (`LedgerExplainsBalance`, `KeyAppliedOnce`, `OneCurrentPlan`, `DeletedIsEmpty`) when deposit and withdraw hold no lock? | holds: the compare-and-set and the unique keys carry it |
| `wallet_live` | Is every request answered (`EveryRequestAnswered`)? A deadlock of transfers would show here too | holds under the fairness of section 4 |
| `wallet_startup` | Does the startup clean-up only delete empty investors (`DeletedIsEmpty`)? | **refuted**: an investor with money and no plan is deleted when another has the same name |
| `agreement_pg` | `OnePending`, `ExecutedIffSigned`, `SignedAsShown`, `ReplacedLinkIsDead`, and no payment written during an amendment (`ScheduleWaits`) | holds |
| `agreement_sqlite` | Does a signed agreement stay signed on SQLite (`SignedStays`)? | **refuted**: `cancel` overwrites a signature that commits in between |
| `agreement_deadlock` | Is the documented lock order (investor before agreement) kept (`NoCrossedWaits`)? | **refuted**: `new_link` takes them in the other order and meets a signature |
| `topup_races` | What survives the unlocked reads of the contract handlers: `OneCurrentPlan`, plan and signed request together (`PlanHasItsRequest`), no plan beside available money (`OpensOnEmptyBalance`), no signature erased (`SignaturesStay`) | holds |
| `topup_terms` | Are the terms fixed once signing has begun (`TermsFrozen`)? | **refuted**: an offer loaded before a signature commits after it |
| `outbox_pg` | `SendsBounded`, `OneLivePush` per request and device, outcomes not overwritten (`SettledStays`), every delivery ends (`DeliveryEnds`) | holds |
| `outbox_enrol` | Does a device that is registered while a request is outstanding get it (`OutstandingReachesDevice`)? | **refuted** on PostgreSQL: the two transactions do not see each other |
| `frontend` | The browser: the seventeen properties below | holds |

Two more statements of `Topup` are false and have no run of their own; naming
them in `MCTopup_terms.cfg` instead of `TermsFrozen` shows them:
`ExecutedStays` (a cancellation loaded earlier overwrites an executed contract)
and `BothSignedExecuted` (two first signatures at the same instant: neither
handler sees the other's and the contract is never executed).

The counterexamples in short:

* `wallet_startup`: two investors share a name, neither has a plan; money is
  transferred to the one the clean-up does not keep; the server restarts and
  `dedupe_investors_and_users` deletes that investor, balance and all.
* `agreement_sqlite`: cancel reads `pending`; the signature reserves the writer,
  executes and commits; cancel writes `cancelled`.
* `agreement_deadlock`: `new_link` holds the agreement and its notice needs the
  investor; the signature holds the investor and needs the agreement.
* `topup_terms`: a second offer loads the row; a signature commits on the first
  terms; the offer commits the second terms below that signature.
* `outbox_enrol`: a request reads the devices, a device reads the requests,
  both commit.

### What `frontend` shows

| Property | Of | Says |
|---|---|---|
| `ShownAccountHoldsToken` | `BrowserSession` | the account on the screen is the one whose token the requests send, and nobody is signed in while the latest sign-in waits for its answer |
| `SilentAfterSignOut` | `PushDevice` | after a sign-out no late check marks the device again |
| `VerifiedIsMarked` | `PushDevice` | while the screen says that pushes of this account arrive, the marker names it, now or after the queued writes |
| `BoardShowsSelection`, `BoardReadsItsWrites` | `PaymentsBoard` | each settled answer is that of the selection, no row of another is shown, and the page comes to show what its own buttons did |
| `PanelsAgree` | `PlanPanels` | the panels agree on the tracks, the totals and the reports they lead to |
| `QueueMatchesScope`, `UrgentRowIsOldest` | `Dashboard` | the queue is complete for the scope on the screen or says who is unread; an urgent row is the oldest payment of its group |
| `OneMovePerReview` | `MoneyDesk` | one intent moves money once, over the balance its review showed |
| `PreparedAsReviewed` | `InvestorDesk` | an agreement is made of the document that was ticked |
| `LastOpenedIsShown` | `ContractDesk` | a late answer does not replace the contract opened last |
| `AccessShownOpens` | `QuoteDesk` | the details offered to a new investor open the account, unless a request crossed the conversion on the server |
| `NothingClosedIsOffered` | `AccountsDesk` | a request the page answered, or an account it deleted, is not offered again |
| `OneRequestPerProposal` | `AssistantDesk` | one proposal asks the investor once |
| `AnnouncedOnce` | `ActivityBell` | no event is announced twice, or as news when it is old |
| `FileIsOfItsRow` | `DocumentVault` | a file has the figures and the name of whoever was on the screen at the click |
| `NudgedOnceADay` | `PaymentNudges` | scans one after the other log a payment once a day; the dialog does not ask for what was confirmed |

### Bounds and why they are enough

* Wallet: two investors, two handlers, balances up to 2, three plans, two keys,
  and a list of requests in which each key is shared by different operations and
  transfers go both ways. Two handlers and two locks are what a crossed wait or
  a lost update needs; amounts matter only as enough, not enough, equal.
  `wallet_live` uses the transfers in both directions, which need two locks, with
  a deposit, a withdrawal, a deletion and the startup clean-up beside them.
* Agreement: one investor (agreements of two never share a row), three
  agreements: an opening, its closing or amendment, and one that competes. Two
  handlers, one event around them; one wrong password suffices to reach the
  limit, which is a parameter. `View` of `MCAgreement` takes two states for one
  when they differ only in what no handler reads again: the document of an
  agreement that is over and the payments of a plan that is.
* Topup: two requests and two plans of one investor, two handlers; one set of
  terms where only the order of steps matters, two for `TermsFrozen`.
* Outbox: two workers, one device, one request, `MaxAttempts` 2 so that a first
  failure is retried and a second is final; one fault, a crash or a lease that
  ends under a live worker. In this instance a device that left does not return
  and a second revision does not arise; both are parameters (`MaxIds`,
  `MaxRevisions`), and the proofs hold for every value of them.
* Browser: two accounts, two operations of the session under way, two device
  checks, two endpoints: one step of each may meet one step of the other. Each
  page has a portfolio of two investors (or one offer, two requests, accounts) and
  two to three rows that differ in what the page tells apart, two to four loads
  or calls under way, and two to six events: clicks, changes of the other party,
  lost calls. A late answer needs two calls and a change between them. The offers
  are one, since its rows and accounts do not touch another's except by the user
  name, and their two events are a conversion and one form, document, change of
  status or loss; the filling loop, the dialogs and the reloads after an answer
  cost no event. A sign-in that supersedes another needs two operations. One page
  moves in a behaviour, since pages share nothing but the server, and each page's
  model has the other actors' changes of the server in it. `MCFrontend` checks no
  deadlock: a behaviour ends when its events are spent.

The bounds are constants and appear in the guards they limit. For what is proved
(section 5) they do not matter.

## 4. Fairness

* `Wallet!FairSpec`: a handler that runs goes on (weak fairness of its steps),
  and strong fairness of `Acquire`: PostgreSQL grants a row lock to waiters in
  the order of a queue. Nothing is assumed of SQLite, whose busy wait promises
  no order, so liveness is stated for `RowLocks = TRUE` only.
* `Outbox!FairSpec`: weak fairness of each worker. `_push_delivery_loop`
  never returns, catches every exception and comes back after five seconds;
  retry times and leases end. Faults are finitely many. Nothing is assumed of
  clients, managers, registrations or the provider's answers.
* The browser: none. A user may close the tab and an answer may never come, so
  only safety is stated; "comes to show" in the table above means: once what is
  under way has been answered.

## 5. Proofs

Every theorem is about the specification of the module for every value of its
constants, under the assumptions the modules name: ids are positive integers,
requests are well typed and a transfer has two parties, bounds are natural
numbers, "nobody" is not a handler, and so on. `PROJECT.json` lists the theorems
with the property of a run each one states.

**`WalletProofs`** (both databases): `TypeCorrect`, `OneCurrentPlanAlways`,
`LedgerAlwaysExplains`. `OneCurrentPlan` is not inductive: that an opening may
write depends on what it checked earlier and on nobody having written since.
The invariant `IInv` adds what carries this across steps: `Busy` (a handler that
is not idle has a request), `LocksHeld` (from its check on it holds every lock of
its request), `Decided` (what it decided is still permitted by the plans, and its
amounts are admissible for the balances it read), `DeletionCurrent` (for a
deletion also the balance it read is current). `Exclusion` is the lemma behind
all of it: while one handler commits under a lock, no other with a lock on the
same investors is past its check. The ledger theorem needs no locks for deposits
and withdrawals: the compare-and-set makes the balance read the balance replaced.

**`WalletHistory`** (both databases): `KeyAppliedOnceAlways`,
`AnswerAlwaysRecorded`, `TransferAlwaysWhole`, `PrincipalAlwaysAccounted`. The
ledger is treated as a set of rows that a commit extends by a few; the invariant
`History` says that no two rows have one key, that a receipt and its two rows come
together (`ReceiptRows`), that the rows of a plan are those its status tells of
(`PlanRows`), and that every successful answer has its row. On the same invariants
rest the refinement, `WalletKeepsPromise`, and `DeletedAlwaysEmpty`, both under
`NamesDiffer` (no two investors share a name, `Namesakes = {}`). Every commit is
one operation of the abstract wallet on the values of its instant, and every other
step is a stutter. Without the assumption both are false, and `wallet_startup`
shows why: `dedupe_investors_and_users` deletes investors without reading their
balances.

**`TopupProofs`**: `OneCurrentPlanAlways`, `PlanAlwaysHasItsRequest`,
`AlwaysOpensOnEmptyBalance`, `SignaturesAlwaysStay`. Handlers decide on rows that
may be stale, so the invariant says what a stale row still proves: `JobsStand` (the
request a handler has loaded stays given out, to the same investor; the copy of an
offer bears no signature; a signature that completes a contract has the other one in
the database), `Guarded` (from its check to its commit an execution holds the
investor's lock, and the investor stays without a plan and without available
balance), `PlanOfRequest` (a plan belongs to the investor of its request).

**`AgreementProofs`** (PostgreSQL, `RowLocks`): `OnePendingAlways`,
`ExecutedAlwaysIffSigned`, `SignedAlwaysStays`, `AlwaysSignedAsShown`,
`ReplacedLinkAlwaysDead`, `ScheduleAlwaysWaits`. The invariant: rows stand
(`RowsStand`: a closing or an amendment is about a plan of its investor), jobs
stand (`JobsStand`), and a writer is ready (`WritersReady`): it holds all the
locks its operation asks for, and what it decided under them is still so, because
whatever could change it needs one of those locks. On SQLite `SignedStays` is
false (`agreement_sqlite`).

**`OutboxProofs`**: `SettledAlwaysStays` for both databases, and for PostgreSQL
(`RowLocks`) `SendsAlwaysBounded` and `OneLivePushAlways`. The first needs only that
a claim is on a row that is being sent (`ClaimsStand`) and that outcomes are
recorded by whoever holds the claim. The others rest on ids that are not used again:
a registration has an id of its own (`RegistryStands`), a delivery is of a registered
device and a notice for one device alone comes after the request's own has expired
(`RowsStand`), and a worker that comes back late never meets another row under the
key it works on (`WorkersStand`). `Counted` then counts for each row the sends made,
the workers about to send, and the one a claim may still lead to: never more than the
attempts. On SQLite `WorkersStand` has no such ground, since it may use an id again.

**`SessionProofs`**: `ShownAccountAlwaysHoldsToken` and `TransitionAlwaysOwned`
of the session alone, with any number of sign-ins that overlap (the form's busy
flag does not survive a visit to the page of the forgotten password, so the code
may be in `login()` twice; the version number decides). `OneTransition` says that
the later of two has the only operation that may still write account and token,
and `SignInIsClean` that while it asks both are empty; from both together, that no
late answer fills them. Then `DeviceKeepsSession`: the session composed with the
device, whose sign-out takes several steps, implements the specification of the
session, so that the theorems about it hold of the composition. And of the device:
`DeviceSilentAfterSignOut` and `DeviceVerifiedIsMarked`, for any number of checks and
writes under way. A check reads the account, the marker, the server and the browser
one after the other, and the queue of writes is served behind its back, so
`DeviceInv` says what every place a check can be at still proves: at most one check is
valid and it is of the account on the screen (`OneValid`, `ValidIsMine`); the write it
waits for is the last of the queue (`WrittenLast`, `Awaited`); past the reading of the
device it has seen no marker of another account (`RunsFit`); while an endpoint is
verified, every marker there is or will be is that account's (`VerifiedIsMine`);
and a sign-out in its cleanup has no valid check left, and nothing marks the device
behind the write that withdraws the marker (`LeavesQuiet`). `OneTransition` of the
session is needed too: two sign-outs at a time would end each other's cleanup.

The pages are proved in `Frontend`, beside the device, each with an invariant of its
own; those of one module are conjoined (`DesksInv`, `PagesInv`), and a step of the
device leaves them alone. The properties are about answers that come late, so each
invariant says of every load and request that is under way what its answer may still
be used for.

**`DeskProofs`**

* `BoardIsOfItsFilter`, `BoardIsCurrent` (payments): an answer that may still count is
  of the filters on the screen, and while no request is under way it is what the
  server would say now; a hook that is settled has such an answer (`BoardLoadOK`,
  `BoardHookOK`).
* `ReviewMovesOnce` (balance): all that was ever sent for one review, its movement,
  its request and the requests lost or late, has one key, and one key is of one
  review and one body (`TokensOK` of `Told`). That a transfer meets the balance its
  dialog showed is carried by the expected balance in the body.
* `AccessOpensItsAccount` (offers): a row that says "converted" has the access of
  the account, in the list and in every answer under way, and was not changed since
  (`RowsKept`). A handler past its checks holds a row that passed them
  (`QuoteCallOK`); when it commits over that very row, or when neither it nor the row
  is of a conversion, what it writes leaves a converted offer alone (`QuoteMerged`).
  The other commits are those that cross the conversion; the theorem excepts their
  offers (`server.crossed`), since the code does not prevent them (section 6).
* `ClosedStaysClosed` (accounts): what was closed here is no longer on the server, and
  every load that is alive was read after it (`ClosedOK`, `LoadFree`).

**`PageProofs`**

* `LateAnswerOpensNothing` (contracts, an action property): a call that may still open
  a contract is of the one wanted last.
* `ProposalAsksOnce` (assistant): a proposal carries the number of changes its
  investor had when it was made, and every request changes that number (`SentOnce`).
* `SavedFileIsOfItsRow` (documents): an answer that counts has rows of its own
  investor, and a file being made keeps the rows it was begun with (`RunOK`).
* `BellAnnouncesOnce` (bell): what was announced is not above the mark of its kind,
  and the marks only rise. The newest event of an answer is the greatest element of a
  finite set of numbers; the lemma takes it from the well-foundedness of the numbers.
* `NudgeIsDaily` (overdue confirmations): the log has no two events of one day of
  which the later scan saw the earlier, a scan under way has read no more than the
  log (`NudgeScansOK`), and a load that is alive asks for nothing that was
  confirmed in the dialog (`ReadOK`).
* `QueueIsOfItsScope` (home page): the queue's loader goes investor by investor, and
  what it has found is what the investors it has read have open, if nothing changed on
  the server since it began (`ReadSoFar`).
* `UrgentIsOldest` (home page): the loop that merges payments into rows is a recursive
  function over the positions of the list. That one exists, and that what holds of its
  first value and goes on from each to the next holds of the last, are lemmas
  (`RecursionExists`, `StepByStep`) taken from the well-foundedness of the numbers; the
  fact that goes on is `RowOf`: after k payments the row is that of the first to handle
  among those merged, with the sum of them. It needs the payments in the order of their
  months: the server's order is the rank of each in a finite strict order
  (`RanksAreTaken`), and the two lists are joined in January only, when this year's has
  nothing overdue (`BothInOrder`).
* `PanelsAlwaysAgree` (panels of the payments page): the loops that choose a track of
  each investor and that add up are recursions of the same kind. The track kept is the
  best of those before it in a strict order (`KeepsTheBest`, `BetterIsAnOrder`), and
  sums of disjoint sets of tracks add up (`PanelSumsAdd`), so that taking away a card
  takes away what its tracks hold.
* `PreparedIsReviewed` (investor file, an action property): a tick is for the document
  on the screen and nothing that could replace it is on its way; the document of a
  dialog with a date is of that date; a request carries the hash of what was
  ticked (`DialogOK`, `FileRequestOK`).

Their assumptions are in `PushDevice` and `Frontend`: endpoints and money are numbers,
a server's settings are two flags, payments have a status, there are finitely many and
their months and cash are numbers, plans are of investors, a signed document belongs
to its investor and a report to nobody, the numbers of password requests do not exceed
their counter, and the values that stand for "none" are not values of anything else.

Only model-checked: liveness (`EveryRequestAnswered`, `DeliveryEnds`), since fairness
and ENABLED are outside the prover's reach. Every invariant and every action property of
a passing run is also a theorem.

## 6. Not modelled, and the plan

Not modelled, with the reason (each is a component of `PROJECT.json`, with status):

* texts of documents, mails and notices, PDF and page layout, styles: data without
  control; read-only previews and the cards of figures of the home page, which
  show one answer;
* the generation of a payment schedule, accrual and redemption: sums of decimals
  over dates in one transaction, covered by unit tests; `reconcile` is run by hand
  under a digest of what was seen;
* the legacy lottery statistics, tutorials, mail, the schema migration: sequential
  batches, files and one-way DDL;
* personal area, settings and the sign-in page: one form each over calls that the
  server's modules describe;
* a second tab of the same browser: the two tabs share `localStorage` and
  IndexedDB but not React's state, and the code has no channel between them;
* the architecture canvases (`src/canvases`, about 5,200 of the 22,600 lines in
  TypeScript): documentation written as components.

Hazards that no property covers, because the code does exhibit them and a run of
the kind above already shows their like: a cancellation that overwrites an
executed contract (`investment_service.py:3085`; `ExecutedStays` above), a PATCH
that writes `awaiting_confirmation` without a request (`api/v1/investments.py:1432`),
two managers who demote each other (`api/v1/auth.py:370`).

And one that a property covers in part. `update_quote` tests that an offer may be
edited on a row it read without a lock (`api/v1/investments.py:1613-1616`) and
commits at 1641; `convert_quote` is as unlocked from 1704 to 1767. A form or the
filling loop whose request reads "approved", while a conversion commits before it
writes, puts its own user name and password into the converted offer: the page then
offers the new investor details that do not open the account. A conversion that
keeps the access it read, over an access saved meanwhile, ends the same way. Naming
`AccessShownOpens` without `\ server.crossed` shows it in a few steps. Requests that
reach the server one after the other cannot do it, which is what the property says.

### Observed while modelling

These are the places where the models had to say less than one would like, or
where the page can show something odd for a moment. None has a run of its own.

* `TopupRequestsPanel.tsx`: the signature block keeps tick and drawing when a late
  answer puts another version of the contract under it. `LastOpenedIsShown` is
  about openings, not about the signature block.
* `InvestorsPage.tsx:736`: the share button of an agreement just issued uses the
  telephone of the investor selected at that moment.
* `PaymentNudges`: two scans side by side, or one across midnight, may log two
  events of one day, although the docstring of
  `record_overdue_payment_nudge_events` says "at most once per Israel calendar
  day"; `NudgedOnceADay` is stated of scans one after the other. A dismissal is
  kept per tab, not per account.
* `PaymentsPage.tsx`: in everyone's view of an earlier year the running track of
  an investor may be outranked by one already closed (330-355); a year's PDF pairs
  the payments of the new selection with a report that still loads (691-706); a
  payment due in December and confirmed in January is missing from the vault's
  yearly PDF (`DocumentsPage.tsx:142-145`).
* `UsersPage.tsx`: a reload begun before a save puts the old row back until the
  next one; a role that was not touched is sent again with a save, so a manager
  with an old card undoes another's change.
* `QuotesPage.tsx:113-141`: the filling loop works on the list of its start and may
  replace an access stored meanwhile, before the conversion; after it the server
  refuses, but for the requests that cross the conversion (above).
* `NotificationCenter.tsx:135-146`: a late answer of an earlier filter overwrites
  the list.
* `SettingsPage.tsx` and `PersonalAreaPage.tsx`: a save sends fields of the last
  load again, and the refresh after a save overwrites what was typed meanwhile.
* `AuthContext.tsx`: a `refresh()` that fails by the network ends the session
  without the device's cleanup; the marker stays with the account until the next
  check.
* Server: client operation keys share the unique column with internal ones
  (`wallet_service.py:54`); the figures of a closing are compared before the
  calendar may complete one more payment (`agreement_service.py:236`); a reversal
  runs without the investor's lock (`investment_service.py:3329`).

### What is left, in the order in which it matters

1. Reminders in the outbox: the manual and the automatic reminder and the catch-up
   under the document mutex; several accounts; SQLite's reuse of ids.
2. Payment schedule: `sync_payment_amounts` and the yearly batch over several
   investors beside an awaited amount; the all-or-nothing reconciliation.
3. Two tabs of one browser over one `localStorage` and one marker.
4. The quotes' handlers beside the other writers of accounts (`api/v1/auth.py`), of
   which `QuoteDesk` has only the unique user name.

Running a model: `tlc -config MCWallet_pg.cfg MCWallet` (likewise the others);
checking the proofs: `tlapm WalletProofs.tla` (likewise the other proof modules).
