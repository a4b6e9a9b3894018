----------------------------- MODULE PushDevice -----------------------------
(***************************************************************************)
(* Push notifications on one device: PushNotificationsContext.tsx (the     *)
(* check that runs on every mount and focus, and the activation button),   *)
(* services/pushNotifications.ts (the marker kept in IndexedDB and the     *)
(* cleanup of an account transition), public/push-sw.js (what a push       *)
(* shows), composed with the session of the tab.                           *)
(*                                                                         *)
(* The marker idb.current names the account whose pushes may show detail;  *)
(* idb.owner is the hint of who enrolled the device.  Writes go through    *)
(* one queue.  A check carries valid: the answer to valid(request), which  *)
(* every increment of version.current clears.  Bounds: Checks slots, and   *)
(* the endpoints the browser can mint.                                     *)
(***************************************************************************)
EXTENDS BrowserSession

CONSTANTS MaxEvents,    \* sign-ins, sign-outs, failures and losses in one behaviour
          Checks,       \* slots of device checks and activations under way
          MaxEndpoint,  \* endpoints are 1 .. MaxEndpoint, minted in order
          Configs       \* what the server may be configured to: [enabled, required]

ASSUME EndpointsAreNumbers == MaxEndpoint \in Nat \ {0}
ASSUME ConfigsAreSettings == Configs \subseteq [enabled: BOOLEAN, required: BOOLEAN]
ASSUME ChecksAreRuns == "detach" \notin Checks /\ "nobody" \notin Checks

None == 0
Endpoints == 1 .. MaxEndpoint

VARIABLES push,     \* the mounted PushSession: what its refs and its state hold
          checks,   \* refresh() and enable() runs under way, by slot
          detach,   \* detachBrowserPush under way: where it is
          writes,   \* bindingQueue: IndexedDB operations in order
          idb,      \* [current, owner]
          browser,  \* [permission, sub, minted, oldKey]
          subs,     \* server: endpoint -> account registered for it
          config,   \* server: push settings
          left      \* sign-ins, sign-outs, failures and losses that may still happen (bounds them)

deviceVars == <<push, checks, detach, writes, idb, browser, subs, config, left>>
deviceSystemVars == <<auth, ops, cleanups, active, signedOut, push, checks, detach, writes, idb,
          browser, subs, config, left>>

Mark(u, e) == [user |-> u, endpoint |-> e]
NoMark == Mark(Guest, None)
Marks == [user: Users \cup {Guest}, endpoint: {None} \cup Endpoints]

\* A PushSession as it mounts; its key is the account, so a new account mounts a new one.
Mounted == [state |-> "checking", busy |-> FALSE, checking |-> FALSE, detaching |-> FALSE,
            verified |-> None, known |-> NoMark, restored |-> None, configured |-> FALSE,
            required |-> "unknown"]

DeviceInit ==
    /\ config \in Configs
    /\ push = Mounted
    /\ checks = [c \in Checks |-> Free]
    /\ detach = "idle"
    /\ writes = <<>>
    /\ left = MaxEvents
    \* A device that was never enrolled, or one that a user enrolled earlier.
    /\ \/ /\ browser = [permission |-> "default", sub |-> None, minted |-> 0, oldKey |-> FALSE]
          /\ subs = [e \in Endpoints |-> Guest]
          /\ idb = [current |-> NoMark, owner |-> NoMark]
       \/ \E u \in Users, old \in BOOLEAN :
            /\ browser = [permission |-> "granted", sub |-> 1, minted |-> 1, oldKey |-> old]
            /\ subs = [e \in Endpoints |-> IF e = 1 THEN u ELSE Guest]
            /\ \E marked \in {NoMark, Mark(u, 1)} : idb = [current |-> marked, owner |-> Mark(u, 1)]

DeviceSystemInit == SessionInit /\ DeviceInit

(***************************************************************************)
(* The write queue of pushNotifications.ts.                                *)
(***************************************************************************)
Put(value, waiter)      == [do |-> "put", value |-> value, waiter |-> waiter]
Forget(endpoint, waiter) == [do |-> "forget", value |-> Mark(Guest, endpoint), waiter |-> waiter]
ReadOwner(waiter)       == [do |-> "read", value |-> NoMark, waiter |-> waiter]

\* setBrowserPushBinding keeps the owner when it clears the marker; clearBrowserPushOwner
\* forgets only the endpoint it names (None: whichever).
Stored(w) ==
    CASE w.do = "put"    -> [current |-> w.value, owner |-> IF w.value = NoMark THEN idb.owner ELSE w.value]
      [] w.do = "forget" -> [idb EXCEPT !.owner =
                               IF w.value.endpoint \in {None, idb.owner.endpoint} THEN NoMark ELSE @]
      [] w.do = "read"   -> idb

WriteStep ==
    /\ writes # <<>>
    /\ LET w == Head(writes) IN
         /\ idb' = Stored(w)
         /\ writes' = Tail(writes)
         /\ detach' = IF w.waiter = "detach" THEN "written" ELSE detach
         /\ checks' = IF w.waiter \in Checks
                      THEN [checks EXCEPT ![w.waiter].phase = [at |-> @.next, next |-> @.next], ![w.waiter].owner =
                              IF w.do = "read" THEN idb.owner ELSE @]
                      ELSE checks
    /\ UNCHANGED <<sessionVars, push, browser, subs, config, left>>

(***************************************************************************)
(* A check: refresh() of a mounted session, or enable() of its button.     *)
(***************************************************************************)
CheckPhases == {"guest", "owner", "closed", "config", "device", "forgotten", "status", "reset", "drop",
                "mint", "post", "confirm", "saved", "restored", "prompt"}

\* At "writing" a run waits for the write queue, and goes on at phase.next.
Run == [kind: {"refresh", "enable"}, valid: BOOLEAN, user: Users \cup {Guest},
        phase: [at: CheckPhases \cup {"writing"}, next: CheckPhases],
        owner: Marks, endpoint: {None} \cup Endpoints, restore: BOOLEAN]

ASSUME FreeIsNoRun == Free \notin Run

At(phase) == [at |-> phase, next |-> phase]
Writing(next) == [at |-> "writing", next |-> next]
Stale == [c \in Checks |-> IF checks[c] = Free THEN Free ELSE [checks[c] EXCEPT !.valid = FALSE]]
Is(c, phase) == checks[c] # Free /\ checks[c].phase.at = phase

\* Mutant: a run goes on whatever its request number.
AnyRun(c, phase) == Is(c, phase)

\* valid(request).
Now(c, phase) == Is(c, phase) /\ checks[c].valid

Foreign(op) == op.owner # NoMark /\ op.owner.user # op.user
Goto(c, phase) == checks' = [checks EXCEPT ![c].phase = At(phase)]

\* The promise ends: checking.current and the button's busy flag are given back.
Finished(c, after) ==
    /\ push' = IF checks[c].kind = "refresh" THEN [after EXCEPT !.checking = FALSE]
               ELSE [after EXCEPT !.busy = FALSE]
    /\ checks' = [checks EXCEPT ![c] = Free]

\* invalidate(next): access is no longer proved; the marker is withdrawn.
Invalidate(c, seen, next) ==
    /\ push' = [seen EXCEPT !.verified = None, !.state = next]
    /\ checks' = [checks EXCEPT ![c].phase = Writing("closed")]
    /\ writes' = Append(writes, Put(NoMark, c))

\* A run whose request number was passed ends at its next valid() test.
Abandon(c) ==
    /\ checks[c] # Free /\ ~checks[c].valid
    /\ checks[c].phase.at \notin {"writing"}
    /\ checks' = [checks EXCEPT ![c] = Free]
    /\ UNCHANGED <<sessionVars, push, detach, writes, idb, browser, subs, config, left>>

RefreshDevice(c) ==
    /\ checks[c] = Free
    /\ ~push.busy /\ ~push.detaching /\ ~push.checking
    /\ push' = [push EXCEPT !.checking = TRUE, !.state = IF @ = "ready" THEN @ ELSE "checking"]
    /\ checks' = [Stale EXCEPT ![c] =
                    [kind |-> "refresh", valid |-> TRUE, user |-> auth.user, owner |-> NoMark,
                     phase |-> Writing(IF auth.user = Guest THEN "guest" ELSE "owner"),
                     endpoint |-> None, restore |-> FALSE]]
    /\ writes' = Append(writes, IF auth.user = Guest THEN Put(NoMark, c) ELSE ReadOwner(c))
    /\ UNCHANGED <<sessionVars, detach, idb, browser, subs, config, left>>

GuestChecked(c) ==
    /\ Now(c, "guest")
    /\ Finished(c, [push EXCEPT !.state = "ready"])
    /\ UNCHANGED <<sessionVars, detach, writes, idb, browser, subs, config, left>>

OwnerRead(c) ==
    /\ Now(c, "owner")
    /\ LET op == checks[c] IN
         /\ push' = [push EXCEPT !.known = op.owner]
         /\ IF Foreign(op)
            THEN /\ checks' = [checks EXCEPT ![c].phase = Writing("config")]
                 /\ writes' = Append(writes, Put(NoMark, c))
            ELSE /\ checks' = [checks EXCEPT ![c].phase = At("config"), ![c].restore = op.owner.user = op.user]
                 /\ UNCHANGED writes
    /\ UNCHANGED <<sessionVars, detach, idb, browser, subs, config, left>>

Closed(c) ==
    /\ Now(c, "closed")
    /\ Finished(c, push)
    /\ UNCHANGED <<sessionVars, detach, writes, idb, browser, subs, config, left>>

ConfigRead(c) ==
    /\ Now(c, "config")
    /\ LET seen == [push EXCEPT !.configured = config.enabled,
                                !.required = IF config.required THEN "yes" ELSE "no"]
       IN IF ~config.enabled THEN Invalidate(c, seen, IF config.required THEN "unavailable" ELSE "ready")
          ELSE IF browser.permission # "granted"
          THEN Invalidate(c, seen, IF browser.permission = "denied" THEN "denied" ELSE "needs_permission")
          ELSE /\ push' = seen
               /\ Goto(c, "device")
               /\ UNCHANGED writes
    /\ UNCHANGED <<sessionVars, detach, idb, browser, subs, config, left>>

\* The subscription of this browser, and what becomes of another account's.
DeviceRead(c) ==
    /\ Now(c, "device")
    /\ LET op == checks[c] IN
         IF op.kind = "refresh" /\ Foreign(op)
         THEN /\ browser' = [browser EXCEPT !.sub = IF @ = op.owner.endpoint THEN None ELSE @]
              /\ checks' = [checks EXCEPT ![c].phase = Writing("forgotten")]
              /\ writes' = Append(writes, Forget(op.owner.endpoint, c))
              /\ UNCHANGED push
         ELSE /\ IF browser.sub # None
                 THEN checks' = [checks EXCEPT ![c].phase = At("status"), ![c].endpoint = browser.sub]
                      /\ UNCHANGED <<push, writes>>
                 ELSE IF op.kind = "enable" \/ op.restore
                 THEN Goto(c, "mint") /\ UNCHANGED <<push, writes>>
                 ELSE Invalidate(c, push, "needs_permission")
              /\ UNCHANGED browser
    /\ UNCHANGED <<sessionVars, detach, idb, subs, config, left>>

OwnerForgotten(c) ==
    /\ Now(c, "forgotten")
    /\ Invalidate(c, push, "needs_permission")
    /\ UNCHANGED <<sessionVars, detach, idb, browser, subs, config, left>>

\* pushSubscriptionStatus: is the endpoint registered for the account of the request?
\* A request carries the token of the moment it was sent: its check was valid then, so
\* the token was that of the check's own account.
Registered(op) == subs[op.endpoint] = op.user
Served(c) == checks[c] # Free /\ checks[c].user \in active

StatusRead(c) ==
    /\ Now(c, "status") /\ Served(c)
    /\ LET op == checks[c]
           mine == Registered(op)
           good == mine /\ ~(browser.oldKey /\ op.endpoint = 1)
       IN IF op.kind = "enable"
          THEN /\ Goto(c, IF good THEN "post" ELSE "drop")
               /\ subs' = IF mine /\ ~good THEN [subs EXCEPT ![op.endpoint] = Guest] ELSE subs
               /\ UNCHANGED <<push, writes>>
          ELSE IF good
          THEN IF browser.permission = "granted"
               THEN /\ checks' = [checks EXCEPT ![c].phase = Writing("restored"), ![c].restore = TRUE]
                    /\ writes' = Append(writes, Put(Mark(op.user, op.endpoint), c))
                    /\ UNCHANGED <<push, subs>>
               ELSE Invalidate(c, push, "denied") /\ UNCHANGED subs
          ELSE IF ~(op.restore \/ mine)
          THEN Invalidate(c, push, "needs_permission") /\ UNCHANGED subs
          ELSE /\ push' = [push EXCEPT !.verified = None, !.state = "checking"]
               /\ checks' = [checks EXCEPT ![c].phase = Writing("reset"), ![c].restore = mine]
               /\ writes' = Append(writes, Put(NoMark, c))
               /\ UNCHANGED subs
    /\ UNCHANGED <<sessionVars, detach, idb, browser, config, left>>

\* invalidate("checking") was written; a registration with the old key is withdrawn.
Reset(c) ==
    /\ Now(c, "reset")
    /\ \E told \in {checks[c].restore, FALSE} :
          subs' = IF told /\ Registered(checks[c])
                  THEN [subs EXCEPT ![checks[c].endpoint] = Guest] ELSE subs
    /\ Goto(c, "drop")
    /\ UNCHANGED <<sessionVars, push, detach, writes, idb, browser, config, left>>

DropSubscription(c) ==
    /\ Is(c, "drop")
    /\ browser' = [browser EXCEPT !.sub = None]
    /\ Goto(c, "mint")
    /\ UNCHANGED <<sessionVars, push, detach, writes, idb, subs, config, left>>

\* subscribe() returns the subscription there is, or makes one.
CanMint == browser.permission = "granted" /\ (browser.sub # None \/ browser.minted < MaxEndpoint)

Mint(c) ==
    /\ Is(c, "mint") /\ CanMint
    /\ LET e == IF browser.sub # None THEN browser.sub ELSE browser.minted + 1 IN
         /\ browser' = [browser EXCEPT !.sub = e, !.minted = IF e > @ THEN e ELSE @]
         /\ checks' = [checks EXCEPT ![c].phase = At("post"), ![c].endpoint = e]
    /\ UNCHANGED <<sessionVars, push, detach, writes, idb, subs, config, left>>

\* pushSubscribe reaches the server: the endpoint is registered for the token's account.
\* The request may be processed after its check was abandoned.
Post(c) ==
    /\ Is(c, "post") /\ Served(c)
    /\ subs' = [subs EXCEPT ![checks[c].endpoint] = checks[c].user]
    /\ Goto(c, "confirm")
    /\ UNCHANGED <<sessionVars, push, detach, writes, idb, browser, config, left>>

Confirm(c) ==
    /\ Now(c, "confirm") /\ Served(c)
    /\ LET op == checks[c] IN
         /\ Registered(op) /\ browser.permission = "granted"    \* else CheckFails
         /\ checks' = [checks EXCEPT ![c].phase = Writing("saved")]
         /\ writes' = Append(writes, Put(Mark(op.user, op.endpoint), c))
    /\ UNCHANGED <<sessionVars, push, detach, idb, browser, subs, config, left>>

Saved(c) ==
    /\ Now(c, "saved")
    /\ LET op == checks[c] IN
         Finished(c, [push EXCEPT !.verified = op.endpoint, !.known = Mark(op.user, op.endpoint),
                                  !.restored = op.endpoint, !.state = "ready"])
    /\ UNCHANGED <<sessionVars, detach, writes, idb, browser, subs, config, left>>

\* The device was registered already: ready at once, re-registered once per session.
Restored(c) ==
    /\ Now(c, "restored")
    /\ LET op == checks[c]
           ready == [push EXCEPT !.verified = op.endpoint, !.state = "ready"]
       IN IF push.restored = op.endpoint THEN Finished(c, ready)
          ELSE push' = ready /\ Goto(c, "post")
    /\ UNCHANGED <<sessionVars, detach, writes, idb, browser, subs, config, left>>

(***************************************************************************)
(* enable(): the button, with the permission prompt first.                 *)
(***************************************************************************)
\* canEnable, on the screen that replaces the portfolio and in the account's settings.
ActivationOffered == push.configured /\ push.state \in {"needs_permission", "error"}

EnableBegin(c) ==
    /\ checks[c] = Free /\ auth.user # Guest
    /\ ~push.busy /\ ~push.detaching /\ ActivationOffered
    /\ push' = [push EXCEPT !.busy = TRUE, !.checking = FALSE]
    /\ checks' = [Stale EXCEPT ![c] =
                    [kind |-> "enable", valid |-> TRUE, user |-> auth.user, owner |-> NoMark,
                     phase |-> At(IF browser.permission = "granted" THEN "device" ELSE "prompt"),
                     endpoint |-> None, restore |-> FALSE]]
    /\ UNCHANGED <<sessionVars, detach, writes, idb, browser, subs, config, left>>

PromptAnswered(c) ==
    /\ Now(c, "prompt")
    /\ \E choice \in {"granted", "denied", "default"} :
         /\ browser' = [browser EXCEPT !.permission = choice]
         /\ IF choice = "granted" THEN Goto(c, "device") /\ UNCHANGED push
            ELSE Finished(c, [push EXCEPT !.state = IF choice = "denied" THEN "denied" ELSE "needs_permission"])
    /\ UNCHANGED <<sessionVars, detach, writes, idb, subs, config, left>>

(***************************************************************************)
(* Failures, the fifteen-second race of refresh(), and the environment.    *)
(***************************************************************************)
Spend == left > 0 /\ left' = left - 1

\* Mutant: the marker is withdrawn although the device stays verified.
FailureWithdraws ==
    /\ push' = IF push.verified # None /\ browser.permission = "granted"
               THEN [push EXCEPT !.state = "ready", !.checking = FALSE]
               ELSE [push EXCEPT !.verified = None, !.state = "error", !.checking = FALSE]
    /\ writes' = Append(writes, Put(NoMark, "nobody"))

\* A verified device stays ready through an outage; an unproved one is gated, and the
\* marker survives only for its own account with the permission still there.
FailureOutcome ==
    LET kept == push.verified # None /\ browser.permission = "granted" IN
    /\ push' = IF kept THEN [push EXCEPT !.state = "ready", !.checking = FALSE]
               ELSE [push EXCEPT !.verified = None, !.state = "error", !.checking = FALSE]
    /\ writes' = IF kept \/ (push.known.user = auth.user /\ browser.permission = "granted")
                 THEN writes ELSE Append(writes, Put(NoMark, "nobody"))

MayFail == {"config", "device", "status", "drop", "mint", "post", "confirm"}

\* The failures a step cannot avoid: the server refuses the account, the permission was
\* taken away, or what was posted is not what the server reports.
MustFail(c) ==
    \/ Is(c, "status") /\ ~Served(c)
    \/ Is(c, "post") /\ ~Served(c)
    \/ Is(c, "mint") /\ ~CanMint
    \/ Is(c, "confirm") /\ ~(Served(c) /\ Registered(checks[c]) /\ browser.permission = "granted")

CheckFails(c) ==
    /\ IF MustFail(c) THEN UNCHANGED left ELSE Spend
    /\ checks[c] # Free /\ checks[c].valid /\ checks[c].phase.at \in MayFail
    /\ checks' = [Stale EXCEPT ![c] = Free]
    /\ IF checks[c].kind = "refresh" THEN FailureOutcome
       ELSE /\ push' = [push EXCEPT !.state = "error", !.busy = FALSE]
            /\ UNCHANGED writes
    /\ UNCHANGED <<sessionVars, detach, idb, browser, subs, config>>

CheckTimesOut(c) ==
    /\ Spend
    /\ checks[c] # Free /\ checks[c].valid /\ checks[c].kind = "refresh"
    /\ checks' = Stale
    /\ FailureOutcome
    /\ UNCHANGED <<sessionVars, detach, idb, browser, subs, config>>

\* onFocus: a permission taken away counts at once, whatever check is under way.
Focus ==
    /\ push.verified # None /\ browser.permission # "granted"
    /\ push' = [push EXCEPT !.checking = FALSE, !.verified = None, !.state =
                   IF browser.permission = "denied" THEN "denied" ELSE "needs_permission"]
    /\ checks' = Stale
    /\ writes' = Append(writes, Put(NoMark, "nobody"))
    /\ UNCHANGED <<sessionVars, detach, idb, browser, subs, config, left>>

PermissionTaken ==
    /\ Spend
    /\ browser.permission = "granted"
    /\ browser' = [browser EXCEPT !.permission = "denied", !.sub = None]
    /\ UNCHANGED <<sessionVars, push, checks, detach, writes, idb, subs, config>>

\* The server gives an endpoint up (the push service answered 404 or 410).
EndpointGone(e) ==
    /\ Spend
    /\ subs[e] # Guest
    /\ subs' = [subs EXCEPT ![e] = Guest]
    /\ UNCHANGED <<sessionVars, push, checks, detach, writes, idb, browser, config>>

(***************************************************************************)
(* push-sw.js: whether a push for account u is shown with its detail, and  *)
(* whether opening its notification goes to the item it is about.          *)
(***************************************************************************)
Matches(u) == browser.sub # None /\ idb.current = Mark(u, browser.sub)

(***************************************************************************)
(* detachBrowserPush, the cleanup an account transition awaits.            *)
(***************************************************************************)
Owns(id) == cleanups # <<>> /\ Head(cleanups) = id

DetachBegin(id) ==
    /\ Owns(id) /\ detach = "idle" /\ ops[id].current
    /\ push' = [push EXCEPT !.detaching = TRUE, !.checking = FALSE, !.verified = None,
                            !.busy = FALSE, !.state = "checking"]
    /\ checks' = Stale
    /\ detach' = "writing"
    /\ writes' = Append(writes, Put(NoMark, "detach"))
    /\ UNCHANGED <<sessionVars, idb, browser, subs, config, left>>

\* A new account mounts a new PushSession, whose predecessor's runs are all stale.
Remount == IF auth'.user = auth.user THEN UNCHANGED <<push, checks>>
           ELSE push' = Mounted /\ checks' = Stale

DetachSkipped(id) ==
    /\ Owns(id) /\ detach = "idle" /\ ~ops[id].current
    /\ CleanupEnd(id) /\ Remount
    /\ UNCHANGED <<detach, writes, idb, browser, subs, config, left>>

\* A sign-out or an expired session keeps the subscription: only the marker is gone.
DetachKeeps(id) ==
    /\ Owns(id) /\ detach = "written"
    /\ CleanupEnd(id) /\ Remount
    /\ detach' = "idle"
    /\ UNCHANGED <<writes, idb, browser, subs, config, left>>

DeviceNext ==
    \/ WriteStep \/ Focus \/ PermissionTaken
    \/ \E e \in Endpoints : EndpointGone(e)
    \/ \E id \in OpIds : DetachBegin(id) \/ DetachSkipped(id) \/ DetachKeeps(id)
    \/ \E c \in Checks :
         \/ RefreshDevice(c) \/ GuestChecked(c) \/ OwnerRead(c) \/ ConfigRead(c) \/ DeviceRead(c)
         \/ OwnerForgotten(c) \/ StatusRead(c) \/ Reset(c) \/ DropSubscription(c) \/ Mint(c)
         \/ Post(c) \/ Confirm(c) \/ Saved(c) \/ Restored(c) \/ Closed(c)
         \/ EnableBegin(c) \/ PromptAnswered(c) \/ CheckFails(c) \/ CheckTimesOut(c) \/ Abandon(c)

\* The session's own steps, with the remount they cause.
AccountStep ==
    /\ \/ /\ UNCHANGED left
          /\ \/ RefreshWithoutToken
             \/ \E id \in OpIds : \/ auth.loading /\ RefreshBegin(id)
                                 \/ RefreshDone(id) \/ RefreshFailed(id) \/ PageAnswered(id)
                                 \/ Expire(id) \/ LoginDone(id) \/ ServerAnswers(id)
       \/ /\ Spend
          /\ \/ \E u \in Users : Deactivate(u)
             \/ \E id \in OpIds : \/ ~auth.loading /\ RefreshBegin(id)
                                 \/ PageCall(id) \/ LogoutBegin(id)
                                 \/ \E u \in Users : LoginBegin(id, u)
    /\ Remount
    /\ UNCHANGED <<detach, writes, idb, browser, subs, config>>

DeviceSystemNext == DeviceNext \/ AccountStep
DeviceSystemSpec == DeviceSystemInit /\ [][DeviceSystemNext]_deviceSystemVars

PushStates == [state: {"checking", "ready", "unavailable", "denied", "needs_permission", "error"},
               busy: BOOLEAN, checking: BOOLEAN, detaching: BOOLEAN,
               verified: {None} \cup Endpoints, known: Marks, restored: {None} \cup Endpoints,
               configured: BOOLEAN, required: {"unknown", "yes", "no"}]
Write == [do: {"put", "forget", "read"}, value: Marks, waiter: Checks \cup {"detach", "nobody"}]

DeviceTypeOK ==
    /\ push \in PushStates
    /\ checks \in [Checks -> Run \cup {Free}]
    /\ detach \in {"idle", "writing", "written"}
    /\ writes \in Seq(Write)
    /\ idb \in [current: Marks, owner: Marks]
    /\ browser \in [permission: {"default", "granted", "denied"}, sub: {None} \cup Endpoints,
                    minted: {None} \cup Endpoints, oldKey: BOOLEAN]
    /\ subs \in [Endpoints -> Users \cup {Guest}]
    /\ config \in Configs

\* What the marker will be when the queued writes are done.
Puts == {i \in DOMAIN writes : writes[i].do = "put"}
FinalMarker == IF Puts = {} THEN idb.current
               ELSE writes[CHOOSE i \in Puts : \A j \in Puts : j <= i].value

\* Once a sign-out has ended the device is silent until somebody signs in: no check
\* started before it, however late its answers, marks the device again
\* (AuthContext.tsx: logout; PushNotificationsContext.tsx: onDetaching, valid()).
SilentAfterSignOut ==
    signedOut => FinalMarker = NoMark /\ \A u \in Users : ~Matches(u)

\* The portfolio opens only to a device that was proved: ready, for a signed-in account of
\* a server that sends notifications, comes with a verified endpoint; and what the screen
\* says of the device is what the service worker will do: while a session holds a verified
\* endpoint, the marker names its account, now or after the writes already queued, whichever
\* check, failure, timeout or cleanup queued them (PushNotificationAccess.tsx: push.state;
\* verifiedBinding against IndexedDB).  The endpoint may be one that a check under way has
\* just minted.
VerifiedIsMarked ==
    /\ auth.user # Guest /\ push.state = "ready" /\ config.enabled => push.verified # None
    /\ push.verified # None => FinalMarker.user = auth.user
=============================================================================
