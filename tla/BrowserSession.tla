--------------------------- MODULE BrowserSession ---------------------------
(***************************************************************************)
(* The signed-in session of one browser tab: the token in localStorage,    *)
(* the account React holds, and the asynchronous operations that change    *)
(* them (AuthContext.tsx, request() of services/api.ts, RequireAuth.tsx).  *)
(*                                                                         *)
(* JavaScript runs one synchronous stretch at a time, so an action is one  *)
(* stretch between two awaits.  AuthContext guards every stretch after an  *)
(* await with a version number; the model keeps, in each operation, the    *)
(* answer to that comparison (current) and clears it wherever the code     *)
(* increments the number.                                                  *)
(*                                                                         *)
(* What a sign-out does to the device's push registration is awaited here  *)
(* as one cleanup; PushDevice refines it.                                  *)
(***************************************************************************)
EXTENDS Naturals, Sequences

CONSTANTS Users,      \* accounts of the server
          Guest,      \* nobody: user = null and token = null
          OpIds,      \* slots for operations under way (bounds them)
          Free        \* an unused slot

ASSUME GuestIsNobody == Guest \notin Users

VARIABLES auth,      \* [user, token, transitioning, loading]: the account shown and the session's flags
          ops,       \* the operations under way, by slot
          cleanups,  \* cleanupQueue: slots whose cleanup has not finished, in order
          active,    \* accounts the server still accepts
          signedOut  \* the last sign-out ran to its end and nobody signed in since

sessionVars == <<auth, ops, cleanups, active, signedOut>>

Kinds == {"refresh", "login", "logout", "expired", "page"}
Phases == {"cleanup", "asked", "accepted", "refused", "failed"}

\* who: the account whose token an operation sends, or the account signing in.
Op == [kind: Kinds, who: Users \cup {Guest}, phase: Phases, current: BOOLEAN]

ASSUME SlotIsFree == Free \notin Op

IsFree(id) == ops[id] = Free
Busy(kinds) == {id \in OpIds : ~IsFree(id) /\ ops[id].kind \in kinds}

\* ++sessionVersion.current: no operation started before is current any more.
Superseded == [id \in OpIds |-> IF IsFree(id) THEN Free ELSE [ops[id] EXCEPT !.current = FALSE]]

SessionInit ==
    /\ \E stored \in Users \cup {Guest} :
          auth = [user |-> Guest, token |-> stored, transitioning |-> FALSE, loading |-> TRUE]
    /\ ops = [id \in OpIds |-> Free]
    /\ cleanups = <<>>
    /\ active = Users
    /\ signedOut = FALSE

(***************************************************************************)
(* Screens: what the router renders for the session (RequireAuth.tsx).     *)
(***************************************************************************)
SignedInScreen == ~auth.loading /\ auth.user # Guest
LoginScreen    == ~auth.loading /\ auth.user = Guest

(***************************************************************************)
(* refresh(): ask the server who the stored token belongs to.              *)
(***************************************************************************)
RefreshWithoutToken ==
    /\ ~auth.transitioning /\ auth.token = Guest
    /\ auth' = [auth EXCEPT !.user = Guest, !.loading = FALSE]
    /\ UNCHANGED <<ops, cleanups, active, signedOut>>

RefreshBegin(id) ==
    /\ ~auth.transitioning /\ auth.token # Guest /\ IsFree(id)
    /\ Busy({"refresh"}) = {}
    /\ ops' = [ops EXCEPT ![id] = [kind |-> "refresh", who |-> auth.token, phase |-> "asked", current |-> TRUE]]
    /\ UNCHANGED <<auth, cleanups, active, signedOut>>

\* current() of refresh: the version and the token are those it started with.
StillMine(op) == op.current /\ auth.token = op.who

RefreshDone(id) ==
    LET op == ops[id] IN
    /\ op # Free /\ op.kind = "refresh" /\ op.phase = "accepted"
    /\ auth' = IF StillMine(op) THEN [auth EXCEPT !.user = op.who, !.loading = FALSE] ELSE auth
    /\ ops' = [ops EXCEPT ![id] = Free]
    /\ UNCHANGED <<cleanups, active, signedOut>>

\* Any failure of me() but a 401 (which Expire handles first) signs the tab out.
RefreshFailed(id) ==
    LET op == ops[id] IN
    /\ op # Free /\ op.kind = "refresh" /\ op.phase = "failed"
    /\ auth' = IF StillMine(op)
               THEN [auth EXCEPT !.user = Guest, !.token = Guest, !.loading = FALSE] ELSE auth
    /\ ops' = [ops EXCEPT ![id] = Free]
    /\ UNCHANGED <<cleanups, active, signedOut>>

(***************************************************************************)
(* A page's authenticated request, sent with the token of that moment.     *)
(***************************************************************************)
PageCall(id) ==
    /\ SignedInScreen /\ auth.token # Guest /\ IsFree(id) /\ Busy({"page"}) = {}
    /\ ops' = [ops EXCEPT ![id] = [kind |-> "page", who |-> auth.token, phase |-> "asked", current |-> TRUE]]
    /\ UNCHANGED <<auth, cleanups, active, signedOut>>

PageAnswered(id) ==
    /\ ops[id] # Free /\ ops[id].kind = "page" /\ ops[id].phase \in {"accepted", "failed"}
    /\ ops' = [ops EXCEPT ![id] = Free]
    /\ UNCHANGED <<auth, cleanups, active, signedOut>>

\* A 401 counts only for the token it was sent with; notifyAuthExpired then runs
\* onExpired, whose cleanup an account transition under way already owns.
Expire(id) ==
    LET op == ops[id] IN
    /\ op # Free /\ op.kind \in {"refresh", "page"} /\ op.phase = "refused"
    /\ IF auth.token # op.who
       THEN /\ ops' = [ops EXCEPT ![id] = Free]
            /\ UNCHANGED <<auth, cleanups>>
       ELSE /\ auth' = [auth EXCEPT !.user = Guest, !.token = Guest, !.loading = FALSE]
            /\ IF auth.transitioning
               THEN /\ ops' = [ops EXCEPT ![id] = Free]
                    /\ UNCHANGED cleanups
               ELSE /\ ops' = [Superseded EXCEPT ![id] =
                                 [kind |-> "expired", who |-> Guest, phase |-> "cleanup", current |-> TRUE]]
                    /\ cleanups' = Append(cleanups, id)
    /\ UNCHANGED <<active, signedOut>>

(***************************************************************************)
(* login(): cleanup, forget the old session, ask, keep the answer.         *)
(* A second sign-in may start while one is under way: the form's busy flag *)
(* is lost when the user leaves for the page of the forgotten password and *)
(* comes back (LoginPage.tsx).  The later one supersedes the earlier.      *)
(***************************************************************************)
LoginBegin(id, u) ==
    /\ LoginScreen /\ IsFree(id)
    /\ auth' = [auth EXCEPT !.transitioning = TRUE]
    /\ ops' = [Superseded EXCEPT ![id] = [kind |-> "login", who |-> u, phase |-> "cleanup", current |-> TRUE]]
    /\ cleanups' = Append(cleanups, id)
    /\ UNCHANGED <<active, signedOut>>

\* Mutant: an answer counts though a later sign-in took over.
Heeded(op) == TRUE

\* sessionVersion.current === operation, after the answer.
StillWanted(op) == op.current

\* The answer of login() while the attempt is current: finally resets both flags.
LoginDone(id) ==
    LET op == ops[id] IN
    /\ op # Free /\ op.kind = "login" /\ op.phase \in {"accepted", "refused", "failed"}
    /\ IF ~StillWanted(op) THEN UNCHANGED <<auth, signedOut>>
       ELSE IF op.phase = "accepted"
       THEN /\ auth' = [user |-> op.who, token |-> op.who, transitioning |-> FALSE, loading |-> FALSE]
            /\ signedOut' = FALSE
       ELSE /\ auth' = [auth EXCEPT !.transitioning = FALSE, !.loading = FALSE]
            /\ UNCHANGED signedOut
    /\ ops' = [ops EXCEPT ![id] = Free]
    /\ UNCHANGED <<cleanups, active>>

LogoutBegin(id) ==
    /\ SignedInScreen /\ IsFree(id)
    /\ auth' = [auth EXCEPT !.transitioning = TRUE]
    /\ ops' = [Superseded EXCEPT ![id] = [kind |-> "logout", who |-> Guest, phase |-> "cleanup", current |-> TRUE]]
    /\ cleanups' = Append(cleanups, id)
    /\ UNCHANGED <<active, signedOut>>

(***************************************************************************)
(* The cleanup at the head of the queue ends (whatever it did), and the    *)
(* operation that awaited it goes on.                                      *)
(***************************************************************************)
CleanupEnd(id) ==
    LET op == ops[id] IN
    /\ cleanups # <<>> /\ Head(cleanups) = id
    /\ cleanups' = Tail(cleanups)
    /\ IF op.kind = "login" /\ op.current
       THEN /\ auth' = [auth EXCEPT !.user = Guest, !.token = Guest]
            /\ ops' = [ops EXCEPT ![id].phase = "asked"]
            /\ UNCHANGED signedOut
       ELSE /\ ops' = [ops EXCEPT ![id] = Free]
            /\ IF op.kind = "logout" /\ op.current
               THEN /\ auth' = [user |-> Guest, token |-> Guest, transitioning |-> FALSE, loading |-> FALSE]
                    /\ signedOut' = TRUE
               ELSE UNCHANGED <<auth, signedOut>>
    /\ UNCHANGED active

(***************************************************************************)
(* The server and the network.                                             *)
(***************************************************************************)
ServerAnswers(id) ==
    LET op == ops[id] IN
    /\ op # Free /\ op.phase = "asked"
    /\ \E outcome \in {IF op.who \in active THEN "accepted" ELSE "refused", "failed"} :
          ops' = [ops EXCEPT ![id].phase = outcome]
    /\ UNCHANGED <<auth, cleanups, active, signedOut>>

\* A manager blocks or deletes the account: its tokens stop counting.
Deactivate(u) ==
    /\ u \in active
    /\ active' = active \ {u}
    /\ UNCHANGED <<auth, ops, cleanups, signedOut>>

SessionNext ==
    \/ RefreshWithoutToken
    \/ \E u \in Users : Deactivate(u)
    \/ \E id \in OpIds :
         \/ RefreshBegin(id) \/ RefreshDone(id) \/ RefreshFailed(id)
         \/ PageCall(id) \/ PageAnswered(id) \/ Expire(id)
         \/ LogoutBegin(id) \/ CleanupEnd(id) \/ LoginDone(id)
         \/ ServerAnswers(id)
         \/ \E u \in Users : LoginBegin(id, u)

SessionSpec == SessionInit /\ [][SessionNext]_sessionVars

SessionTypeOK ==
    /\ auth \in [user: Users \cup {Guest}, token: Users \cup {Guest},
                 transitioning: BOOLEAN, loading: BOOLEAN]
    /\ ops \in [OpIds -> Op \cup {Free}]
    /\ cleanups \in Seq(OpIds)
    /\ active \subseteq Users
    /\ signedOut \in BOOLEAN

\* The account on the screen is always the one whose token the requests send; and while a
\* sign-in waits for its answer nobody is signed in: no late answer of an earlier session,
\* nor of a sign-in that a later one superseded, puts its account there
\* (AuthContext.tsx: sessionVersion, current(), the checks of login()).
Asking(op) == op # Free /\ op.kind = "login" /\ op.current /\ op.phase # "cleanup"
ShownAccountHoldsToken ==
    /\ auth.user # Guest => auth.token = auth.user
    /\ (\E id \in OpIds : Asking(ops[id])) => auth.user = Guest /\ auth.token = Guest

\* The tab never waits for nothing: while an account transition is marked, the
\* operation that will clear the mark is under way and current.  A mark left
\* behind would make refresh() return early for ever.
TransitionIsOwned ==
    auth.transitioning =>
        \E id \in OpIds : /\ ops[id] # Free /\ ops[id].kind \in {"login", "logout"}
                          /\ ops[id].current
=============================================================================
