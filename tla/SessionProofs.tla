---------------------------- MODULE SessionProofs ----------------------------
(***************************************************************************)
(* Proofs about BrowserSession and PushDevice, for any number of accounts, *)
(* operations under way, device checks and endpoints.                      *)
(***************************************************************************)
EXTENDS PushDevice, WellFoundedInduction, TLAPS

USE GuestIsNobody, SlotIsFree

-----------------------------------------------------------------------------
(* The session.                                                              *)
Waits(op) == op \in Op /\ op.kind \in {"login", "logout", "expired"} /\ op.phase = "cleanup"

(* Who queues for its cleanup does nothing else, and queues once.            *)
Queued ==
    /\ \A n \in 1 .. Len(cleanups) : Waits(ops[cleanups[n]])
    /\ \A m, n \in 1 .. Len(cleanups) : cleanups[m] = cleanups[n] => m = n

(* Half of ShownAccountHoldsToken; the other half is SignInIsClean below.    *)
TokenOfShown == auth.user # Guest => auth.token = auth.user

SessionInv == SessionTypeOK /\ Queued /\ TokenOfShown /\ TransitionIsOwned

LEMMA SupersededTyped == ASSUME SessionTypeOK
    PROVE /\ Superseded \in [OpIds -> Op \cup {Free}]
          /\ \A id \in OpIds : Waits(ops[id]) => Waits(Superseded[id])
  <1>1. \A id \in OpIds : ops[id] \in Op => [ops[id] EXCEPT !.current = FALSE] \in Op
    BY DEF Op
  <1>2. Superseded \in [OpIds -> Op \cup {Free}]
    BY <1>1 DEF SessionTypeOK, Superseded, IsFree
  <1>3. \A id \in OpIds : Waits(ops[id]) => Waits(Superseded[id])
    BY <1>1 DEF Superseded, IsFree, Waits, Op
  <1> QED BY <1>2, <1>3

LEMMA SessionStarts == SessionInit => SessionInv
  <1> SUFFICES ASSUME SessionInit PROVE SessionInv
    OBVIOUS
  <1>1. Queued
    BY DEF SessionInit, Queued
  <1>2. PICK stored \in Users \cup {Guest} :
          auth = [user |-> Guest, token |-> stored, transitioning |-> FALSE, loading |-> TRUE]
    BY DEF SessionInit
  <1>3. SessionTypeOK
    <2>1. cleanups \in Seq(OpIds)
      BY DEF SessionInit
    <2>2. ops \in [OpIds -> Op \cup {Free}]
      BY DEF SessionInit
    <2> QED BY <1>2, <2>1, <2>2 DEF SessionInit, SessionTypeOK
  <1> QED BY <1>1, <1>2, <1>3 DEF SessionInv, TokenOfShown, TransitionIsOwned

LEMMA QueueStays == ASSUME SessionInv, cleanups' = cleanups,
                           \A id \in OpIds : Waits(ops[id]) => Waits(ops'[id])
    PROVE Queued'
  <1>1. \A n \in 1 .. Len(cleanups) : cleanups[n] \in OpIds
    BY DEF SessionInv, SessionTypeOK
  <1> QED BY <1>1 DEF SessionInv, Queued

LEMMA QueueGrows == ASSUME SessionInv, NEW new \in OpIds, cleanups' = Append(cleanups, new),
                           ~Waits(ops[new]), Waits(ops'[new]),
                           \A id \in OpIds : Waits(ops[id]) => Waits(ops'[id])
    PROVE Queued'
  <1>1. \A n \in 1 .. Len(cleanups) : cleanups[n] \in OpIds /\ Waits(ops[cleanups[n]])
    BY DEF SessionInv, SessionTypeOK, Queued
  <1>2. /\ Len(cleanups) \in Nat /\ Len(cleanups') = Len(cleanups) + 1
        /\ cleanups'[Len(cleanups) + 1] = new
        /\ \A n \in 1 .. Len(cleanups) : cleanups'[n] = cleanups[n]
    BY DEF SessionInv, SessionTypeOK
  <1>3. \A n \in 1 .. Len(cleanups) : cleanups[n] # new
    BY <1>1
  <1>4. \A n \in 1 .. Len(cleanups') : n = Len(cleanups) + 1 \/ n \in 1 .. Len(cleanups)
    BY <1>2
  <1>5. \A n \in 1 .. Len(cleanups') : Waits(ops'[cleanups'[n]])
    BY <1>1, <1>2, <1>4
  <1>6. \A m, n \in 1 .. Len(cleanups) : cleanups[m] = cleanups[n] => m = n
    BY DEF SessionInv, Queued
  <1>7. \A m, n \in 1 .. Len(cleanups') : cleanups'[m] = cleanups'[n] => m = n
    BY <1>2, <1>3, <1>4, <1>6
  <1> QED BY <1>5, <1>7 DEF Queued

LEMMA FreeWaitsNot == ~Waits(Free)
  BY DEF Waits

(* A step that leaves the flag alone and no current sign-in or sign-out.     *)
LEMMA OwnerStays == ASSUME TransitionIsOwned, auth'.transitioning = auth.transitioning,
                           \A id \in OpIds : ops[id] # Free /\ ops[id].kind \in {"login", "logout"} /\ ops[id].current
                               => /\ ops'[id] # Free /\ ops'[id].kind = ops[id].kind /\ ops'[id].current
    PROVE TransitionIsOwned'
  BY DEF TransitionIsOwned

LEMMA RefreshWithoutTokenKeeps == ASSUME SessionInv, RefreshWithoutToken PROVE SessionInv'
  <1>1. Queued'
    BY QueueStays DEF RefreshWithoutToken
  <1> QED BY <1>1 DEF RefreshWithoutToken, SessionInv, SessionTypeOK, TokenOfShown, TransitionIsOwned

LEMMA RefreshBeginKeeps == ASSUME SessionInv, NEW id \in OpIds, RefreshBegin(id) PROVE SessionInv'
  <1> DEFINE op == [kind |-> "refresh", who |-> auth.token, phase |-> "asked", current |-> TRUE]
  <1>1. ops' = [ops EXCEPT ![id] = op] /\ ops[id] = Free /\ UNCHANGED <<auth, cleanups, active, signedOut>>
    BY DEF RefreshBegin, IsFree
  <1>2. op \in Op
    BY DEF SessionInv, SessionTypeOK, Op, Kinds, Phases
  <1>3. SessionTypeOK'
    BY <1>1, <1>2 DEF SessionInv, SessionTypeOK
  <1>4. TransitionIsOwned'
    BY <1>1 DEF SessionInv, SessionTypeOK, TransitionIsOwned
  <1>5. Queued'
    BY <1>1, FreeWaitsNot, QueueStays DEF SessionInv, SessionTypeOK
  <1> QED BY <1>1, <1>3, <1>4, <1>5 DEF SessionInv, TokenOfShown

LEMMA RefreshEndKeeps == ASSUME SessionInv, NEW id \in OpIds, RefreshDone(id) \/ RefreshFailed(id)
    PROVE SessionInv'
  <1>1. /\ ops' = [ops EXCEPT ![id] = Free] /\ ops[id] \in Op /\ ops[id].kind = "refresh"
        /\ UNCHANGED <<cleanups, active, signedOut>>
    BY DEF RefreshDone, RefreshFailed, SessionInv, SessionTypeOK
  <1>2. ops[id].who \in Users \cup {Guest}
    BY <1>1 DEF Op
  <1>3. /\ auth' \in [user: Users \cup {Guest}, token: Users \cup {Guest},
                     transitioning: BOOLEAN, loading: BOOLEAN]
        /\ auth'.transitioning = auth.transitioning
        /\ auth'.user # Guest => auth'.token = auth'.user
    BY <1>2 DEF RefreshDone, RefreshFailed, StillMine, SessionInv, SessionTypeOK, TokenOfShown
  <1>4. TransitionIsOwned'
    BY <1>1, <1>3, OwnerStays DEF SessionInv, SessionTypeOK
  <1>5. Queued'
    BY <1>1, QueueStays DEF Waits, SessionInv, SessionTypeOK
  <1> QED BY <1>1, <1>3, <1>4, <1>5 DEF SessionInv, SessionTypeOK, TokenOfShown

LEMMA PageKeeps == ASSUME SessionInv, NEW id \in OpIds, PageCall(id) \/ PageAnswered(id)
    PROVE SessionInv'
  <1>1. CASE PageCall(id)
    <2> DEFINE op == [kind |-> "page", who |-> auth.token, phase |-> "asked", current |-> TRUE]
    <2>1. ops' = [ops EXCEPT ![id] = op] /\ ops[id] = Free /\ UNCHANGED <<auth, cleanups, active, signedOut>>
      BY <1>1 DEF PageCall, IsFree
    <2>2. op \in Op
      BY DEF SessionInv, SessionTypeOK, Op, Kinds, Phases
    <2>3. SessionTypeOK'
      BY <2>1, <2>2 DEF SessionInv, SessionTypeOK
    <2>4. TransitionIsOwned'
      BY <2>1 DEF SessionInv, SessionTypeOK, TransitionIsOwned
    <2>5. Queued'
      BY <2>1, FreeWaitsNot, QueueStays DEF SessionInv, SessionTypeOK
    <2> QED BY <2>1, <2>3, <2>4, <2>5 DEF SessionInv, TokenOfShown
  <1>2. CASE PageAnswered(id)
    <2>1. /\ ops[id] \in Op /\ ops[id].kind = "page" /\ ops' = [ops EXCEPT ![id] = Free]
          /\ UNCHANGED <<auth, cleanups, active, signedOut>>
      BY <1>2 DEF PageAnswered, SessionInv, SessionTypeOK
    <2>2. TransitionIsOwned'
      BY <2>1, OwnerStays DEF SessionInv, SessionTypeOK
    <2>3. Queued'
      BY <2>1, QueueStays DEF Waits, SessionInv, SessionTypeOK
    <2> QED BY <2>1, <2>2, <2>3 DEF SessionInv, SessionTypeOK, TokenOfShown
  <1> QED BY <1>1, <1>2

LEMMA ExpireKeeps == ASSUME SessionInv, NEW id \in OpIds, Expire(id) PROVE SessionInv'
  <1>1. ops[id] # Free /\ ops[id].kind \in {"refresh", "page"} /\ UNCHANGED <<active, signedOut>>
    BY DEF Expire
  <1>2. CASE ops' = [ops EXCEPT ![id] = Free] /\ UNCHANGED cleanups /\ auth'.transitioning = auth.transitioning
    <2>1. TransitionIsOwned'
      BY <1>1, <1>2, OwnerStays DEF SessionInv, SessionTypeOK
    <2>2. Queued'
      BY <1>1, <1>2, QueueStays DEF Waits, SessionInv, SessionTypeOK
    <2>3. \/ auth' = auth
          \/ auth' = [auth EXCEPT !.user = Guest, !.token = Guest, !.loading = FALSE]
      BY DEF Expire
    <2>4. SessionTypeOK' /\ TokenOfShown'
      BY <1>1, <1>2, <2>3 DEF SessionInv, SessionTypeOK, TokenOfShown
    <2> QED BY <2>1, <2>2, <2>4 DEF SessionInv
  <1>3. CASE ~auth.transitioning /\ auth.token = ops[id].who
    <2> DEFINE op == [kind |-> "expired", who |-> Guest, phase |-> "cleanup", current |-> TRUE]
    <2>1. /\ auth' = [auth EXCEPT !.user = Guest, !.token = Guest, !.loading = FALSE]
          /\ ops' = [Superseded EXCEPT ![id] = op] /\ cleanups' = Append(cleanups, id)
      BY <1>3 DEF Expire
    <2>2. op \in Op /\ Waits(op)
      BY DEF Op, Kinds, Phases, Waits
    <2> HIDE DEF op
    <2>3. /\ ops' \in [OpIds -> Op \cup {Free}] /\ ops'[id] = op
          /\ \A i \in OpIds : Waits(ops[i]) => Waits(ops'[i])
      BY <2>1, <2>2, SupersededTyped DEF SessionInv
    <2>4. ~Waits(ops[id])
      BY <1>1 DEF Waits
    <2>5. Queued'
      BY <2>1, <2>2, <2>3, <2>4, QueueGrows
    <2>6. cleanups' \in Seq(OpIds)
      BY <2>1 DEF SessionInv, SessionTypeOK
    <2> QED BY <1>1, <1>3, <2>1, <2>3, <2>5, <2>6 DEF SessionInv, SessionTypeOK, TokenOfShown, TransitionIsOwned
  <1> QED BY <1>1, <1>2, <1>3 DEF Expire, SessionInv, SessionTypeOK

LEMMA TransitionBegins == ASSUME SessionInv, NEW id \in OpIds, ops[id] = Free, NEW op \in Op, Waits(op),
                                 op.kind \in {"login", "logout"}, op.current,
                                 auth' = [auth EXCEPT !.transitioning = TRUE],
                                 ops' = [Superseded EXCEPT ![id] = op],
                                 cleanups' = Append(cleanups, id), UNCHANGED <<active, signedOut>>
    PROVE SessionInv'
  <1>1. /\ ops' \in [OpIds -> Op \cup {Free}] /\ ops'[id] = op
        /\ \A i \in OpIds : Waits(ops[i]) => Waits(ops'[i])
    BY SupersededTyped DEF SessionInv
  <1>2. cleanups' \in Seq(OpIds)
    BY DEF SessionInv, SessionTypeOK
  <1>3. SessionTypeOK'
    BY <1>1, <1>2 DEF SessionInv, SessionTypeOK
  <1>4. TransitionIsOwned'
    BY <1>1 DEF TransitionIsOwned
  <1>5. Queued'
    BY <1>1, FreeWaitsNot, QueueGrows
  <1> QED BY <1>3, <1>4, <1>5 DEF SessionInv, SessionTypeOK, TokenOfShown

LEMMA BeginKeeps == ASSUME SessionInv, NEW id \in OpIds,
                           (\E u \in Users : LoginBegin(id, u)) \/ LogoutBegin(id)
    PROVE SessionInv'
  <1>1. CASE LogoutBegin(id)
    <2> DEFINE op == [kind |-> "logout", who |-> Guest, phase |-> "cleanup", current |-> TRUE]
    <2>1. op \in Op /\ Waits(op) /\ op.kind = "logout" /\ op.current
      BY DEF Op, Kinds, Phases, Waits
    <2>2. /\ ops[id] = Free /\ auth' = [auth EXCEPT !.transitioning = TRUE]
          /\ ops' = [Superseded EXCEPT ![id] = op] /\ cleanups' = Append(cleanups, id)
          /\ UNCHANGED <<active, signedOut>>
      BY <1>1 DEF LogoutBegin, IsFree
    <2> HIDE DEF op
    <2> QED BY <2>1, <2>2, TransitionBegins
  <1>2. ASSUME NEW u \in Users, LoginBegin(id, u) PROVE SessionInv'
    <2> DEFINE op == [kind |-> "login", who |-> u, phase |-> "cleanup", current |-> TRUE]
    <2>1. op \in Op /\ Waits(op) /\ op.kind = "login" /\ op.current
      BY DEF Op, Kinds, Phases, Waits
    <2>2. /\ ops[id] = Free /\ auth' = [auth EXCEPT !.transitioning = TRUE]
          /\ ops' = [Superseded EXCEPT ![id] = op] /\ cleanups' = Append(cleanups, id)
          /\ UNCHANGED <<active, signedOut>>
      BY <1>2 DEF LoginBegin, IsFree
    <2> HIDE DEF op
    <2> QED BY <2>1, <2>2, TransitionBegins
  <1> QED BY <1>1, <1>2

LEMMA LoginDoneKeeps == ASSUME SessionInv, NEW id \in OpIds, LoginDone(id) PROVE SessionInv'
  <1>1. /\ ops[id] \in Op /\ ops[id].phase # "cleanup" /\ ops[id].kind = "login"
        /\ ops' = [ops EXCEPT ![id] = Free] /\ UNCHANGED <<cleanups, active>>
    BY DEF LoginDone, StillWanted, SessionInv, SessionTypeOK
  <1>2. ops[id].who \in Users \cup {Guest}
    BY <1>1 DEF Op
  <1>3. Queued'
    BY <1>1, QueueStays DEF Waits, SessionInv, SessionTypeOK
  <1>4. CASE ~ops[id].current
    <2>1. UNCHANGED <<auth, signedOut>>
      BY <1>4 DEF LoginDone, StillWanted
    <2>2. TransitionIsOwned'
      BY <1>1, <1>4, <2>1, OwnerStays DEF SessionInv, SessionTypeOK
    <2> QED BY <1>1, <1>3, <2>1, <2>2 DEF SessionInv, SessionTypeOK, TokenOfShown
  <1>5. CASE ops[id].current
    <2> DEFINE op == ops[id]
    <2>1. \/ /\ auth' = [user |-> op.who, token |-> op.who, transitioning |-> FALSE, loading |-> FALSE]
             /\ signedOut' = FALSE
          \/ /\ auth' = [auth EXCEPT !.transitioning = FALSE, !.loading = FALSE]
             /\ signedOut' = signedOut
      <3>1. CASE op.phase = "accepted"
        BY <1>5, <3>1 DEF LoginDone, StillWanted
      <3>2. CASE op.phase # "accepted"
        BY <1>5, <3>2 DEF LoginDone, StillWanted
      <3> QED BY <3>1, <3>2
    <2>2. /\ auth' \in [user: Users \cup {Guest}, token: Users \cup {Guest},
                       transitioning: BOOLEAN, loading: BOOLEAN]
          /\ ~auth'.transitioning /\ signedOut' \in BOOLEAN
          /\ auth'.user # Guest => auth'.token = auth'.user
      <3> DEFINE who == op.who
      <3> HIDE DEF who
      <3>1. who \in Users \cup {Guest}
        BY <1>2 DEF who
      <3>2. CASE /\ auth' = [user |-> who, token |-> who, transitioning |-> FALSE, loading |-> FALSE]
                 /\ signedOut' = FALSE
        BY <3>1, <3>2
      <3>3. CASE /\ auth' = [auth EXCEPT !.transitioning = FALSE, !.loading = FALSE]
                 /\ signedOut' = signedOut
        BY <3>3 DEF SessionInv, SessionTypeOK, TokenOfShown
      <3> QED BY <2>1, <3>2, <3>3 DEF who
    <2>3. SessionTypeOK'
      BY <1>1, <2>2 DEF SessionInv, SessionTypeOK
    <2> QED BY <1>3, <2>2, <2>3 DEF SessionInv, TokenOfShown, TransitionIsOwned
  <1> QED BY <1>4, <1>5

(* The head leaves the queue; nobody else in it is the same operation.       *)
LEMMA QueueShrinks == ASSUME SessionInv, cleanups # <<>>, cleanups' = Tail(cleanups),
                             \A i \in OpIds : i # Head(cleanups) => ops'[i] = ops[i]
    PROVE Queued' /\ cleanups' \in Seq(OpIds) /\ Waits(ops[Head(cleanups)])
  <1>1. \A n \in 1 .. Len(cleanups) : cleanups[n] \in OpIds /\ Waits(ops[cleanups[n]])
    BY DEF SessionInv, SessionTypeOK, Queued
  <1>2. /\ Len(cleanups) \in Nat /\ Len(cleanups) >= 1 /\ Len(cleanups') = Len(cleanups) - 1
        /\ Head(cleanups) = cleanups[1] /\ cleanups' \in Seq(OpIds)
        /\ \A n \in 1 .. Len(cleanups') : cleanups'[n] = cleanups[n + 1]
    BY DEF SessionInv, SessionTypeOK
  <1>3. \A m, n \in 1 .. Len(cleanups) : cleanups[m] = cleanups[n] => m = n
    BY DEF SessionInv, Queued
  <1>4. \A n \in 1 .. Len(cleanups') : n + 1 \in 1 .. Len(cleanups) /\ n + 1 # 1
    BY <1>2
  <1>5. \A n \in 1 .. Len(cleanups') : Waits(ops'[cleanups'[n]])
    <2> SUFFICES ASSUME NEW n \in 1 .. Len(cleanups') PROVE Waits(ops'[cleanups'[n]])
      OBVIOUS
    <2>1. cleanups'[n] = cleanups[n + 1] /\ n + 1 \in 1 .. Len(cleanups) /\ 1 \in 1 .. Len(cleanups)
      BY <1>2, <1>4
    <2>2. cleanups[n + 1] # cleanups[1]
      BY <1>3, <1>4, <2>1
    <2> QED BY <1>1, <1>2, <2>1, <2>2
  <1>6. \A m, n \in 1 .. Len(cleanups') : cleanups'[m] = cleanups'[n] => m = n
    BY <1>2, <1>3, <1>4
  <1>7. Queued'
    BY <1>5, <1>6 DEF Queued
  <1>8. Waits(ops[Head(cleanups)])
    BY <1>1, <1>2
  <1> QED BY <1>2, <1>7, <1>8

LEMMA CleanupEndKeeps == ASSUME SessionInv, NEW id \in OpIds, CleanupEnd(id) PROVE SessionInv'
  <1> DEFINE op == ops[id]
  <1>1. cleanups # <<>> /\ Head(cleanups) = id /\ cleanups' = Tail(cleanups) /\ active' = active
    BY DEF CleanupEnd
  <1>2. \A i \in OpIds : i # id => ops'[i] = ops[i]
    <2>1. \/ ops' = [ops EXCEPT ![id].phase = "asked"]
          \/ ops' = [ops EXCEPT ![id] = Free]
      BY DEF CleanupEnd
    <2> QED BY <2>1 DEF SessionInv, SessionTypeOK
  <1>3. Queued' /\ cleanups' \in Seq(OpIds) /\ op \in Op /\ op.kind \in {"login", "logout", "expired"}
    BY <1>1, <1>2, QueueShrinks DEF Waits
  <1>4. CASE op.kind = "login" /\ op.current
    <2> DEFINE asked == [op EXCEPT !.phase = "asked"]
    <2>1. /\ auth' = [auth EXCEPT !.user = Guest, !.token = Guest] /\ signedOut' = signedOut
          /\ ops' = [ops EXCEPT ![id] = asked]
      BY <1>4 DEF CleanupEnd, SessionInv, SessionTypeOK
    <2>2. asked \in Op /\ asked.kind = op.kind /\ asked.current = op.current
      BY <1>3 DEF Op, Phases
    <2> HIDE DEF asked
    <2>3. SessionTypeOK' /\ TokenOfShown' /\ auth'.transitioning = auth.transitioning
      BY <1>1, <1>3, <2>1, <2>2 DEF SessionInv, SessionTypeOK, TokenOfShown
    <2>4. TransitionIsOwned'
      BY <2>1, <2>2, <2>3, OwnerStays DEF SessionInv, SessionTypeOK
    <2> QED BY <1>3, <2>3, <2>4 DEF SessionInv
  <1>5. CASE op.kind = "logout" /\ op.current
    <2>1. /\ auth' = [user |-> Guest, token |-> Guest, transitioning |-> FALSE, loading |-> FALSE]
          /\ signedOut' = TRUE /\ ops' = [ops EXCEPT ![id] = Free]
      BY <1>5 DEF CleanupEnd
    <2>2. SessionTypeOK'
      BY <1>1, <1>3, <2>1 DEF SessionInv, SessionTypeOK
    <2> QED BY <1>3, <2>1, <2>2 DEF SessionInv, TokenOfShown, TransitionIsOwned
  <1>6. CASE op.kind = "expired" \/ ~op.current
    <2>1. ops' = [ops EXCEPT ![id] = Free] /\ UNCHANGED <<auth, signedOut>>
      BY <1>6 DEF CleanupEnd
    <2>2. TransitionIsOwned'
      BY <1>6, <2>1, OwnerStays DEF SessionInv, SessionTypeOK
    <2> QED BY <1>1, <1>3, <2>1, <2>2 DEF SessionInv, SessionTypeOK, TokenOfShown
  <1> QED BY <1>3, <1>4, <1>5, <1>6 DEF Op

LEMMA ServerAnswersKeeps == ASSUME SessionInv, NEW id \in OpIds, ServerAnswers(id) PROVE SessionInv'
  <1> DEFINE op == ops[id]
  <1>1. PICK outcome \in {"accepted", "refused", "failed"} : ops' = [ops EXCEPT ![id].phase = outcome]
    BY DEF ServerAnswers
  <1> DEFINE told == [op EXCEPT !.phase = outcome]
  <1>2. op \in Op /\ op.phase = "asked" /\ UNCHANGED <<auth, cleanups, active, signedOut>>
    BY DEF ServerAnswers, SessionInv, SessionTypeOK
  <1>3. told \in Op /\ told.kind = op.kind /\ told.current = op.current
    BY <1>2 DEF Op, Phases
  <1>4. ops' = [ops EXCEPT ![id] = told]
    BY <1>1 DEF SessionInv, SessionTypeOK
  <1> HIDE DEF told
  <1>5. TransitionIsOwned'
    BY <1>2, <1>3, <1>4, OwnerStays DEF SessionInv, SessionTypeOK
  <1>6. Queued'
    BY <1>2, <1>4, QueueStays DEF Waits, SessionInv, SessionTypeOK
  <1> QED BY <1>2, <1>3, <1>4, <1>5, <1>6 DEF SessionInv, SessionTypeOK, TokenOfShown

LEMMA DeactivateKeeps == ASSUME SessionInv, NEW u \in Users, Deactivate(u) PROVE SessionInv'
  BY DEF Deactivate, SessionInv, SessionTypeOK, TokenOfShown, TransitionIsOwned, Queued

LEMMA SessionStepKeeps == ASSUME SessionInv, [SessionNext]_sessionVars PROVE SessionInv'
  <1>1. CASE UNCHANGED sessionVars
    BY <1>1 DEF sessionVars, SessionInv, SessionTypeOK, TokenOfShown, TransitionIsOwned, Queued
  <1> QED BY <1>1, RefreshWithoutTokenKeeps, RefreshBeginKeeps, RefreshEndKeeps, PageKeeps, ExpireKeeps,
             BeginKeeps, LoginDoneKeeps, CleanupEndKeeps, ServerAnswersKeeps, DeactivateKeeps DEF SessionNext

LEMMA SessionInductive == SessionSpec => []SessionInv
  <1> QED BY SessionStarts, SessionStepKeeps, PTL DEF SessionSpec

(* The tab is never stuck in an account transition: whoever will clear the   *)
(* mark is still under way and current.                                      *)
THEOREM TransitionAlwaysOwned == SessionSpec => []TransitionIsOwned
  <1>1. SessionInv => TransitionIsOwned
    BY DEF SessionInv
  <1> QED BY <1>1, SessionInductive, PTL

-----------------------------------------------------------------------------
(* The device beside it.                                                     *)
LEMMA DeviceStep == ASSUME [DeviceSystemNext]_deviceSystemVars PROVE [SessionNext]_sessionVars
  <1>1. CASE UNCHANGED deviceSystemVars
    BY <1>1 DEF deviceSystemVars, sessionVars
  <1>2. CASE AccountStep
    BY <1>2 DEF AccountStep, SessionNext
  <1>3. ASSUME NEW id \in OpIds, DetachBegin(id) \/ DetachSkipped(id) \/ DetachKeeps(id)
        PROVE [SessionNext]_sessionVars
    BY <1>3 DEF DetachBegin, DetachSkipped, DetachKeeps, SessionNext
  <1>4. CASE WriteStep \/ Focus \/ PermissionTaken \/ \E e \in Endpoints : EndpointGone(e)
    BY <1>4 DEF WriteStep, Focus, PermissionTaken, EndpointGone
  <1>5. ASSUME NEW c \in Checks,
               \/ RefreshDevice(c) \/ GuestChecked(c) \/ OwnerRead(c) \/ ConfigRead(c) \/ DeviceRead(c)
               \/ OwnerForgotten(c) \/ StatusRead(c) \/ Reset(c) \/ DropSubscription(c) \/ Mint(c)
               \/ Post(c) \/ Confirm(c) \/ Saved(c) \/ Restored(c) \/ Closed(c)
               \/ EnableBegin(c) \/ PromptAnswered(c) \/ CheckFails(c) \/ CheckTimesOut(c) \/ Abandon(c)
        PROVE UNCHANGED sessionVars
    BY <1>5 DEF RefreshDevice, GuestChecked, OwnerRead, ConfigRead, DeviceRead, OwnerForgotten, StatusRead,
           Reset, DropSubscription, Mint, Post, Confirm, Saved, Restored, Closed, EnableBegin, PromptAnswered,
           CheckFails, CheckTimesOut, Abandon
  <1> QED BY <1>1, <1>2, <1>3, <1>4, <1>5 DEF DeviceSystemNext, DeviceNext

(* The device takes no liberty with the session: composed with the device,   *)
(* whose cleanup of the marker ends each transition, the session still       *)
(* behaves as BrowserSession says, so what holds of the session holds there. *)
THEOREM DeviceKeepsSession == DeviceSystemSpec => SessionSpec
  <1> QED BY DeviceStep, PTL DEF DeviceSystemSpec, DeviceSystemInit, SessionSpec
-----------------------------------------------------------------------------
(* Who asks for the session, and that one transition is under way at a time. *)
Live(op) == op # Free /\ op.current
Moves(op) == Live(op) /\ op.kind \in {"login", "logout"}
OneTransition == \A id \in OpIds : Moves(ops[id]) =>
    /\ auth.transitioning
    /\ \A other \in OpIds \ {id} : Live(ops[other]) => ops[other].kind = "page"
RefreshAsksForSomebody == \A id \in OpIds : ops[id] # Free /\ ops[id].kind = "refresh" => ops[id].who # Guest
SignedOutIsGuest == signedOut => auth.user = Guest /\ auth.token = Guest

TransitionInv == OneTransition /\ RefreshAsksForSomebody /\ SignedOutIsGuest

LEMMA TransitionStarts == SessionInit => TransitionInv
  BY DEF SessionInit, TransitionInv, OneTransition, RefreshAsksForSomebody, SignedOutIsGuest, Moves, Live

(* Nothing becomes live: what is live was live, with the kind it has.        *)
LEMMA NobodyJoins == ASSUME OneTransition, auth'.transitioning = auth.transitioning,
                            \A id \in OpIds : Live(ops'[id]) => Live(ops[id]) /\ ops'[id].kind = ops[id].kind
    PROVE OneTransition'
  BY DEF OneTransition, Moves

(* A refresh or a page's request joins while no transition is marked.        *)
LEMMA AskerJoins == ASSUME OneTransition, NEW new \in OpIds, ops'[new].kind \notin {"login", "logout"},
                           ~auth.transitioning,
                           \A id \in OpIds : id # new /\ Live(ops'[id])
                               => Live(ops[id]) /\ ops'[id].kind = ops[id].kind
    PROVE OneTransition'
  BY DEF OneTransition, Moves

(* A transition begins or ends: nobody but the one named is live.            *)
LEMMA Alone == ASSUME NEW one \in OpIds, \A id \in OpIds : id # one => ~Live(ops'[id]),
                      Moves(ops'[one]) => auth'.transitioning
    PROVE OneTransition'
  BY DEF OneTransition, Moves

LEMMA SupersededFacts == ASSUME SessionTypeOK
    PROVE \A id \in OpIds : /\ ~Live(Superseded[id])
                            /\ ops[id] = Free <=> Superseded[id] = Free
                            /\ ops[id] # Free => /\ Superseded[id].kind = ops[id].kind
                                                /\ Superseded[id].who = ops[id].who
  <1> SUFFICES ASSUME NEW id \in OpIds, ops[id] # Free
               PROVE /\ ~Live(Superseded[id]) /\ Superseded[id] # Free
                     /\ Superseded[id].kind = ops[id].kind /\ Superseded[id].who = ops[id].who
    BY DEF Superseded, IsFree, Live
  <1>1. ops[id] \in Op
    BY DEF SessionTypeOK
  <1>2. Superseded[id] = [ops[id] EXCEPT !.current = FALSE]
    BY DEF Superseded, IsFree
  <1>3. [ops[id] EXCEPT !.current = FALSE] \in Op
    BY <1>1 DEF Op
  <1> QED BY <1>1, <1>2, <1>3 DEF Live, Op

LEMMA AskKeepsTransition == ASSUME SessionInv, TransitionInv, NEW id \in OpIds, RefreshBegin(id) \/ PageCall(id)
    PROVE TransitionInv'
  <1>1. PICK kind \in {"refresh", "page"} :
            /\ ops' = [ops EXCEPT ![id] = [kind |-> kind, who |-> auth.token, phase |-> "asked", current |-> TRUE]]
            /\ kind = "refresh" => ~auth.transitioning
            /\ auth.token # Guest
    BY DEF RefreshBegin, PageCall
  <1>2. ops[id] = Free /\ UNCHANGED <<auth, cleanups, active, signedOut>>
    BY DEF RefreshBegin, PageCall, IsFree
  <1>3. ops'[id].kind = kind /\ ops'[id].who # Guest /\ \A i \in OpIds : i # id => ops'[i] = ops[i]
    BY <1>1 DEF SessionInv, SessionTypeOK
  <1>4. OneTransition'
    <2>1. CASE kind = "page"
      BY <1>2, <1>3, <2>1 DEF TransitionInv, OneTransition, Moves, Live
    <2>2. CASE ~auth.transitioning
      <3>1. ops'[id].kind \notin {"login", "logout"}
        BY <1>3
      <3> QED BY <1>3, <2>2, <3>1, AskerJoins DEF TransitionInv
    <2> QED BY <1>1, <2>1, <2>2
  <1> QED BY <1>2, <1>3, <1>4 DEF TransitionInv, RefreshAsksForSomebody, SignedOutIsGuest

LEMMA EndKeepsTransition == ASSUME SessionInv, TransitionInv, NEW id \in OpIds,
                                   RefreshDone(id) \/ RefreshFailed(id) \/ PageAnswered(id)
    PROVE TransitionInv'
  <1>1. ops' = [ops EXCEPT ![id] = Free] /\ UNCHANGED <<cleanups, active, signedOut>>
    BY DEF RefreshDone, RefreshFailed, PageAnswered
  <1>2. ops'[id] = Free /\ \A i \in OpIds : i # id => ops'[i] = ops[i]
    BY <1>1 DEF SessionInv, SessionTypeOK
  <1>3. auth'.transitioning = auth.transitioning
    BY DEF RefreshDone, RefreshFailed, PageAnswered, SessionInv, SessionTypeOK
  <1>4. OneTransition'
    BY <1>2, <1>3, NobodyJoins DEF TransitionInv, Live
  <1>5. RefreshAsksForSomebody'
    BY <1>2 DEF TransitionInv, RefreshAsksForSomebody
  <1>6. SignedOutIsGuest'
    <2> SUFFICES ASSUME signedOut PROVE auth'.user = Guest /\ auth'.token = Guest
      BY <1>1 DEF SignedOutIsGuest
    <2>1. auth.user = Guest /\ auth.token = Guest
      BY DEF TransitionInv, SignedOutIsGuest
    <2>2. RefreshDone(id) => ops[id].who # Guest
      BY DEF RefreshDone, TransitionInv, RefreshAsksForSomebody
    <2> QED BY <2>1, <2>2 DEF RefreshDone, RefreshFailed, PageAnswered, StillMine, SessionInv, SessionTypeOK
  <1> QED BY <1>4, <1>5, <1>6 DEF TransitionInv

LEMMA ExpireKeepsTransition == ASSUME SessionInv, TransitionInv, NEW id \in OpIds, Expire(id) PROVE TransitionInv'
  <1>1. SignedOutIsGuest'
    BY DEF Expire, TransitionInv, SignedOutIsGuest, SessionInv, SessionTypeOK
  <1>2. CASE ops' = [ops EXCEPT ![id] = Free] /\ auth'.transitioning = auth.transitioning
    <2>1. ops'[id] = Free /\ \A i \in OpIds : i # id => ops'[i] = ops[i]
      BY <1>2 DEF SessionInv, SessionTypeOK
    <2>2. OneTransition'
      BY <1>2, <2>1, NobodyJoins DEF TransitionInv, Live
    <2> QED BY <1>1, <2>1, <2>2 DEF TransitionInv, RefreshAsksForSomebody
  <1>3. CASE ops' = [Superseded EXCEPT ![id] =
                       [kind |-> "expired", who |-> Guest, phase |-> "cleanup", current |-> TRUE]]
    <2>1. ops'[id].kind = "expired" /\ \A i \in OpIds : i # id => ops'[i] = Superseded[i]
      BY <1>3, SupersededTyped DEF SessionInv
    <2>2. OneTransition'
      BY <2>1, SupersededFacts, Alone DEF Moves, SessionInv
    <2>3. RefreshAsksForSomebody'
      BY <2>1, SupersededFacts DEF TransitionInv, RefreshAsksForSomebody, SessionInv
    <2> QED BY <1>1, <2>2, <2>3 DEF TransitionInv
  <1> QED BY <1>2, <1>3 DEF Expire, SessionInv, SessionTypeOK

LEMMA BeginKeepsTransition == ASSUME SessionInv, TransitionInv, NEW id \in OpIds,
                                     (\E u \in Users : LoginBegin(id, u)) \/ LogoutBegin(id)
    PROVE TransitionInv'
  <1>1. /\ auth' = [auth EXCEPT !.transitioning = TRUE] /\ UNCHANGED signedOut
        /\ \E kind \in {"login", "logout"}, who \in Users \cup {Guest} :
              ops' = [Superseded EXCEPT ![id] = [kind |-> kind, who |-> who, phase |-> "cleanup", current |-> TRUE]]
    BY DEF LogoutBegin, LoginBegin
  <1>2. PICK kind \in {"login", "logout"}, who \in Users \cup {Guest} :
            ops' = [Superseded EXCEPT ![id] = [kind |-> kind, who |-> who, phase |-> "cleanup", current |-> TRUE]]
    BY <1>1
  <1>3. ops'[id].kind = kind /\ \A i \in OpIds : i # id => ops'[i] = Superseded[i]
    BY <1>2, SupersededTyped DEF SessionInv
  <1>4. auth'.transitioning /\ auth'.user = auth.user /\ auth'.token = auth.token
    BY <1>1 DEF SessionInv, SessionTypeOK
  <1>5. OneTransition'
    BY <1>3, <1>4, SupersededFacts, Alone DEF SessionInv
  <1>6. RefreshAsksForSomebody'
    BY <1>3, SupersededFacts DEF TransitionInv, RefreshAsksForSomebody, SessionInv
  <1> QED BY <1>1, <1>4, <1>5, <1>6 DEF TransitionInv, SignedOutIsGuest

(* An answer, or the end of a cleanup, for the operation id.                 *)
LEMMA StepKeepsTransition == ASSUME SessionInv, TransitionInv, NEW id \in OpIds,
                                    LoginDone(id) \/ CleanupEnd(id) \/ ServerAnswers(id)
    PROVE TransitionInv'
  <1>1. ops[id] \in Op
    BY QueueShrinks DEF LoginDone, StillWanted, CleanupEnd, ServerAnswers, SessionInv, SessionTypeOK, Queued, Waits
  <1>2. /\ \A i \in OpIds : i # id => ops'[i] = ops[i]
        /\ \/ ops'[id] = Free
           \/ ops'[id].kind = ops[id].kind /\ ops'[id].current = ops[id].current /\ ops'[id].who = ops[id].who
    <2>1. \/ ops' = [ops EXCEPT ![id] = Free]
          \/ \E p \in Phases : ops' = [ops EXCEPT ![id].phase = p]
      BY DEF LoginDone, StillWanted, CleanupEnd, ServerAnswers, Phases
    <2> QED BY <1>1, <2>1 DEF Op, SessionInv, SessionTypeOK
  <1>3. RefreshAsksForSomebody'
    BY <1>1, <1>2 DEF TransitionInv, RefreshAsksForSomebody
  <1>4. SignedOutIsGuest'
    <2>1. CASE LoginDone(id)
      <3>1. \/ ~signedOut'
            \/ /\ signedOut' = signedOut
               /\ auth' = auth \/ auth' = [auth EXCEPT !.transitioning = FALSE, !.loading = FALSE]
        BY <2>1 DEF LoginDone, StillWanted
      <3>2. CASE ~signedOut'
        BY <3>2 DEF SignedOutIsGuest
      <3>3. CASE signedOut' = signedOut /\ (auth' = auth \/ auth' = [auth EXCEPT !.transitioning = FALSE, !.loading = FALSE])
        <4>1. auth'.user = auth.user /\ auth'.token = auth.token
          BY <3>3 DEF SessionInv, SessionTypeOK
        <4> QED BY <3>3, <4>1 DEF TransitionInv, SignedOutIsGuest
      <3> QED BY <3>1, <3>2, <3>3
    <2>2. CASE CleanupEnd(id)
      <3>1. \/ auth' = [auth EXCEPT !.user = Guest, !.token = Guest]
            \/ auth' = [user |-> Guest, token |-> Guest, transitioning |-> FALSE, loading |-> FALSE]
            \/ UNCHANGED <<auth, signedOut>>
        BY <2>2 DEF CleanupEnd
      <3>2. CASE UNCHANGED <<auth, signedOut>>
        BY <3>2 DEF TransitionInv, SignedOutIsGuest
      <3>3. CASE auth' = [auth EXCEPT !.user = Guest, !.token = Guest]
        BY <3>3 DEF SignedOutIsGuest, SessionInv, SessionTypeOK
      <3>4. CASE auth' = [user |-> Guest, token |-> Guest, transitioning |-> FALSE, loading |-> FALSE]
        BY <3>4 DEF SignedOutIsGuest
      <3> QED BY <3>1, <3>2, <3>3, <3>4
    <2>3. CASE ServerAnswers(id)
      BY <2>3 DEF ServerAnswers, TransitionInv, SignedOutIsGuest
    <2> QED BY <2>1, <2>2, <2>3
  <1>5. \A i \in OpIds : Live(ops'[i]) => Live(ops[i]) /\ ops'[i].kind = ops[i].kind
    BY <1>1, <1>2 DEF Live
  <1>6. CASE auth'.transitioning = auth.transitioning
    BY <1>3, <1>4, <1>5, <1>6, NobodyJoins DEF TransitionInv
  <1>7. CASE auth'.transitioning # auth.transitioning
    <2>1. ops[id].current /\ ops[id].kind \in {"login", "logout"} /\ ops'[id] = Free
      BY <1>7 DEF LoginDone, StillWanted, CleanupEnd, ServerAnswers, SessionInv, SessionTypeOK
    <2>2. Moves(ops[id])
      BY <1>1, <2>1 DEF Moves, Live
    <2>3. \A i \in OpIds : ~Moves(ops'[i])
      BY <1>5, <2>1, <2>2 DEF TransitionInv, OneTransition, Moves, Live
    <2> QED BY <1>3, <1>4, <2>3 DEF TransitionInv, OneTransition
  <1> QED BY <1>6, <1>7

LEMMA TransitionStepKeeps == ASSUME SessionInv, TransitionInv, [SessionNext]_sessionVars PROVE TransitionInv'
  <1>1. CASE UNCHANGED sessionVars
    BY <1>1 DEF sessionVars, TransitionInv, OneTransition, RefreshAsksForSomebody, SignedOutIsGuest
  <1>2. CASE RefreshWithoutToken
    <2>1. UNCHANGED <<ops, signedOut>> /\ auth'.user = Guest /\ auth'.token = auth.token
          /\ auth'.transitioning = auth.transitioning
      BY <1>2 DEF RefreshWithoutToken, SessionInv, SessionTypeOK
    <2> QED BY <2>1 DEF TransitionInv, OneTransition, RefreshAsksForSomebody, SignedOutIsGuest
  <1>3. CASE \E u \in Users : Deactivate(u)
    BY <1>3 DEF Deactivate, TransitionInv, OneTransition, RefreshAsksForSomebody, SignedOutIsGuest
  <1> QED BY <1>1, <1>2, <1>3, AskKeepsTransition, EndKeepsTransition, ExpireKeepsTransition, BeginKeepsTransition,
             StepKeepsTransition DEF SessionNext

LEMMA TransitionInductive == SessionSpec => [](SessionInv /\ TransitionInv)
  <1>1. ASSUME SessionInv, TransitionInv, [SessionNext]_sessionVars PROVE SessionInv' /\ TransitionInv'
    BY <1>1, SessionStepKeeps, TransitionStepKeeps
  <1> QED BY <1>1, SessionStarts, TransitionStarts, PTL DEF SessionSpec

(* While a sign-in waits for its answer nobody is signed in.                 *)
SignInIsClean == \A id \in OpIds : Asking(ops[id]) => auth.user = Guest /\ auth.token = Guest

LEMMA CleanStarts == SessionInit => SignInIsClean
  BY DEF SessionInit, SignInIsClean, Asking

(* No sign-in begins to ask and the account stays, or nobody is signed in.   *)
LEMMA CleanStays ==
    ASSUME SignInIsClean,
           \A id \in OpIds : Asking(ops'[id]) => Asking(ops[id]) \/ (auth'.user = Guest /\ auth'.token = Guest),
           (auth'.user = auth.user /\ auth'.token = auth.token) \/ (auth'.user = Guest /\ auth'.token = Guest)
    PROVE SignInIsClean'
  BY DEF SignInIsClean

LEMMA RefreshKeepsClean == ASSUME SessionInv, TransitionInv, SignInIsClean, NEW id \in OpIds, RefreshDone(id) PROVE SignInIsClean'
  <1>1. /\ ops' = [ops EXCEPT ![id] = Free] /\ ops[id] # Free /\ ops[id].kind = "refresh"
        /\ ~StillMine(ops[id]) => auth' = auth
    BY DEF RefreshDone
  <1>2. \A i \in OpIds : Asking(ops'[i]) => i # id /\ Asking(ops[i])
    BY <1>1 DEF Asking, SessionInv, SessionTypeOK
  <1>3. CASE StillMine(ops[id])
    <2>1. Live(ops[id])
      BY <1>1, <1>3 DEF Live, StillMine
    <2>2. \A i \in OpIds : Asking(ops[i]) => Moves(ops[i])
      BY DEF Asking, Moves, Live
    <2>3. \A i \in OpIds \ {id} : ~Asking(ops[i])
      BY <1>1, <2>1, <2>2 DEF TransitionInv, OneTransition
    <2> QED BY <1>2, <2>3 DEF SignInIsClean
  <1>4. CASE ~StillMine(ops[id])
    BY <1>1, <1>2, <1>4, CleanStays
  <1> QED BY <1>3, <1>4

LEMMA LoginDoneKeepsClean == ASSUME SessionInv, TransitionInv, SignInIsClean, NEW id \in OpIds, LoginDone(id) PROVE SignInIsClean'
  <1>1. /\ ops' = [ops EXCEPT ![id] = Free] /\ ops[id] # Free /\ ops[id].kind = "login"
        /\ ~ops[id].current => auth' = auth
    BY DEF LoginDone, StillWanted
  <1>2. \A i \in OpIds : Asking(ops'[i]) => i # id /\ Asking(ops[i])
    BY <1>1 DEF Asking, SessionInv, SessionTypeOK
  <1>3. CASE ops[id].current
    <2>1. Moves(ops[id])
      BY <1>1, <1>3 DEF Moves, Live
    <2>2. \A i \in OpIds : Asking(ops[i]) => Live(ops[i]) /\ ops[i].kind = "login"
      BY DEF Asking, Live
    <2>3. \A i \in OpIds \ {id} : ~Asking(ops[i])
      BY <2>1, <2>2 DEF TransitionInv, OneTransition
    <2> QED BY <1>2, <2>3 DEF SignInIsClean
  <1>4. CASE ~ops[id].current
    BY <1>1, <1>2, <1>4, CleanStays
  <1> QED BY <1>3, <1>4

LEMMA CleanupKeepsClean == ASSUME SessionInv, SignInIsClean, NEW id \in OpIds, CleanupEnd(id) PROVE SignInIsClean'
  <1>1. id \in OpIds /\ (\A i \in OpIds \ {id} : ops'[i] = ops[i])
    BY DEF CleanupEnd, SessionInv, SessionTypeOK
  <1>2. CASE UNCHANGED auth
    <2>1. ~(ops[id].kind = "login" /\ ops[id].current) => ops'[id] = Free
      BY DEF CleanupEnd, SessionInv, SessionTypeOK
    <2>2. ops[id].kind = "login" /\ ops[id].current => auth'.user = Guest /\ auth'.token = Guest
      BY DEF CleanupEnd, SessionInv, SessionTypeOK
    <2> QED BY <1>1, <1>2, <2>1, <2>2, CleanStays DEF Asking
  <1>3. CASE auth'.user = Guest /\ auth'.token = Guest
    BY <1>3 DEF SignInIsClean
  <1>4. CASE auth' = [auth EXCEPT !.user = Guest, !.token = Guest]
    <2>1. auth'.user = Guest /\ auth'.token = Guest
      BY <1>4 DEF SessionInv, SessionTypeOK
    <2> QED BY <2>1, <1>3
  <1>5. CASE auth' = [user |-> Guest, token |-> Guest, transitioning |-> FALSE, loading |-> FALSE]
    <2>1. auth'.user = Guest /\ auth'.token = Guest
      BY <1>5
    <2> QED BY <2>1, <1>3
  <1>6. \/ auth' = [auth EXCEPT !.user = Guest, !.token = Guest]
        \/ auth' = [user |-> Guest, token |-> Guest, transitioning |-> FALSE, loading |-> FALSE]
        \/ UNCHANGED auth
    BY DEF CleanupEnd
  <1> QED BY <1>2, <1>4, <1>5, <1>6

LEMMA BeginKeepsClean == ASSUME SessionInv, SignInIsClean, NEW id \in OpIds,
                                (\E u \in Users : LoginBegin(id, u)) \/ LogoutBegin(id)
    PROVE SignInIsClean'
  <1>1. \E kind \in Kinds, who \in Users \cup {Guest} :
            ops' = [Superseded EXCEPT ![id] = [kind |-> kind, who |-> who, phase |-> "cleanup", current |-> TRUE]]
    BY DEF LogoutBegin, LoginBegin, Kinds
  <1>2. ops'[id].phase = "cleanup" /\ \A i \in OpIds : i # id => ops'[i] = Superseded[i]
    BY <1>1, SupersededTyped DEF SessionInv
  <1>3. \A i \in OpIds : ~Asking(ops'[i])
    BY <1>2, SupersededFacts DEF Asking, Live, SessionInv
  <1> QED BY <1>3 DEF SignInIsClean

LEMMA ExpireKeepsClean == ASSUME SessionInv, SignInIsClean, NEW id \in OpIds, Expire(id) PROVE SignInIsClean'
  <1>1. \/ auth' = auth
        \/ auth' = [auth EXCEPT !.user = Guest, !.token = Guest, !.loading = FALSE]
    BY DEF Expire
  <1>2. CASE auth' = [auth EXCEPT !.user = Guest, !.token = Guest, !.loading = FALSE]
    BY <1>2 DEF SignInIsClean, SessionInv, SessionTypeOK
  <1>3. CASE auth' = auth /\ ~(auth' = [auth EXCEPT !.user = Guest, !.token = Guest, !.loading = FALSE])
    <2>1. ops' = [ops EXCEPT ![id] = Free]
      BY <1>3 DEF Expire
    <2>2. \A i \in OpIds : Asking(ops'[i]) => Asking(ops[i])
      BY <2>1 DEF Asking, SessionInv, SessionTypeOK
    <2> QED BY <1>3, <2>2, CleanStays
  <1> QED BY <1>1, <1>2, <1>3

(* The other steps: whoever asks asked before, and nobody else signs in.     *)
LEMMA OthersKeepClean ==
    ASSUME SessionInv, SignInIsClean, NEW id \in OpIds,
           RefreshBegin(id) \/ PageCall(id) \/ PageAnswered(id) \/ RefreshFailed(id) \/ ServerAnswers(id)
    PROVE SignInIsClean'
  <1>1. \/ auth'.user = auth.user /\ auth'.token = auth.token
        \/ auth'.user = Guest /\ auth'.token = Guest
    BY DEF RefreshBegin, PageCall, PageAnswered, RefreshFailed, ServerAnswers, SessionInv, SessionTypeOK
  <1>2. \A i \in OpIds : i # id => ops'[i] = ops[i]
    BY DEF RefreshBegin, PageCall, PageAnswered, RefreshFailed, ServerAnswers, SessionInv, SessionTypeOK
  <1>3. CASE ServerAnswers(id)
    <2>1. PICK outcome : ops' = [ops EXCEPT ![id].phase = outcome]
      BY <1>3 DEF ServerAnswers
    <2>2. ops[id] \in Op /\ ops[id].phase = "asked"
      BY <1>3 DEF ServerAnswers, SessionInv, SessionTypeOK
    <2>3. ops'[id].kind = ops[id].kind /\ ops'[id].current = ops[id].current
      BY <2>1, <2>2 DEF Op, SessionInv, SessionTypeOK
    <2>4. Asking(ops'[id]) => Asking(ops[id])
      BY <2>2, <2>3 DEF Asking
    <2> QED BY <1>1, <1>2, <2>4, CleanStays
  <1>4. CASE RefreshBegin(id) \/ PageCall(id) \/ PageAnswered(id) \/ RefreshFailed(id)
    <2>1. \/ ops' = [ops EXCEPT ![id] = Free]
          \/ \E kind \in {"refresh", "page"} :
                ops' = [ops EXCEPT ![id] = [kind |-> kind, who |-> auth.token, phase |-> "asked", current |-> TRUE]]
      BY <1>4 DEF RefreshBegin, PageCall, PageAnswered, RefreshFailed
    <2>2. ~Asking(ops'[id])
      BY <2>1 DEF Asking, SessionInv, SessionTypeOK
    <2> QED BY <1>1, <1>2, <2>2, CleanStays
  <1> QED BY <1>3, <1>4

LEMMA CleanStepKeeps == ASSUME SessionInv, TransitionInv, SignInIsClean, [SessionNext]_sessionVars PROVE SignInIsClean'
  <1>1. CASE UNCHANGED sessionVars
    BY <1>1 DEF sessionVars, SignInIsClean
  <1>2. CASE RefreshWithoutToken
    BY <1>2 DEF RefreshWithoutToken, SignInIsClean, SessionInv, SessionTypeOK
  <1>3. CASE \E u \in Users : Deactivate(u)
    BY <1>3 DEF Deactivate, SignInIsClean
  <1> QED BY <1>1, <1>2, <1>3, RefreshKeepsClean, LoginDoneKeepsClean, CleanupKeepsClean, BeginKeepsClean, ExpireKeepsClean,
             OthersKeepClean DEF SessionNext

(* The account on the screen is always the one whose token the requests      *)
(* send, and nobody is signed in while a sign-in waits for its answer,       *)
(* however late the answers of earlier sessions and superseded sign-ins come. *)
THEOREM ShownAccountAlwaysHoldsToken == SessionSpec => []ShownAccountHoldsToken
  <1>1. SessionInv /\ SignInIsClean => ShownAccountHoldsToken
    BY DEF SessionInv, TokenOfShown, SignInIsClean, ShownAccountHoldsToken
  <1>2. ASSUME SessionInv, TransitionInv, SignInIsClean, [SessionNext]_sessionVars
        PROVE SessionInv' /\ TransitionInv' /\ SignInIsClean'
    BY <1>2, SessionStepKeeps, TransitionStepKeeps, CleanStepKeeps
  <1> QED BY <1>1, <1>2, SessionStarts, TransitionStarts, CleanStarts, PTL DEF SessionSpec

-----------------------------------------------------------------------------
(* The marker of the device.                                                 *)
Past == {"status", "restored", "reset", "drop", "mint", "post", "confirm", "saved"}
Marking == {"saved", "restored"}

(* What a run knows at the place it is at: past the reading of the device it  *)
(* has no other account's enrolment before it, and it never marks without an  *)
(* endpoint.                                                                  *)
RunOK(r) ==
    /\ r.phase.at \in {"writing", r.phase.next}
    /\ r.user = Guest <=> r.phase.next = "guest"
    /\ r.kind = "enable" => r.owner = NoMark
    /\ r.phase.next \in Past => ~Foreign(r)
    /\ r.phase.next \in Past \ {"drop", "mint"} => r.endpoint # None

RunsFit == \A c \in Checks : checks[c] # Free => RunOK(checks[c])

(* At most one run is valid, and it is of the account on the screen.          *)
Valid(c) == checks[c] # Free /\ checks[c].valid
OneValid == \A c, d \in Checks : Valid(c) /\ Valid(d) => c = d
ValidIsMine == \A c \in Checks : Valid(c) => checks[c].user = auth.user

(* The write a valid run waits for is the last of the queue; when it marked   *)
(* the device, nothing came after it.                                         *)
WrittenLast == \A c \in Checks : Valid(c) =>
    /\ checks[c].phase.at = "writing" => writes # <<>> /\ writes[Len(writes)].waiter = c
    /\ checks[c].phase.at \in Marking =>
         /\ writes = <<>> /\ idb.owner = idb.current
         /\ idb.current = Mark(checks[c].user, checks[c].endpoint)

(* A queued write is the one its run waits for.                               *)
FitsWrite(w, runs, where) ==
    /\ w.waiter \in Checks =>
         /\ runs[w.waiter] # Free /\ runs[w.waiter].phase.at = "writing"
         /\ w.do = "read" => runs[w.waiter].phase.next = "owner" /\ runs[w.waiter].kind = "refresh"
         /\ runs[w.waiter].phase.next \in Marking =>
               w = Put(Mark(runs[w.waiter].user, runs[w.waiter].endpoint), w.waiter)
    /\ w.waiter = "detach" => where = "writing" /\ w = Put(NoMark, "detach")
Awaited == \A n \in 1 .. Len(writes) : FitsWrite(writes[n], checks, detach)
AwaitedOnce == \A m, n \in 1 .. Len(writes) :
    writes[m].waiter = writes[n].waiter /\ writes[m].waiter # "nobody" => m = n

(* While an endpoint is verified, every marker there is or will be is of the  *)
(* account on the screen.                                                     *)
MarkersMine(who) == \A n \in 1 .. Len(writes) : writes[n].do = "put" => writes[n].value.user = who
VerifiedIsMine == push.verified # None =>
    /\ idb.current.user = auth.user
    /\ idb.owner = NoMark \/ idb.owner.user = auth.user
    /\ MarkersMine(auth.user)
    /\ \A c \in Checks : Valid(c) => ~Foreign(checks[c])
ReadyIsVerified == auth.user # Guest /\ push.state = "ready" /\ config.enabled => push.verified # None

(* A sign-out that reached its cleanup: no check of the account is left, and  *)
(* nothing marks the device behind the write that withdraws the marker.       *)
Silent(k) == \A n \in 1 .. Len(writes) : n >= k /\ writes[n].do = "put" => writes[n].value = NoMark
Quiet == idb.current = NoMark /\ Silent(1)
Leaving == detach # "idle" /\ ops[Head(cleanups)].kind = "logout" /\ ops[Head(cleanups)].current
LeavesQuiet == Leaving =>
    /\ auth.user # Guest => push.detaching /\ \A c \in Checks : ~Valid(c)
    /\ \A n \in 1 .. Len(writes) : writes[n].waiter = "detach" => Silent(n)
    /\ detach = "written" => Quiet
SignedOutIsQuiet == signedOut => Quiet
DetachHasCleanup == detach # "idle" => cleanups # <<>>

DeviceInv ==
    /\ SessionInv /\ TransitionInv
    /\ DeviceTypeOK /\ DetachHasCleanup /\ RunsFit
    /\ OneValid /\ ValidIsMine /\ WrittenLast /\ Awaited /\ AwaitedOnce
    /\ VerifiedIsMine /\ ReadyIsVerified /\ LeavesQuiet /\ SignedOutIsQuiet

USE EndpointsAreNumbers, FreeIsNoRun, ChecksAreRuns

LEMMA AppendFacts == ASSUME NEW S, NEW q \in Seq(S), NEW w \in S
    PROVE /\ Append(q, w) \in Seq(S) /\ Append(q, w) # <<>> /\ Len(q) \in Nat /\ Len(Append(q, w)) = Len(q) + 1
          /\ Append(q, w)[Len(q) + 1] = w
          /\ \A n \in 1 .. Len(q) : Append(q, w)[n] = q[n] /\ q[n] \in S
          /\ \A n \in 1 .. Len(q) + 1 : n = Len(q) + 1 \/ n \in 1 .. Len(q)
  OBVIOUS

LEMMA TailFacts == ASSUME NEW S, NEW q \in Seq(S), q # <<>>
    PROVE /\ Tail(q) \in Seq(S) /\ Len(q) \in Nat /\ Len(q) >= 1 /\ Len(Tail(q)) = Len(q) - 1
          /\ Head(q) = q[1] /\ Head(q) \in S
          /\ \A n \in 1 .. Len(Tail(q)) : Tail(q)[n] = q[n + 1] /\ n + 1 \in 1 .. Len(q) /\ n + 1 # 1
  OBVIOUS

LEMMA StaleFacts == ASSUME DeviceTypeOK, RunsFit
    PROVE /\ Stale \in [Checks -> Run \cup {Free}]
          /\ \A c \in Checks : /\ Stale[c] = Free <=> checks[c] = Free
                               /\ checks[c] # Free =>
                                    /\ ~Stale[c].valid /\ RunOK(Stale[c])
                                    /\ Stale[c].phase = checks[c].phase /\ Stale[c].kind = checks[c].kind
                                    /\ Stale[c].user = checks[c].user /\ Stale[c].endpoint = checks[c].endpoint
  <1>1. \A c \in Checks : Stale[c] = IF checks[c] = Free THEN Free ELSE [checks[c] EXCEPT !.valid = FALSE]
    BY DEF Stale
  <1> HIDE DEF Stale
  <1>2. \A r \in Run : /\ [r EXCEPT !.valid = FALSE] \in Run
                       /\ ~[r EXCEPT !.valid = FALSE].valid
                       /\ [r EXCEPT !.valid = FALSE].phase = r.phase /\ [r EXCEPT !.valid = FALSE].kind = r.kind
                       /\ [r EXCEPT !.valid = FALSE].user = r.user /\ [r EXCEPT !.valid = FALSE].owner = r.owner
                       /\ [r EXCEPT !.valid = FALSE].endpoint = r.endpoint
    BY DEF Run
  <1>3. \A c \in Checks : checks[c] # Free => checks[c] \in Run /\ RunOK(checks[c])
    BY DEF DeviceTypeOK, RunsFit
  <1>4. Stale \in [Checks -> Run \cup {Free}]
    BY <1>2, <1>3 DEF Stale
  <1>5. ASSUME NEW c \in Checks, checks[c] # Free
        PROVE /\ Stale[c] # Free /\ ~Stale[c].valid /\ RunOK(Stale[c])
              /\ Stale[c].phase = checks[c].phase /\ Stale[c].kind = checks[c].kind
              /\ Stale[c].user = checks[c].user /\ Stale[c].endpoint = checks[c].endpoint
    <2> DEFINE r == checks[c]
               s == Stale[c]
    <2>1. s = [r EXCEPT !.valid = FALSE] /\ r \in Run /\ RunOK(r)
      BY <1>1, <1>3, <1>5
    <2> HIDE DEF r, s
    <2>2. s # Free /\ ~s.valid /\ s.phase = r.phase /\ s.kind = r.kind /\ s.user = r.user
          /\ s.endpoint = r.endpoint /\ s.owner = r.owner
      BY <1>2, <2>1
    <2>3. RunOK(s)
      BY <2>1, <2>2 DEF RunOK, Foreign
    <2> QED BY <2>2, <2>3 DEF r, s
  <1> QED BY <1>1, <1>4, <1>5

LEMMA DeviceStarts == DeviceSystemInit => DeviceInv
  <1> SUFFICES ASSUME DeviceSystemInit PROVE DeviceInv
    OBVIOUS
  <1>1. SessionInv /\ TransitionInv
    BY SessionStarts, TransitionStarts DEF DeviceSystemInit
  <1>8. auth.user = Guest /\ signedOut = FALSE
    BY DEF DeviceSystemInit, SessionInit
  <1>2. /\ push = Mounted /\ checks = [c \in Checks |-> Free] /\ detach = "idle" /\ writes = <<>> /\ config \in Configs
    BY DEF DeviceSystemInit, DeviceInit
  <1>3. 1 \in Endpoints
    BY DEF Endpoints
  <1>4. NoMark \in Marks /\ \A u \in Users : Mark(u, 1) \in Marks
    BY <1>3 DEF Marks, NoMark, Mark
  <1>5. /\ idb \in [current: Marks, owner: Marks]
        /\ browser \in [permission: {"default", "granted", "denied"}, sub: {None} \cup Endpoints,
                        minted: {None} \cup Endpoints, oldKey: BOOLEAN]
        /\ subs \in [Endpoints -> Users \cup {Guest}]
    <2>1. CASE /\ browser = [permission |-> "default", sub |-> None, minted |-> 0, oldKey |-> FALSE]
               /\ subs = [e \in Endpoints |-> Guest]
               /\ idb = [current |-> NoMark, owner |-> NoMark]
      BY <1>4, <2>1 DEF None
    <2>2. ASSUME NEW u \in Users, NEW old \in BOOLEAN, NEW marked \in {NoMark, Mark(u, 1)},
                 browser = [permission |-> "granted", sub |-> 1, minted |-> 1, oldKey |-> old],
                 subs = [e \in Endpoints |-> IF e = 1 THEN u ELSE Guest],
                 idb = [current |-> marked, owner |-> Mark(u, 1)]
          PROVE /\ idb \in [current: Marks, owner: Marks]
                /\ browser \in [permission: {"default", "granted", "denied"}, sub: {None} \cup Endpoints,
                                minted: {None} \cup Endpoints, oldKey: BOOLEAN]
                /\ subs \in [Endpoints -> Users \cup {Guest}]
      BY <1>3, <1>4, <2>2
    <2> QED BY <2>1, <2>2 DEF DeviceSystemInit, DeviceInit
  <1>6. Mounted \in PushStates
    BY <1>4 DEF Mounted, PushStates, None
  <1>7. DeviceTypeOK
    BY <1>2, <1>5, <1>6 DEF DeviceTypeOK
  <1> QED BY <1>1, <1>2, <1>7, <1>8 DEF DeviceInv, DetachHasCleanup, RunsFit, OneValid, ValidIsMine, WrittenLast,
             Awaited, AwaitedOnce, VerifiedIsMine, ReadyIsVerified, LeavesQuiet, Leaving, SignedOutIsQuiet,
             Valid, Mounted

(* What a step leaves of the runs that wait, and with it of the queue.       *)
KeepsWaiting == \A d \in Checks : checks[d] # Free /\ checks[d].phase.at = "writing" =>
    /\ checks'[d] # Free /\ checks'[d].phase = checks[d].phase /\ checks'[d].kind = checks[d].kind
    /\ checks'[d].user = checks[d].user /\ checks'[d].endpoint = checks[d].endpoint

LEMMA WritesFit == ASSUME DeviceTypeOK, Awaited, KeepsWaiting, detach' = detach \/ detach # "writing"
    PROVE \A n \in 1 .. Len(writes) : FitsWrite(writes[n], checks', detach')
  BY DEF Awaited, FitsWrite, KeepsWaiting

LEMMA QueueSame == ASSUME DeviceTypeOK, Awaited, AwaitedOnce, KeepsWaiting, UNCHANGED <<detach, writes>>
    PROVE Awaited' /\ AwaitedOnce'
  BY WritesFit DEF Awaited, AwaitedOnce

LEMMA QueueLonger == ASSUME DeviceTypeOK, Awaited, AwaitedOnce, KeepsWaiting, detach' = detach \/ detach # "writing",
                            NEW w \in Write, writes' = Append(writes, w), FitsWrite(w, checks', detach'),
                            w.waiter # "nobody" => \A n \in 1 .. Len(writes) : writes[n].waiter # w.waiter
    PROVE Awaited' /\ AwaitedOnce'
  <1>1. \A n \in 1 .. Len(writes) : FitsWrite(writes[n], checks', detach')
    BY WritesFit
  <1>2. /\ Len(writes) \in Nat /\ Len(writes') = Len(writes) + 1 /\ writes'[Len(writes) + 1] = w
        /\ \A n \in 1 .. Len(writes) : writes'[n] = writes[n]
        /\ \A n \in 1 .. Len(writes) + 1 : n = Len(writes) + 1 \/ n \in 1 .. Len(writes)
    BY AppendFacts DEF DeviceTypeOK
  <1>3. Awaited'
    <2> SUFFICES ASSUME NEW n \in 1 .. Len(writes') PROVE FitsWrite(writes'[n], checks', detach')
      BY DEF Awaited
    <2> QED BY <1>1, <1>2
  <1>4. AwaitedOnce'
    BY <1>2 DEF AwaitedOnce
  <1> QED BY <1>3, <1>4

(* Appending a write that puts no marker, or puts NoMark or an account's own. *)
LEMMA SilentLonger == ASSUME DeviceTypeOK, NEW w \in Write, writes' = Append(writes, w),
                             w.do = "put" => w.value = NoMark
    PROVE \A k \in Nat : Silent(k) => Silent(k)'
  <1>1. /\ Len(writes) \in Nat /\ Len(writes') = Len(writes) + 1 /\ writes'[Len(writes) + 1] = w
        /\ \A n \in 1 .. Len(writes) : writes'[n] = writes[n]
        /\ \A n \in 1 .. Len(writes) + 1 : n = Len(writes) + 1 \/ n \in 1 .. Len(writes)
    BY AppendFacts DEF DeviceTypeOK
  <1> QED BY <1>1 DEF Silent

LEMMA MineLonger == ASSUME DeviceTypeOK, NEW w \in Write, writes' = Append(writes, w), NEW who, MarkersMine(who),
                           w.do = "put" => w.value.user = who
    PROVE MarkersMine(who)'
  <1>1. /\ Len(writes) \in Nat /\ Len(writes') = Len(writes) + 1 /\ writes'[Len(writes) + 1] = w
        /\ \A n \in 1 .. Len(writes) : writes'[n] = writes[n]
        /\ \A n \in 1 .. Len(writes) + 1 : n = Len(writes) + 1 \/ n \in 1 .. Len(writes)
    BY AppendFacts DEF DeviceTypeOK
  <1> QED BY <1>1 DEF MarkersMine

(* A run goes one step on, and writes nothing.                               *)
Calm == UNCHANGED <<sessionVars, idb, config>> /\ DeviceTypeOK' /\ SessionInv' /\ TransitionInv'
MovesOn(c, r) ==
    /\ Calm /\ UNCHANGED <<detach, writes>>
    /\ checks[c] # Free /\ checks[c].phase.at # "writing" /\ checks' = [checks EXCEPT ![c] = r]
    /\ r # Free => /\ RunOK(r) /\ r.user = checks[c].user /\ r.owner = checks[c].owner
                   /\ r.valid => checks[c].valid
                   /\ r.phase.at \notin Marking \cup {"writing"}
    /\ push'.detaching = push.detaching
    /\ push'.verified # None => push.verified # None \/ (checks[c].valid /\ checks[c].phase.at \in Marking)
    /\ ReadyIsVerified'

LEMMA MoveKeeps == ASSUME DeviceInv, NEW c \in Checks, NEW r, MovesOn(c, r) PROVE DeviceInv'
  <1>1. checks'[c] = r /\ \A d \in Checks : d # c => checks'[d] = checks[d]
    BY DEF MovesOn, DeviceInv, DeviceTypeOK
  <1>2. \A d \in Checks : Valid(d)' =>
            /\ Valid(d) /\ checks'[d].user = checks[d].user /\ checks'[d].owner = checks[d].owner
            /\ d = c => checks'[d].phase.at \notin Marking \cup {"writing"}
    BY <1>1 DEF MovesOn, Valid
  <1>3. RunsFit'
    BY <1>1 DEF MovesOn, DeviceInv, RunsFit
  <1>4. OneValid' /\ ValidIsMine'
    BY <1>2 DEF MovesOn, Calm, sessionVars, DeviceInv, OneValid, ValidIsMine
  <1>5. WrittenLast'
    BY <1>1, <1>2 DEF MovesOn, Calm, DeviceInv, WrittenLast, Valid
  <1>6. KeepsWaiting
    BY <1>1 DEF MovesOn, KeepsWaiting
  <1>7. Awaited' /\ AwaitedOnce'
    BY <1>6, QueueSame DEF MovesOn, DeviceInv
  <1>8. VerifiedIsMine'
    <2>1. CASE push.verified # None
      BY <1>2, <2>1 DEF MovesOn, Calm, sessionVars, DeviceInv, VerifiedIsMine, MarkersMine, Foreign
    <2>2. CASE Valid(c) /\ checks[c].phase.at \in Marking
      <3>1. /\ writes = <<>> /\ idb.owner = idb.current /\ idb.current.user = auth.user
        <4>1. WrittenLast /\ ValidIsMine
          BY DEF DeviceInv
        <4>2. writes = <<>> /\ idb.owner = idb.current /\ idb.current = Mark(checks[c].user, checks[c].endpoint)
          BY <2>2, <4>1 DEF WrittenLast
        <4>3. checks[c].user = auth.user
          BY <2>2, <4>1 DEF ValidIsMine
        <4> QED BY <4>2, <4>3 DEF Mark
      <3>2. ~Foreign(checks[c])
        BY <2>2 DEF DeviceInv, RunsFit, RunOK, Valid, Marking, Past
      <3>3. \A d \in Checks : Valid(d)' => ~Foreign(checks'[d])
        BY <1>1, <1>2, <2>2, <3>2 DEF DeviceInv, OneValid, MovesOn, Foreign
      <3> QED BY <3>1, <3>3 DEF MovesOn, Calm, sessionVars, VerifiedIsMine, MarkersMine
    <2> QED BY <2>1, <2>2 DEF MovesOn, VerifiedIsMine, Valid
  <1>9. LeavesQuiet' /\ SignedOutIsQuiet' /\ DetachHasCleanup'
    BY <1>2 DEF MovesOn, Calm, sessionVars, DeviceInv, LeavesQuiet, Leaving, SignedOutIsQuiet, Quiet, Silent, DetachHasCleanup
  <1> QED BY <1>3, <1>4, <1>5, <1>7, <1>8, <1>9 DEF MovesOn, Calm, DeviceInv

(* A valid run queues a write and waits for it.                              *)
Queues(c, r, w) ==
    /\ Calm /\ detach' = detach
    /\ Valid(c) /\ checks[c].phase.at # "writing" /\ checks' = [checks EXCEPT ![c] = r]
    /\ r # Free /\ RunOK(r) /\ r.phase.at = "writing"
    /\ r.user = checks[c].user /\ r.owner = checks[c].owner
    /\ w \in Write /\ w.waiter = c /\ w.do # "read" /\ writes' = Append(writes, w)
    /\ r.phase.next \in Marking => w = Put(Mark(r.user, r.endpoint), c)
    /\ w.do = "put" => w.value = NoMark \/ (w.value.user = r.user /\ r.user # Guest)
    /\ push'.detaching = push.detaching
    /\ push'.verified # None => /\ push.verified # None
                                /\ w.do = "put" => w.value.user = r.user \/ Foreign(checks[c])
    /\ ReadyIsVerified'

LEMMA QueueKeeps == ASSUME DeviceInv, NEW c \in Checks, NEW r, NEW w, Queues(c, r, w) PROVE DeviceInv'
  <1>1. checks'[c] = r /\ \A d \in Checks : d # c => checks'[d] = checks[d]
    BY DEF Queues, DeviceInv, DeviceTypeOK
  <1>2. \A d \in Checks : Valid(d)' => d = c
    BY <1>1 DEF Queues, DeviceInv, OneValid, Valid
  <1>3. RunsFit'
    BY <1>1 DEF Queues, DeviceInv, RunsFit
  <1>4. r.user = auth.user
    BY DEF Queues, DeviceInv, ValidIsMine
  <1>5. OneValid' /\ ValidIsMine'
    BY <1>1, <1>2, <1>4 DEF Queues, Calm, sessionVars, OneValid, ValidIsMine
  <1>6. /\ Len(writes) \in Nat /\ writes' # <<>> /\ Len(writes') = Len(writes) + 1 /\ writes'[Len(writes) + 1] = w
    BY AppendFacts DEF Queues, DeviceInv, DeviceTypeOK
  <1>7. WrittenLast'
    BY <1>1, <1>2, <1>6 DEF Queues, WrittenLast, Marking
  <1>8. KeepsWaiting
    BY <1>1 DEF Queues, KeepsWaiting
  <1>9. \A n \in 1 .. Len(writes) : writes[n].waiter # c
    BY DEF Queues, DeviceInv, Awaited, FitsWrite
  <1>10. FitsWrite(w, checks', detach')
    BY <1>1 DEF Queues, FitsWrite
  <1>11. Awaited' /\ AwaitedOnce'
    BY <1>8, <1>9, <1>10, QueueLonger DEF Queues, DeviceInv
  <1>12. VerifiedIsMine'
    <2> SUFFICES ASSUME push'.verified # None PROVE VerifiedIsMine'
      BY DEF VerifiedIsMine
    <2>1. push.verified # None /\ ~Foreign(checks[c]) /\ MarkersMine(auth.user)
      BY DEF Queues, DeviceInv, VerifiedIsMine
    <2>2. w.do = "put" => w.value.user = auth.user
      BY <1>4, <2>1 DEF Queues
    <2> DEFINE who == auth.user
    <2>3. MarkersMine(who)'
      <3> HIDE DEF who
      <3>1. MarkersMine(who) /\ (w.do = "put" => w.value.user = who)
        BY <2>1, <2>2 DEF who
      <3>2. who' = who
        BY DEF who, Queues, Calm, sessionVars
      <3> QED BY <3>1, <3>2, MineLonger DEF Queues, DeviceInv
    <2>4. \A d \in Checks : Valid(d)' => ~Foreign(checks'[d])
      BY <1>1, <1>2, <2>1 DEF Queues, Foreign
    <2> QED BY <2>1, <2>3, <2>4 DEF Queues, Calm, sessionVars, DeviceInv, VerifiedIsMine
  <1>13. auth.user = Guest /\ w.do = "put" => w.value = NoMark
    BY <1>4 DEF Queues
  <1>14. SignedOutIsQuiet'
    <2> SUFFICES ASSUME signedOut PROVE Quiet'
      BY DEF Queues, Calm, sessionVars, SignedOutIsQuiet
    <2>1. auth.user = Guest /\ Quiet
      BY DEF DeviceInv, TransitionInv, SignedOutIsGuest, SignedOutIsQuiet
    <2> QED BY <1>13, <2>1, SilentLonger DEF Queues, Calm, DeviceInv, Quiet
  <1>15. LeavesQuiet'
    <2> SUFFICES ASSUME Leaving PROVE LeavesQuiet'
      BY DEF Queues, Calm, sessionVars, LeavesQuiet, Leaving
    <2>1. auth.user = Guest
      BY DEF Queues, DeviceInv, LeavesQuiet
    <2>2. \A k \in Nat : Silent(k) => Silent(k)'
      BY <1>13, <2>1, SilentLonger DEF Queues, DeviceInv
    <2>3. \A n \in 1 .. Len(writes') : writes'[n].waiter = "detach" => n \in 1 .. Len(writes) /\ writes'[n] = writes[n]
      BY AppendFacts DEF Queues, DeviceInv, DeviceTypeOK
    <2>4. \A n \in 1 .. Len(writes') : writes'[n].waiter = "detach" => Silent(n)'
      BY <2>2, <2>3 DEF DeviceInv, LeavesQuiet
    <2>5. detach = "written" => Quiet'
      BY <2>2 DEF Queues, Calm, DeviceInv, LeavesQuiet, Quiet
    <2> QED BY <2>1, <2>4, <2>5 DEF Queues, Calm, sessionVars, LeavesQuiet
  <1>16. DetachHasCleanup'
    BY DEF Queues, Calm, sessionVars, DeviceInv, DetachHasCleanup
  <1> QED BY <1>3, <1>5, <1>7, <1>11, <1>12, <1>14, <1>15, <1>16 DEF Queues, Calm, DeviceInv

(* A run starts: whatever was under way before it is stale.                  *)
Starts(c, r) ==
    /\ Calm /\ detach' = detach
    /\ checks[c] = Free /\ checks' = [Stale EXCEPT ![c] = r]
    /\ r # Free /\ RunOK(r) /\ r.valid /\ r.user = auth.user /\ r.owner = NoMark
    /\ ~push.detaching /\ push'.verified = push.verified
    /\ r.phase.next \notin Marking
    /\ \/ /\ writes' = writes /\ r.phase.at # "writing" /\ auth.user # Guest
       \/ /\ writes' = Append(writes, Put(NoMark, c)) /\ r.phase.at = "writing" /\ auth.user = Guest
       \/ /\ writes' = Append(writes, ReadOwner(c)) /\ r.phase.at = "writing"
          /\ r.phase.next = "owner" /\ r.kind = "refresh"
    /\ ReadyIsVerified'

LEMMA StartKeeps == ASSUME DeviceInv, NEW c \in Checks, NEW r, Starts(c, r) PROVE DeviceInv'
  <1>1. checks'[c] = r /\ \A d \in Checks : d # c => checks'[d] = Stale[d]
    BY StaleFacts DEF Starts, DeviceInv
  <1>2. \A d \in Checks : Valid(d)' => d = c
    BY <1>1, StaleFacts DEF DeviceInv, Valid
  <1>3. RunsFit'
    BY <1>1, StaleFacts DEF Starts, DeviceInv, RunsFit
  <1>4. OneValid' /\ ValidIsMine'
    BY <1>1, <1>2 DEF Starts, Calm, sessionVars, OneValid, ValidIsMine
  <1>5. KeepsWaiting
    BY <1>1, StaleFacts DEF Starts, DeviceInv, KeepsWaiting
  <1>6. \A n \in 1 .. Len(writes) : writes[n].waiter # c
    BY DEF Starts, DeviceInv, Awaited, FitsWrite
  <1>7. r.phase.at \notin Marking
    BY DEF Starts, RunOK, Marking
  <1>8. DetachHasCleanup'
    BY DEF Starts, Calm, sessionVars, DeviceInv, DetachHasCleanup
  <1>9. NoMark \in Marks /\ NoMark.user = Guest
    BY DEF NoMark, Mark, Marks
  <1>10. CASE writes' = writes /\ r.phase.at # "writing" /\ auth.user # Guest
    <2>1. WrittenLast'
      BY <1>1, <1>2, <1>7, <1>10 DEF WrittenLast
    <2>2. Awaited' /\ AwaitedOnce'
      BY <1>5, <1>10, QueueSame DEF Starts, DeviceInv
    <2>3. VerifiedIsMine'
      BY <1>1, <1>2, <1>10 DEF Starts, Calm, sessionVars, DeviceInv, VerifiedIsMine, MarkersMine, Foreign
    <2>4. ~Leaving
      BY <1>10 DEF Starts, DeviceInv, LeavesQuiet
    <2>5. LeavesQuiet' /\ SignedOutIsQuiet'
      BY <1>10, <2>4 DEF Starts, Calm, sessionVars, DeviceInv, LeavesQuiet, Leaving, SignedOutIsQuiet, Quiet, Silent
    <2> QED BY <1>3, <1>4, <1>8, <2>1, <2>2, <2>3, <2>5 DEF Starts, Calm, DeviceInv
  <1>11. ASSUME NEW w \in {Put(NoMark, c), ReadOwner(c)}, writes' = Append(writes, w), r.phase.at = "writing",
                w = Put(NoMark, c) => auth.user = Guest,
                w = ReadOwner(c) => r.phase.next = "owner" /\ r.kind = "refresh"
         PROVE DeviceInv'
    <2>1. /\ w \in Write /\ w.waiter = c
          /\ w.do = "put" => w = Put(NoMark, c) /\ w.value = NoMark
          /\ w.do = "read" => w = ReadOwner(c)
      BY <1>9, <1>11 DEF Put, ReadOwner, Write
    <2>2. /\ Len(writes) \in Nat /\ writes' # <<>> /\ Len(writes') = Len(writes) + 1 /\ writes'[Len(writes) + 1] = w
      BY <1>11, <2>1, AppendFacts DEF DeviceInv, DeviceTypeOK
    <2>3. WrittenLast'
      BY <1>1, <1>2, <1>7, <1>11, <2>1, <2>2 DEF WrittenLast
    <2>4. FitsWrite(w, checks', detach')
      BY <1>1, <1>11, <2>1 DEF Starts, FitsWrite
    <2>5. Awaited' /\ AwaitedOnce'
      BY <1>5, <1>6, <1>11, <2>1, <2>4, QueueLonger DEF Starts, DeviceInv
    <2>6. VerifiedIsMine'
      <3> SUFFICES ASSUME push'.verified # None PROVE VerifiedIsMine'
        BY DEF VerifiedIsMine
      <3> DEFINE who == auth.user
      <3>1. push.verified # None /\ MarkersMine(auth.user)
        BY DEF Starts, DeviceInv, VerifiedIsMine
      <3>2. w.do = "put" => w.value.user = auth.user
        BY <1>9, <1>11, <2>1
      <3>3. MarkersMine(who)'
        <4> HIDE DEF who
        <4>1. MarkersMine(who) /\ (w.do = "put" => w.value.user = who)
          BY <3>1, <3>2 DEF who
        <4>2. who' = who
          BY DEF who, Starts, Calm, sessionVars
        <4> QED BY <1>11, <2>1, <4>1, <4>2, MineLonger DEF DeviceInv
      <3>4. \A d \in Checks : Valid(d)' => ~Foreign(checks'[d])
        BY <1>1, <1>2 DEF Starts, Foreign
      <3> QED BY <3>1, <3>3, <3>4 DEF Starts, Calm, sessionVars, DeviceInv, VerifiedIsMine
    <2>7. \A k \in Nat : Silent(k) => Silent(k)'
      BY <1>11, <2>1, SilentLonger DEF DeviceInv
    <2>8. SignedOutIsQuiet'
      BY <2>7 DEF Starts, Calm, sessionVars, DeviceInv, SignedOutIsQuiet, Quiet
    <2>9. LeavesQuiet'
      <3> SUFFICES ASSUME Leaving PROVE LeavesQuiet'
        BY DEF Starts, Calm, sessionVars, LeavesQuiet, Leaving
      <3>1. auth.user = Guest
        BY DEF Starts, DeviceInv, LeavesQuiet
      <3>2. \A n \in 1 .. Len(writes') : writes'[n].waiter = "detach" => n \in 1 .. Len(writes) /\ writes'[n] = writes[n]
        BY <1>11, <2>1, AppendFacts DEF DeviceInv, DeviceTypeOK
      <3>3. \A n \in 1 .. Len(writes') : writes'[n].waiter = "detach" => Silent(n)'
        BY <2>7, <3>2 DEF DeviceInv, LeavesQuiet
      <3>4. detach = "written" => Quiet'
        BY <2>7 DEF Starts, Calm, DeviceInv, LeavesQuiet, Quiet
      <3> QED BY <3>1, <3>3, <3>4 DEF Starts, Calm, sessionVars, LeavesQuiet
    <2> QED BY <1>3, <1>4, <1>8, <2>3, <2>5, <2>6, <2>8, <2>9 DEF Starts, Calm, DeviceInv
  <1>12. Put(NoMark, c) # ReadOwner(c)
    BY DEF Put, ReadOwner
  <1> QED BY <1>10, <1>11, <1>12 DEF Starts

(* Every run is cut off; a marker may be withdrawn.                          *)
Cuts ==
    /\ Calm /\ detach' = detach
    /\ \A d \in Checks : \/ checks'[d] = Stale[d]
                         \/ checks'[d] = Free /\ (checks[d] # Free => checks[d].phase.at # "writing")
    /\ push'.detaching = push.detaching
    /\ push'.verified # None => push.verified # None /\ writes' = writes
    /\ writes' = writes \/ writes' = Append(writes, Put(NoMark, "nobody"))
    /\ ReadyIsVerified'

LEMMA CutKeeps == ASSUME DeviceInv, Cuts PROVE DeviceInv'
  <1>1. \A d \in Checks : ~Valid(d)'
    BY StaleFacts DEF Cuts, DeviceInv, Valid
  <1>2. RunsFit'
    BY StaleFacts DEF Cuts, DeviceInv, RunsFit
  <1>3. OneValid' /\ ValidIsMine' /\ WrittenLast'
    BY <1>1 DEF OneValid, ValidIsMine, WrittenLast
  <1>4. KeepsWaiting
    BY StaleFacts DEF Cuts, DeviceInv, KeepsWaiting
  <1>5. DetachHasCleanup'
    BY DEF Cuts, Calm, sessionVars, DeviceInv, DetachHasCleanup
  <1>6. VerifiedIsMine'
    BY <1>1 DEF Cuts, Calm, sessionVars, DeviceInv, VerifiedIsMine, MarkersMine
  <1> DEFINE w == Put(NoMark, "nobody")
  <1>7. w \in Write /\ w.waiter = "nobody" /\ w.do = "put" /\ w.value = NoMark
    BY DEF Put, Write, NoMark, Mark, Marks
  <1> HIDE DEF w
  <1>8. CASE writes' = writes
    <2>1. Awaited' /\ AwaitedOnce'
      BY <1>4, <1>8, QueueSame DEF Cuts, DeviceInv
    <2>2. LeavesQuiet' /\ SignedOutIsQuiet'
      BY <1>1, <1>8 DEF Cuts, Calm, sessionVars, DeviceInv, LeavesQuiet, Leaving, SignedOutIsQuiet, Quiet, Silent
    <2> QED BY <1>2, <1>3, <1>5, <1>6, <2>1, <2>2 DEF Cuts, Calm, DeviceInv
  <1>9. CASE writes' = Append(writes, w)
    <2>1. FitsWrite(w, checks', detach')
      BY <1>7 DEF FitsWrite
    <2>2. Awaited' /\ AwaitedOnce'
      BY <1>4, <1>7, <1>9, <2>1, QueueLonger DEF Cuts, DeviceInv
    <2>3. \A k \in Nat : Silent(k) => Silent(k)'
      BY <1>7, <1>9, SilentLonger DEF DeviceInv
    <2>4. \A n \in 1 .. Len(writes') : writes'[n].waiter = "detach" => n \in 1 .. Len(writes) /\ writes'[n] = writes[n]
      BY <1>7, <1>9, AppendFacts DEF DeviceInv, DeviceTypeOK
    <2>5. LeavesQuiet' /\ SignedOutIsQuiet'
      BY <1>1, <2>3, <2>4 DEF Cuts, Calm, sessionVars, DeviceInv, LeavesQuiet, Leaving, SignedOutIsQuiet, Quiet
    <2> QED BY <1>2, <1>3, <1>5, <1>6, <2>2, <2>5 DEF Cuts, Calm, DeviceInv
  <1> QED BY <1>8, <1>9 DEF Cuts, w

(* The cleanup of an account transition begins.                              *)
LEMMA DetachBeginKeeps == ASSUME DeviceInv, DeviceTypeOK', SessionInv', TransitionInv',
                                 NEW id \in OpIds, DetachBegin(id)
    PROVE DeviceInv'
  <1>1. UNCHANGED <<sessionVars, idb, config>> /\ checks' = Stale /\ detach = "idle" /\ detach' = "writing"
    BY DEF DetachBegin
  <1>2. push'.detaching /\ push'.verified = None /\ push'.state = "checking"
    BY DEF DetachBegin, DeviceInv, DeviceTypeOK, PushStates
  <1>3. \A d \in Checks : ~Valid(d)'
    BY <1>1, StaleFacts DEF DeviceInv, Valid
  <1>4. RunsFit' /\ OneValid' /\ ValidIsMine' /\ WrittenLast' /\ VerifiedIsMine' /\ ReadyIsVerified'
    BY <1>1, <1>2, <1>3, StaleFacts DEF DeviceInv, RunsFit, OneValid, ValidIsMine, WrittenLast, VerifiedIsMine, ReadyIsVerified
  <1>5. DetachHasCleanup'
    BY <1>1 DEF DetachBegin, Owns, DetachHasCleanup, sessionVars
  <1>6. KeepsWaiting
    BY <1>1, StaleFacts DEF DeviceInv, KeepsWaiting
  <1> DEFINE w == Put(NoMark, "detach")
  <1>7. w \in Write /\ w.waiter = "detach" /\ w.do = "put" /\ w.value = NoMark /\ w = Put(NoMark, "detach")
    BY DEF Put, Write, NoMark, Mark, Marks
  <1>8. writes' = Append(writes, w)
    BY DEF DetachBegin
  <1> HIDE DEF w
  <1>9. FitsWrite(w, checks', detach')
    BY <1>1, <1>7 DEF FitsWrite
  <1>10. \A n \in 1 .. Len(writes) : writes[n].waiter # "detach"
    BY <1>1 DEF DeviceInv, Awaited, FitsWrite
  <1>11. Awaited' /\ AwaitedOnce'
    BY <1>1, <1>6, <1>7, <1>8, <1>9, <1>10, QueueLonger DEF DeviceInv
  <1>12. \A k \in Nat : Silent(k) => Silent(k)'
    BY <1>7, <1>8, SilentLonger DEF DeviceInv
  <1>13. SignedOutIsQuiet'
    BY <1>1, <1>12 DEF sessionVars, DeviceInv, SignedOutIsQuiet, Quiet
  <1>14. LeavesQuiet'
    <2>1. /\ Len(writes) \in Nat /\ Len(writes') = Len(writes) + 1 /\ writes'[Len(writes) + 1] = w
          /\ \A n \in 1 .. Len(writes) : writes'[n] = writes[n]
          /\ \A n \in 1 .. Len(writes) + 1 : n = Len(writes) + 1 \/ n \in 1 .. Len(writes)
      BY <1>7, <1>8, AppendFacts DEF DeviceInv, DeviceTypeOK
    <2>2. \A n \in 1 .. Len(writes') : writes'[n].waiter = "detach" => n = Len(writes')
      BY <1>10, <2>1
    <2>3. \A n \in 1 .. Len(writes') : writes'[n].waiter = "detach" => Silent(n)'
      <3> SUFFICES ASSUME NEW n \in 1 .. Len(writes'), n = Len(writes') PROVE Silent(n)'
        BY <2>2
      <3> QED BY <1>7, <2>1 DEF Silent
    <2> QED BY <1>1, <1>2, <1>3, <2>3 DEF LeavesQuiet
  <1> QED BY <1>4, <1>5, <1>11, <1>13, <1>14 DEF DeviceInv

(* The session moves; a new account mounts a new push session.               *)
AccountMoves ==
    /\ Remount /\ UNCHANGED <<writes, idb, config>> /\ DeviceTypeOK' /\ SessionInv' /\ TransitionInv'
    /\ detach' = detach \/ (detach = "written" /\ detach' = "idle")
    /\ detach' # "idle" => cleanups' # <<>>
    /\ Leaving' => Leaving /\ (auth'.user = auth.user \/ auth'.user = Guest)
    /\ signedOut' => signedOut \/ Quiet

LEMMA AccountMoveKeeps == ASSUME DeviceInv, AccountMoves PROVE DeviceInv'
  <1>1. CASE auth'.user = auth.user
    <2>1. UNCHANGED <<push, checks, writes, idb, config>>
      BY <1>1 DEF AccountMoves, Remount
    <2>2. RunsFit' /\ OneValid' /\ ValidIsMine' /\ WrittenLast' /\ VerifiedIsMine' /\ ReadyIsVerified'
      BY <1>1, <2>1 DEF DeviceInv, RunsFit, OneValid, ValidIsMine, WrittenLast, VerifiedIsMine, ReadyIsVerified, MarkersMine, Valid
    <2>3. KeepsWaiting
      BY <2>1 DEF KeepsWaiting
    <2>4. \A n \in 1 .. Len(writes) : FitsWrite(writes[n], checks', detach')
      BY <2>3, WritesFit DEF AccountMoves, DeviceInv
    <2>5. Awaited' /\ AwaitedOnce'
      BY <2>1, <2>4 DEF DeviceInv, Awaited, AwaitedOnce
    <2>6. LeavesQuiet' /\ SignedOutIsQuiet' /\ DetachHasCleanup'
      BY <1>1, <2>1 DEF AccountMoves, DeviceInv, LeavesQuiet, Leaving, SignedOutIsQuiet, Quiet, Silent, DetachHasCleanup, Valid
    <2> QED BY <2>2, <2>5, <2>6 DEF AccountMoves, DeviceInv
  <1>2. CASE auth'.user # auth.user
    <2>1. push' = Mounted /\ checks' = Stale /\ UNCHANGED <<writes, idb, config>>
      BY <1>2 DEF AccountMoves, Remount
    <2>2. \A d \in Checks : ~Valid(d)'
      BY <2>1, StaleFacts DEF DeviceInv, Valid
    <2>3. RunsFit' /\ OneValid' /\ ValidIsMine' /\ WrittenLast' /\ VerifiedIsMine' /\ ReadyIsVerified'
      BY <2>1, <2>2, StaleFacts DEF DeviceInv, RunsFit, OneValid, ValidIsMine, WrittenLast, VerifiedIsMine,
             ReadyIsVerified, Mounted
    <2>4. KeepsWaiting
      BY <2>1, StaleFacts DEF DeviceInv, KeepsWaiting
    <2>5. \A n \in 1 .. Len(writes) : FitsWrite(writes[n], checks', detach')
      BY <2>4, WritesFit DEF AccountMoves, DeviceInv
    <2>6. Awaited' /\ AwaitedOnce'
      BY <2>1, <2>5 DEF DeviceInv, Awaited, AwaitedOnce
    <2>7. LeavesQuiet' /\ SignedOutIsQuiet' /\ DetachHasCleanup'
      BY <1>2, <2>1 DEF AccountMoves, DeviceInv, LeavesQuiet, Leaving, SignedOutIsQuiet, Quiet, Silent, DetachHasCleanup
    <2> QED BY <2>3, <2>6, <2>7 DEF AccountMoves, DeviceInv
  <1> QED BY <1>1, <1>2

(* The head of the queue is written, and its waiter goes on.                 *)
LEMMA WriteStepKeeps == ASSUME DeviceInv, DeviceTypeOK', SessionInv', TransitionInv', WriteStep PROVE DeviceInv'
  <1>1. PICK w \in Write : w = Head(writes)
    BY TailFacts DEF WriteStep, DeviceInv, DeviceTypeOK
  <1>2. /\ Len(writes) \in Nat /\ Len(writes) >= 1 /\ Len(writes') = Len(writes) - 1 /\ writes[1] = w
        /\ \A n \in 1 .. Len(writes') : writes'[n] = writes[n + 1] /\ n + 1 \in 1 .. Len(writes) /\ n + 1 # 1
    BY <1>1, TailFacts DEF WriteStep, DeviceInv, DeviceTypeOK
  <1>3. /\ idb' = Stored(w) /\ UNCHANGED <<sessionVars, push, browser, subs, config, left>>
        /\ detach' = IF w.waiter = "detach" THEN "written" ELSE detach
    BY <1>1 DEF WriteStep
  <1>4. FitsWrite(w, checks, detach)
    BY <1>2 DEF DeviceInv, Awaited
  <1>5. \A n \in 1 .. Len(writes') : w.waiter # "nobody" => writes'[n].waiter # w.waiter
    BY <1>2 DEF DeviceInv, AwaitedOnce
  <1>6. \A d \in Checks : d # w.waiter => checks'[d] = checks[d]
    BY <1>1 DEF WriteStep, DeviceInv, DeviceTypeOK
  <1>7. w.waiter \in Checks =>
            /\ checks[w.waiter] \in Run /\ checks[w.waiter].phase.at = "writing" /\ RunOK(checks[w.waiter])
    BY <1>4 DEF FitsWrite, DeviceInv, DeviceTypeOK, RunsFit
  <1>8. w.waiter \in Checks =>
            /\ checks'[w.waiter] \in Run
            /\ checks'[w.waiter].phase.at = checks[w.waiter].phase.next
            /\ checks'[w.waiter].phase.next = checks[w.waiter].phase.next
            /\ checks'[w.waiter].valid = checks[w.waiter].valid /\ checks'[w.waiter].kind = checks[w.waiter].kind
            /\ checks'[w.waiter].user = checks[w.waiter].user
            /\ checks'[w.waiter].endpoint = checks[w.waiter].endpoint
            /\ checks'[w.waiter].owner = IF w.do = "read" THEN idb.owner ELSE checks[w.waiter].owner
    <2> SUFFICES ASSUME w.waiter \in Checks
                 PROVE /\ checks'[w.waiter] \in Run
                       /\ checks'[w.waiter].phase.at = checks[w.waiter].phase.next
                       /\ checks'[w.waiter].phase.next = checks[w.waiter].phase.next
                       /\ checks'[w.waiter].valid = checks[w.waiter].valid
                       /\ checks'[w.waiter].kind = checks[w.waiter].kind
                       /\ checks'[w.waiter].user = checks[w.waiter].user
                       /\ checks'[w.waiter].endpoint = checks[w.waiter].endpoint
                       /\ checks'[w.waiter].owner = IF w.do = "read" THEN idb.owner ELSE checks[w.waiter].owner
      OBVIOUS
    <2> DEFINE r == checks[w.waiter]
               moved == [r EXCEPT !.phase = [at |-> r.phase.next, next |-> r.phase.next]]
               own == IF w.do = "read" THEN idb.owner ELSE r.owner
               told == [moved EXCEPT !.owner = own]
    <2>1. r \in Run /\ idb.owner \in Marks
      BY <1>7 DEF DeviceInv, DeviceTypeOK
    <2>2. checks'[w.waiter] = told
      BY <1>1, <1>7 DEF WriteStep, DeviceInv, DeviceTypeOK, Run
    <2>3. own \in Marks
      BY <2>1 DEF Run
    <2> HIDE DEF r, own
    <2>4. moved \in Run /\ moved.phase = [at |-> r.phase.next, next |-> r.phase.next]
          /\ moved.valid = r.valid /\ moved.kind = r.kind /\ moved.user = r.user /\ moved.endpoint = r.endpoint
      BY <2>1 DEF Run
    <2> HIDE DEF moved
    <2>5. told \in Run /\ told.phase = moved.phase /\ told.owner = own
          /\ told.valid = moved.valid /\ told.kind = moved.kind /\ told.user = moved.user
          /\ told.endpoint = moved.endpoint
      BY <2>3, <2>4 DEF Run
    <2> HIDE DEF told
    <2>6. /\ told.phase.at = r.phase.next /\ told.phase.next = r.phase.next
          /\ told.valid = r.valid /\ told.kind = r.kind /\ told.user = r.user /\ told.endpoint = r.endpoint
      BY <2>4, <2>5
    <2> QED BY <2>2, <2>5, <2>6 DEF r, own
  <1>9. w.waiter \in Checks => RunOK(checks'[w.waiter])
    BY <1>4, <1>7, <1>8 DEF RunOK, Foreign, FitsWrite, Past
  <1>10. RunsFit'
    BY <1>6, <1>9 DEF DeviceInv, RunsFit
  <1>11. \A d \in Checks : Valid(d)' => Valid(d) /\ checks'[d].user = checks[d].user
    BY <1>4, <1>6, <1>8 DEF Valid, FitsWrite
  <1>12. OneValid' /\ ValidIsMine'
    BY <1>3, <1>11 DEF sessionVars, DeviceInv, OneValid, ValidIsMine
  <1>13. /\ idb' \in [current: Marks, owner: Marks]
         /\ idb'.current = IF w.do = "put" THEN w.value ELSE idb.current
         /\ w.do = "put" => idb'.owner = IF w.value = NoMark THEN idb.owner ELSE w.value
         /\ w.do # "put" => idb'.owner \in {idb.owner, NoMark}
    BY <1>3 DEF Stored, Write, DeviceInv, DeviceTypeOK
  <1>14. WrittenLast'
    <2> SUFFICES ASSUME NEW d \in Checks, Valid(d)'
                 PROVE /\ checks'[d].phase.at = "writing" => writes' # <<>> /\ writes'[Len(writes')].waiter = d
                       /\ checks'[d].phase.at \in Marking =>
                            /\ writes' = <<>> /\ idb'.owner = idb'.current
                            /\ idb'.current = Mark(checks'[d].user, checks'[d].endpoint)
      BY DEF WrittenLast
    <2>1. Valid(d)
      BY <1>11
    <2>2. CASE d # w.waiter
      <3>1. checks'[d] = checks[d]
        BY <1>6, <2>2
      <3>2. writes # <<>>
        BY <1>2
      <3>3. checks[d].phase.at \notin Marking
        BY <2>1, <3>2 DEF DeviceInv, WrittenLast
      <3>4. ASSUME checks[d].phase.at = "writing" PROVE writes' # <<>> /\ writes'[Len(writes')].waiter = d
        <4>1. writes[Len(writes)].waiter = d
          BY <2>1, <3>4 DEF DeviceInv, WrittenLast
        <4>2. Len(writes) # 1
          BY <1>2, <2>2, <4>1
        <4>3. Len(writes') \in 1 .. Len(writes') /\ Len(writes') + 1 = Len(writes)
          BY <1>2, <4>2
        <4> QED BY <1>2, <4>1, <4>3
      <3> QED BY <3>1, <3>3, <3>4
    <2>3. CASE d = w.waiter
      <3>1. checks[d].phase.at = "writing" /\ w.waiter \in Checks
        BY <1>7, <2>3
      <3>2. writes[Len(writes)].waiter = d /\ d # "nobody"
        BY <2>1, <3>1 DEF DeviceInv, WrittenLast
      <3>3. Len(writes) = 1
        <4>1. 1 \in 1 .. Len(writes) /\ Len(writes) \in 1 .. Len(writes)
          BY <1>2
        <4> QED BY <1>2, <2>3, <3>2, <4>1 DEF DeviceInv, AwaitedOnce
      <3>4. writes' \in Seq(Write) /\ Len(writes') = 0
        BY <1>2, <3>3 DEF DeviceTypeOK
      <3>5. writes' = <<>>
        BY <3>4
      <3>6. checks'[d].phase.at # "writing"
        BY <1>7, <1>8, <2>3 DEF Run, CheckPhases
      <3>7. ASSUME checks'[d].phase.at \in Marking
            PROVE idb'.owner = idb'.current /\ idb'.current = Mark(checks'[d].user, checks'[d].endpoint)
        <4>1. checks[d].phase.next \in Marking
          BY <1>8, <2>3, <3>7
        <4>2. w = Put(Mark(checks[d].user, checks[d].endpoint), d)
          BY <1>4, <2>3, <3>1, <4>1 DEF FitsWrite
        <4>3. checks[d].endpoint # None
          BY <1>7, <2>3, <4>1 DEF RunOK, Marking, Past
        <4>4. w.do = "put" /\ w.value = Mark(checks[d].user, checks[d].endpoint) /\ w.value # NoMark
          BY <4>2, <4>3 DEF Put, Mark, NoMark
        <4> QED BY <1>8, <1>13, <2>3, <4>4
      <3> QED BY <3>5, <3>6, <3>7
    <2> QED BY <2>2, <2>3
  <1>15. Awaited'
    <2> SUFFICES ASSUME NEW n \in 1 .. Len(writes') PROVE FitsWrite(writes'[n], checks', detach')
      BY DEF Awaited
    <2>1. FitsWrite(writes'[n], checks, detach)
      BY <1>2 DEF DeviceInv, Awaited
    <2>2. writes'[n].waiter \in Checks => checks'[writes'[n].waiter] = checks[writes'[n].waiter]
      BY <1>5, <1>6
    <2>3. writes'[n].waiter = "detach" => detach' = detach
      BY <1>3, <1>5
    <2> QED BY <2>1, <2>2, <2>3 DEF FitsWrite
  <1>16. AwaitedOnce'
    <2> SUFFICES ASSUME NEW m \in 1 .. Len(writes'), NEW n \in 1 .. Len(writes'),
                        writes'[m].waiter = writes'[n].waiter, writes'[m].waiter # "nobody"
                 PROVE m = n
      BY DEF AwaitedOnce
    <2>1. m + 1 \in 1 .. Len(writes) /\ n + 1 \in 1 .. Len(writes) /\ writes'[m] = writes[m + 1] /\ writes'[n] = writes[n + 1]
      BY <1>2
    <2>2. m + 1 = n + 1
      BY <2>1 DEF DeviceInv, AwaitedOnce
    <2> QED BY <1>2, <2>2
  <1>17. VerifiedIsMine'
    <2> SUFFICES ASSUME push.verified # None PROVE VerifiedIsMine'
      BY <1>3 DEF VerifiedIsMine
    <2>1. /\ idb.current.user = auth.user /\ (idb.owner = NoMark \/ idb.owner.user = auth.user)
          /\ MarkersMine(auth.user) /\ \A d \in Checks : Valid(d) => ~Foreign(checks[d])
      BY DEF DeviceInv, VerifiedIsMine
    <2>2. w.do = "put" => w.value.user = auth.user
      BY <1>2, <2>1 DEF MarkersMine
    <2>3. idb'.current.user = auth.user /\ (idb'.owner = NoMark \/ idb'.owner.user = auth.user)
      BY <1>13, <2>1, <2>2
    <2>4. \A n \in 1 .. Len(writes') : writes'[n].do = "put" => writes'[n].value.user = auth.user
      BY <1>2, <2>1 DEF MarkersMine
    <2>5. \A d \in Checks : Valid(d)' => ~Foreign(checks'[d])
      <3> SUFFICES ASSUME NEW d \in Checks, Valid(d)' PROVE ~Foreign(checks'[d])
        OBVIOUS
      <3>1. Valid(d) /\ checks'[d].user = checks[d].user /\ checks[d].user = auth.user
        BY <1>11 DEF DeviceInv, ValidIsMine
      <3>2. CASE d # w.waiter
        BY <1>6, <2>1, <3>1, <3>2
      <3>3. CASE d = w.waiter
        BY <1>8, <2>1, <3>1, <3>3 DEF Foreign
      <3> QED BY <3>2, <3>3
    <2> QED BY <1>3, <2>3, <2>4, <2>5 DEF sessionVars, VerifiedIsMine, MarkersMine
  <1>18. ReadyIsVerified' /\ DetachHasCleanup'
    BY <1>3, <1>4 DEF sessionVars, DeviceInv, ReadyIsVerified, DetachHasCleanup, FitsWrite
  <1>19. \A k \in Nat : Silent(k + 1) => Silent(k)'
    BY <1>2 DEF Silent
  <1>20. Quiet => Quiet'
    <2> SUFFICES ASSUME Quiet PROVE Quiet'
      OBVIOUS
    <2>1. Silent(1) /\ idb.current = NoMark
      BY DEF Quiet
    <2>2. w.do = "put" => w.value = NoMark
      BY <1>2, <2>1 DEF Silent
    <2>3. Silent(1 + 1)
      BY <2>1, <1>2 DEF Silent
    <2> QED BY <1>13, <1>19, <2>1, <2>2, <2>3 DEF Quiet
  <1>21. SignedOutIsQuiet'
    BY <1>3, <1>20 DEF sessionVars, DeviceInv, SignedOutIsQuiet
  <1>22. LeavesQuiet'
    <2> SUFFICES ASSUME Leaving' PROVE LeavesQuiet'
      BY DEF LeavesQuiet
    <2>1. Leaving
      BY <1>3, <1>4 DEF Leaving, sessionVars, FitsWrite
    <2>2. auth'.user # Guest => push'.detaching /\ \A d \in Checks : ~Valid(d)'
      BY <1>3, <1>11, <2>1 DEF sessionVars, DeviceInv, LeavesQuiet
    <2>3. \A n \in 1 .. Len(writes') : writes'[n].waiter = "detach" => Silent(n)'
      <3> SUFFICES ASSUME NEW n \in 1 .. Len(writes'), writes'[n].waiter = "detach" PROVE Silent(n)'
        OBVIOUS
      <3>1. n \in Nat /\ n + 1 \in 1 .. Len(writes) /\ writes[n + 1].waiter = "detach"
        BY <1>2
      <3>2. Silent(n + 1)
        BY <2>1, <3>1 DEF DeviceInv, LeavesQuiet
      <3> QED BY <1>19, <3>1, <3>2
    <2>4. detach' = "written" => Quiet'
      <3>1. CASE w.waiter # "detach"
        BY <1>3, <1>20, <2>1, <3>1 DEF DeviceInv, LeavesQuiet
      <3>2. CASE w.waiter = "detach"
        <4>1. 1 \in 1 .. Len(writes)
          BY <1>2
        <4>2. Silent(1)
          BY <1>2, <2>1, <3>2, <4>1 DEF DeviceInv, LeavesQuiet
        <4>3. w.do = "put" /\ w.value = NoMark
          BY <1>4, <3>2 DEF FitsWrite, Put
        <4>4. Silent(1 + 1)
          BY <1>2, <4>2 DEF Silent
        <4> QED BY <1>13, <1>19, <4>3, <4>4 DEF Quiet
      <3> QED BY <3>1, <3>2
    <2> QED BY <2>2, <2>3, <2>4 DEF LeavesQuiet
  <1> QED BY <1>10, <1>12, <1>14, <1>15, <1>16, <1>17, <1>18, <1>21, <1>22 DEF DeviceInv

-----------------------------------------------------------------------------
(* Which of these each step of a run is.                                     *)
BrowserTyped ==
    /\ browser \in [permission: {"default", "granted", "denied"}, sub: {None} \cup Endpoints,
                    minted: {None} \cup Endpoints, oldKey: BOOLEAN]
    /\ subs \in [Endpoints -> Users \cup {Guest}]

LEMMA CalmStep == ASSUME DeviceInv, UNCHANGED <<sessionVars, idb, config>>, push' \in PushStates,
                         checks' \in [Checks -> Run \cup {Free}], detach' \in {"idle", "writing", "written"},
                         writes' \in Seq(Write), BrowserTyped'
    PROVE Calm
  <1>1. DeviceTypeOK'
    BY DEF DeviceInv, DeviceTypeOK, BrowserTyped
  <1>2. SessionInv' /\ TransitionInv'
    BY DEF sessionVars, DeviceInv, SessionInv, SessionTypeOK, Queued, TokenOfShown, TransitionIsOwned,
           TransitionInv, OneTransition, RefreshAsksForSomebody, SignedOutIsGuest
  <1> QED BY <1>1, <1>2 DEF Calm

LEMMA RunFacts == ASSUME DeviceInv, NEW c \in Checks, checks[c] # Free
    PROVE /\ checks[c] \in Run /\ RunOK(checks[c])
          /\ checks[c].valid => Valid(c) /\ checks[c].user = auth.user
          /\ checks[c].phase.at # "writing" => checks[c].phase.next = checks[c].phase.at
          /\ checks[c].endpoint \in {None} \cup Endpoints /\ checks[c].owner \in Marks
          /\ checks[c].user \in Users \cup {Guest} /\ checks[c].restore \in BOOLEAN
  BY DEF DeviceInv, DeviceTypeOK, RunsFit, RunOK, ValidIsMine, Valid, Run

LEMMA StateFacts == ASSUME DeviceInv
    PROVE /\ push \in PushStates /\ checks \in [Checks -> Run \cup {Free}] /\ writes \in Seq(Write) /\ BrowserTyped
          /\ detach \in {"idle", "writing", "written"} /\ idb.owner \in Marks
          /\ config \in [enabled: BOOLEAN, required: BOOLEAN]
  BY ConfigsAreSettings DEF DeviceInv, DeviceTypeOK, BrowserTyped

(* A run goes to a place, with what it learnt on the way.                    *)
Places == {At(p) : p \in CheckPhases} \cup {Writing(p) : p \in CheckPhases}
To(r, place) == [r EXCEPT !.phase = place]
ToWith(r, place, e) == [r EXCEPT !.phase = place, !.endpoint = e]
ToRestoring(r, place, b) == [r EXCEPT !.phase = place, !.restore = b]
SameRun(r, s) == r \in Run /\ r # Free /\ r.user = s.user /\ r.owner = s.owner /\ r.kind = s.kind /\ r.valid = s.valid

LEMMA GoesTo == ASSUME NEW r \in Run, NEW place \in Places
    PROVE SameRun(To(r, place), r) /\ To(r, place).phase = place /\ To(r, place).endpoint = r.endpoint
  <1>1. place \in [at: CheckPhases \cup {"writing"}, next: CheckPhases]
    BY DEF Places, At, Writing
  <1> QED BY <1>1 DEF Run, SameRun, To

LEMMA GoesWith == ASSUME NEW r \in Run, NEW place \in Places, NEW e \in {None} \cup Endpoints
    PROVE SameRun(ToWith(r, place, e), r) /\ ToWith(r, place, e).phase = place /\ ToWith(r, place, e).endpoint = e
  <1> DEFINE s == To(r, place)
  <1>1. SameRun(s, r) /\ s.phase = place
    BY GoesTo
  <1>2. ToWith(r, place, e) = [s EXCEPT !.endpoint = e]
    BY DEF To, ToWith
  <1> HIDE DEF s
  <1>3. SameRun([s EXCEPT !.endpoint = e], r) /\ [s EXCEPT !.endpoint = e].phase = place /\ [s EXCEPT !.endpoint = e].endpoint = e
    BY <1>1 DEF Run, SameRun
  <1> QED BY <1>2, <1>3

LEMMA GoesRestoring == ASSUME NEW r \in Run, NEW place \in Places, NEW b \in BOOLEAN
    PROVE /\ SameRun(ToRestoring(r, place, b), r) /\ ToRestoring(r, place, b).phase = place
          /\ ToRestoring(r, place, b).endpoint = r.endpoint
  <1> DEFINE s == To(r, place)
  <1>1. SameRun(s, r) /\ s.phase = place /\ s.endpoint = r.endpoint
    BY GoesTo
  <1>2. ToRestoring(r, place, b) = [s EXCEPT !.restore = b]
    BY DEF To, ToRestoring
  <1> HIDE DEF s
  <1>3. SameRun([s EXCEPT !.restore = b], r) /\ [s EXCEPT !.restore = b].phase = place
        /\ [s EXCEPT !.restore = b].endpoint = r.endpoint
    BY <1>1 DEF Run, SameRun
  <1> QED BY <1>2, <1>3

(* Where a run of an account may go.                                         *)
LEMMA GoesOn == ASSUME NEW r \in Run, RunOK(r), r.user # Guest, NEW s, SameRun(s, r), NEW p \in CheckPhases,
                       s.phase \in {At(p), Writing(p)}, p # "guest", p \in Past => ~Foreign(r),
                       p \in Past \ {"drop", "mint"} => s.endpoint # None
    PROVE RunOK(s)
  BY DEF RunOK, SameRun, At, Writing, Foreign

LEMMA PlacesAre == \A p \in CheckPhases : At(p) \in Places /\ Writing(p) \in Places
                      /\ At(p).at = p /\ At(p).next = p /\ Writing(p).at = "writing" /\ Writing(p).next = p
  BY DEF Places, At, Writing

(* The run ends, and leaves the push session as it says.                     *)
LEMMA EndKeeps == ASSUME DeviceInv, NEW c \in Checks, checks[c] # Free, checks[c].phase.at # "writing",
                         checks' = [checks EXCEPT ![c] = Free],
                         UNCHANGED <<sessionVars, detach, writes, idb, config>>,
                         push' \in PushStates, BrowserTyped', push'.detaching = push.detaching,
                         push'.verified # None =>
                             push.verified # None \/ (checks[c].valid /\ checks[c].phase.at \in Marking),
                         ReadyIsVerified'
    PROVE DeviceInv'
  <1>1. checks' \in [Checks -> Run \cup {Free}]
    BY StateFacts
  <1>2. Calm
    BY <1>1, StateFacts, CalmStep
  <1>3. MovesOn(c, Free)
    BY <1>2 DEF MovesOn
  <1> QED BY <1>3, MoveKeeps

(* The run goes on to p, writing nothing.                                    *)
LEMMA GoKeeps == ASSUME DeviceInv, NEW c \in Checks, checks[c] # Free, checks[c].phase.at # "writing",
                        NEW s, SameRun(s, checks[c]), NEW p \in CheckPhases \ {"guest", "saved", "restored"},
                        s.phase = At(p), checks[c].user # Guest, p \in Past => ~Foreign(checks[c]),
                        p \in Past \ {"drop", "mint"} => s.endpoint # None,
                        checks' = [checks EXCEPT ![c] = s],
                        UNCHANGED <<sessionVars, detach, writes, idb, config>>,
                        push' \in PushStates, BrowserTyped', push'.detaching = push.detaching,
                        push'.verified # None =>
                            push.verified # None \/ (checks[c].valid /\ checks[c].phase.at \in Marking),
                        ReadyIsVerified'
    PROVE DeviceInv'
  <1>1. checks[c] \in Run /\ RunOK(checks[c])
    BY RunFacts
  <1>2. RunOK(s) /\ s \in Run /\ s # Free /\ s.user = checks[c].user /\ s.owner = checks[c].owner
        /\ s.valid = checks[c].valid
    BY <1>1, GoesOn DEF SameRun
  <1>3. s.phase.at \notin Marking \cup {"writing"}
    BY PlacesAre DEF Marking, CheckPhases
  <1>4. checks' \in [Checks -> Run \cup {Free}]
    BY <1>2, StateFacts
  <1>5. Calm
    BY <1>4, StateFacts, CalmStep
  <1>6. MovesOn(c, s)
    BY <1>2, <1>3, <1>5 DEF MovesOn
  <1> QED BY <1>6, MoveKeeps

(* The valid run queues w, and goes on to p once it is written.              *)
LEMMA WaitKeeps == ASSUME DeviceInv, NEW c \in Checks, Valid(c), checks[c].phase.at # "writing",
                          NEW s, SameRun(s, checks[c]), NEW p \in CheckPhases \ {"guest"},
                          s.phase = Writing(p), checks[c].user # Guest, p \in Past => ~Foreign(checks[c]),
                          p \in Past \ {"drop", "mint"} => s.endpoint # None,
                          checks' = [checks EXCEPT ![c] = s],
                          NEW w \in Write, w.waiter = c, w.do # "read", writes' = Append(writes, w),
                          p \in Marking => w = Put(Mark(s.user, s.endpoint), c),
                          w.do = "put" => w.value = NoMark \/ w.value.user = checks[c].user,
                          UNCHANGED <<sessionVars, detach, idb, config>>,
                          push' \in PushStates, BrowserTyped', push'.detaching = push.detaching,
                          push'.verified # None =>
                              push.verified # None /\ (w.do = "put" => w.value.user = checks[c].user \/ Foreign(checks[c])),
                          ReadyIsVerified'
    PROVE DeviceInv'
  <1>1. checks[c] \in Run /\ RunOK(checks[c]) /\ checks[c] # Free
    BY RunFacts DEF Valid
  <1>2. RunOK(s) /\ s \in Run /\ s # Free /\ s.user = checks[c].user /\ s.owner = checks[c].owner
    BY <1>1, GoesOn DEF SameRun
  <1>3. s.phase.at = "writing" /\ s.phase.next = p
    BY PlacesAre
  <1>4. checks' \in [Checks -> Run \cup {Free}]
    BY <1>2, StateFacts
  <1>5. writes' \in Seq(Write)
    BY StateFacts, AppendFacts
  <1>6. Calm
    BY <1>4, <1>5, StateFacts, CalmStep
  <1>7. Queues(c, s, w)
    BY <1>2, <1>3, <1>6 DEF Queues
  <1> QED BY <1>7, QueueKeeps

LEMMA PushEdits == ASSUME NEW p \in PushStates
    PROVE /\ \A b \in BOOLEAN : /\ [p EXCEPT !.checking = b] \in PushStates /\ [p EXCEPT !.busy = b] \in PushStates
                                /\ [p EXCEPT !.checking = b].verified = p.verified
                                /\ [p EXCEPT !.checking = b].detaching = p.detaching
                                /\ [p EXCEPT !.checking = b].state = p.state
                                /\ [p EXCEPT !.busy = b].verified = p.verified
                                /\ [p EXCEPT !.busy = b].detaching = p.detaching
                                /\ [p EXCEPT !.busy = b].state = p.state
  BY DEF PushStates

(* How the promise of a run ends, whatever it leaves the session as.         *)
LEMMA FinishFacts == ASSUME NEW c \in Checks, NEW after \in PushStates, Finished(c, after)
    PROVE /\ push' \in PushStates /\ push'.verified = after.verified /\ push'.state = after.state
          /\ push'.detaching = after.detaching
          /\ checks' = [checks EXCEPT ![c] = Free]
  BY PushEdits DEF Finished

LEMMA FinishKeeps == ASSUME DeviceInv, NEW c \in Checks, Now(c, checks[c].phase.at), checks[c].phase.at # "writing",
                            NEW after \in PushStates, Finished(c, after),
                            UNCHANGED <<sessionVars, detach, writes, idb, config>>, BrowserTyped',
                            after.detaching = push.detaching,
                            after.verified # None => push.verified # None \/ checks[c].phase.at \in Marking,
                            auth.user # Guest /\ after.state = "ready" /\ config.enabled => after.verified # None
    PROVE DeviceInv'
  <1>1. /\ push' \in PushStates /\ push'.verified = after.verified /\ push'.state = after.state
        /\ push'.detaching = after.detaching /\ checks' = [checks EXCEPT ![c] = Free]
    BY FinishFacts
  <1>2. checks[c] # Free /\ checks[c].valid
    BY DEF Now, Is
  <1>3. ReadyIsVerified'
    BY <1>1 DEF ReadyIsVerified, sessionVars
  <1> QED BY <1>1, <1>2, <1>3, EndKeeps

(* invalidate(next): the endpoint is no longer verified, and NoMark queued.  *)
LEMMA InvalidateKeeps == ASSUME DeviceInv, NEW c \in Checks, Now(c, checks[c].phase.at), checks[c].phase.at # "writing",
                                checks[c].user # Guest, NEW seen \in PushStates, seen.detaching = push.detaching,
                                NEW next \in {"ready", "unavailable", "denied", "needs_permission"},
                                next = "ready" => ~config.enabled, Invalidate(c, seen, next),
                                UNCHANGED <<sessionVars, detach, idb, config>>, BrowserTyped'
    PROVE DeviceInv'
  <1>1. /\ push' = [seen EXCEPT !.verified = None, !.state = next]
        /\ checks' = [checks EXCEPT ![c].phase = Writing("closed")]
        /\ writes' = Append(writes, Put(NoMark, c))
    BY DEF Invalidate
  <1>2. push' \in PushStates /\ push'.verified = None /\ push'.state = next /\ push'.detaching = push.detaching
    BY <1>1 DEF PushStates
  <1>3. ReadyIsVerified'
    BY <1>2 DEF ReadyIsVerified
  <1>4. checks[c] # Free /\ Valid(c) /\ checks[c] \in Run
    BY RunFacts DEF Now, Is, Valid
  <1> DEFINE s == To(checks[c], Writing("closed"))
  <1>5. "closed" \in CheckPhases /\ "closed" \notin Past
    BY DEF CheckPhases, Past
  <1>6. SameRun(s, checks[c]) /\ s.phase = Writing("closed")
    BY <1>4, <1>5, PlacesAre, GoesTo
  <1>7. checks' = [checks EXCEPT ![c] = s]
    BY <1>1, StateFacts DEF To
  <1> HIDE DEF s
  <1> DEFINE w == Put(NoMark, c)
  <1>8. w \in Write /\ w.waiter = c /\ w.do = "put" /\ w.value = NoMark
    BY DEF Put, Write, NoMark, Mark, Marks
  <1>9. writes' = Append(writes, w)
    BY <1>1
  <1> HIDE DEF w
  <1>10. "closed" \notin Marking /\ "closed" # "guest"
    BY DEF Marking
  <1> QED BY <1>2, <1>3, <1>4, <1>5, <1>6, <1>7, <1>8, <1>9, <1>10, WaitKeeps

LEMMA NowFacts == ASSUME DeviceInv, NEW c \in Checks, NEW p \in CheckPhases, Is(c, p)
    PROVE /\ checks[c] # Free /\ checks[c].phase.at = p /\ checks[c].phase.at # "writing"
          /\ checks[c] \in Run /\ RunOK(checks[c]) /\ checks[c].phase.next = p
          /\ p # "guest" => checks[c].user # Guest
          /\ p = "guest" => checks[c].user = Guest
          /\ p \in Past => ~Foreign(checks[c])
          /\ p \in Past \ {"drop", "mint"} => checks[c].endpoint # None
          /\ checks[c].valid => Now(c, p) /\ Valid(c) /\ checks[c].user = auth.user
  BY RunFacts DEF Is, Now, RunOK, CheckPhases

LEMMA GuestCheckedKeeps == ASSUME DeviceInv, NEW c \in Checks, GuestChecked(c) PROVE DeviceInv'
  <1>1. "guest" \in CheckPhases /\ Now(c, "guest")
    BY DEF CheckPhases, GuestChecked
  <1>2. checks[c].phase.at = "guest" /\ checks[c].user = Guest /\ checks[c].user = auth.user
    BY <1>1, NowFacts DEF Now
  <1> DEFINE after == [push EXCEPT !.state = "ready"]
  <1>3. after \in PushStates /\ after.detaching = push.detaching /\ after.verified = push.verified
    BY StateFacts DEF PushStates
  <1>4. Finished(c, after) /\ UNCHANGED <<sessionVars, detach, writes, idb, browser, subs, config>>
    BY DEF GuestChecked
  <1>5. BrowserTyped'
    BY <1>4, StateFacts DEF BrowserTyped
  <1> HIDE DEF after
  <1> QED BY <1>1, <1>2, <1>3, <1>4, <1>5, FinishKeeps

LEMMA ClosedKeeps == ASSUME DeviceInv, NEW c \in Checks, Closed(c) PROVE DeviceInv'
  <1>1. "closed" \in CheckPhases /\ Now(c, "closed")
    BY DEF CheckPhases, Closed
  <1>2. checks[c].phase.at = "closed"
    BY <1>1, NowFacts DEF Now
  <1>3. Finished(c, push) /\ UNCHANGED <<sessionVars, detach, writes, idb, browser, subs, config>>
    BY DEF Closed
  <1>4. BrowserTyped'
    BY <1>3, StateFacts DEF BrowserTyped
  <1>5. auth.user # Guest /\ push.state = "ready" /\ config.enabled => push.verified # None
    BY DEF DeviceInv, ReadyIsVerified
  <1> QED BY <1>1, <1>2, <1>3, <1>4, <1>5, FinishKeeps, StateFacts

LEMMA SavedKeeps == ASSUME DeviceInv, NEW c \in Checks, Saved(c) PROVE DeviceInv'
  <1>1. "saved" \in CheckPhases /\ Now(c, "saved") /\ "saved" \in Past \ {"drop", "mint"} /\ "saved" \in Marking
    BY DEF CheckPhases, Saved, Past, Marking
  <1>2. checks[c].phase.at = "saved" /\ checks[c] # Free /\ checks[c].endpoint # None
    BY <1>1, NowFacts DEF Now
  <1> DEFINE m == Mark(checks[c].user, checks[c].endpoint)
             after == [push EXCEPT !.verified = checks[c].endpoint, !.known = m, !.restored = checks[c].endpoint,
                                   !.state = "ready"]
  <1>3. Finished(c, after) /\ UNCHANGED <<sessionVars, detach, writes, idb, browser, subs, config>>
    BY DEF Saved
  <1>4. m \in Marks /\ checks[c].endpoint \in {None} \cup Endpoints
    BY <1>2, RunFacts DEF Mark, Marks
  <1> HIDE DEF m
  <1>5. after \in PushStates /\ after.verified = checks[c].endpoint /\ after.detaching = push.detaching
    BY <1>4, StateFacts DEF PushStates
  <1>6. BrowserTyped'
    BY <1>3, StateFacts DEF BrowserTyped
  <1> HIDE DEF after
  <1> QED BY <1>1, <1>2, <1>3, <1>5, <1>6, FinishKeeps

LEMMA AbandonKeeps == ASSUME DeviceInv, NEW c \in Checks, Abandon(c) PROVE DeviceInv'
  <1>1. UNCHANGED <<sessionVars, push, detach, writes, idb, browser, subs, config>>
        /\ checks' = [checks EXCEPT ![c] = Free] /\ checks[c] # Free /\ checks[c].phase.at # "writing"
    BY DEF Abandon
  <1>2. BrowserTyped' /\ push' \in PushStates
    BY <1>1, StateFacts DEF BrowserTyped
  <1>3. ReadyIsVerified'
    BY <1>1 DEF DeviceInv, ReadyIsVerified, sessionVars
  <1> QED BY <1>1, <1>2, <1>3, EndKeeps

(* A run that goes on and leaves the push session alone.                     *)
LEMMA GoPlainly == ASSUME DeviceInv, NEW c \in Checks, NEW q \in CheckPhases, Is(c, q), q # "guest",
                          NEW p \in CheckPhases \ {"guest", "saved", "restored"}, NEW s, SameRun(s, checks[c]),
                          s.phase = At(p), p \in Past => ~Foreign(checks[c]),
                          p \in Past \ {"drop", "mint"} => s.endpoint # None,
                          checks' = [checks EXCEPT ![c] = s],
                          UNCHANGED <<sessionVars, push, detach, writes, idb, config>>, BrowserTyped'
    PROVE DeviceInv'
  <1>1. checks[c] # Free /\ checks[c].phase.at # "writing" /\ checks[c].user # Guest
    BY NowFacts
  <1>2. push' \in PushStates /\ push' = push
    BY StateFacts
  <1>3. ReadyIsVerified'
    BY DEF DeviceInv, ReadyIsVerified, sessionVars
  <1> QED BY <1>1, <1>2, <1>3, GoKeeps

LEMMA ResetKeeps == ASSUME DeviceInv, NEW c \in Checks, Reset(c) PROVE DeviceInv'
  <1>1. /\ "reset" \in CheckPhases /\ "drop" \in CheckPhases \ {"guest", "saved", "restored"} /\ Is(c, "reset")
        /\ "reset" \in Past /\ "reset" # "guest" /\ "drop" \notin Past \ {"drop", "mint"}
    BY DEF CheckPhases, Reset, Past, Now
  <1>2. checks[c] \in Run /\ ~Foreign(checks[c])
    BY <1>1, NowFacts
  <1> DEFINE s == To(checks[c], At("drop"))
  <1>3. SameRun(s, checks[c]) /\ s.phase = At("drop")
    BY <1>1, <1>2, PlacesAre, GoesTo
  <1>4. UNCHANGED <<sessionVars, push, detach, writes, idb, browser, config>> /\ checks' = [checks EXCEPT ![c] = s]
    BY StateFacts DEF Reset, Goto, To
  <1>5. BrowserTyped'
    BY <1>4, StateFacts DEF BrowserTyped, Reset
  <1> HIDE DEF s
  <1> QED BY <1>1, <1>2, <1>3, <1>4, <1>5, GoPlainly

LEMMA DropKeeps == ASSUME DeviceInv, NEW c \in Checks, DropSubscription(c) PROVE DeviceInv'
  <1>1. /\ "drop" \in CheckPhases /\ "mint" \in CheckPhases \ {"guest", "saved", "restored"} /\ Is(c, "drop")
        /\ "drop" \in Past /\ "drop" # "guest" /\ "mint" \notin Past \ {"drop", "mint"}
    BY DEF CheckPhases, DropSubscription, Past
  <1>2. checks[c] \in Run /\ ~Foreign(checks[c])
    BY <1>1, NowFacts
  <1> DEFINE s == To(checks[c], At("mint"))
  <1>3. SameRun(s, checks[c]) /\ s.phase = At("mint")
    BY <1>1, <1>2, PlacesAre, GoesTo
  <1>4. UNCHANGED <<sessionVars, push, detach, writes, idb, subs, config>> /\ checks' = [checks EXCEPT ![c] = s]
    BY StateFacts DEF DropSubscription, Goto, To
  <1>5. BrowserTyped'
    BY <1>4, StateFacts DEF BrowserTyped, DropSubscription
  <1> HIDE DEF s
  <1> QED BY <1>1, <1>2, <1>3, <1>4, <1>5, GoPlainly

LEMMA MintKeeps == ASSUME DeviceInv, NEW c \in Checks, Mint(c) PROVE DeviceInv'
  <1>1. /\ "mint" \in CheckPhases /\ "post" \in CheckPhases \ {"guest", "saved", "restored"} /\ Is(c, "mint")
        /\ "mint" \in Past /\ "mint" # "guest"
    BY DEF CheckPhases, Mint, Past
  <1>2. checks[c] \in Run /\ ~Foreign(checks[c])
    BY <1>1, NowFacts
  <1> DEFINE e == IF browser.sub # None THEN browser.sub ELSE browser.minted + 1
  <1>3. e \in Endpoints /\ e \in Nat /\ e # None
    BY StateFacts DEF Mint, CanMint, BrowserTyped, Endpoints, None
  <1>4. /\ browser' = [browser EXCEPT !.sub = e, !.minted = IF e > @ THEN e ELSE @]
        /\ checks' = [checks EXCEPT ![c].phase = At("post"), ![c].endpoint = e]
        /\ UNCHANGED <<sessionVars, push, detach, writes, idb, subs, config>>
    BY DEF Mint
  <1> HIDE DEF e
  <1> DEFINE s == ToWith(checks[c], At("post"), e)
  <1>5. SameRun(s, checks[c]) /\ s.phase = At("post") /\ s.endpoint = e
    BY <1>1, <1>2, <1>3, PlacesAre, GoesWith
  <1>6. checks' = [checks EXCEPT ![c] = s]
    BY <1>4, StateFacts DEF ToWith
  <1>7. BrowserTyped'
    <2> DEFINE found == [browser EXCEPT !.sub = e]
               top == IF e > browser.minted THEN e ELSE browser.minted
    <2>1. found \in [permission: {"default", "granted", "denied"}, sub: {None} \cup Endpoints,
                     minted: {None} \cup Endpoints, oldKey: BOOLEAN] /\ found.minted = browser.minted
      BY <1>3, StateFacts DEF BrowserTyped
    <2>2. top \in {None} \cup Endpoints
      BY <1>3, StateFacts DEF BrowserTyped
    <2>3. browser' = [found EXCEPT !.minted = top]
      BY <1>4, <2>1
    <2> HIDE DEF found, top
    <2>4. browser' \in [permission: {"default", "granted", "denied"}, sub: {None} \cup Endpoints,
                        minted: {None} \cup Endpoints, oldKey: BOOLEAN]
      BY <2>1, <2>2, <2>3
    <2> QED BY <1>4, <2>4, StateFacts DEF BrowserTyped
  <1> HIDE DEF s
  <1> QED BY <1>1, <1>2, <1>3, <1>4, <1>5, <1>6, <1>7, GoPlainly

LEMMA PostKeeps == ASSUME DeviceInv, NEW c \in Checks, Post(c) PROVE DeviceInv'
  <1>1. /\ "post" \in CheckPhases /\ "confirm" \in CheckPhases \ {"guest", "saved", "restored"} /\ Is(c, "post")
        /\ "post" \in Past \ {"drop", "mint"} /\ "post" # "guest"
    BY DEF CheckPhases, Post, Past
  <1>2. checks[c] \in Run /\ ~Foreign(checks[c]) /\ checks[c].endpoint # None /\ checks[c].user \in Users \cup {Guest}
    BY <1>1, NowFacts DEF Run
  <1> DEFINE s == To(checks[c], At("confirm"))
  <1>3. SameRun(s, checks[c]) /\ s.phase = At("confirm") /\ s.endpoint = checks[c].endpoint
    BY <1>1, <1>2, PlacesAre, GoesTo
  <1>4. UNCHANGED <<sessionVars, push, detach, writes, idb, browser, config>> /\ checks' = [checks EXCEPT ![c] = s]
    BY StateFacts DEF Post, Goto, To
  <1>5. BrowserTyped'
    BY <1>2, <1>4, StateFacts DEF BrowserTyped, Post
  <1> HIDE DEF s
  <1> QED BY <1>1, <1>2, <1>3, <1>4, <1>5, GoPlainly

LEMMA OwnerReadKeeps == ASSUME DeviceInv, NEW c \in Checks, OwnerRead(c) PROVE DeviceInv'
  <1>1. /\ "owner" \in CheckPhases /\ "config" \in CheckPhases \ {"guest", "saved", "restored"} /\ Now(c, "owner")
        /\ "owner" # "guest" /\ "config" \notin Past /\ "config" \notin Marking
    BY DEF CheckPhases, OwnerRead, Past, Marking
  <1>2. /\ checks[c] # Free /\ checks[c].phase.at # "writing" /\ checks[c] \in Run /\ checks[c].user # Guest /\ Valid(c)
    BY <1>1, NowFacts DEF Now
  <1>3. checks[c].owner \in Marks /\ checks[c].endpoint \in {None} \cup Endpoints
        /\ (checks[c].owner.user = checks[c].user) \in BOOLEAN
    BY <1>2, RunFacts
  <1>4. UNCHANGED <<sessionVars, detach, idb, browser, subs, config>> /\ push' = [push EXCEPT !.known = checks[c].owner]
    BY DEF OwnerRead
  <1>5. push' \in PushStates /\ push'.verified = push.verified /\ push'.detaching = push.detaching
        /\ push'.state = push.state
    BY <1>3, <1>4, StateFacts DEF PushStates
  <1>6. BrowserTyped'
    BY <1>4, StateFacts DEF BrowserTyped
  <1>7. ReadyIsVerified'
    BY <1>4, <1>5 DEF DeviceInv, ReadyIsVerified, sessionVars
  <1>8. CASE Foreign(checks[c])
    <2> DEFINE s == To(checks[c], Writing("config"))
               w == Put(NoMark, c)
    <2>1. checks' = [checks EXCEPT ![c] = s] /\ writes' = Append(writes, w)
      BY <1>8, StateFacts DEF OwnerRead, To
    <2>2. SameRun(s, checks[c]) /\ s.phase = Writing("config")
      BY <1>1, <1>2, PlacesAre, GoesTo
    <2>3. w \in Write /\ w.waiter = c /\ w.do = "put" /\ w.value = NoMark
      BY DEF Put, Write, NoMark, Mark, Marks
    <2> HIDE DEF s, w
    <2> QED BY <1>1, <1>2, <1>4, <1>5, <1>6, <1>7, <1>8, <2>1, <2>2, <2>3, WaitKeeps
  <1>9. CASE ~Foreign(checks[c])
    <2> DEFINE b == checks[c].owner.user = checks[c].user
               s == ToRestoring(checks[c], At("config"), b)
    <2>1. checks' = [checks EXCEPT ![c] = s] /\ UNCHANGED writes
      BY <1>9, StateFacts DEF OwnerRead, ToRestoring
    <2>2. SameRun(s, checks[c]) /\ s.phase = At("config")
      <3>1. b \in BOOLEAN
        OBVIOUS
      <3> HIDE DEF b
      <3> QED BY <1>1, <1>2, <3>1, PlacesAre, GoesRestoring
    <2> HIDE DEF s
    <2> QED BY <1>1, <1>2, <1>4, <1>5, <1>6, <1>7, <2>1, <2>2, GoKeeps
  <1> QED BY <1>8, <1>9

LEMMA ConfigReadKeeps == ASSUME DeviceInv, NEW c \in Checks, ConfigRead(c) PROVE DeviceInv'
  <1>1. /\ "config" \in CheckPhases /\ "device" \in CheckPhases \ {"guest", "saved", "restored"} /\ Now(c, "config")
        /\ "config" # "guest" /\ "device" \notin Past
    BY DEF CheckPhases, ConfigRead, Past
  <1>2. /\ checks[c] # Free /\ checks[c].phase.at = "config" /\ checks[c].phase.at # "writing"
        /\ checks[c] \in Run /\ checks[c].user # Guest
    BY <1>1, NowFacts DEF Now
  <1> DEFINE known == [push EXCEPT !.configured = config.enabled]
             seen == [push EXCEPT !.configured = config.enabled,
                                  !.required = IF config.required THEN "yes" ELSE "no"]
  <1>3. seen \in PushStates /\ seen.verified = push.verified /\ seen.detaching = push.detaching /\ seen.state = push.state
    <2>1. known \in PushStates /\ known.verified = push.verified /\ known.detaching = push.detaching /\ known.state = push.state
      BY StateFacts DEF PushStates
    <2>2. seen = [known EXCEPT !.required = IF config.required THEN "yes" ELSE "no"]
      OBVIOUS
    <2> HIDE DEF known, seen
    <2> QED BY <2>1, <2>2 DEF PushStates
  <1>4. UNCHANGED <<sessionVars, detach, idb, browser, subs, config>>
    BY DEF ConfigRead
  <1>5. BrowserTyped'
    BY <1>4, StateFacts DEF BrowserTyped
  <1>6. CASE ~config.enabled \/ browser.permission # "granted"
    <2>1. PICK next \in {"ready", "unavailable", "denied", "needs_permission"} :
              Invalidate(c, seen, next) /\ (next = "ready" => ~config.enabled)
      BY <1>6 DEF ConfigRead
    <2> HIDE DEF seen
    <2> QED BY <1>1, <1>2, <1>3, <1>4, <1>5, <2>1, InvalidateKeeps
  <1>7. CASE ~(~config.enabled \/ browser.permission # "granted")
    <2> DEFINE s == To(checks[c], At("device"))
    <2>1. push' = seen /\ UNCHANGED writes /\ checks' = [checks EXCEPT ![c] = s]
      BY <1>7, StateFacts DEF ConfigRead, Goto, To
    <2>2. SameRun(s, checks[c]) /\ s.phase = At("device")
      BY <1>1, <1>2, PlacesAre, GoesTo
    <2> HIDE DEF s, seen
    <2>3. ReadyIsVerified'
      BY <1>3, <1>4, <2>1 DEF DeviceInv, ReadyIsVerified, sessionVars
    <2> QED BY <1>1, <1>2, <1>3, <1>4, <1>5, <2>1, <2>2, <2>3, GoKeeps
  <1> QED BY <1>6, <1>7

LEMMA DeviceReadKeeps == ASSUME DeviceInv, NEW c \in Checks, DeviceRead(c) PROVE DeviceInv'
  <1>1. /\ "device" \in CheckPhases /\ Now(c, "device") /\ Is(c, "device") /\ "device" # "guest"
        /\ "status" \in CheckPhases \ {"guest", "saved", "restored"}
        /\ "mint" \in CheckPhases \ {"guest", "saved", "restored"} /\ "mint" \notin Past \ {"drop", "mint"}
        /\ "forgotten" \in CheckPhases \ {"guest"} /\ "forgotten" \notin Past \cup Marking
    BY DEF CheckPhases, DeviceRead, Past, Marking, Now
  <1>2. /\ checks[c] # Free /\ checks[c].phase.at = "device" /\ checks[c].phase.at # "writing"
        /\ checks[c] \in Run /\ RunOK(checks[c]) /\ checks[c].user # Guest /\ Valid(c)
    BY <1>1, NowFacts DEF Now
  <1>3. UNCHANGED <<sessionVars, detach, idb, subs, config>>
    BY DEF DeviceRead
  <1>4. CASE checks[c].kind = "refresh" /\ Foreign(checks[c])
    <2> DEFINE s == To(checks[c], Writing("forgotten"))
               w == Forget(checks[c].owner.endpoint, c)
    <2>1. /\ browser' = [browser EXCEPT !.sub = IF @ = checks[c].owner.endpoint THEN None ELSE @]
          /\ checks' = [checks EXCEPT ![c] = s] /\ writes' = Append(writes, w) /\ push' = push
      BY <1>4, StateFacts DEF DeviceRead, To
    <2>2. SameRun(s, checks[c]) /\ s.phase = Writing("forgotten")
      BY <1>1, <1>2, PlacesAre, GoesTo
    <2>3. checks[c].owner \in Marks
      BY <1>2, RunFacts
    <2>4. w \in Write /\ w.waiter = c /\ w.do = "forget"
      BY <2>3 DEF Forget, Write, Mark, Marks
    <2>5. BrowserTyped'
      BY <1>3, <2>1, StateFacts DEF BrowserTyped
    <2>6. ReadyIsVerified'
      BY <1>3, <2>1 DEF DeviceInv, ReadyIsVerified, sessionVars
    <2> HIDE DEF s, w
    <2> QED BY <1>1, <1>2, <1>3, <2>1, <2>2, <2>4, <2>5, <2>6, StateFacts, WaitKeeps
  <1>5. CASE ~(checks[c].kind = "refresh" /\ Foreign(checks[c]))
    <2>1. ~Foreign(checks[c])
      BY <1>2, <1>5 DEF RunOK, Run, Foreign
    <2>2. browser' = browser
      BY <1>5 DEF DeviceRead
    <2>3. BrowserTyped'
      BY <1>3, <2>2, StateFacts DEF BrowserTyped
    <2>4. CASE browser.sub # None
      <3> DEFINE s == ToWith(checks[c], At("status"), browser.sub)
      <3>1. checks' = [checks EXCEPT ![c] = s] /\ UNCHANGED <<push, writes>>
        BY <1>5, <2>4, StateFacts DEF DeviceRead, ToWith
      <3>2. browser.sub \in {None} \cup Endpoints /\ TRUE \in BOOLEAN
        BY StateFacts DEF BrowserTyped
      <3>3. SameRun(s, checks[c]) /\ s.phase = At("status") /\ s.endpoint = browser.sub
        BY <1>1, <1>2, <3>2, PlacesAre, GoesWith
      <3> HIDE DEF s
      <3> QED BY <1>1, <1>3, <2>1, <2>3, <2>4, <3>1, <3>3, GoPlainly
    <2>5. CASE browser.sub = None /\ (checks[c].kind = "enable" \/ checks[c].restore)
      <3> DEFINE s == To(checks[c], At("mint"))
      <3>1. checks' = [checks EXCEPT ![c] = s] /\ UNCHANGED <<push, writes>>
        BY <1>5, <2>5, StateFacts DEF DeviceRead, Goto, To
      <3>2. SameRun(s, checks[c]) /\ s.phase = At("mint")
        BY <1>1, <1>2, PlacesAre, GoesTo
      <3> HIDE DEF s
      <3> QED BY <1>1, <1>3, <2>1, <2>3, <3>1, <3>2, GoPlainly
    <2>6. CASE browser.sub = None /\ ~(checks[c].kind = "enable" \/ checks[c].restore)
      <3>1. Invalidate(c, push, "needs_permission")
        BY <1>5, <2>6 DEF DeviceRead
      <3> QED BY <1>1, <1>2, <1>3, <2>3, <3>1, InvalidateKeeps, StateFacts
    <2> QED BY <2>4, <2>5, <2>6
  <1> QED BY <1>4, <1>5

LEMMA OwnerForgottenKeeps == ASSUME DeviceInv, NEW c \in Checks, OwnerForgotten(c) PROVE DeviceInv'
  <1>1. "forgotten" \in CheckPhases /\ Now(c, "forgotten") /\ "forgotten" # "guest"
    BY DEF CheckPhases, OwnerForgotten
  <1>2. checks[c].phase.at = "forgotten" /\ checks[c].phase.at # "writing" /\ checks[c].user # Guest
    BY <1>1, NowFacts DEF Now
  <1>3. Invalidate(c, push, "needs_permission") /\ UNCHANGED <<sessionVars, detach, idb, browser, subs, config>>
    BY DEF OwnerForgotten
  <1>4. BrowserTyped'
    BY <1>3, StateFacts DEF BrowserTyped
  <1> QED BY <1>1, <1>2, <1>3, <1>4, InvalidateKeeps, StateFacts

LEMMA StatusReadKeeps == ASSUME DeviceInv, NEW c \in Checks, StatusRead(c) PROVE DeviceInv'
  <1>1. /\ "status" \in CheckPhases /\ Now(c, "status") /\ Is(c, "status") /\ "status" # "guest"
        /\ "status" \in Past \ {"drop", "mint"} /\ "status" \notin Marking
        /\ "post" \in CheckPhases \ {"guest", "saved", "restored"} /\ "drop" \in CheckPhases \ {"guest", "saved", "restored"}
        /\ "restored" \in CheckPhases \ {"guest"} /\ "reset" \in CheckPhases \ {"guest"} /\ "reset" \notin Marking
    BY DEF CheckPhases, StatusRead, Past, Marking, Now
  <1>2. /\ checks[c] # Free /\ checks[c].phase.at = "status" /\ checks[c].phase.at # "writing"
        /\ checks[c] \in Run /\ checks[c].user # Guest /\ Valid(c) /\ ~Foreign(checks[c]) /\ checks[c].endpoint # None
        /\ checks[c].user = auth.user
    BY <1>1, NowFacts DEF Now
  <1>3. checks[c].endpoint \in Endpoints /\ checks[c].user \in Users /\ checks[c].endpoint \in {None} \cup Endpoints
    BY <1>2, RunFacts
  <1>4. UNCHANGED <<sessionVars, detach, idb, browser, config>>
    BY DEF StatusRead
  <1> DEFINE op == checks[c]
             mine == Registered(op)
             good == mine /\ ~(browser.oldKey /\ op.endpoint = 1)
  <1>5. subs' = subs \/ subs' = [subs EXCEPT ![op.endpoint] = Guest]
    BY DEF StatusRead
  <1>6. BrowserTyped'
    BY <1>4, <1>5, StateFacts DEF BrowserTyped
  <1>7. CASE op.kind = "enable"
    <2>1. PICK p \in {"post", "drop"} : Goto(c, p) /\ UNCHANGED <<push, writes>>
      BY <1>7 DEF StatusRead
    <2>2. p \in CheckPhases \ {"guest", "saved", "restored"}
      BY <1>1
    <2> DEFINE s == To(checks[c], At(p))
    <2>3. checks' = [checks EXCEPT ![c] = s]
      BY <2>1, StateFacts DEF Goto, To
    <2>4. SameRun(s, checks[c]) /\ s.phase = At(p) /\ s.endpoint = checks[c].endpoint
      BY <1>2, <2>2, PlacesAre, GoesTo
    <2> HIDE DEF s
    <2> QED BY <1>1, <1>2, <1>4, <1>6, <2>1, <2>2, <2>3, <2>4, GoPlainly
  <1>8. CASE op.kind # "enable" /\ good /\ browser.permission = "granted"
    <2> DEFINE s == ToRestoring(checks[c], Writing("restored"), TRUE)
               w == Put(Mark(op.user, op.endpoint), c)
    <2>1. checks' = [checks EXCEPT ![c] = s] /\ writes' = Append(writes, w) /\ push' = push
      BY <1>8, StateFacts DEF StatusRead, ToRestoring
    <2>2. TRUE \in BOOLEAN
      OBVIOUS
    <2>3. SameRun(s, checks[c]) /\ s.phase = Writing("restored") /\ s.endpoint = checks[c].endpoint
      BY <1>1, <1>2, <2>2, PlacesAre, GoesRestoring
    <2>4. w \in Write /\ w.waiter = c /\ w.do = "put" /\ w.value.user = checks[c].user
      BY <1>3 DEF Put, Write, Mark, Marks
    <2>5. w = Put(Mark(s.user, s.endpoint), c)
      BY <2>3 DEF SameRun
    <2>6. ReadyIsVerified'
      BY <1>4, <2>1 DEF DeviceInv, ReadyIsVerified, sessionVars
    <2> HIDE DEF s, w
    <2> QED BY <1>1, <1>2, <1>4, <1>6, <2>1, <2>3, <2>4, <2>5, <2>6, StateFacts, WaitKeeps
  <1>9. CASE op.kind # "enable" /\ good /\ browser.permission # "granted"
    <2>1. Invalidate(c, push, "denied")
      BY <1>9 DEF StatusRead
    <2> QED BY <1>1, <1>2, <1>4, <1>6, <2>1, InvalidateKeeps, StateFacts
  <1>10. CASE op.kind # "enable" /\ ~good /\ ~(op.restore \/ mine)
    <2>1. Invalidate(c, push, "needs_permission")
      BY <1>10 DEF StatusRead
    <2> QED BY <1>1, <1>2, <1>4, <1>6, <2>1, InvalidateKeeps, StateFacts
  <1>11. CASE op.kind # "enable" /\ ~good /\ (op.restore \/ mine)
    <2> DEFINE b == mine
               s == ToRestoring(checks[c], Writing("reset"), b)
               w == Put(NoMark, c)
    <2>1. checks' = [checks EXCEPT ![c] = s] /\ writes' = Append(writes, w)
          /\ push' = [push EXCEPT !.verified = None, !.state = "checking"]
      BY <1>11, StateFacts DEF StatusRead, ToRestoring
    <2>2. b \in BOOLEAN
      BY DEF Registered
    <2> HIDE DEF b
    <2>3. SameRun(s, checks[c]) /\ s.phase = Writing("reset") /\ s.endpoint = checks[c].endpoint
      BY <1>1, <1>2, <2>2, PlacesAre, GoesRestoring
    <2>4. w \in Write /\ w.waiter = c /\ w.do = "put" /\ w.value = NoMark
      BY DEF Put, Write, NoMark, Mark, Marks
    <2>5. push' \in PushStates /\ push'.verified = None /\ push'.state = "checking" /\ push'.detaching = push.detaching
      BY <2>1, StateFacts DEF PushStates
    <2>6. ReadyIsVerified'
      BY <2>5 DEF ReadyIsVerified
    <2> HIDE DEF s, w
    <2> QED BY <1>1, <1>2, <1>4, <1>6, <2>1, <2>3, <2>4, <2>5, <2>6, WaitKeeps
  <1> QED BY <1>7, <1>8, <1>9, <1>10, <1>11

LEMMA ConfirmKeeps == ASSUME DeviceInv, NEW c \in Checks, Confirm(c) PROVE DeviceInv'
  <1>1. /\ "confirm" \in CheckPhases /\ Now(c, "confirm") /\ "confirm" # "guest" /\ "saved" \in CheckPhases \ {"guest"}
        /\ "confirm" \in Past \ {"drop", "mint"}
    BY DEF CheckPhases, Confirm, Past
  <1>2. /\ checks[c] # Free /\ checks[c].phase.at # "writing" /\ checks[c] \in Run /\ checks[c].user # Guest
        /\ Valid(c) /\ ~Foreign(checks[c]) /\ checks[c].endpoint # None
    BY <1>1, NowFacts DEF Now
  <1>3. checks[c].endpoint \in Endpoints /\ checks[c].user \in Users
    BY <1>2, RunFacts
  <1> DEFINE s == To(checks[c], Writing("saved"))
             w == Put(Mark(checks[c].user, checks[c].endpoint), c)
  <1>4. /\ UNCHANGED <<sessionVars, push, detach, idb, browser, subs, config>>
        /\ checks' = [checks EXCEPT ![c] = s] /\ writes' = Append(writes, w)
    BY StateFacts DEF Confirm, To
  <1>5. SameRun(s, checks[c]) /\ s.phase = Writing("saved") /\ s.endpoint = checks[c].endpoint
    BY <1>1, <1>2, PlacesAre, GoesTo
  <1>6. w \in Write /\ w.waiter = c /\ w.do = "put" /\ w.value.user = checks[c].user
    BY <1>3 DEF Put, Write, Mark, Marks
  <1>7. w = Put(Mark(s.user, s.endpoint), c)
    BY <1>5 DEF SameRun
  <1>8. ReadyIsVerified' /\ BrowserTyped'
    BY <1>4, StateFacts DEF DeviceInv, ReadyIsVerified, sessionVars, BrowserTyped
  <1> HIDE DEF s, w
  <1> QED BY <1>1, <1>2, <1>4, <1>5, <1>6, <1>7, <1>8, StateFacts, WaitKeeps

LEMMA RestoredKeeps == ASSUME DeviceInv, NEW c \in Checks, Restored(c) PROVE DeviceInv'
  <1>1. /\ "restored" \in CheckPhases /\ Now(c, "restored") /\ "restored" # "guest" /\ "restored" \in Past \ {"drop", "mint"}
        /\ "restored" \in Marking /\ "post" \in CheckPhases \ {"guest", "saved", "restored"}
    BY DEF CheckPhases, Restored, Past, Marking
  <1>2. /\ checks[c] # Free /\ checks[c].phase.at = "restored" /\ checks[c].phase.at # "writing" /\ checks[c] \in Run
        /\ checks[c].user # Guest /\ checks[c].valid /\ ~Foreign(checks[c]) /\ checks[c].endpoint # None
    BY <1>1, NowFacts DEF Now
  <1>3. checks[c].endpoint \in Endpoints
    BY <1>2, RunFacts
  <1> DEFINE after == [push EXCEPT !.verified = checks[c].endpoint, !.state = "ready"]
  <1>4. UNCHANGED <<sessionVars, detach, writes, idb, browser, subs, config>>
    BY DEF Restored
  <1>5. after \in PushStates /\ after.verified = checks[c].endpoint /\ after.detaching = push.detaching
    BY <1>3, StateFacts DEF PushStates
  <1>6. BrowserTyped'
    BY <1>4, StateFacts DEF BrowserTyped
  <1>7. CASE push.restored = checks[c].endpoint
    <2>1. Finished(c, after)
      BY <1>7 DEF Restored
    <2> HIDE DEF after
    <2> QED BY <1>1, <1>2, <1>4, <1>5, <1>6, <2>1, FinishKeeps
  <1>8. CASE push.restored # checks[c].endpoint
    <2> DEFINE s == To(checks[c], At("post"))
    <2>1. push' = after /\ checks' = [checks EXCEPT ![c] = s]
      BY <1>8, StateFacts DEF Restored, Goto, To
    <2>2. SameRun(s, checks[c]) /\ s.phase = At("post") /\ s.endpoint = checks[c].endpoint
      BY <1>1, <1>2, PlacesAre, GoesTo
    <2> HIDE DEF s, after
    <2>3. ReadyIsVerified'
      BY <1>2, <1>5, <2>1 DEF ReadyIsVerified
    <2> QED BY <1>1, <1>2, <1>4, <1>5, <1>6, <2>1, <2>2, <2>3, GoKeeps
  <1> QED BY <1>7, <1>8

LEMMA PromptKeeps == ASSUME DeviceInv, NEW c \in Checks, PromptAnswered(c) PROVE DeviceInv'
  <1>1. /\ "prompt" \in CheckPhases /\ Now(c, "prompt") /\ Is(c, "prompt") /\ "prompt" # "guest"
        /\ "device" \in CheckPhases \ {"guest", "saved", "restored"} /\ "device" \notin Past
    BY DEF CheckPhases, PromptAnswered, Past, Now
  <1>2. /\ checks[c].phase.at = "prompt" /\ checks[c].phase.at # "writing" /\ checks[c] \in Run
    BY <1>1, NowFacts
  <1>3. PICK choice \in {"granted", "denied", "default"} :
          /\ browser' = [browser EXCEPT !.permission = choice]
          /\ IF choice = "granted" THEN Goto(c, "device") /\ UNCHANGED push
             ELSE Finished(c, [push EXCEPT !.state = IF choice = "denied" THEN "denied" ELSE "needs_permission"])
    BY DEF PromptAnswered
  <1>4. UNCHANGED <<sessionVars, detach, writes, idb, subs, config>>
    BY DEF PromptAnswered
  <1>5. BrowserTyped'
    BY <1>3, <1>4, StateFacts DEF BrowserTyped
  <1>6. CASE choice = "granted"
    <2> DEFINE s == To(checks[c], At("device"))
    <2>1. push' = push /\ checks' = [checks EXCEPT ![c] = s]
      BY <1>3, <1>6, StateFacts DEF Goto, To
    <2>2. SameRun(s, checks[c]) /\ s.phase = At("device")
      BY <1>1, <1>2, PlacesAre, GoesTo
    <2> HIDE DEF s
    <2> QED BY <1>1, <1>4, <1>5, <2>1, <2>2, GoPlainly
  <1>7. CASE choice # "granted"
    <2> DEFINE after == [push EXCEPT !.state = IF choice = "denied" THEN "denied" ELSE "needs_permission"]
    <2>1. after \in PushStates /\ after.state # "ready" /\ after.detaching = push.detaching /\ after.verified = push.verified
      BY StateFacts DEF PushStates
    <2>2. Finished(c, after)
      BY <1>3, <1>7
    <2> HIDE DEF after
    <2> QED BY <1>1, <1>2, <1>4, <1>5, <2>1, <2>2, FinishKeeps
  <1> QED BY <1>6, <1>7

LEMMA RefreshDeviceKeeps == ASSUME DeviceInv, NEW c \in Checks, RefreshDevice(c) PROVE DeviceInv'
  <1> DEFINE next == IF auth.user = Guest THEN "guest" ELSE "owner"
             r == [kind |-> "refresh", valid |-> TRUE, user |-> auth.user, owner |-> NoMark,
                   phase |-> Writing(next), endpoint |-> None, restore |-> FALSE]
             w == IF auth.user = Guest THEN Put(NoMark, c) ELSE ReadOwner(c)
  <1>1. /\ checks' = [Stale EXCEPT ![c] = r] /\ checks[c] = Free /\ ~push.detaching
        /\ push' = [push EXCEPT !.checking = TRUE, !.state = IF @ = "ready" THEN @ ELSE "checking"]
        /\ writes' = Append(writes, w)
        /\ UNCHANGED <<sessionVars, detach, idb, browser, subs, config>>
    BY DEF RefreshDevice
  <1>2. auth.user \in Users \cup {Guest} /\ NoMark \in Marks
    BY DEF DeviceInv, SessionInv, SessionTypeOK, NoMark, Mark, Marks
  <1>3. next \in CheckPhases /\ next \notin Marking /\ next \notin Past /\ (next = "guest" <=> auth.user = Guest)
    BY DEF CheckPhases, Marking, Past
  <1> HIDE DEF next
  <1>4. r \in Run /\ r.phase.at = "writing" /\ r.phase.next = next
    BY <1>2, <1>3 DEF Run, Writing
  <1>5. r # Free /\ RunOK(r)
    BY <1>3, <1>4 DEF RunOK
  <1>6. w \in Write /\ (auth.user = Guest => w = Put(NoMark, c)) /\ (auth.user # Guest => w = ReadOwner(c) /\ next = "owner")
    BY <1>2 DEF Put, ReadOwner, Write, next
  <1> DEFINE seen == [push EXCEPT !.checking = TRUE]
  <1>7. push' \in PushStates /\ push'.verified = push.verified /\ push'.detaching = push.detaching
        /\ push'.state \in {push.state, "checking"}
    <2>1. seen \in PushStates /\ seen.verified = push.verified /\ seen.detaching = push.detaching /\ seen.state = push.state
      BY StateFacts DEF PushStates
    <2>2. push' = [seen EXCEPT !.state = IF seen.state = "ready" THEN seen.state ELSE "checking"]
      BY <1>1, <2>1
    <2> HIDE DEF seen
    <2> QED BY <2>1, <2>2 DEF PushStates
  <1>8. ReadyIsVerified'
    BY <1>1, <1>7 DEF DeviceInv, ReadyIsVerified, sessionVars
  <1>9. checks' \in [Checks -> Run \cup {Free}]
    BY <1>1, <1>4, StaleFacts DEF DeviceInv
  <1>10. writes' \in Seq(Write)
    BY <1>1, <1>6, StateFacts, AppendFacts
  <1>11. BrowserTyped' /\ detach' \in {"idle", "writing", "written"}
    BY <1>1, StateFacts DEF BrowserTyped
  <1>12. Calm
    BY <1>1, <1>7, <1>9, <1>10, <1>11, CalmStep
  <1>13. r.valid /\ r.user = auth.user /\ r.owner = NoMark /\ r.kind = "refresh"
    OBVIOUS
  <1> HIDE DEF r, w
  <1>14. Starts(c, r)
    BY <1>1, <1>3, <1>4, <1>5, <1>6, <1>7, <1>8, <1>12, <1>13 DEF Starts
  <1> QED BY <1>14, StartKeeps

LEMMA EnableBeginKeeps == ASSUME DeviceInv, NEW c \in Checks, EnableBegin(c) PROVE DeviceInv'
  <1> DEFINE next == IF browser.permission = "granted" THEN "device" ELSE "prompt"
             r == [kind |-> "enable", valid |-> TRUE, user |-> auth.user, owner |-> NoMark,
                   phase |-> At(next), endpoint |-> None, restore |-> FALSE]
  <1>1. /\ checks' = [Stale EXCEPT ![c] = r] /\ checks[c] = Free /\ ~push.detaching /\ auth.user # Guest
        /\ push' = [push EXCEPT !.busy = TRUE, !.checking = FALSE]
        /\ UNCHANGED <<sessionVars, detach, writes, idb, browser, subs, config>>
    BY DEF EnableBegin
  <1>2. auth.user \in Users \cup {Guest} /\ NoMark \in Marks
    BY DEF DeviceInv, SessionInv, SessionTypeOK, NoMark, Mark, Marks
  <1>3. next \in CheckPhases /\ next \notin Marking /\ next \notin Past /\ next # "guest" /\ next # "writing"
    BY DEF CheckPhases, Marking, Past
  <1> HIDE DEF next
  <1>4. r \in Run /\ r.phase.at = next /\ r.phase.next = next
    BY <1>2, <1>3 DEF Run, At
  <1>5. r # Free /\ RunOK(r)
    BY <1>1, <1>3, <1>4 DEF RunOK
  <1>6. push' \in PushStates /\ push'.verified = push.verified /\ push'.detaching = push.detaching
        /\ push'.state = push.state
    BY <1>1, StateFacts DEF PushStates
  <1>7. ReadyIsVerified'
    BY <1>1, <1>6 DEF DeviceInv, ReadyIsVerified, sessionVars
  <1>8. checks' \in [Checks -> Run \cup {Free}]
    BY <1>1, <1>4, StaleFacts DEF DeviceInv
  <1>9. BrowserTyped' /\ detach' \in {"idle", "writing", "written"} /\ writes' \in Seq(Write)
    BY <1>1, StateFacts DEF BrowserTyped
  <1>10. Calm
    BY <1>1, <1>6, <1>8, <1>9, CalmStep
  <1>11. r.valid /\ r.user = auth.user /\ r.owner = NoMark
    OBVIOUS
  <1> HIDE DEF r
  <1>12. Starts(c, r)
    BY <1>1, <1>3, <1>4, <1>5, <1>6, <1>7, <1>10, <1>11 DEF Starts
  <1> QED BY <1>12, StartKeeps

(* What cuts a run off: a failure, the timeout of a refresh, a lost          *)
(* permission that the focus finds.                                          *)
LEMMA NoMarkQueues == ASSUME DeviceInv PROVE Append(writes, Put(NoMark, "nobody")) \in Seq(Write)
  <1>1. Put(NoMark, "nobody") \in Write
    BY DEF Put, Write, NoMark, Mark, Marks
  <1> QED BY <1>1, StateFacts, AppendFacts

LEMMA CutsKeep == ASSUME DeviceInv, UNCHANGED <<sessionVars, detach, idb, browser, subs, config>>,
                         push' \in PushStates, push'.detaching = push.detaching,
                         push'.verified # None => push.verified # None /\ writes' = writes,
                         writes' = writes \/ writes' = Append(writes, Put(NoMark, "nobody")),
                         auth.user # Guest /\ push'.state = "ready" /\ config.enabled => push'.verified # None,
                         checks' = Stale \/ \E c \in Checks : /\ checks' = [Stale EXCEPT ![c] = Free]
                                                              /\ checks[c].phase.at # "writing"
    PROVE DeviceInv'
  <1>1. checks' \in [Checks -> Run \cup {Free}]
    BY StaleFacts DEF DeviceInv
  <1>2. writes' \in Seq(Write)
    BY StateFacts, NoMarkQueues
  <1>3. BrowserTyped' /\ detach' \in {"idle", "writing", "written"}
    BY StateFacts DEF BrowserTyped
  <1>4. Calm
    BY <1>1, <1>2, <1>3, CalmStep
  <1>5. \A d \in Checks : \/ checks'[d] = Stale[d]
                          \/ checks'[d] = Free /\ (checks[d] # Free => checks[d].phase.at # "writing")
    BY StaleFacts DEF DeviceInv
  <1>6. ReadyIsVerified'
    BY DEF ReadyIsVerified, sessionVars
  <1>7. Cuts
    BY <1>4, <1>5, <1>6 DEF Cuts
  <1> QED BY <1>7, CutKeeps

LEMMA FailureFacts == ASSUME DeviceInv, FailureOutcome
    PROVE /\ push' \in PushStates /\ push'.detaching = push.detaching
          /\ push'.verified # None => push.verified # None /\ writes' = writes
          /\ writes' = writes \/ writes' = Append(writes, Put(NoMark, "nobody"))
          /\ push'.state = "ready" => push'.verified # None
  <1>1. CASE push.verified # None /\ browser.permission = "granted"
    <2>1. push' = [push EXCEPT !.state = "ready", !.checking = FALSE] /\ writes' = writes
      BY <1>1 DEF FailureOutcome
    <2>2. push' \in PushStates /\ push'.detaching = push.detaching /\ push'.verified = push.verified
      BY <2>1, StateFacts DEF PushStates
    <2> QED BY <1>1, <2>1, <2>2
  <1>2. CASE ~(push.verified # None /\ browser.permission = "granted")
    <2>1. /\ push' = [push EXCEPT !.verified = None, !.state = "error", !.checking = FALSE]
          /\ writes' = writes \/ writes' = Append(writes, Put(NoMark, "nobody"))
      BY <1>2 DEF FailureOutcome
    <2>2. push' \in PushStates /\ push'.detaching = push.detaching /\ push'.verified = None /\ push'.state = "error"
      BY <2>1, StateFacts DEF PushStates
    <2> QED BY <2>1, <2>2
  <1> QED BY <1>1, <1>2

LEMMA CheckFailsKeeps == ASSUME DeviceInv, NEW c \in Checks, CheckFails(c) PROVE DeviceInv'
  <1>1. /\ checks' = [Stale EXCEPT ![c] = Free] /\ checks[c].phase.at # "writing"
        /\ UNCHANGED <<sessionVars, detach, idb, browser, subs, config>>
    BY DEF CheckFails, MayFail
  <1>2. CASE FailureOutcome
    BY <1>1, <1>2, FailureFacts, CutsKeep
  <1>3. CASE push' = [push EXCEPT !.state = "error", !.busy = FALSE] /\ UNCHANGED writes
    <2>1. push' \in PushStates /\ push'.detaching = push.detaching /\ push'.verified = push.verified /\ push'.state = "error"
      BY <1>3, StateFacts DEF PushStates
    <2> QED BY <1>1, <1>3, <2>1, CutsKeep
  <1> QED BY <1>2, <1>3 DEF CheckFails

LEMMA CheckTimesOutKeeps == ASSUME DeviceInv, NEW c \in Checks, CheckTimesOut(c) PROVE DeviceInv'
  <1>1. checks' = Stale /\ FailureOutcome /\ UNCHANGED <<sessionVars, detach, idb, browser, subs, config>>
    BY DEF CheckTimesOut
  <1> QED BY <1>1, FailureFacts, CutsKeep

LEMMA FocusKeeps == ASSUME DeviceInv, Focus PROVE DeviceInv'
  <1> DEFINE next == IF browser.permission = "denied" THEN "denied" ELSE "needs_permission"
  <1>1. /\ push' = [push EXCEPT !.checking = FALSE, !.verified = None, !.state = next]
        /\ checks' = Stale /\ writes' = Append(writes, Put(NoMark, "nobody"))
        /\ UNCHANGED <<sessionVars, detach, idb, browser, subs, config>>
    BY DEF Focus
  <1>2. next \in {"denied", "needs_permission"}
    OBVIOUS
  <1> HIDE DEF next
  <1>3. push' \in PushStates /\ push'.detaching = push.detaching /\ push'.verified = None /\ push'.state = next
    BY <1>1, <1>2, StateFacts DEF PushStates
  <1> QED BY <1>1, <1>2, <1>3, CutsKeep

(* The browser or the server moves: no property looks there.                 *)
LEMMA WorldKeeps == ASSUME DeviceInv, UNCHANGED <<sessionVars, push, checks, detach, writes, idb, config>>, BrowserTyped'
    PROVE DeviceInv'
  <1>1. Calm
    BY StateFacts, CalmStep
  <1>2. KeepsWaiting
    BY DEF KeepsWaiting
  <1>3. Awaited' /\ AwaitedOnce'
    BY <1>2, QueueSame DEF DeviceInv
  <1>4. RunsFit' /\ OneValid' /\ ValidIsMine' /\ WrittenLast' /\ VerifiedIsMine' /\ ReadyIsVerified'
    BY DEF sessionVars, DeviceInv, RunsFit, OneValid, ValidIsMine, WrittenLast, VerifiedIsMine, MarkersMine,
           ReadyIsVerified, Valid
  <1>5. LeavesQuiet' /\ SignedOutIsQuiet' /\ DetachHasCleanup'
    BY DEF sessionVars, DeviceInv, LeavesQuiet, Leaving, SignedOutIsQuiet, Quiet, Silent, DetachHasCleanup, Valid
  <1> QED BY <1>1, <1>3, <1>4, <1>5 DEF Calm, DeviceInv

LEMMA WorldStepKeeps == ASSUME DeviceInv, PermissionTaken \/ \E e \in Endpoints : EndpointGone(e) PROVE DeviceInv'
  <1>1. UNCHANGED <<sessionVars, push, checks, detach, writes, idb, config>>
    BY DEF PermissionTaken, EndpointGone
  <1>2. CASE PermissionTaken
    <2>1. browser' = [browser EXCEPT !.permission = "denied", !.sub = None] /\ subs' = subs
      BY <1>2 DEF PermissionTaken
    <2>2. BrowserTyped'
      BY <2>1, StateFacts DEF BrowserTyped
    <2> QED BY <1>1, <2>2, WorldKeeps
  <1>3. CASE \E e \in Endpoints : EndpointGone(e)
    <2>1. BrowserTyped'
      BY <1>3, StateFacts DEF EndpointGone, BrowserTyped
    <2> QED BY <1>1, <2>1, WorldKeeps
  <1> QED BY <1>2, <1>3

(* The write queue, typed.                                                   *)
LEMMA WriteStepTyped == ASSUME DeviceInv, WriteStep PROVE DeviceTypeOK'
  <1>1. writes # <<>> /\ Head(writes) \in Write /\ writes' = Tail(writes) /\ Tail(writes) \in Seq(Write)
    BY StateFacts, TailFacts DEF WriteStep
  <1>2. UNCHANGED <<push, browser, subs, config>> /\ detach' \in {detach, "written"}
    BY DEF WriteStep
  <1>3. idb' = Stored(Head(writes))
    BY DEF WriteStep
  <1>4. NoMark \in Marks /\ idb \in [current: Marks, owner: Marks]
    BY DEF NoMark, Mark, Marks, DeviceInv, DeviceTypeOK
  <1>5. idb' \in [current: Marks, owner: Marks]
    BY <1>1, <1>3, <1>4 DEF Stored, Write
  <1>6. checks' \in [Checks -> Run \cup {Free}]
    <2> DEFINE c == Head(writes).waiter
               phase == [at |-> checks[c].phase.next, next |-> checks[c].phase.next]
               own == IF Head(writes).do = "read" THEN idb.owner ELSE checks[c].owner
               moved == [checks[c] EXCEPT !.phase = phase]
               told == [moved EXCEPT !.owner = own]
    <2>1. CASE c \notin Checks
      BY <2>1, StateFacts DEF WriteStep
    <2>2. CASE c \in Checks
      <3>1. FitsWrite(Head(writes), checks, detach)
        <4>1. 1 \in 1 .. Len(writes) /\ Head(writes) = writes[1]
          BY <1>1, StateFacts, TailFacts
        <4> QED BY <4>1 DEF DeviceInv, Awaited
      <3>2. checks[c] \in Run
        BY <2>2, <3>1, StateFacts DEF FitsWrite
      <3>3. checks' = [checks EXCEPT ![c] = told]
        BY <2>2, <3>2, StateFacts DEF WriteStep, Run
      <3>4. phase \in [at: CheckPhases \cup {"writing"}, next: CheckPhases] /\ own \in Marks
        BY <3>2, StateFacts DEF Run
      <3> HIDE DEF phase, own
      <3>5. moved \in Run
        BY <3>2, <3>4 DEF Run
      <3> HIDE DEF moved
      <3>6. told \in Run
        BY <3>4, <3>5 DEF Run
      <3> HIDE DEF told
      <3> QED BY <3>3, <3>6, StateFacts
    <2> QED BY <2>1, <2>2
  <1> QED BY <1>1, <1>2, <1>5, <1>6 DEF DeviceInv, DeviceTypeOK

LEMMA DetachBeginTyped == ASSUME DeviceInv, NEW id \in OpIds, DetachBegin(id) PROVE DeviceTypeOK'
  <1>1. /\ push' = [push EXCEPT !.detaching = TRUE, !.checking = FALSE, !.verified = None, !.busy = FALSE, !.state = "checking"]
        /\ checks' = Stale /\ detach' = "writing" /\ writes' = Append(writes, Put(NoMark, "detach"))
        /\ UNCHANGED <<idb, browser, subs, config>>
    BY DEF DetachBegin
  <1>2. push' \in PushStates
    BY <1>1, StateFacts DEF PushStates
  <1>3. Put(NoMark, "detach") \in Write
    BY DEF Put, Write, NoMark, Mark, Marks
  <1>4. writes' \in Seq(Write)
    BY <1>1, <1>3, StateFacts, AppendFacts
  <1>5. checks' \in [Checks -> Run \cup {Free}]
    BY <1>1, StaleFacts DEF DeviceInv
  <1> QED BY <1>1, <1>2, <1>4, <1>5 DEF DeviceInv, DeviceTypeOK

LEMMA RemountTyped == ASSUME DeviceInv, Remount, detach' \in {detach, "idle"}, UNCHANGED <<writes, idb, browser, subs, config>>
    PROVE DeviceTypeOK'
  <1>1. NoMark \in Marks
    BY DEF NoMark, Mark, Marks
  <1>2. Mounted \in PushStates
    BY <1>1 DEF Mounted, PushStates, None
  <1>3. push' \in PushStates /\ checks' \in [Checks -> Run \cup {Free}]
    BY <1>2, StaleFacts DEF Remount, DeviceInv, DeviceTypeOK
  <1> QED BY <1>3 DEF DeviceInv, DeviceTypeOK

(* The cleanup ends.                                                         *)
LEMMA DetachEndKeeps == ASSUME DeviceInv, SessionInv', TransitionInv', NEW id \in OpIds, DetachSkipped(id) \/ DetachKeeps(id)
    PROVE DeviceInv'
  <1>1. /\ CleanupEnd(id) /\ Remount /\ detach' = "idle" /\ UNCHANGED <<writes, idb, browser, subs, config>>
        /\ detach' = detach \/ (detach = "written" /\ id = Head(cleanups))
    BY DEF DetachSkipped, DetachKeeps, Owns
  <1>2. DeviceTypeOK'
    BY <1>1, RemountTyped
  <1>3. ~Leaving'
    BY <1>1 DEF Leaving
  <1>4. signedOut' => signedOut \/ Quiet
    <2>1. CASE signedOut' = signedOut
      BY <2>1
    <2>2. CASE ops[id].kind = "logout" /\ ops[id].current
      <3>1. detach = "written"
        BY <2>2 DEF DetachSkipped, DetachKeeps
      <3>2. Leaving
        BY <1>1, <2>2, <3>1 DEF Leaving, DetachKeeps
      <3> QED BY <3>1, <3>2 DEF DeviceInv, LeavesQuiet
    <2> QED BY <1>1, <2>1, <2>2 DEF CleanupEnd
  <1>5. AccountMoves
    BY <1>1, <1>2, <1>3, <1>4 DEF AccountMoves
  <1> QED BY <1>5, AccountMoveKeeps


(* The session's own steps leave the cleanup under way where it is: its      *)
(* operation may only be superseded, and nobody signs in behind a current    *)
(* sign-out.                                                                 *)
LEMMA AskLeavesWaiting == ASSUME SessionInv, NEW h \in OpIds, Waits(ops[h]), NEW id \in OpIds, RefreshBegin(id) \/ PageCall(id)
    PROVE UNCHANGED <<auth, cleanups, signedOut>> /\ ops'[h] = ops[h]
  <1>1. ops[id] = Free /\ UNCHANGED <<auth, cleanups, signedOut>>
        /\ \E op : ops' = [ops EXCEPT ![id] = op]
    BY DEF RefreshBegin, PageCall, IsFree
  <1>2. id # h
    BY <1>1, FreeWaitsNot
  <1> QED BY <1>1, <1>2 DEF SessionInv, SessionTypeOK

LEMMA EndLeavesWaiting == ASSUME SessionInv, NEW h \in OpIds, Waits(ops[h]), NEW id \in OpIds,
                                 RefreshDone(id) \/ RefreshFailed(id) \/ PageAnswered(id) \/ LoginDone(id) \/ ServerAnswers(id)
    PROVE cleanups' = cleanups /\ ops'[h] = ops[h]
  <1>1. id # h
    BY DEF Waits, RefreshDone, RefreshFailed, PageAnswered, LoginDone, StillWanted, ServerAnswers
  <1>2. \/ ops' = [ops EXCEPT ![id] = Free]
        \/ \E p \in Phases : ops' = [ops EXCEPT ![id].phase = p]
    BY DEF RefreshDone, RefreshFailed, PageAnswered, LoginDone, StillWanted, ServerAnswers, Phases
  <1> QED BY <1>1, <1>2 DEF SessionInv, SessionTypeOK, RefreshDone, RefreshFailed, PageAnswered, LoginDone, StillWanted, ServerAnswers

LEMMA JoinLeavesWaiting == ASSUME SessionInv, NEW h \in OpIds, Waits(ops[h]), NEW id \in OpIds,
                                  Expire(id) \/ LogoutBegin(id) \/ \E u \in Users : LoginBegin(id, u)
    PROVE /\ cleanups' \in {cleanups, Append(cleanups, id)} /\ signedOut' = signedOut
          /\ ops'[h] \in {ops[h], Superseded[h]} /\ auth'.user \in {auth.user, Guest}
  <1>1. id # h
    BY FreeWaitsNot DEF Waits, Expire, LogoutBegin, LoginBegin, IsFree
  <1>2. \/ \E op : ops' = [ops EXCEPT ![id] = op]
        \/ \E op : ops' = [Superseded EXCEPT ![id] = op]
    BY DEF Expire, LogoutBegin, LoginBegin
  <1>3. ops'[h] \in {ops[h], Superseded[h]}
    BY <1>1, <1>2, SupersededTyped DEF SessionInv, SessionTypeOK
  <1>4. auth'.user \in {auth.user, Guest}
    BY DEF Expire, LogoutBegin, LoginBegin, SessionInv, SessionTypeOK
  <1> QED BY <1>3, <1>4 DEF Expire, LogoutBegin, LoginBegin

LEMMA LeavingFacts == ASSUME DeviceInv, detach # "idle"
    PROVE cleanups # <<>> /\ cleanups \in Seq(OpIds) /\ Head(cleanups) \in OpIds /\ Waits(ops[Head(cleanups)])
  <1>1. cleanups # <<>> /\ cleanups \in Seq(OpIds)
    BY DEF DeviceInv, DetachHasCleanup, SessionInv, SessionTypeOK
  <1>2. Head(cleanups) \in OpIds /\ Head(cleanups) = cleanups[1] /\ 1 \in 1 .. Len(cleanups)
    BY <1>1
  <1> QED BY <1>1, <1>2 DEF DeviceInv, SessionInv, Queued

LEMMA LeavingBlocks == ASSUME DeviceInv, Leaving, NEW id \in OpIds
    PROVE /\ ~(ops[id] # Free /\ ops[id].kind = "refresh" /\ ops[id].current)
          /\ ~(ops[id] # Free /\ ops[id].kind = "login" /\ ops[id].current)
  <1> DEFINE h == Head(cleanups)
  <1>1. h \in OpIds /\ Waits(ops[h]) /\ ops[h].kind = "logout" /\ ops[h].current
    BY LeavingFacts DEF Leaving
  <1> HIDE DEF h
  <1>2. Moves(ops[h])
    BY <1>1 DEF Moves, Live, Waits
  <1>3. \A other \in OpIds \ {h} : Live(ops[other]) => ops[other].kind = "page"
    BY <1>1, <1>2 DEF DeviceInv, TransitionInv, OneTransition
  <1> QED BY <1>1, <1>3 DEF Live

(* The steps of the session the device does not end itself.                  *)
OwnStep == \/ RefreshWithoutToken \/ \E u \in Users : Deactivate(u)
           \/ \E id \in OpIds : \/ RefreshBegin(id) \/ PageCall(id)
                               \/ RefreshDone(id) \/ RefreshFailed(id) \/ PageAnswered(id) \/ LoginDone(id) \/ ServerAnswers(id)
                               \/ Expire(id) \/ LogoutBegin(id) \/ \E u \in Users : LoginBegin(id, u)

LEMMA OwnStepLeavesCleanup == ASSUME SessionInv, NEW h \in OpIds, Waits(ops[h]), OwnStep
    PROVE /\ cleanups' = cleanups \/ \E id \in OpIds : cleanups' = Append(cleanups, id)
          /\ ops'[h] \in {ops[h], Superseded[h]}
  <1>1. CASE RefreshWithoutToken \/ \E u \in Users : Deactivate(u)
    BY <1>1 DEF RefreshWithoutToken, Deactivate
  <1> QED BY <1>1, AskLeavesWaiting, EndLeavesWaiting, JoinLeavesWaiting DEF OwnStep

LEMMA OwnStepSignsNobodyOut == ASSUME OwnStep, signedOut' PROVE signedOut
  BY DEF OwnStep, RefreshWithoutToken, Deactivate, RefreshBegin, PageCall, RefreshDone, RefreshFailed,
         PageAnswered, LoginDone, StillWanted, ServerAnswers, Expire, LogoutBegin, LoginBegin

LEMMA LeavingSignsNobodyIn == ASSUME DeviceInv, Leaving, OwnStep PROVE auth'.user \in {auth.user, Guest}
  <1> DEFINE h == Head(cleanups)
  <1>1. h \in OpIds /\ Waits(ops[h])
    BY LeavingFacts DEF Leaving
  <1> HIDE DEF h
  <1>2. CASE RefreshWithoutToken \/ \E u \in Users : Deactivate(u)
    BY <1>2 DEF RefreshWithoutToken, Deactivate, DeviceInv, SessionInv, SessionTypeOK
  <1>3. ASSUME NEW id \in OpIds, RefreshBegin(id) \/ PageCall(id) PROVE auth' = auth
    BY <1>3 DEF RefreshBegin, PageCall
  <1>4. ASSUME NEW id \in OpIds, RefreshDone(id) \/ LoginDone(id) PROVE auth' = auth
    BY <1>4, LeavingBlocks DEF RefreshDone, LoginDone, StillWanted, StillMine
  <1>5. ASSUME NEW id \in OpIds, RefreshFailed(id) \/ PageAnswered(id) \/ ServerAnswers(id)
        PROVE auth'.user \in {auth.user, Guest}
    BY <1>5 DEF RefreshFailed, PageAnswered, ServerAnswers, DeviceInv, SessionInv, SessionTypeOK
  <1>6. ASSUME NEW id \in OpIds, Expire(id) \/ LogoutBegin(id) \/ \E u \in Users : LoginBegin(id, u)
        PROVE auth'.user \in {auth.user, Guest}
    BY <1>1, <1>6, JoinLeavesWaiting DEF DeviceInv
  <1> QED BY <1>2, <1>3, <1>4, <1>5, <1>6 DEF OwnStep

LEMMA AccountStepKeeps == ASSUME DeviceInv, SessionInv', TransitionInv', AccountStep PROVE DeviceInv'
  <1>1. OwnStep /\ Remount /\ UNCHANGED <<detach, writes, idb, browser, subs, config>>
    BY DEF AccountStep, OwnStep
  <1>2. DeviceTypeOK'
    BY <1>1, RemountTyped
  <1>3. ASSUME detach # "idle"
        PROVE /\ cleanups' # <<>> /\ Head(cleanups') = Head(cleanups)
              /\ ops'[Head(cleanups)] \in {ops[Head(cleanups)], Superseded[Head(cleanups)]}
    <2> DEFINE h == Head(cleanups)
    <2>1. cleanups # <<>> /\ cleanups \in Seq(OpIds) /\ h \in OpIds /\ Waits(ops[h])
      BY <1>3, LeavingFacts
    <2>2. \A id \in OpIds : Append(cleanups, id) # <<>> /\ Head(Append(cleanups, id)) = Head(cleanups)
      BY <2>1
    <2>3. cleanups' # <<>> /\ Head(cleanups') = Head(cleanups)
      BY <1>1, <2>1, <2>2, OwnStepLeavesCleanup DEF DeviceInv
    <2>4. ops'[h] \in {ops[h], Superseded[h]}
      <3> HIDE DEF h
      <3> QED BY <1>1, <2>1, OwnStepLeavesCleanup DEF DeviceInv
    <2> QED BY <2>3, <2>4
  <1>4. Leaving' => Leaving
    <2> SUFFICES ASSUME Leaving' PROVE Leaving
      OBVIOUS
    <2>1. detach # "idle"
      BY <1>1 DEF Leaving
    <2> DEFINE h == Head(cleanups)
    <2>2. h \in OpIds /\ Waits(ops[h]) /\ ops'[h] \in {ops[h], Superseded[h]} /\ ops'[h].kind = "logout" /\ ops'[h].current
      BY <1>3, <2>1, LeavingFacts DEF Leaving
    <2>3. ops[h].kind = "logout" /\ ops[h].current
      <3> HIDE DEF h
      <3>1. ops'[h] = ops[h]
        BY <2>2, SupersededFacts, FreeWaitsNot DEF DeviceInv, SessionInv, Live
      <3> QED BY <2>2, <3>1
    <2> QED BY <2>1, <2>3 DEF Leaving
  <1>5. Leaving' => auth'.user = auth.user \/ auth'.user = Guest
    BY <1>1, <1>4, LeavingSignsNobodyIn
  <1>6. signedOut' => signedOut
    BY <1>1, OwnStepSignsNobodyOut
  <1>7. AccountMoves
    BY <1>1, <1>2, <1>3, <1>4, <1>5, <1>6 DEF AccountMoves
  <1> QED BY <1>7, AccountMoveKeeps

LEMMA DeviceStepKeeps == ASSUME DeviceInv, [DeviceSystemNext]_deviceSystemVars PROVE DeviceInv'
  <1>1. SessionInv' /\ TransitionInv'
    BY DeviceStep, SessionStepKeeps, TransitionStepKeeps DEF DeviceInv
  <1>2. CASE UNCHANGED deviceSystemVars
    <2>1. UNCHANGED <<sessionVars, push, checks, detach, writes, idb, browser, subs, config>>
      BY <1>2 DEF deviceSystemVars, sessionVars
    <2>2. BrowserTyped'
      BY <2>1, StateFacts DEF BrowserTyped
    <2> QED BY <2>1, <2>2, WorldKeeps
  <1>3. CASE AccountStep
    BY <1>1, <1>3, AccountStepKeeps
  <1>4. CASE WriteStep
    BY <1>1, <1>4, WriteStepTyped, WriteStepKeeps
  <1>5. ASSUME NEW id \in OpIds, DetachBegin(id) \/ DetachSkipped(id) \/ DetachKeeps(id) PROVE DeviceInv'
    BY <1>1, <1>5, DetachBeginTyped, DetachBeginKeeps, DetachEndKeeps
  <1>6. CASE Focus \/ PermissionTaken \/ \E e \in Endpoints : EndpointGone(e)
    BY <1>6, FocusKeeps, WorldStepKeeps
  <1>7. ASSUME NEW c \in Checks,
               \/ RefreshDevice(c) \/ GuestChecked(c) \/ OwnerRead(c) \/ ConfigRead(c) \/ DeviceRead(c)
               \/ OwnerForgotten(c) \/ StatusRead(c) \/ Reset(c) \/ DropSubscription(c) \/ Mint(c)
               \/ Post(c) \/ Confirm(c) \/ Saved(c) \/ Restored(c) \/ Closed(c)
               \/ EnableBegin(c) \/ PromptAnswered(c) \/ CheckFails(c) \/ CheckTimesOut(c) \/ Abandon(c)
        PROVE DeviceInv'
    BY <1>7, RefreshDeviceKeeps, GuestCheckedKeeps, OwnerReadKeeps, ConfigReadKeeps, DeviceReadKeeps,
       OwnerForgottenKeeps, StatusReadKeeps, ResetKeeps, DropKeeps, MintKeeps, PostKeeps, ConfirmKeeps, SavedKeeps,
       RestoredKeeps, ClosedKeeps, EnableBeginKeeps, PromptKeeps, CheckFailsKeeps, CheckTimesOutKeeps, AbandonKeeps
  <1> QED BY <1>2, <1>3, <1>4, <1>5, <1>6, <1>7 DEF DeviceSystemNext, DeviceNext

LEMMA DeviceInductive == DeviceSystemSpec => []DeviceInv
  <1> QED BY DeviceStarts, DeviceStepKeeps, PTL DEF DeviceSystemSpec

-----------------------------------------------------------------------------
(* What the invariant says of the marker.                                    *)
LEMMA GreatestExists == ASSUME NEW k \in Nat, NEW ids, ids \subseteq 1 .. k, ids # {}
    PROVE \E i \in ids : \A j \in ids : j <= i
  <1> DEFINE R == OpToRel(<, Nat)
             left_of(i) == k - i
             gaps == {left_of(i) : i \in ids}
  <1>1. IsWellFoundedOn(R, Nat)
    BY NatLessThanWellFounded
  <1>2. \A x, y \in Nat : <<y, x>> \in R <=> y < x
    BY DEF OpToRel
  <1> HIDE DEF R
  <1>3. gaps \subseteq Nat /\ gaps # {}
    <2>1. \A i \in ids : k - i \in Nat
      OBVIOUS
    <2>2. PICK i \in ids : TRUE
      OBVIOUS
    <2>3. left_of(i) \in gaps
      BY <2>2
    <2> QED BY <2>1, <2>3
  <1>4. PICK n \in gaps : \A m \in gaps : ~(<<m, n>> \in R)
    <2> HIDE DEF gaps
    <2> QED BY <1>1, <1>3, WFMin
  <1>5. PICK i \in ids : n = k - i
    BY <1>4
  <1>6. \A j \in ids : left_of(j) \in gaps
    OBVIOUS
  <1>7. \A j \in ids : k - j \in gaps /\ k - j \in Nat /\ k - i \in Nat /\ ~(k - j < k - i) /\ j \in Nat /\ i \in Nat
    <2>1. \A j \in ids : k - j \in gaps
      BY <1>6
    <2>2. \A j \in ids : k - j \in Nat /\ j \in Nat
      OBVIOUS
    <2> HIDE DEF gaps
    <2>3. n \in Nat /\ \A j \in ids : ~(<<k - j, n>> \in R)
      BY <1>3, <1>4, <2>1
    <2>4. \A j \in ids : ~(k - j < n)
      BY <1>2, <2>2, <2>3
    <2> QED BY <1>5, <2>1, <2>2, <2>4
  <1> QED BY <1>7

LEMMA FinalMarkerIsQueued == ASSUME DeviceTypeOK
    PROVE \/ Puts = {} /\ FinalMarker = idb.current
          \/ \E n \in 1 .. Len(writes) : writes[n].do = "put" /\ FinalMarker = writes[n].value
  <1>1. CASE Puts = {}
    BY <1>1 DEF FinalMarker
  <1>2. CASE Puts # {}
    <2>1. Len(writes) \in Nat /\ Puts \subseteq 1 .. Len(writes)
      BY DEF DeviceTypeOK, Puts
    <2>2. \E i \in Puts : \A j \in Puts : j <= i
      BY <1>2, <2>1, GreatestExists
    <2>3. PICK n \in Puts : FinalMarker = writes[n].value
      BY <1>2, <2>2 DEF FinalMarker
    <2> QED BY <2>1, <2>3 DEF Puts
  <1> QED BY <1>1, <1>2

LEMMA DeviceSays == DeviceInv => SilentAfterSignOut /\ VerifiedIsMarked
  <1> SUFFICES ASSUME DeviceInv PROVE SilentAfterSignOut /\ VerifiedIsMarked
    OBVIOUS
  <1>1. \/ Puts = {} /\ FinalMarker = idb.current
        \/ \E n \in 1 .. Len(writes) : writes[n].do = "put" /\ FinalMarker = writes[n].value
    BY FinalMarkerIsQueued DEF DeviceInv
  <1>2. SilentAfterSignOut
    <2> SUFFICES ASSUME signedOut PROVE FinalMarker = NoMark /\ \A u \in Users : ~Matches(u)
      BY DEF SilentAfterSignOut
    <2>1. idb.current = NoMark /\ \A n \in 1 .. Len(writes) : writes[n].do = "put" => writes[n].value = NoMark
      BY DEF DeviceInv, SignedOutIsQuiet, Quiet, Silent
    <2>2. \A u \in Users : NoMark # Mark(u, browser.sub)
      BY DEF NoMark, Mark
    <2> QED BY <1>1, <2>1, <2>2 DEF Matches
  <1>3. VerifiedIsMarked
    BY <1>1 DEF DeviceInv, VerifiedIsMine, MarkersMine, ReadyIsVerified, VerifiedIsMarked
  <1> QED BY <1>2, <1>3

(* After a sign-out the device shows nothing until somebody signs in,        *)
(* whatever checks were under way and whichever of their answers and writes  *)
(* come late, for any number of accounts, checks and endpoints.              *)
THEOREM DeviceSilentAfterSignOut == DeviceSystemSpec => []SilentAfterSignOut
  <1> QED BY DeviceInductive, DeviceSays, PTL

(* A session that is ready on a server that sends notifications verified its *)
(* endpoint, and while it holds one, the marker the service worker reads is, *)
(* or will be behind the queued writes, of the account on the screen.        *)
THEOREM DeviceVerifiedIsMarked == DeviceSystemSpec => []VerifiedIsMarked
  <1> QED BY DeviceInductive, DeviceSays, PTL
=============================================================================
