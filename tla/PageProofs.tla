------------------------------ MODULE PageProofs ------------------------------
(***************************************************************************)
(* Proofs about the pages of Frontend that show and announce what others   *)
(* did (contracts, the assistant's answers, documents, events, overdue     *)
(* confirmations, the dashboard's queue and urgent payments, the panels of *)
(* plans and an investor's file), for any number of rows, calls and loads. *)
(*                                                                         *)
(* As in DeskProofs, the invariants say which fields a page's records have *)
(* and what holds of those that matter.                                    *)
(***************************************************************************)
EXTENDS Frontend, FiniteSetTheorems, TLAPS

(* A set of numbers has a least element, and a bounded one a greatest.       *)
LEMMA LeastExists == ASSUME NEW ids, ids \subseteq Nat, ids # {}
    PROVE \E i \in ids : \A j \in ids : i <= j
  <1> DEFINE R == OpToRel(<, Nat)
  <1>1. IsWellFoundedOn(R, Nat) /\ \A x, y \in Nat : <<y, x>> \in R <=> y < x
    BY NatLessThanWellFounded DEF OpToRel
  <1> HIDE DEF R
  <1>2. PICK i \in ids : \A j \in ids : ~(<<j, i>> \in R)
    BY <1>1, WFMin
  <1>3. \A j \in ids : j \in Nat /\ i \in Nat /\ ~(j < i)
    BY <1>1, <1>2
  <1> QED BY <1>3

LEMMA GreatestExists == ASSUME NEW k \in Nat, NEW ids, ids \subseteq 1 .. k, ids # {}
    PROVE \E i \in ids : \A j \in ids : j <= i
  <1> DEFINE R == OpToRel(<, Nat)
             left_of(i) == k - i
             gaps == {left_of(i) : i \in ids}
  <1>1. IsWellFoundedOn(R, Nat)
    BY NatLessThanWellFounded
  <1>2. \A x, y \in Nat : <<y, x>> \in R <=> y < x
    BY DEF OpToRel
  <1> HIDE DEF R
  <1>3. gaps \subseteq Nat /\ gaps # {}
    <2>1. \A i \in ids : k - i \in Nat
      OBVIOUS
    <2>2. PICK i \in ids : TRUE
      OBVIOUS
    <2>3. left_of(i) \in gaps
      BY <2>2
    <2> QED BY <2>1, <2>3
  <1>4. PICK n \in gaps : \A m \in gaps : ~(<<m, n>> \in R)
    <2> HIDE DEF gaps
    <2> QED BY <1>1, <1>3, WFMin
  <1>5. PICK i \in ids : n = k - i
    BY <1>4
  <1>6. \A j \in ids : left_of(j) \in gaps
    OBVIOUS
  <1>7. \A j \in ids : k - j \in gaps /\ k - j \in Nat /\ k - i \in Nat /\ ~(k - j < k - i) /\ j \in Nat /\ i \in Nat
    <2>1. \A j \in ids : k - j \in gaps
      BY <1>6
    <2>2. \A j \in ids : k - j \in Nat /\ j \in Nat
      OBVIOUS
    <2> HIDE DEF gaps
    <2>3. n \in Nat /\ \A j \in ids : ~(<<k - j, n>> \in R)
      BY <1>3, <1>4, <2>1
    <2>4. \A j \in ids : ~(k - j < n)
      BY <1>2, <2>2, <2>3
    <2> QED BY <1>5, <2>1, <2>2, <2>4
  <1> QED BY <1>7

(* What holds at 0 and goes on from each number to the next holds up to n.   *)
LEMMA StepByStep == ASSUME NEW n \in Nat, NEW G, 0 \in G, \A k \in 0 .. n : k # n /\ k \in G => k + 1 \in G
    PROVE \A k \in 0 .. n : k \in G
  <1> DEFINE R == OpToRel(<, Nat)
             bad == (0 .. n) \ G
  <1>1. IsWellFoundedOn(R, Nat) /\ \A x, y \in Nat : <<y, x>> \in R <=> y < x
    BY NatLessThanWellFounded DEF OpToRel
  <1> HIDE DEF R
  <1>2. ASSUME bad # {} PROVE FALSE
    <2>1. bad \subseteq Nat
      OBVIOUS
    <2>2. PICK k \in bad : \A j \in bad : ~(<<j, k>> \in R)
      BY <1>1, <1>2, <2>1, WFMin
    <2>3. k \in 1 .. n /\ k - 1 \in 0 .. n /\ k - 1 # n /\ (k - 1) + 1 = k
      OBVIOUS
    <2>4. k - 1 \in bad
      BY <2>3
    <2>5. k - 1 \in Nat /\ k \in Nat /\ k - 1 < k
      BY <2>3
    <2> HIDE DEF bad
    <2> QED BY <1>1, <2>2, <2>4, <2>5
  <1> QED BY <1>2

(* A recursion over the positions of a list defines a function.              *)
Unfolds(f, n, base, step) == f = [k \in 0 .. n |-> IF k = 0 THEN base ELSE step[<<k, f[k - 1]>>]]

LEMMA RecursionExists == ASSUME NEW n \in Nat, NEW S, NEW base \in S, NEW step \in [(1 .. n) \X S -> S]
    PROVE \E f : Unfolds(f, n, base, step)
  <1> DEFINE Until(m, f) == f \in [0 .. m -> S] /\ f[0] = base /\ \A k \in 1 .. m : f[k] = step[<<k, f[k - 1]>>]
             G == {m \in 0 .. n : \E f : Until(m, f)}
  <1>1. 0 \in G
    <2>1. Until(0, [k \in 0 .. 0 |-> base])
      OBVIOUS
    <2>2. 0 \in 0 .. n
      OBVIOUS
    <2> HIDE DEF Until
    <2> QED BY <2>1, <2>2
  <1>2. ASSUME NEW m \in 0 .. n, m # n, m \in G PROVE m + 1 \in G
    <2>1. PICK f : Until(m, f)
      BY <1>2
    <2> DEFINE g == [k \in 0 .. m + 1 |-> IF k = m + 1 THEN step[<<m + 1, f[m]>>] ELSE f[k]]
    <2>2. m + 1 \in 1 .. n /\ f[m] \in S /\ step[<<m + 1, f[m]>>] \in S
      BY <1>2, <2>1
    <2>3. g \in [0 .. m + 1 -> S] /\ g[0] = base
      BY <2>1, <2>2
    <2>4. ASSUME NEW k \in 1 .. m + 1 PROVE g[k] = step[<<k, g[k - 1]>>]
      <3>1. CASE k = m + 1
        <4>1. g[k] = step[<<m + 1, f[m]>>] /\ g[k - 1] = f[m]
          BY <3>1, <2>1
        <4> QED BY <3>1, <4>1
      <3>2. CASE k # m + 1
        <4>1. k \in 1 .. m /\ k \in 0 .. m + 1 /\ k - 1 \in 0 .. m + 1 /\ k - 1 # m + 1
          BY <3>2
        <4>2. g[k] = f[k] /\ g[k - 1] = f[k - 1] /\ f[k] = step[<<k, f[k - 1]>>]
          BY <2>1, <3>2, <4>1
        <4> QED BY <4>2
      <3> QED BY <3>1, <3>2
    <2>5. Until(m + 1, g)
      <3> HIDE DEF g
      <3> QED BY <2>3, <2>4
    <2>6. m + 1 \in 0 .. n
      BY <2>2
    <2> HIDE DEF Until, g
    <2> QED BY <2>5, <2>6
  <1> HIDE DEF G
  <1>3. n \in G
    BY <1>1, <1>2, StepByStep
  <1>4. PICK f : Until(n, f)
    BY <1>3 DEF G
  <1>5. f = [k \in 0 .. n |-> f[k]]
    BY <1>4
  <1>6. \A k \in 0 .. n : f[k] = IF k = 0 THEN base ELSE step[<<k, f[k - 1]>>]
    BY <1>4
  <1> QED BY <1>5, <1>6 DEF Unfolds

(* Who has k - 1 before it is the k-th: a strict order of a finite set.      *)
LEMMA RanksAreTaken == ASSUME NEW S, IsFiniteSet(S), NEW R,
        \A p \in S : <<p, p>> \notin R,
        \A p, q, r \in S : <<p, q>> \in R /\ <<q, r>> \in R => <<p, r>> \in R,
        \A p, q \in S : p # q => <<p, q>> \in R \/ <<q, p>> \in R
    PROVE /\ Cardinality(S) \in Nat
          /\ \A p \in S : Cardinality({q \in S : <<q, p>> \in R}) \in Nat
          /\ \A p, q \in S : <<p, q>> \in R =>
                Cardinality({r \in S : <<r, p>> \in R}) < Cardinality({r \in S : <<r, q>> \in R})
          /\ \A k \in 1 .. Cardinality(S) : \E p \in S : Cardinality({q \in S : <<q, p>> \in R}) = k - 1
  <1> DEFINE n == Cardinality(S)
             down(p) == {q \in S : <<q, p>> \in R}
             rank == [p \in S |-> Cardinality(down(p))]
             T == 0 .. n - 1
  <1>1. n \in Nat /\ IsFiniteSet(T) /\ Cardinality(T) = n
    <2>1. n \in Nat
      BY FS_CardinalityType
    <2>2. 0 \in Int /\ n - 1 \in Int /\ (0 > n - 1 => n = 0) /\ (n - 1) - 0 + 1 = n
      BY <2>1
    <2> HIDE DEF n
    <2> QED BY <2>1, <2>2, FS_Interval
  <1>2. \A p \in S : IsFiniteSet(down(p)) /\ Cardinality(down(p)) \in Nat
    BY FS_Subset, FS_CardinalityType
  <1>3. ASSUME NEW p \in S, NEW q \in S, <<p, q>> \in R PROVE Cardinality(down(p)) < Cardinality(down(q))
    <2>1. down(p) \subseteq down(q) /\ p \in down(q) /\ p \notin down(p)
      BY <1>3
    <2>2. IsFiniteSet(down(q)) /\ down(p) \in SUBSET down(q) /\ down(p) # down(q)
      BY <1>2, <2>1
    <2> HIDE DEF down
    <2>3. Cardinality(down(p)) <= Cardinality(down(q)) /\ Cardinality(down(q)) # Cardinality(down(p))
      BY <2>2, FS_Subset
    <2> QED BY <1>2, <2>3
  <1>4. ASSUME NEW p \in S PROVE Cardinality(down(p)) \in T
    <2>1. down(p) \in SUBSET S /\ down(p) # S
      BY <1>4
    <2>2. Cardinality(down(p)) <= n /\ n # Cardinality(down(p))
      BY <2>1, FS_Subset
    <2> QED BY <1>1, <1>2, <2>2
  <1> HIDE DEF down, n, T
  <1>5. \A p, q \in S : rank[p] = rank[q] => p = q
    <2> TAKE p, q \in S
    <2>1. rank[p] = Cardinality(down(p)) /\ rank[q] = Cardinality(down(q))
      OBVIOUS
    <2>2. ASSUME p # q PROVE rank[p] # rank[q]
      <3>1. <<p, q>> \in R \/ <<q, p>> \in R
        BY <2>2
      <3>2. Cardinality(down(p)) < Cardinality(down(q)) \/ Cardinality(down(q)) < Cardinality(down(p))
        BY <1>3, <3>1
      <3>3. Cardinality(down(p)) \in Nat /\ Cardinality(down(q)) \in Nat
        BY <1>2
      <3> HIDE DEF rank
      <3> QED BY <2>1, <3>2, <3>3
    <2> QED BY <2>2
  <1>6. rank \in Injection(S, T)
    BY <1>4, <1>5 DEF Injection, IsInjective
  <1>7. rank \in Surjection(S, T)
    <2> HIDE DEF rank
    <2> QED BY <1>1, <1>6, FS_Injection DEF n
  <1>8. \A t \in T : \E p \in S : rank[p] = t
    BY <1>7 DEF Surjection
  <1>9. \A k \in 1 .. n : k - 1 \in T
    BY <1>1 DEF T
  <1> QED BY <1>1, <1>2, <1>3, <1>8, <1>9 DEF down, n

-----------------------------------------------------------------------------
(* Requests and contracts on the screen.                                     *)

(* An opening that is still current is of the contract that is wanted, and   *)
(* an answer is of the contract its call is about.                           *)
ContractCallOK(c, wanted) ==
    /\ DOMAIN c = {"op", "id", "current", "offered", "answer"}
    /\ c.op = "open" /\ c.current => c.id = wanted
    /\ c.answer # Null => c.answer.id = c.id

ContractsInv ==
    /\ DOMAIN view = {"me", "link", "list", "contract", "wanted", "offer", "creating", "busy", "pdfBusy", "tickedOn"}
    /\ DOMAIN calls = {"sent", "loads", "left"}
    /\ \A c \in calls.sent : ContractCallOK(c, view.wanted)

LEMMA ContractsStart == ContractsPage!Init => ContractsInv
  BY DEF ContractsPage!Init, ContractsInv

(* A step that asks for nothing else: new calls are no openings.             *)
LEMMA ContractsCalm == ASSUME ContractsInv, DOMAIN view' = DOMAIN view, view'.wanted = view.wanted, DOMAIN calls' = DOMAIN calls,
                              \A c \in calls'.sent : c \in calls.sent \/ ContractCallOK(c, view.wanted)
    PROVE ContractsInv'
  BY DEF ContractsInv

LEMMA ContractStarts == ASSUME ContractsInv, NEW v, DOMAIN v = DOMAIN view, v.wanted = view.wanted, NEW op, NEW id, op # "open",
                               ContractsPage!Start(v, ContractsPage!Sent(op, id))
    PROVE ContractsInv'
  <1>1. view' = v /\ calls' = [calls EXCEPT !.sent = @ \cup {ContractsPage!Sent(op, id)}, !.left = @ - 1]
    BY DEF ContractsPage!Start
  <1>2. ContractCallOK(ContractsPage!Sent(op, id), view.wanted)
    BY DEF ContractCallOK, ContractsPage!Sent
  <1> QED BY <1>1, <1>2, ContractsCalm DEF ContractsInv

LEMMA ContractsSuperseded == ASSUME ContractsInv
    PROVE \A c \in ContractsPage!Superseded(calls.sent) : \A wanted : ContractCallOK(c, wanted)
  BY DEF ContractsPage!Superseded, ContractsInv, ContractCallOK

(* Where another contract is asked for, or none, the earlier openings end.   *)
LEMMA ContractsRestart == ASSUME ContractsInv, DOMAIN view' = DOMAIN view, DOMAIN calls' = DOMAIN calls,
                                 \A c \in calls'.sent : c \in ContractsPage!Superseded(calls.sent) \/ ContractCallOK(c, view'.wanted)
    PROVE ContractsInv'
  BY ContractsSuperseded DEF ContractsInv

LEMMA ContractOpens == ASSUME ContractsInv, NEW v, DOMAIN v = DOMAIN view, NEW id, ContractsPage!StartOpen(v, id)
    PROVE ContractsInv'
  <1>1. /\ view' = [v EXCEPT !.busy = id, !.wanted = id]
        /\ calls' = [calls EXCEPT !.sent = ContractsPage!Superseded(@) \cup {ContractsPage!Sent("open", id)}, !.left = @ - 1]
    BY DEF ContractsPage!StartOpen
  <1>2. ContractCallOK(ContractsPage!Sent("open", id), id)
    BY DEF ContractCallOK, ContractsPage!Sent
  <1> QED BY <1>1, <1>2, ContractsRestart DEF ContractsInv

LEMMA ContractAnswerKeeps == ASSUME ContractsInv, NEW c \in calls.sent, ContractsPage!Answered(c)
    PROVE ContractsInv'
  <1> DEFINE next == ContractsPage!Ended(c, ContractsPage!Succeeded(c))
             others == calls.sent \ {c}
             opened == [ContractsPage!Sent("open", c.id) EXCEPT !.offered = TRUE]
             loads == ContractsPage!Async!Retired(calls.loads, {"list"}) \cup {ContractsPage!ListLoad}
  <1>1. DOMAIN next = DOMAIN view /\ next.wanted = view.wanted
    BY DEF ContractsPage!Ended, ContractsPage!Succeeded, ContractsInv
  <1>2. CASE c.op = "offer"
    <2>1. /\ view' = ContractsPage!Reload([next EXCEPT !.busy = c.id, !.wanted = c.id])
          /\ calls' = [calls EXCEPT !.sent = ContractsPage!Superseded(others) \cup {opened}, !.loads = loads]
      BY <1>2 DEF ContractsPage!Answered
    <2> HIDE DEF next, loads
    <2>2. DOMAIN view' = DOMAIN view /\ view'.wanted = c.id
      BY <1>1, <2>1 DEF ContractsPage!Reload, ContractsInv
    <2>3. ContractCallOK(opened, c.id)
      BY DEF ContractCallOK, ContractsPage!Sent
    <2>4. ContractsPage!Superseded(others) \subseteq ContractsPage!Superseded(calls.sent)
      BY DEF ContractsPage!Superseded
    <2> HIDE DEF opened, others
    <2> QED BY <2>1, <2>2, <2>3, <2>4, ContractsRestart DEF ContractsInv
  <1>3. CASE c.op # "offer"
    <2>1. /\ view' \in {next, ContractsPage!Reload(next)}
          /\ \E l : calls' = [calls EXCEPT !.sent = others, !.loads = l]
      BY <1>3 DEF ContractsPage!Answered
    <2> HIDE DEF next
    <2>2. DOMAIN view' = DOMAIN view /\ view'.wanted = view.wanted
      BY <1>1, <2>1 DEF ContractsPage!Reload, ContractsInv
    <2> QED BY <2>1, <2>2, ContractsCalm DEF ContractsInv
  <1> QED BY <1>2, <1>3

LEMMA ContractServeKeeps == ASSUME ContractsInv, NEW c \in calls.sent, ContractsPage!Serve(c)
    PROVE ContractsInv'
  <1> DEFINE answer == IF ContractsPage!Applies(c) THEN [id |-> c.id, row |-> ContractsPage!After(c)] ELSE ContractsPage!RefusedOf(c)
  <1>1. calls' = [calls EXCEPT !.sent = (@ \ {c}) \cup {[c EXCEPT !.answer = answer]}]
    BY DEF ContractsPage!Serve
  <1>2. answer.id = c.id
    BY DEF ContractsPage!RefusedOf
  <1> HIDE DEF answer
  <1>3. ContractCallOK([c EXCEPT !.answer = answer], view.wanted)
    BY <1>2 DEF ContractsInv, ContractCallOK
  <1> QED BY <1>1, <1>3, ContractsCalm DEF ContractsPage!Serve, ContractsInv

LEMMA ContractsStep == ASSUME ContractsInv, ContractsPage!Next PROVE ContractsInv'
  <1>1. CASE ContractsPage!OpenContract \/ ContractsPage!FollowLink
    <2>1. DOMAIN [view EXCEPT !.link = Null] = DOMAIN view
      OBVIOUS
    <2> QED BY <1>1, <2>1, ContractOpens DEF ContractsPage!OpenContract, ContractsPage!FollowLink
  <1>2. CASE ContractsPage!CloseContract
    BY <1>2, ContractsRestart DEF ContractsPage!CloseContract, ContractsInv
  <1>3. CASE ContractsPage!FillSignature \/ ContractsPage!OpenForm \/ ContractsPage!CloseForm
    BY <1>3, ContractsCalm DEF ContractsPage!FillSignature, ContractsPage!OpenForm, ContractsPage!CloseForm, ContractsInv
  <1>4. CASE \/ ContractsPage!SignContract \/ ContractsPage!DownloadPdf \/ ContractsPage!CreateRequest \/ ContractsPage!OfferContract
             \/ ContractsPage!CancelOrReject \/ ContractsPage!Reverse \/ ContractsPage!ReverseFromCard
    <2>1. \E op, id, b : /\ op # "open"
                         /\ \/ ContractsPage!Start([view EXCEPT !.busy = b], ContractsPage!Sent(op, id))
                            \/ ContractsPage!Start([view EXCEPT !.pdfBusy = b], ContractsPage!Sent(op, id))
                            \/ ContractsPage!Start(view, ContractsPage!Sent(op, id))
      BY <1>4 DEF ContractsPage!SignContract, ContractsPage!DownloadPdf, ContractsPage!CreateRequest, ContractsPage!OfferContract,
             ContractsPage!CancelOrReject, ContractsPage!Reverse, ContractsPage!ReverseFromCard
    <2>2. \A b : /\ DOMAIN [view EXCEPT !.busy = b] = DOMAIN view /\ [view EXCEPT !.busy = b].wanted = view.wanted
                 /\ DOMAIN [view EXCEPT !.pdfBusy = b] = DOMAIN view /\ [view EXCEPT !.pdfBusy = b].wanted = view.wanted
      BY DEF ContractsInv
    <2> QED BY <2>1, <2>2, ContractStarts
  <1>5. ASSUME NEW c \in calls.sent, ContractsPage!CallFailed(c) PROVE ContractsInv'
    BY <1>5, ContractsCalm DEF ContractsPage!CallFailed, ContractsPage!Ended, ContractsInv
  <1>6. CASE \/ \E l \in calls.loads : ContractsPage!ListDelivered(l) \/ ContractsPage!ListFailed(l)
             \/ ContractsPage!Others
    BY <1>6, ContractsCalm DEF ContractsPage!ListDelivered, ContractsPage!ListFailed, ContractsPage!Others, ContractsInv
  <1> QED BY <1>1, <1>2, <1>3, <1>4, <1>5, <1>6, ContractAnswerKeeps, ContractServeKeeps DEF ContractsPage!Next

(* What comes on the screen.                                                 *)
LEMMA ContractsShow == ASSUME ContractsInv, ContractsPage!Next PROVE ContractsPage!ShowsTheLastOpened
  <1>1. CASE \E c \in calls.sent : ContractsPage!Answered(c)
    <2>1. PICK c \in calls.sent : ContractsPage!Answered(c)
      BY <1>1
    <2> DEFINE next == ContractsPage!Ended(c, ContractsPage!Succeeded(c))
    <2>2. next.contract = ContractsPage!Succeeded(c).contract
      BY DEF ContractsPage!Ended, ContractsPage!Succeeded, ContractsInv
    <2>3. view'.contract = next.contract
      <3>1. DOMAIN next = DOMAIN view
        BY DEF ContractsPage!Ended, ContractsPage!Succeeded, ContractsInv
      <3>2. \/ view' = next \/ view' = ContractsPage!Reload(next)
            \/ view' = ContractsPage!Reload([next EXCEPT !.busy = c.id, !.wanted = c.id])
        BY <2>1 DEF ContractsPage!Answered
      <3> HIDE DEF next
      <3> QED BY <3>1, <3>2 DEF ContractsPage!Reload, ContractsInv
    <2>4. \/ ContractsPage!Succeeded(c).contract = view.contract
          \/ /\ ContractsPage!Succeeded(c).contract = c.answer
             /\ c.op \in {"sign", "pdf"} \/ (c.op = "open" /\ c.current)
      BY DEF ContractsPage!Succeeded, ContractsPage!IsCurrent, ContractsInv
    <2>5. c.answer.id = c.id /\ (c.op = "open" /\ c.current => c.id = view.wanted)
      BY <2>1 DEF ContractsPage!Answered, ContractsInv, ContractCallOK
    <2> HIDE DEF next
    <2> QED BY <2>2, <2>3, <2>4, <2>5 DEF ContractsPage!ShowsTheLastOpened
  <1>2. CASE ~\E c \in calls.sent : ContractsPage!Answered(c)
    <2>1. view'.contract \in {view.contract, Null}
      BY <1>2 DEF ContractsPage!Next, ContractsPage!OpenContract, ContractsPage!FollowLink, ContractsPage!StartOpen,
             ContractsPage!CloseContract, ContractsPage!FillSignature, ContractsPage!SignContract, ContractsPage!DownloadPdf,
             ContractsPage!OpenForm, ContractsPage!CloseForm, ContractsPage!CreateRequest, ContractsPage!OfferContract,
             ContractsPage!CancelOrReject, ContractsPage!Reverse, ContractsPage!ReverseFromCard, ContractsPage!Start,
             ContractsPage!Serve, ContractsPage!CallFailed, ContractsPage!Ended, ContractsPage!ListDelivered,
             ContractsPage!ListFailed, ContractsPage!Others, ContractsInv
    <2> QED BY <2>1 DEF ContractsPage!ShowsTheLastOpened
  <1> QED BY <1>1, <1>2

-----------------------------------------------------------------------------
(* The assistant's proposals.                                                *)

(* A proposal names the amount it was taken from.                            *)
ProposalOK(token) == token.amount = token.snapshot.amount

AssistantCallOK(c) ==
    /\ DOMAIN c = {"kind", "serial", "token", "current", "answer"} /\ c.kind \in AssistantPage!Kinds
    /\ c.kind = "confirm" => ProposalOK(c.token)
    /\ c.kind = "chat" /\ c.answer # Null /\ c.answer.action # Null => ProposalOK(c.answer.action)

(* What was sent was sent once, over the activity its proposal had seen;     *)
(* that activity has passed.                                                 *)
SentOnce(s) ==
    /\ DOMAIN s = {"status", "amount", "activity", "sent"} /\ s.activity \in Nat
    /\ \A r \in s.sent : /\ r.amount = r.token.amount /\ r.token.snapshot.activity = r.at
                         /\ r.at \in Nat /\ r.at < s.activity
    /\ \A r, q \in s.sent : r.token = q.token => r = q

AssistantInv ==
    /\ SentOnce(server)
    /\ DOMAIN view = {"canQueryAll", "open", "busy", "confirming", "action", "actionError"}
    /\ DOMAIN calls = {"left", "serial", "open", "adrift"}
    /\ view.action # Null => ProposalOK(view.action)
    /\ \A c \in calls.open : AssistantCallOK(c)
    /\ \A token \in calls.adrift : ProposalOK(token)

LEMMA AssistantStart == AssistantPage!Init => AssistantInv
  BY DEF AssistantPage!Init, AssistantInv, SentOnce

LEMMA ExecutedOnce == ASSUME AssistantInv, NEW token, ProposalOK(token), AssistantPage!Accepts(token)
    PROVE SentOnce(AssistantPage!Executed(token))
  <1> DEFINE new == [token |-> token, amount |-> server.amount, at |-> server.activity]
             next == [server EXCEPT !.status = "awaiting_confirmation", !.activity = @ + 1, !.sent = @ \cup {new}]
  <1>1. CASE server.status \in {"awaiting_confirmation", "paid"}
    BY <1>1 DEF AssistantPage!Executed, AssistantInv
  <1>2. CASE server.status \notin {"awaiting_confirmation", "paid"}
    <2>1. AssistantPage!Executed(token) = next
      BY <1>2 DEF AssistantPage!Executed
    <2>2. token.snapshot = AssistantPage!Snapshot
      BY <1>2 DEF AssistantPage!Accepts
    <2>3. new.token = token /\ new.amount = token.amount /\ token.snapshot.activity = new.at /\ new.at = server.activity
      BY <2>2 DEF AssistantPage!Snapshot, ProposalOK
    <2> HIDE DEF new
    <2>4. DOMAIN next = DOMAIN server /\ next.activity = server.activity + 1 /\ next.sent = server.sent \cup {new}
      BY DEF AssistantInv, SentOnce
    <2> HIDE DEF next
    <2>5. \A r \in server.sent : r.token # token /\ r.at < server.activity /\ r.at \in Nat
      BY <2>3 DEF AssistantInv, SentOnce
    <2> QED BY <2>1, <2>3, <2>4, <2>5 DEF AssistantInv, SentOnce
  <1> QED BY <1>1, <1>2

LEMMA AssistantSupersedes == ASSUME AssistantInv PROVE \A c \in AssistantPage!Superseded : AssistantCallOK(c)
  BY DEF AssistantPage!Superseded, AssistantInv, AssistantCallOK

(* A step of the panel: no card but a proposal, no call but of one.          *)
LEMMA AssistantCalm == ASSUME AssistantInv, SentOnce(server'), DOMAIN view' = DOMAIN view, DOMAIN calls' = DOMAIN calls,
                              view'.action # Null => ProposalOK(view'.action),
                              \A c \in calls'.open : c \in calls.open \/ c \in AssistantPage!Superseded \/ AssistantCallOK(c),
                              \A token \in calls'.adrift : token \in calls.adrift \/ ProposalOK(token)
    PROVE AssistantInv'
  BY AssistantSupersedes DEF AssistantInv

LEMMA AssistantAsks == ASSUME AssistantInv, NEW kind \in AssistantPage!Kinds, NEW token, kind = "confirm" => ProposalOK(token),
                              NEW v, DOMAIN v = DOMAIN view, v.action # Null => ProposalOK(v.action),
                              NEW earlier \in {calls.open, AssistantPage!Superseded},
                              AssistantPage!Ask(kind, token, v, earlier)
    PROVE AssistantInv'
  <1> DEFINE new == AssistantPage!Call(kind, token)
  <1>1. /\ view' = v /\ server' = server
        /\ calls' = [calls EXCEPT !.open = earlier \cup {new}, !.serial = @ + 1, !.left = @ - 1]
    BY DEF AssistantPage!Ask
  <1>2. AssistantCallOK(new)
    BY DEF AssistantPage!Call, AssistantCallOK
  <1> HIDE DEF new
  <1> QED BY <1>1, <1>2, AssistantCalm DEF AssistantInv

LEMMA AssistantButtonsKeep ==
    ASSUME AssistantInv,
           \/ AssistantPage!Open \/ AssistantPage!SendText \/ AssistantPage!ConfirmAction
           \/ AssistantPage!CloseAndNotify \/ AssistantPage!ExportPdf
    PROVE AssistantInv'
  <1> DEFINE clear == AssistantPage!Cleared(view)
  <1>1. DOMAIN clear = DOMAIN view /\ clear.action = Null
    BY DEF AssistantPage!Cleared, AssistantInv
  <1> HIDE DEF clear
  <1>2. DOMAIN [clear EXCEPT !.open = TRUE] = DOMAIN view /\ [clear EXCEPT !.open = TRUE].action = Null
        /\ DOMAIN [clear EXCEPT !.busy = TRUE] = DOMAIN view /\ [clear EXCEPT !.busy = TRUE].action = Null
    BY <1>1 DEF AssistantInv
  <1>3. CASE AssistantPage!Open \/ AssistantPage!SendText \/ AssistantPage!CloseAndNotify
    <2> DEFINE shown == [clear EXCEPT !.open = TRUE]
               busy == [clear EXCEPT !.busy = TRUE]
    <2>1. \/ AssistantPage!Ask("opening", Null, shown, AssistantPage!Superseded)
          \/ AssistantPage!Ask("chat", Null, busy, AssistantPage!Superseded)
          \/ AssistantPage!Ask("end", Null, busy, AssistantPage!Superseded)
      BY <1>3 DEF AssistantPage!Open, AssistantPage!SendText, AssistantPage!CloseAndNotify, clear
    <2>2. {"opening", "chat", "end"} \subseteq AssistantPage!Kinds
      BY DEF AssistantPage!Kinds
    <2> HIDE DEF shown, busy
    <2> QED BY <1>2, <2>1, <2>2, AssistantAsks DEF shown, busy
  <1>4. CASE AssistantPage!ExportPdf
    <2>1. DOMAIN [view EXCEPT !.busy = TRUE] = DOMAIN view /\ [view EXCEPT !.busy = TRUE].action = view.action
      BY DEF AssistantInv
    <2>2. "pdf" \in AssistantPage!Kinds
      BY DEF AssistantPage!Kinds
    <2> QED BY <1>4, <2>1, <2>2, AssistantAsks DEF AssistantPage!ExportPdf, AssistantInv
  <1>5. CASE AssistantPage!ConfirmAction
    <2> DEFINE v == [view EXCEPT !.busy = TRUE, !.confirming = TRUE, !.actionError = FALSE]
    <2>1. DOMAIN v = DOMAIN view /\ v.action = view.action
      BY DEF AssistantInv
    <2>2. ProposalOK(view.action) /\ AssistantPage!Ask("confirm", view.action, v, AssistantPage!Superseded)
      BY <1>5 DEF AssistantPage!ConfirmAction, AssistantPage!ActionShown, AssistantInv
    <2>3. "confirm" \in AssistantPage!Kinds
      BY DEF AssistantPage!Kinds
    <2> HIDE DEF v
    <2> QED BY <2>1, <2>2, <2>3, AssistantAsks DEF AssistantInv
  <1> QED BY <1>3, <1>4, <1>5

LEMMA AssistantArrivalKeeps == ASSUME AssistantInv, NEW c \in calls.open, AssistantPage!Arrive(c) PROVE AssistantInv'
  <1> DEFINE replies == CASE c.kind = "chat" ->
                               {[ok |-> TRUE, action |-> Null]} \cup
                               IF view.canQueryAll /\ server.status = "scheduled"
                               THEN {[ok |-> TRUE, action |-> AssistantPage!Proposal]} ELSE {}
                          [] c.kind = "confirm" ->
                               {[ok |-> FALSE, action |-> Null]} \cup
                               IF AssistantPage!Accepts(c.token) THEN {[ok |-> TRUE, action |-> Null]} ELSE {}
                          [] OTHER -> {[ok |-> TRUE, action |-> Null]}
  <1>1. PICK reply \in replies :
          /\ calls' = [calls EXCEPT !.open = (@ \ {c}) \cup {[c EXCEPT !.answer = reply]}, !.serial = @ + 1]
          /\ server' = IF c.kind = "confirm" /\ reply.ok THEN AssistantPage!Executed(c.token) ELSE server
    BY DEF AssistantPage!Arrive
  <1>2. /\ c.kind = "confirm" /\ reply.ok => AssistantPage!Accepts(c.token)
        /\ c.kind = "chat" => reply.action = Null \/ reply.action = AssistantPage!Proposal
    <2>1. CASE c.kind = "chat"
      BY <2>1
    <2>2. CASE c.kind = "confirm"
      BY <2>2
    <2> QED BY <2>1, <2>2
  <1> HIDE DEF replies
  <1>3. AssistantCallOK(c) /\ view' = view
    BY DEF AssistantInv, AssistantPage!Arrive
  <1>4. SentOnce(server')
    <2>1. CASE c.kind = "confirm" /\ reply.ok
      BY <1>1, <1>2, <1>3, <2>1, ExecutedOnce DEF AssistantCallOK
    <2>2. CASE ~(c.kind = "confirm" /\ reply.ok)
      BY <1>1, <2>2 DEF AssistantInv
    <2> QED BY <2>1, <2>2
  <1>5. ProposalOK(AssistantPage!Proposal)
    BY DEF AssistantPage!Proposal, AssistantPage!Snapshot, ProposalOK
  <1>6. AssistantCallOK([c EXCEPT !.answer = reply])
    BY <1>2, <1>3, <1>5 DEF AssistantCallOK
  <1> QED BY <1>1, <1>3, <1>4, <1>6, AssistantCalm DEF AssistantInv

LEMMA AssistantAfterAnswer == ASSUME AssistantInv, NEW c \in calls.open, NEW reply,
                                     c.kind = "chat" /\ reply.action # Null => ProposalOK(reply.action)
    PROVE /\ DOMAIN AssistantPage!AfterAnswer(c, reply) = DOMAIN view
          /\ AssistantPage!AfterAnswer(c, reply).action # Null => ProposalOK(AssistantPage!AfterAnswer(c, reply).action)
  <1>1. c.kind \in {"opening", "chat", "confirm", "end", "pdf"}
    BY DEF AssistantInv, AssistantCallOK, AssistantPage!Kinds
  <1>2. CASE ~c.current \/ c.kind = "opening"
    BY <1>2 DEF AssistantPage!AfterAnswer, AssistantInv
  <1>3. CASE c.current /\ c.kind = "chat"
    BY <1>3 DEF AssistantPage!AfterAnswer, AssistantPage!Idle, AssistantInv
  <1>4. CASE c.current /\ c.kind = "confirm"
    BY <1>4 DEF AssistantPage!AfterAnswer, AssistantPage!Idle, AssistantPage!Cleared, AssistantInv
  <1>5. CASE c.current /\ c.kind \in {"end", "pdf"}
    BY <1>5 DEF AssistantPage!AfterAnswer, AssistantPage!Idle, AssistantPage!Closed, AssistantPage!Cleared, AssistantInv
  <1> QED BY <1>1, <1>2, <1>3, <1>4, <1>5

LEMMA AssistantEndKeeps == ASSUME AssistantInv, NEW c \in calls.open, AssistantPage!Answered(c) \/ AssistantPage!Lost(c)
    PROVE AssistantInv'
  <1>1. PICK reply : /\ view' = AssistantPage!AfterAnswer(c, reply)
                     /\ c.kind = "chat" /\ reply.action # Null => ProposalOK(reply.action)
    <2> DEFINE lost == [ok |-> FALSE, action |-> Null]
    <2>1. CASE AssistantPage!Answered(c)
      BY <2>1 DEF AssistantPage!Answered, AssistantInv, AssistantCallOK
    <2>2. CASE AssistantPage!Lost(c)
      <3>1. view' = AssistantPage!AfterAnswer(c, lost) /\ lost.action = Null
        BY <2>2 DEF AssistantPage!Lost
      <3> HIDE DEF lost
      <3> QED BY <3>1
    <2> QED BY <2>1, <2>2
  <1>2. DOMAIN view' = DOMAIN view /\ (view'.action # Null => ProposalOK(view'.action))
    BY <1>1, AssistantAfterAnswer
  <1>3. /\ server' = server /\ DOMAIN calls' = DOMAIN calls
        /\ calls'.open \subseteq calls.open \cup AssistantPage!Superseded
        /\ calls'.adrift = calls.adrift \/ (c.kind = "confirm" /\ calls'.adrift = calls.adrift \cup {c.token})
    <2> DEFINE open == IF c.kind = "end" /\ c.current THEN AssistantPage!Superseded \ {[c EXCEPT !.current = FALSE]}
                       ELSE calls.open \ {c}
               adrift == IF c.kind = "confirm" /\ c.answer = Null THEN calls.adrift \cup {c.token} ELSE calls.adrift
    <2>1. /\ server' = server
          /\ \/ calls' = [calls EXCEPT !.open = open]
             \/ calls' = [calls EXCEPT !.open = open, !.adrift = adrift, !.left = @ - 1]
      BY DEF AssistantPage!Answered, AssistantPage!Lost
    <2>2. /\ open \subseteq calls.open \cup AssistantPage!Superseded
          /\ adrift = calls.adrift \/ (c.kind = "confirm" /\ adrift = calls.adrift \cup {c.token})
      OBVIOUS
    <2> HIDE DEF open, adrift
    <2> QED BY <2>1, <2>2 DEF AssistantInv
  <1>4. c.kind = "confirm" => ProposalOK(c.token)
    BY DEF AssistantInv, AssistantCallOK
  <1> QED BY <1>2, <1>3, <1>4, AssistantCalm DEF AssistantInv

LEMMA AssistantElsewhereKeeps == ASSUME AssistantInv, AssistantPage!Elsewhere PROVE AssistantInv'
  <1>1. DOMAIN server' = DOMAIN server /\ server'.sent = server.sent /\ server'.activity \in {server.activity, server.activity + 1}
    BY DEF AssistantPage!Elsewhere, AssistantInv, SentOnce
  <1>2. SentOnce(server')
    BY <1>1 DEF AssistantInv, SentOnce
  <1> QED BY <1>2, AssistantCalm DEF AssistantPage!Elsewhere, AssistantInv

LEMMA AssistantStep == ASSUME AssistantInv, AssistantPage!Next PROVE AssistantInv'
  <1>1. CASE AssistantPage!Close \/ AssistantPage!DismissAction \/ AssistantPage!Remount
    <2>1. DOMAIN view' = DOMAIN view /\ view'.action = Null
      BY <1>1 DEF AssistantPage!Close, AssistantPage!DismissAction, AssistantPage!Remount, AssistantPage!Closed,
             AssistantPage!Cleared, AssistantInv
    <2>2. /\ server' = server /\ DOMAIN calls' = DOMAIN calls /\ calls'.adrift = calls.adrift
          /\ calls'.open \subseteq calls.open \cup AssistantPage!Superseded
      BY <1>1 DEF AssistantPage!Close, AssistantPage!DismissAction, AssistantPage!Remount, AssistantInv
    <2> QED BY <2>1, <2>2, AssistantCalm DEF AssistantInv
  <1>2. ASSUME NEW token \in calls.adrift, AssistantPage!LateArrival(token) PROVE AssistantInv'
    <2>1. SentOnce(server')
      BY <1>2, ExecutedOnce DEF AssistantPage!LateArrival, AssistantInv
    <2> QED BY <1>2, <2>1, AssistantCalm DEF AssistantPage!LateArrival, AssistantInv
  <1> QED BY <1>1, <1>2, AssistantButtonsKeep, AssistantArrivalKeeps, AssistantEndKeeps, AssistantElsewhereKeeps
          DEF AssistantPage!Next

LEMMA AssistantSays == AssistantInv => AssistantPage!OneRequestPerProposal
  BY DEF AssistantInv, SentOnce, AssistantPage!OneRequestPerProposal

-----------------------------------------------------------------------------
(* The vault of documents.                                                   *)

(* What an investor signed is listed for that investor alone.                *)
OwnRows(rows, i) == \A d \in rows : d.kind \notin {"yearly", "monthly"} => d.source = i

OwnAnswer(l) ==
    /\ DOMAIN l = {"hook", "answer", "alive"} /\ l.hook \in VaultPage!Hooks
    /\ l.hook = "documents" => OwnRows(l.answer.rows, l.answer.key)

(* A run asks for the figures of the investor whose list its row was in.     *)
RunOK(r) ==
    /\ DOMAIN r = {"doc", "mode", "scope", "name", "asked", "got"}
    /\ r.scope = r.asked /\ r.name = r.asked
    /\ r.doc.kind \notin {"yearly", "monthly"} => r.doc.source = r.asked

ListedOK(hooks) ==
    /\ DOMAIN hooks = VaultPage!Hooks
    /\ \A h \in VaultPage!Hooks : DOMAIN hooks[h] = {"data", "error", "loading", "refreshing"}
    /\ hooks["documents"].data # Null => OwnRows(hooks["documents"].data.rows, hooks["documents"].data.key)

VaultServerOK(s) == DOMAIN s = Investors /\ \A i \in Investors : OwnRows(s[i], i)

VaultInv ==
    /\ VaultServerOK(server)
    /\ DOMAIN view = {"manager", "embedded", "scope", "period", "busy", "files", "hooks"}
    /\ DOMAIN calls = {"left", "runs", "loads"}
    /\ view.scope \in Investors \cup {Null}
    /\ ListedOK(view.hooks)
    /\ \A l \in calls.loads : OwnAnswer(l)
    /\ \A r \in calls.runs : RunOK(r)
    /\ \A f \in view.files : f.of = f.asked /\ f.name = f.asked

LEMMA VaultLoads == ASSUME VaultServerOK(server), NEW v, v.scope \in Investors \cup {Null}, NEW h \in VaultPage!Hooks
    PROVE OwnAnswer(VaultPage!Async!Load(h, VaultPage!Loader(v, h)))
  <1>1. VaultPage!CanLoad(v) => VaultPage!Expected(v) \in Investors
    BY VaultHasOwners DEF VaultPage!CanLoad, VaultPage!Expected
  <1>2. h = "documents" => OwnRows(VaultPage!Loader(v, h).rows, VaultPage!Loader(v, h).key)
    BY <1>1 DEF VaultPage!Loader, VaultPage!Async!Answer, VaultServerOK, OwnRows
  <1> QED BY <1>2 DEF OwnAnswer, VaultPage!Async!Load

LEMMA VaultStart == VaultPage!Init => VaultInv
  <1> SUFFICES ASSUME VaultPage!Init PROVE VaultInv
    OBVIOUS
  <1>1. VaultServerOK(server)
    BY VaultHasOwners DEF VaultPage!Init, VaultServerOK, OwnRows
  <1>2. PICK i \in Investors, manager \in BOOLEAN, embedded \in BOOLEAN :
          view = [manager |-> manager, embedded |-> embedded, scope |-> IF manager /\ embedded THEN i ELSE Null,
                  period |-> VaultPage!AnyPeriod, busy |-> Null, files |-> {},
                  hooks |-> [h \in VaultPage!Hooks |-> VaultPage!Async!Unmounted]]
    BY DEF VaultPage!Init
  <1>3. calls = [left |-> Events.vault, runs |-> {},
                 loads |-> {VaultPage!Async!Load(h, VaultPage!Loader(view, h)) : h \in VaultPage!Hooks}]
    BY DEF VaultPage!Init
  <1>4. view.scope \in Investors \cup {Null} /\ view.files = {} /\ view.hooks = [h \in VaultPage!Hooks |-> VaultPage!Async!Unmounted]
    BY <1>2
  <1>5. ListedOK(view.hooks)
    BY <1>4 DEF ListedOK, VaultPage!Async!Unmounted, VaultPage!Hooks
  <1>6. \A l \in calls.loads : OwnAnswer(l)
    BY <1>1, <1>3, <1>4, VaultLoads
  <1>7. DOMAIN view = {"manager", "embedded", "scope", "period", "busy", "files", "hooks"}
    BY <1>2
  <1>8. DOMAIN calls = {"left", "runs", "loads"} /\ calls.runs = {}
    BY <1>3
  <1> QED BY <1>1, <1>4, <1>5, <1>6, <1>7, <1>8 DEF VaultInv

(* The controls: hooks run again for the scope that is chosen.               *)
LEMMA VaultReruns == ASSUME VaultInv, NEW v, DOMAIN v = DOMAIN view, v.scope \in Investors \cup {Null},
                            v.hooks = view.hooks, v.files = view.files,
                            NEW run \in SUBSET VaultPage!Hooks, VaultPage!Rerun(v, run)
    PROVE VaultInv'
  <1> DEFINE hooks == [h \in VaultPage!Hooks |-> IF h \in run THEN VaultPage!Async!Begun(view.hooks[h]) ELSE view.hooks[h]]
             loads == VaultPage!Async!Retired(calls.loads, run)
                        \cup {VaultPage!Async!Load(h, VaultPage!Loader(v, h)) : h \in run}
  <1>1. ListedOK(hooks)
    BY DEF VaultInv, ListedOK, VaultPage!Async!Begun, VaultPage!Hooks
  <1>2. \A l \in loads : OwnAnswer(l)
    <2>1. \A h \in run : OwnAnswer(VaultPage!Async!Load(h, VaultPage!Loader(v, h)))
      BY VaultLoads DEF VaultInv
    <2>2. \A l \in VaultPage!Async!Retired(calls.loads, run) : OwnAnswer(l)
      BY DEF VaultPage!Async!Retired, VaultInv, OwnAnswer
    <2> QED BY <2>1, <2>2
  <1>3. view' = [v EXCEPT !.hooks = hooks] /\ calls' = [calls EXCEPT !.left = @ - 1, !.loads = loads] /\ server' = server
    BY DEF VaultPage!Rerun
  <1> HIDE DEF hooks, loads
  <1>4. DOMAIN view' = DOMAIN view /\ view'.scope = v.scope /\ view'.files = view.files /\ view'.hooks = hooks
    BY <1>3 DEF VaultInv
  <1>5. DOMAIN calls' = DOMAIN calls /\ calls'.loads = loads /\ calls'.runs = calls.runs
    BY <1>3 DEF VaultInv
  <1> QED BY <1>1, <1>2, <1>3, <1>4, <1>5 DEF VaultInv

LEMMA VaultControlsKeep ==
    ASSUME VaultInv,
           (\E i \in Investors : VaultPage!SelectInvestor(i))
             \/ VaultPage!ChoosePeriod \/ VaultPage!RetryInvestors \/ VaultPage!RetryDocuments
    PROVE VaultInv'
  <1>1. CASE \E i \in Investors : VaultPage!SelectInvestor(i)
    <2>1. PICK i \in Investors : VaultPage!SelectInvestor(i)
      BY <1>1
    <2> DEFINE v == [view EXCEPT !.scope = i, !.period = VaultPage!AnyPeriod]
    <2>2. DOMAIN v = DOMAIN view /\ v.scope = i /\ v.hooks = view.hooks /\ v.files = view.files
      BY DEF VaultInv
    <2>3. VaultPage!Rerun(v, {"documents"}) /\ {"documents"} \in SUBSET VaultPage!Hooks
      BY <2>1 DEF VaultPage!SelectInvestor, VaultPage!Hooks
    <2> HIDE DEF v
    <2> QED BY <2>2, <2>3, VaultReruns
  <1>2. CASE VaultPage!ChoosePeriod
    <2>1. PICK period : view' = [view EXCEPT !.period = period]
      BY <1>2 DEF VaultPage!ChoosePeriod
    <2>2. calls' = [calls EXCEPT !.left = @ - 1] /\ server' = server
      BY <1>2 DEF VaultPage!ChoosePeriod
    <2> QED BY <2>1, <2>2 DEF VaultInv
  <1>3. CASE VaultPage!RetryInvestors \/ VaultPage!RetryDocuments
    <2>1. VaultPage!Rerun(view, {"investors"}) \/ VaultPage!Rerun(view, {"documents"})
      BY <1>3 DEF VaultPage!RetryInvestors, VaultPage!RetryDocuments
    <2>2. {"documents"} \in SUBSET VaultPage!Hooks /\ {"investors"} \in SUBSET VaultPage!Hooks
      BY DEF VaultPage!Hooks
    <2>3. DOMAIN view = DOMAIN view /\ view.scope \in Investors \cup {Null}
      BY DEF VaultInv
    <2> QED BY <2>1, <2>2, <2>3, VaultReruns
  <1> QED BY <1>1, <1>2, <1>3

(* A row is clicked on the list of the investor the page is about.           *)
LEMMA VaultClickKeeps == ASSUME VaultInv, NEW d, NEW mode, VaultPage!RunDoc(d, mode) PROVE VaultInv'
  <1> DEFINE whose == VaultPage!Expected(view)
             run == [doc |-> d, mode |-> mode, scope |-> whose, name |-> VaultPage!ScopedData(view).key, asked |-> whose, got |-> {}]
  <1>1. d \in VaultPage!ScopedData(view).rows
    BY DEF VaultPage!RunDoc, VaultPage!Filtered, VaultPage!Documents
  <1>2. VaultPage!ScopedData(view) = VaultPage!Data(view) /\ VaultPage!Data(view).key = whose /\ d \in VaultPage!Data(view).rows
    BY <1>1 DEF VaultPage!ScopedData, VaultPage!Nobody, VaultPage!Async!Answer
  <1>3. OwnRows(VaultPage!Data(view).rows, whose)
    BY <1>2 DEF VaultPage!Data, VaultPage!Nobody, VaultPage!Async!Answer, VaultInv, ListedOK, OwnRows
  <1>4. RunOK(run)
    BY <1>2, <1>3 DEF RunOK, OwnRows
  <1>5. /\ view' = [view EXCEPT !.busy = [doc |-> d, mode |-> mode]]
        /\ calls' = [calls EXCEPT !.left = @ - 1, !.runs = @ \cup {run}] /\ server' = server
    BY DEF VaultPage!RunDoc
  <1> HIDE DEF run, whose
  <1> QED BY <1>4, <1>5 DEF VaultInv

LEMMA VaultFileKeeps ==
    ASSUME VaultInv, NEW r \in calls.runs,
           VaultPage!FileMade(r) \/ VaultPage!FileFailed(r) \/ \E part \in VaultPage!Parts(r.doc) : VaultPage!PartAnswered(r, part)
    PROVE VaultInv'
  <1>1. CASE VaultPage!FileMade(r)
    <2> DEFINE file == [doc |-> r.doc, of |-> VaultPage!Contents(r), name |-> r.name, asked |-> r.asked]
    <2>1. r.doc.kind \in {"yearly", "monthly"} \/ r.doc.source = r.asked
      BY DEF VaultInv, RunOK
    <2>2. r.doc.kind \in {"yearly", "monthly"} => VaultPage!Parts(r.doc) # {"source"}
      BY DEF VaultPage!Parts
    <2>3. VaultPage!Contents(r) = r.asked
      BY <2>1, <2>2 DEF VaultPage!Contents, VaultInv, RunOK
    <2>4. file.of = file.asked /\ file.name = file.asked
      BY <2>3 DEF VaultInv, RunOK
    <2>5. /\ view' = [view EXCEPT !.busy = Null, !.files = @ \cup {file}]
          /\ calls' = [calls EXCEPT !.runs = @ \ {r}] /\ server' = server
      BY <1>1 DEF VaultPage!FileMade
    <2> HIDE DEF file
    <2> QED BY <2>4, <2>5 DEF VaultInv
  <1>2. CASE VaultPage!FileFailed(r)
    BY <1>2 DEF VaultPage!FileFailed, VaultInv
  <1>3. CASE \E part \in VaultPage!Parts(r.doc) : VaultPage!PartAnswered(r, part)
    <2>1. PICK part : VaultPage!PartAnswered(r, part)
      BY <1>3
    <2> DEFINE later == [r EXCEPT !.got = @ \cup {part}]
    <2>2. RunOK(later)
      BY DEF VaultInv, RunOK
    <2>3. view' = view /\ server' = server /\ calls' = [calls EXCEPT !.runs = (@ \ {r}) \cup {later}]
      BY <2>1 DEF VaultPage!PartAnswered
    <2> HIDE DEF later
    <2> QED BY <2>2, <2>3 DEF VaultInv
  <1> QED BY <1>1, <1>2, <1>3

LEMMA VaultLoadKeeps == ASSUME VaultInv, NEW l \in calls.loads, VaultPage!LoadDelivered(l) \/ VaultPage!LoadFailed(l)
    PROVE VaultInv'
  <1> DEFINE hook == IF VaultPage!LoadDelivered(l) THEN VaultPage!Async!Delivered(view.hooks[l.hook], l)
                     ELSE VaultPage!Async!Failed(view.hooks[l.hook], l)
             hooks == [view.hooks EXCEPT ![l.hook] = hook]
  <1>1. l.hook \in VaultPage!Hooks
    BY DEF VaultInv, OwnAnswer
  <1>2. DOMAIN hook = DOMAIN view.hooks[l.hook] /\ hook.data \in {view.hooks[l.hook].data, l.answer}
    BY <1>1 DEF VaultInv, ListedOK, VaultPage!Async!Delivered, VaultPage!Async!Failed, VaultPage!Async!Resolved, VaultPage!Async!Rejected
  <1>3. /\ server' = server /\ DOMAIN calls' = DOMAIN calls /\ calls'.loads = calls.loads \ {l} /\ calls'.runs = calls.runs
        /\ view' = [view EXCEPT !.hooks = hooks]
    BY DEF VaultPage!LoadDelivered, VaultPage!LoadFailed, VaultInv
  <1> HIDE DEF hook
  <1>4. ListedOK(hooks)
    BY <1>1, <1>2 DEF ListedOK, VaultInv, OwnAnswer
  <1> HIDE DEF hooks
  <1> QED BY <1>3, <1>4 DEF VaultInv

LEMMA VaultElsewhereKeeps == ASSUME VaultInv, VaultPage!Elsewhere PROVE VaultInv'
  <1>1. PICK i \in Investors, d \in Catalogue :
          /\ d.source \in {Null, i}
          /\ server' = [server EXCEPT ![i] = IF d \notin @ THEN @ \cup {d} ELSE IF d.kind = "quote" THEN @ \ {d} ELSE @]
    BY DEF VaultPage!Elsewhere
  <1>2. d.kind \notin {"yearly", "monthly"} => d.source = i
    BY <1>1, VaultHasOwners
  <1>3. VaultServerOK(server')
    BY <1>1, <1>2 DEF VaultInv, VaultServerOK, OwnRows
  <1>4. view' = view /\ calls' = [calls EXCEPT !.left = @ - 1]
    BY DEF VaultPage!Elsewhere
  <1> QED BY <1>3, <1>4 DEF VaultInv

LEMMA VaultStep == ASSUME VaultInv, VaultPage!Next PROVE VaultInv'
  BY VaultControlsKeep, VaultClickKeeps, VaultFileKeeps, VaultLoadKeeps, VaultElsewhereKeeps DEF VaultPage!Next

LEMMA VaultSays == VaultInv => VaultPage!FileIsOfItsRow
  BY DEF VaultInv, VaultPage!FileIsOfItsRow

-----------------------------------------------------------------------------
(* The bell.                                                                 *)

(* Logins are announced up to what was seen of logins, the rest up to what   *)
(* was seen of all.                                                          *)
AnnouncedOK(n, log, seen) ==
    /\ n \in 1 .. Len(log) /\ n > 1
    /\ n <= IF log[n] = "login" THEN seen.login ELSE seen.event

SeenOK(seen) == DOMAIN seen = {"login", "event"} /\ seen.login \in Nat /\ seen.event \in Nat

(* An answered summary names the newest event and the newest login.          *)
SummaryOK(c, log) ==
    /\ "answer" \in DOMAIN c
    /\ c.kind = "summary" /\ c.answer # Null =>
           /\ c.answer.latest \in 1 .. Len(log)
           /\ c.answer.latestLogin \in 1 .. Len(log) /\ log[c.answer.latestLogin] = "login"

BellLogOK(log) == log \in Seq(BellPage!EventKinds) /\ Len(log) >= 1 /\ log[1] = "login"

BellInv ==
    /\ DOMAIN server = {"log", "unread"} /\ BellLogOK(server.log)
    /\ DOMAIN view = {"open", "filter", "rows", "toast", "seen", "primed", "announced"}
    /\ DOMAIN calls = {"left", "open"}
    /\ SeenOK(view.seen) /\ (view.primed => view.seen.login >= 1 /\ view.seen.event >= 1)
    /\ view.announced \in Seq(Nat)
    /\ \A i \in DOMAIN view.announced : AnnouncedOK(view.announced[i], server.log, view.seen)
    /\ \A i, j \in DOMAIN view.announced : view.announced[i] = view.announced[j] => i = j
    /\ \A c \in calls.open : SummaryOK(c, server.log)

LEMMA BellStart == BellPage!Init => BellInv
  <1> SUFFICES ASSUME BellPage!Init PROVE BellInv
    OBVIOUS
  <1>1. BellLogOK(<<"login">>)
    BY DEF BellLogOK, BellPage!EventKinds
  <1> QED BY <1>1 DEF BellPage!Init, BellInv, SeenOK, SummaryOK

LEMMA BellNewest == ASSUME BellLogOK(server.log)
    PROVE /\ BellPage!Summary.latest \in 1 .. Len(server.log)
          /\ BellPage!Summary.latestLogin \in 1 .. Len(server.log)
          /\ server.log[BellPage!Summary.latestLogin] = "login"
  <1> DEFINE n == Len(server.log)
             ids == 1 .. n
             logins == {i \in ids : server.log[i] = "login"}
  <1>1. n \in Nat /\ 1 \in ids /\ 1 \in logins
    BY DEF BellLogOK
  <1>2. ASSUME NEW S, S \subseteq ids, S # {} PROVE BellPage!Newest(S) \in S
    <2>1. \E i \in S : \A j \in S : j <= i
      BY <1>1, <1>2, GreatestExists
    <2> QED BY <1>2, <2>1 DEF BellPage!Newest
  <1>3. BellPage!Ids = ids /\ BellPage!Logins = logins
    BY DEF BellPage!Ids, BellPage!Logins
  <1> HIDE DEF ids, logins
  <1>4. BellPage!Newest(ids) \in ids
    BY <1>1, <1>2
  <1>5. BellPage!Newest(logins) \in logins
    BY <1>1, <1>2 DEF logins
  <1> QED BY <1>3, <1>4, <1>5 DEF BellPage!Summary, ids, logins

(* A step of the panel: what was seen and announced stays.                   *)
LEMMA BellCalm == ASSUME BellInv, server' = server \/ (DOMAIN server' = DOMAIN server /\ server'.log = server.log),
                         DOMAIN view' = DOMAIN view, DOMAIN calls' = DOMAIN calls,
                         view'.seen = view.seen, view'.announced = view.announced, view'.primed \in {view.primed, FALSE},
                         \A c \in calls'.open : c \in calls.open \/ SummaryOK(c, server.log)
    PROVE BellInv'
  BY DEF BellInv, SummaryOK

LEMMA BellAsks == ASSUME NEW announce, NEW after, NEW filter, NEW ids
    PROVE /\ SummaryOK(BellPage!Poll(announce, after), server.log)
          /\ SummaryOK(BellPage!Listing(filter), server.log)
          /\ SummaryOK(BellPage!Marking(ids, filter), server.log)
          /\ \A c \in BellPage!Continue(after) : SummaryOK(c, server.log)
  BY DEF SummaryOK, BellPage!Poll, BellPage!Listing, BellPage!Marking, BellPage!Continue

LEMMA BellUses == ASSUME BellInv, NEW v, DOMAIN v = DOMAIN view, v.seen = view.seen, v.announced = view.announced,
                         v.primed = view.primed, NEW new, \A c \in new : SummaryOK(c, server.log), BellPage!Use(v, new)
    PROVE BellInv'
  <1>1. server' = server /\ view' = v /\ calls' = [calls EXCEPT !.open = @ \cup new, !.left = @ - 1]
    BY DEF BellPage!Use
  <1> QED BY <1>1, BellCalm DEF BellInv

LEMMA BellPanelKeeps ==
    ASSUME BellInv,
           \/ BellPage!Tick \/ BellPage!OpenPanel \/ BellPage!ClosePanel \/ BellPage!MarkAll \/ BellPage!ToastEnds \/ BellPage!Reload
           \/ \E filter \in BellPage!Filters : BellPage!Choose(filter)
           \/ \E id \in view.rows : BellPage!MarkRead(id)
    PROVE BellInv'
  <1>1. CASE BellPage!Tick
    <2> DEFINE poll == BellPage!Poll(TRUE, Null)
    <2>1. SummaryOK(poll, server.log)
      BY BellAsks
    <2>2. server' = server /\ view' = view /\ calls' = [calls EXCEPT !.open = @ \cup {poll}, !.left = @ - 1]
      BY <1>1 DEF BellPage!Tick
    <2> HIDE DEF poll
    <2> QED BY <2>1, <2>2, BellCalm DEF BellInv
  <1>2. CASE BellPage!OpenPanel \/ \E filter \in BellPage!Filters : BellPage!Choose(filter)
    <2>1. PICK filter : BellPage!Use(BellPage!Shown(view, filter), {BellPage!Listing(filter), BellPage!Poll(FALSE, Null)})
      BY <1>2 DEF BellPage!OpenPanel, BellPage!Choose
    <2> DEFINE v == BellPage!Shown(view, filter)
               new == {BellPage!Listing(filter), BellPage!Poll(FALSE, Null)}
    <2>2. DOMAIN v = DOMAIN view /\ v.seen = view.seen /\ v.announced = view.announced /\ v.primed = view.primed
      BY DEF BellPage!Shown, BellInv
    <2>3. \A c \in new : SummaryOK(c, server.log)
      BY BellAsks
    <2> HIDE DEF v, new
    <2>4. BellPage!Use(v, new)
      BY <2>1 DEF v, new
    <2> QED BY <2>2, <2>3, <2>4, BellUses
  <1>3. CASE BellPage!MarkAll \/ \E id \in view.rows : BellPage!MarkRead(id)
    <2>1. PICK ids : BellPage!Use(view, {BellPage!Marking(ids, view.filter)})
      BY <1>3 DEF BellPage!MarkAll, BellPage!MarkRead
    <2> DEFINE new == {BellPage!Marking(ids, view.filter)}
    <2>2. \A c \in new : SummaryOK(c, server.log)
      BY BellAsks
    <2> HIDE DEF new
    <2>3. BellPage!Use(view, new)
      BY <2>1 DEF new
    <2> QED BY <2>2, <2>3, BellUses
  <1>4. CASE BellPage!ClosePanel \/ BellPage!ToastEnds
    BY <1>4, BellCalm DEF BellPage!ClosePanel, BellPage!ToastEnds, BellInv
  <1>5. CASE BellPage!Reload
    <2>1. SummaryOK(BellPage!FirstPoll, server.log)
      BY BellAsks DEF BellPage!FirstPoll
    <2>2. /\ server' = server /\ DOMAIN view' = DOMAIN view /\ view'.seen = view.seen /\ view'.announced = view.announced
          /\ view'.primed = FALSE /\ DOMAIN calls' = DOMAIN calls /\ calls'.open = {BellPage!FirstPoll}
      BY <1>5 DEF BellPage!Reload, BellInv
    <2> QED BY <2>1, <2>2, BellCalm
  <1> QED BY <1>1, <1>2, <1>3, <1>4, <1>5

LEMMA BellArrivalKeeps == ASSUME BellInv, NEW c \in calls.open, BellPage!Arrive(c) PROVE BellInv'
  <1> DEFINE answer == CASE c.kind = "summary" -> BellPage!Summary
                         [] c.kind = "list" -> [ids |-> BellPage!Listed(c.filter)]
                         [] c.kind = "mark" -> "done"
             arrived == [c EXCEPT !.answer = answer]
  <1>1. SummaryOK(c, server.log)
    BY DEF BellInv
  <1>2. c.kind = "summary" => answer = BellPage!Summary
    OBVIOUS
  <1>3. /\ view' = view /\ calls' = [calls EXCEPT !.open = (@ \ {c}) \cup {arrived}]
        /\ server' = IF c.kind = "mark" THEN [server EXCEPT !.unread = @ \ c.ids] ELSE server
    BY DEF BellPage!Arrive
  <1> HIDE DEF answer
  <1>4. "answer" \in DOMAIN arrived /\ arrived.kind = c.kind /\ arrived.answer = answer
    BY <1>1 DEF SummaryOK
  <1> HIDE DEF arrived
  <1>5. SummaryOK(arrived, server.log)
    BY <1>2, <1>4, BellNewest DEF SummaryOK, BellInv
  <1>6. DOMAIN server' = DOMAIN server /\ server'.log = server.log
    BY <1>3 DEF BellInv
  <1> QED BY <1>3, <1>5, <1>6, BellCalm DEF BellInv

LEMMA BellAnswerKeeps == ASSUME BellInv, NEW c \in calls.open, BellPage!Marked(c) \/ BellPage!ListAnswered(c) \/ BellPage!Lost(c)
    PROVE BellInv'
  <1>1. CASE BellPage!Marked(c)
    <2> DEFINE poll == BellPage!Poll(FALSE, c.after)
    <2>1. SummaryOK(poll, server.log)
      BY BellAsks
    <2>2. server' = server /\ view' = view /\ calls' = [calls EXCEPT !.open = (@ \ {c}) \cup {poll}]
      BY <1>1 DEF BellPage!Marked
    <2> HIDE DEF poll
    <2> QED BY <2>1, <2>2, BellCalm DEF BellInv
  <1>2. CASE BellPage!ListAnswered(c)
    BY <1>2, BellCalm DEF BellPage!ListAnswered, BellInv
  <1>3. CASE BellPage!Lost(c)
    <2> DEFINE more == IF c.kind = "summary" THEN BellPage!Continue(c.after) ELSE {}
    <2>1. \A d \in more : SummaryOK(d, server.log)
      BY BellAsks
    <2>2. /\ server' = server /\ view' = IF c.kind = "list" THEN [view EXCEPT !.rows = {}] ELSE view
          /\ calls' = [calls EXCEPT !.open = (@ \ {c}) \cup more, !.left = @ - 1]
      BY <1>3 DEF BellPage!Lost
    <2> HIDE DEF more
    <2> QED BY <2>1, <2>2, BellCalm DEF BellInv
  <1> QED BY <1>1, <1>2, <1>3

(* The comparison with what was seen, when the answer came.                  *)
LEMMA BellSummaryKeeps == ASSUME BellInv, NEW c \in calls.open, BellPage!SummaryAnswered(c) PROVE BellInv'
  <1> DEFINE seen == view.seen
             log == server.log
             latest == c.answer.latest
             login == c.answer.latestLogin
             news == BellPage!Announced(c)
             later == BellPage!Advanced(c)
             list == IF news = Null THEN view.announced ELSE Append(view.announced, news)
  <1>1. latest \in 1 .. Len(log) /\ login \in 1 .. Len(log) /\ log[login] = "login" /\ Len(log) \in Nat
    BY DEF BellPage!SummaryAnswered, BellInv, SummaryOK, BellLogOK
  <1>2. /\ server' = server /\ DOMAIN view' = DOMAIN view /\ view'.seen = later /\ view'.primed = TRUE
        /\ view'.announced = list
        /\ DOMAIN calls' = DOMAIN calls /\ calls'.open = (calls.open \ {c}) \cup BellPage!Continue(c.after)
    BY DEF BellPage!SummaryAnswered, BellInv
  <1>3. later = [login |-> IF login > seen.login THEN login ELSE seen.login, event |-> IF latest > seen.event THEN latest ELSE seen.event]
    BY DEF BellPage!Advanced, BellPage!SeenBefore
  <1>4. \/ news = Null
        \/ news = login /\ view.primed /\ login > seen.login
        \/ news = latest /\ view.primed /\ latest > seen.event /\ log[latest] = "urgent"
    BY DEF BellPage!Announced, BellPage!SeenBefore
  <1>5. /\ SeenOK(seen) /\ (view.primed => seen.login >= 1 /\ seen.event >= 1) /\ view.announced \in Seq(Nat)
        /\ \A i \in DOMAIN view.announced : AnnouncedOK(view.announced[i], log, seen)
        /\ \A i, j \in DOMAIN view.announced : view.announced[i] = view.announced[j] => i = j
    BY DEF BellInv
  <1> HIDE DEF seen, log, latest, login, news, later
  <1>6. /\ SeenOK(later) /\ later.login >= 1 /\ later.event >= 1
        /\ later.login >= seen.login /\ later.event >= seen.event
        /\ later.login >= login /\ later.event >= latest
    BY <1>1, <1>3, <1>5 DEF SeenOK
  <1>7. \A n : AnnouncedOK(n, log, seen) => AnnouncedOK(n, log, later)
    BY <1>1, <1>5, <1>6 DEF AnnouncedOK, SeenOK
  <1>8. /\ list \in Seq(Nat) /\ \A i \in DOMAIN list : AnnouncedOK(list[i], log, later)
        /\ \A i, j \in DOMAIN list : list[i] = list[j] => i = j
    <2>1. CASE news = Null
      BY <1>5, <1>7, <2>1
    <2>2. CASE news # Null
      <3>1. AnnouncedOK(news, log, later)
        BY <1>1, <1>4, <1>5, <1>6, <2>2 DEF AnnouncedOK, SeenOK
      <3>2. \A n : AnnouncedOK(n, log, seen) => n # news
        BY <1>1, <1>4, <1>5, <2>2 DEF AnnouncedOK, SeenOK
      <3>3. news \in Nat /\ list = Append(view.announced, news)
        BY <1>1, <2>2, <3>1 DEF AnnouncedOK
      <3>4. /\ list \in Seq(Nat) /\ Len(list) = Len(view.announced) + 1 /\ list[Len(view.announced) + 1] = news
            /\ DOMAIN list = 1 .. Len(view.announced) + 1 /\ DOMAIN view.announced = 1 .. Len(view.announced)
            /\ \A i \in DOMAIN view.announced : list[i] = view.announced[i]
        BY <1>5, <3>3
      <3>5. \A i \in DOMAIN list : i \in DOMAIN view.announced \/ i = Len(view.announced) + 1
        BY <1>5, <3>4
      <3> HIDE DEF list
      <3> QED BY <1>5, <1>7, <3>1, <3>2, <3>4, <3>5
    <2> QED BY <2>1, <2>2
  <1> HIDE DEF list
  <1>9. \A d \in calls'.open : SummaryOK(d, log)
    BY <1>2, BellAsks DEF BellInv, log
  <1> QED BY <1>2, <1>6, <1>8, <1>9 DEF BellInv, log

LEMMA BellNewsKeeps == ASSUME BellInv, BellPage!Happens PROVE BellInv'
  <1>1. PICK kind \in BellPage!EventKinds :
          server' = [server EXCEPT !.log = Append(@, kind), !.unread = @ \cup {Len(server.log) + 1}]
    BY DEF BellPage!Happens
  <1> DEFINE log == Append(server.log, kind)
  <1>2. /\ BellLogOK(log) /\ Len(server.log) \in Nat /\ Len(log) = Len(server.log) + 1
        /\ \A i \in 1 .. Len(server.log) : log[i] = server.log[i]
    BY DEF BellInv, BellLogOK
  <1>3. DOMAIN server' = DOMAIN server /\ server'.log = log /\ view' = view /\ calls' = calls
    BY <1>1 DEF BellPage!Happens, BellInv
  <1> HIDE DEF log
  <1>4. \A c : SummaryOK(c, server.log) => SummaryOK(c, log)
    BY <1>2 DEF SummaryOK
  <1>5. \A n : AnnouncedOK(n, server.log, view.seen) => AnnouncedOK(n, log, view.seen)
    BY <1>2 DEF AnnouncedOK
  <1> QED BY <1>2, <1>3, <1>4, <1>5 DEF BellInv

LEMMA BellStep == ASSUME BellInv, BellPage!Next PROVE BellInv'
  BY BellPanelKeeps, BellArrivalKeeps, BellAnswerKeeps, BellSummaryKeeps, BellNewsKeeps DEF BellPage!Next

LEMMA BellSays == BellInv => BellPage!AnnouncedOnce
  BY DEF BellInv, AnnouncedOK, BellPage!AnnouncedOnce

-----------------------------------------------------------------------------
(* The reminder of transfers that wait.                                      *)

(* An event was written by now, by a scan that is over; the scans it had     *)
(* seen were over before it.                                                 *)
LogOK(log, now, scans) ==
    \A e \in log : /\ e.at \in Nat /\ e.at <= now
                   /\ e.scan \in 1 .. scans
                   /\ \A i \in e.saw : \E f \in log : f.scan = i

(* A scan under way has written nothing.  What it read and still means to    *)
(* write has no event of its day, unless that day is over.                   *)
ScanOK(s, srv) ==
    /\ DOMAIN s = {"id", "today", "items", "read", "saw"}
    /\ s.id \in 1 .. srv.scans /\ \A e \in srv.log : e.scan # s.id
    /\ s.today \in Nat
    /\ \A i \in s.saw : \E e \in srv.log : e.scan = i
    /\ s.read => \A e \in srv.log :
           e.scan \in s.saw /\ e.payment \in s.items /\ NudgesPage!NudgedOn(e) = s.today
             => NudgesPage!AsIsraelDate(srv.now) > s.today

OncePerDay(log) == \A e, f \in log :
    /\ e.payment = f.payment /\ NudgesPage!NudgedOn(e) = e.today /\ NudgesPage!NudgedOn(f) = f.today
    /\ e.today = f.today /\ e.scan \in f.saw
    => e = f

(* What the reader confirmed is paid; a read that is still wanted leaves it  *)
(* out, and so does a list that is up to date.                               *)
ReadOK(l, v) ==
    /\ DOMAIN l = {"hook", "answer", "alive", "scan"} /\ l.hook = "nudges"
    /\ l.answer.rows \subseteq NudgesPage!Payments
    /\ l.alive => l.answer.rows \cap v.confirmed = {}

ShownOK(v) ==
    /\ DOMAIN v.hook = {"data", "error", "loading", "refreshing"}
    /\ v.hook.data # Null => v.hook.data.rows \subseteq NudgesPage!Payments
    /\ NudgesPage!Async!Settled(v.hook) /\ ~v.hook.error /\ v.hook.data # Null
         => v.hook.data.rows \cap v.confirmed = {}

ConfirmOK(c, status) ==
    /\ DOMAIN c = {"payment", "outcome"} /\ c.payment \in NudgesPage!Payments
    /\ c.outcome = "done" => status[c.payment] = "paid"

NudgeServerOK(s) ==
    /\ DOMAIN s = {"now", "asked", "scans", "log", "status"} /\ s.now \in Nat /\ s.scans \in Nat
    /\ DOMAIN s.status = NudgesPage!Payments
    /\ LogOK(s.log, s.now, s.scans)

NudgeScansOK(scans, srv) ==
    /\ \A s \in scans : ScanOK(s, srv)
    /\ \A s, t \in scans : s.id = t.id => s = t

NudgesInv ==
    /\ NudgeServerOK(server) /\ OncePerDay(server.log)
    /\ DOMAIN view = {"me", "hook", "dismissed", "busy", "confirmed"}
    /\ DOMAIN calls = {"left", "confirms", "scans", "loads"}
    /\ NudgeScansOK(calls.scans, server)
    /\ \A p \in view.confirmed : p \in NudgesPage!Payments /\ server.status[p] = "paid"
    /\ \A c \in calls.confirms : ConfirmOK(c, server.status)
    /\ ShownOK(view)
    /\ \A l \in calls.loads : ReadOK(l, view)

LEMMA DatesGrow == ASSUME NEW t \in Nat
    PROVE /\ NudgesPage!AsIsraelDate(t) \in Nat
          /\ \A u \in Nat : u <= t => NudgesPage!AsIsraelDate(u) <= NudgesPage!AsIsraelDate(t)
  BY DEF NudgesPage!AsIsraelDate

LEMMA NudgesOf == ASSUME NEW who
    PROVE /\ NudgesPage!Nudges(who) \subseteq NudgesPage!Payments
          /\ \A p \in NudgesPage!Nudges(who) : server.status[p] = "awaiting_confirmation"
  BY DEF NudgesPage!Nudges

(* A new scan.                                                               *)
LEMMA ScanStarts == ASSUME NudgesInv, NEW srv, srv = NudgesPage!WithScan
    PROVE /\ NudgeServerOK(srv) /\ srv.log = server.log /\ srv.status = server.status
          /\ NudgeScansOK(calls.scans \cup {NudgesPage!Scan}, srv)
  <1> DEFINE new == NudgesPage!Scan
  <1>1. /\ DOMAIN srv = DOMAIN server /\ srv.scans = server.scans + 1 /\ srv.log = server.log /\ srv.now = server.now
        /\ srv.status = server.status
    BY DEF NudgesPage!WithScan, NudgesInv, NudgeServerOK
  <1>2. /\ DOMAIN new = {"id", "today", "items", "read", "saw"} /\ new.id = server.scans + 1
        /\ new.today \in Nat /\ new.read = FALSE /\ new.saw = {}
    BY DatesGrow DEF NudgesPage!Scan, NudgesPage!Today, NudgesInv, NudgeServerOK
  <1> HIDE DEF new
  <1>3. NudgeServerOK(srv)
    BY <1>1 DEF NudgesInv, NudgeServerOK, LogOK
  <1>4. ScanOK(new, srv)
    BY <1>1, <1>2 DEF NudgesInv, NudgeServerOK, LogOK, ScanOK
  <1>5. \A s \in calls.scans : ScanOK(s, srv) /\ s.id # new.id
    BY <1>1, <1>2 DEF NudgesInv, NudgeServerOK, NudgeScansOK, ScanOK
  <1> QED BY <1>1, <1>3, <1>4, <1>5 DEF NudgesInv, NudgeScansOK, new

LEMMA NudgesStart == NudgesPage!Init => NudgesInv
  <1> SUFFICES ASSUME NudgesPage!Init PROVE NudgesInv
    OBVIOUS
  <1> DEFINE first == [NudgesPage!Scan EXCEPT !.id = 1]
             read == [NudgesPage!Read(view) EXCEPT !.scan = 1]
  <1>1. PICK start \in Started.nudges :
          server = [now |-> start.now, asked |-> start.asked, scans |-> 1, log |-> {},
                    status |-> [p \in NudgesPage!Payments |-> "awaiting_confirmation"]]
    BY DEF NudgesPage!Init
  <1>2. server.now \in Nat /\ NudgeServerOK(server) /\ server.log = {} /\ server.scans = 1
    BY <1>1, NudgesStartAtATime DEF NudgeServerOK, LogOK
  <1>3. view.hook = NudgesPage!Async!Unmounted /\ view.confirmed = {} /\ DOMAIN view = {"me", "hook", "dismissed", "busy", "confirmed"}
    BY DEF NudgesPage!Init
  <1>4. calls = [left |-> Events.nudges, confirms |-> {}, scans |-> {first}, loads |-> {read}]
    BY DEF NudgesPage!Init
  <1>5. /\ DOMAIN first = {"id", "today", "items", "read", "saw"} /\ first.id = 1 /\ first.today \in Nat
        /\ first.read = FALSE /\ first.saw = {}
    BY <1>2, DatesGrow DEF NudgesPage!Scan, NudgesPage!Today
  <1> HIDE DEF first
  <1>6. ScanOK(first, server)
    BY <1>2, <1>5 DEF ScanOK
  <1>7. ReadOK(read, view)
    BY <1>3, NudgesOf DEF ReadOK, NudgesPage!Read, NudgesPage!Async!Answer
  <1>8. ShownOK(view)
    BY <1>3 DEF ShownOK, NudgesPage!Async!Unmounted, NudgesPage!Async!Settled
  <1> HIDE DEF read
  <1> QED BY <1>2, <1>3, <1>4, <1>6, <1>7, <1>8 DEF NudgesInv, NudgeScansOK, OncePerDay

(* The newest event of a payment is no older than any other of it.           *)
LEMMA NewestEvent == ASSUME NudgeServerOK(server), NEW p, NEW e \in NudgesPage!EventsOf(p)
    PROVE /\ NudgesPage!Newest(p) \in NudgesPage!EventsOf(p)
          /\ \A f \in NudgesPage!EventsOf(p) : f.at <= NudgesPage!Newest(p).at
  <1> DEFINE events == NudgesPage!EventsOf(p)
             times == {f.at + 1 : f \in events}
  <1>1. \A f \in events : f.at \in Nat /\ f.at <= server.now /\ f.at + 1 \in 1 .. server.now + 1
    BY DEF NudgesPage!EventsOf, NudgeServerOK, LogOK
  <1>2. server.now + 1 \in Nat /\ times \subseteq 1 .. server.now + 1
    BY <1>1 DEF NudgeServerOK
  <1>3. times # {}
    OBVIOUS
  <1>4. PICK t \in times : \A u \in times : u <= t
    <2> HIDE DEF times
    <2> QED BY <1>2, <1>3, GreatestExists
  <1>5. PICK f \in events : t = f.at + 1
    BY <1>4
  <1>6. ASSUME NEW g \in events PROVE g.at <= f.at
    <2>1. g.at + 1 \in times
      BY <1>6
    <2>2. g.at + 1 <= f.at + 1
      BY <1>4, <1>5, <2>1
    <2> QED BY <1>1, <1>6, <2>2
  <1> QED BY <1>5, <1>6 DEF NudgesPage!Newest

LEMMA NudgeScanReads == ASSUME NudgesInv, NEW s \in calls.scans, NudgesPage!ScanReads(s) PROVE NudgesInv'
  <1> DEFINE saw == {e.scan : e \in server.log}
             items == {p \in s.items : NudgesPage!EventsOf(p) # {} => NudgesPage!NudgedOn(NudgesPage!Newest(p)) # s.today}
             read == [s EXCEPT !.read = TRUE, !.saw = saw, !.items = items]
  <1>1. view' = view /\ server' = server /\ calls' = [calls EXCEPT !.scans = (@ \ {s}) \cup {read}]
    BY DEF NudgesPage!ScanReads
  <1>2. ScanOK(s, server) /\ NudgeServerOK(server)
    BY DEF NudgesInv, NudgeScansOK
  <1>3. ASSUME NEW e \in server.log, e.payment \in items, NudgesPage!NudgedOn(e) = s.today
        PROVE NudgesPage!AsIsraelDate(server.now) > s.today
    <2> DEFINE newest == NudgesPage!Newest(e.payment)
    <2>1. e \in NudgesPage!EventsOf(e.payment)
      BY DEF NudgesPage!EventsOf
    <2>2. newest \in NudgesPage!EventsOf(e.payment) /\ e.at <= newest.at
      BY <1>2, <2>1, NewestEvent
    <2>3. newest.at \in Nat /\ newest.at <= server.now /\ e.at \in Nat /\ server.now \in Nat /\ s.today \in Nat
      BY <1>2, <2>2 DEF NudgesPage!EventsOf, NudgeServerOK, LogOK, ScanOK
    <2>4. NudgesPage!NudgedOn(newest) # s.today
      BY <1>3, <2>1
    <2> HIDE DEF newest
    <2>5. /\ NudgesPage!AsIsraelDate(e.at) <= NudgesPage!AsIsraelDate(newest.at)
          /\ NudgesPage!AsIsraelDate(newest.at) <= NudgesPage!AsIsraelDate(server.now)
          /\ NudgesPage!AsIsraelDate(e.at) \in Nat /\ NudgesPage!AsIsraelDate(newest.at) \in Nat
          /\ NudgesPage!AsIsraelDate(server.now) \in Nat
      BY <2>2, <2>3, DatesGrow
    <2> QED BY <1>3, <2>3, <2>4, <2>5 DEF NudgesPage!NudgedOn
  <1>4. \A i \in saw : \E e \in server.log : e.scan = i
    OBVIOUS
  <1> HIDE DEF saw, items
  <1>5. DOMAIN read = DOMAIN s /\ read.id = s.id /\ read.today = s.today /\ read.items = items /\ read.saw = saw
    BY <1>2 DEF ScanOK
  <1> HIDE DEF read
  <1>6. ScanOK(read, server)
    BY <1>2, <1>3, <1>4, <1>5 DEF ScanOK
  <1>7. NudgeScansOK((calls.scans \ {s}) \cup {read}, server)
    BY <1>5, <1>6 DEF NudgesInv, NudgeScansOK
  <1> QED BY <1>1, <1>7 DEF NudgesInv

LEMMA NudgeScanCommits == ASSUME NudgesInv, NEW s \in calls.scans, NudgesPage!ScanCommits(s) PROVE NudgesInv'
  <1> DEFINE event(p) == [payment |-> p, at |-> server.now, scan |-> s.id, today |-> s.today, saw |-> s.saw]
             new == {event(p) : p \in s.items}
             log == server.log \cup new
             others == calls.scans \ {s}
  <1>1. view' = view /\ server' = [server EXCEPT !.log = log] /\ calls' = [calls EXCEPT !.scans = others] /\ s.read
    BY DEF NudgesPage!ScanCommits
  <1>2. ScanOK(s, server) /\ NudgeServerOK(server) /\ \A t \in others : ScanOK(t, server) /\ t.id # s.id
    BY DEF NudgesInv, NudgeScansOK
  <1>3. \A e \in new : /\ e.payment \in s.items /\ e.at = server.now /\ e.scan = s.id /\ e.today = s.today /\ e.saw = s.saw
                       /\ e = event(e.payment)
    OBVIOUS
  <1>4. /\ DOMAIN server' = DOMAIN server /\ server'.log = log /\ server'.now = server.now /\ server'.scans = server.scans
        /\ server'.status = server.status
    BY <1>1, <1>2 DEF NudgeServerOK
  <1>5. DOMAIN calls' = DOMAIN calls /\ calls'.scans = others /\ calls'.confirms = calls.confirms /\ calls'.loads = calls.loads
    BY <1>1 DEF NudgesInv
  <1>6. \A e, f \in new : e.payment = f.payment => e = f
    BY <1>3
  <1> HIDE DEF new, others
  <1>7. LogOK(log, server.now, server.scans)
    BY <1>2, <1>3 DEF NudgeServerOK, LogOK, ScanOK
  <1>8. \A t \in others : ScanOK(t, server')
    <2> SUFFICES ASSUME NEW t \in others PROVE ScanOK(t, server')
      OBVIOUS
    <2>1. ScanOK(t, server) /\ t.id # s.id
      BY <1>2
    <2>2. \A e \in new : e.scan \notin t.saw
      BY <1>2, <1>3, <2>1 DEF ScanOK
    <2> QED BY <1>3, <1>4, <2>1, <2>2 DEF ScanOK
  <1>9. OncePerDay(log)
    <2> SUFFICES ASSUME NEW e \in log, NEW f \in log, e.payment = f.payment, NudgesPage!NudgedOn(e) = e.today,
                        NudgesPage!NudgedOn(f) = f.today, e.today = f.today, e.scan \in f.saw
                 PROVE e = f
      BY DEF OncePerDay
    <2>1. CASE e \in server.log /\ f \in server.log
      BY <2>1 DEF NudgesInv, OncePerDay
    <2>2. CASE e \in server.log /\ f \in new
      <3>1. f.saw = s.saw /\ f.payment \in s.items /\ f.today = s.today /\ f.at = server.now
        BY <1>3, <2>2
      <3>2. NudgesPage!AsIsraelDate(server.now) > s.today
        BY <1>1, <1>2, <2>2, <3>1 DEF ScanOK
      <3>3. NudgesPage!AsIsraelDate(server.now) = s.today /\ s.today \in Nat
        BY <1>2, <3>1 DEF NudgesPage!NudgedOn, ScanOK
      <3> QED BY <3>2, <3>3
    <2>3. CASE e \in new /\ f \in server.log
      BY <1>2, <1>3, <2>3 DEF ScanOK, NudgeServerOK, LogOK
    <2>4. CASE e \in new /\ f \in new
      BY <1>6, <2>4
    <2> QED BY <2>1, <2>2, <2>3, <2>4
  <1> HIDE DEF log
  <1>10. \A t, u \in others : t.id = u.id => t = u
    BY DEF NudgesInv, NudgeScansOK, others
  <1> QED BY <1>1, <1>2, <1>4, <1>5, <1>7, <1>8, <1>9, <1>10 DEF NudgesInv, NudgeScansOK, NudgeServerOK

(* Steps that write no event and start no scan.                              *)
LEMMA NudgesCalm == ASSUME NudgesInv, server' = server, DOMAIN view' = DOMAIN view, DOMAIN calls' = DOMAIN calls,
                           view'.confirmed = view.confirmed, ShownOK(view'), calls'.scans \subseteq calls.scans,
                           \A c \in calls'.confirms : c \in calls.confirms \/ ConfirmOK(c, server.status),
                           \A l \in calls'.loads : l \in calls.loads
    PROVE NudgesInv'
  BY DEF NudgesInv, NudgeScansOK, ReadOK

LEMMA NudgeCalmSteps ==
    ASSUME NudgesInv,
           \/ NudgesPage!Dismiss
           \/ \E s \in calls.scans : NudgesPage!ScanFails(s)
           \/ \E p \in NudgesPage!Items : NudgesPage!ConfirmMine(p)
           \/ \E c \in calls.confirms : NudgesPage!ConfirmFailed(c)
           \/ \E l \in calls.loads : NudgesPage!LoadDelivered(l) \/ NudgesPage!LoadFailed(l)
    PROVE NudgesInv'
  <1>1. CASE NudgesPage!Dismiss
    BY <1>1, NudgesCalm DEF NudgesPage!Dismiss, NudgesInv, ShownOK
  <1>2. CASE \E s \in calls.scans : NudgesPage!ScanFails(s)
    BY <1>2, NudgesCalm DEF NudgesPage!ScanFails, NudgesInv
  <1>3. CASE \E p \in NudgesPage!Items : NudgesPage!ConfirmMine(p)
    <2>1. PICK p \in NudgesPage!Items : NudgesPage!ConfirmMine(p)
      BY <1>3
    <2> DEFINE new == [payment |-> p, outcome |-> "none"]
    <2>2. ConfirmOK(new, server.status)
      BY DEF ConfirmOK, NudgesPage!Items, NudgesInv, ShownOK
    <2>3. /\ server' = server /\ view' = [view EXCEPT !.busy = p]
          /\ calls' = [calls EXCEPT !.left = @ - 1, !.confirms = @ \cup {new}]
      BY <2>1 DEF NudgesPage!ConfirmMine
    <2> HIDE DEF new
    <2>4. DOMAIN view' = DOMAIN view /\ view'.confirmed = view.confirmed /\ view'.hook = view.hook
      BY <2>3 DEF NudgesInv
    <2>5. /\ DOMAIN calls' = DOMAIN calls /\ calls'.scans = calls.scans /\ calls'.loads = calls.loads
          /\ calls'.confirms = calls.confirms \cup {new}
      BY <2>3 DEF NudgesInv
    <2>6. ShownOK(view')
      BY <2>4 DEF NudgesInv, ShownOK
    <2> QED BY <2>2, <2>3, <2>4, <2>5, <2>6, NudgesCalm
  <1>4. CASE \E c \in calls.confirms : NudgesPage!ConfirmFailed(c)
    <2>1. PICK c \in calls.confirms : NudgesPage!ConfirmFailed(c)
      BY <1>4
    <2>2. /\ server' = server /\ view' = [view EXCEPT !.busy = Null] /\ DOMAIN calls' = DOMAIN calls
          /\ calls'.scans = calls.scans /\ calls'.loads = calls.loads /\ calls'.confirms \subseteq calls.confirms
      BY <2>1 DEF NudgesPage!ConfirmFailed, NudgesInv
    <2>3. DOMAIN view' = DOMAIN view /\ view'.confirmed = view.confirmed /\ view'.hook = view.hook
      BY <2>2 DEF NudgesInv
    <2>4. ShownOK(view')
      BY <2>3 DEF NudgesInv, ShownOK
    <2> QED BY <2>2, <2>3, <2>4, NudgesCalm
  <1>5. ASSUME NEW l \in calls.loads, NudgesPage!LoadDelivered(l) \/ NudgesPage!LoadFailed(l) PROVE NudgesInv'
    <2> DEFINE hook == IF NudgesPage!LoadDelivered(l) THEN NudgesPage!Async!Delivered(view.hook, l)
                       ELSE NudgesPage!Async!Failed(view.hook, l)
               v == [view EXCEPT !.hook = hook]
    <2>1. ReadOK(l, view) /\ ShownOK(view)
      BY DEF NudgesInv
    <2>2. server' = server /\ view' = v /\ DOMAIN calls' = DOMAIN calls /\ calls'.loads = calls.loads \ {l}
          /\ calls'.scans = calls.scans /\ calls'.confirms = calls.confirms
      BY <1>5 DEF NudgesPage!LoadDelivered, NudgesPage!LoadFailed, NudgesInv
    <2>3. \/ hook = view.hook
          \/ l.alive /\ DOMAIN hook = DOMAIN view.hook /\ hook.data = l.answer
          \/ DOMAIN hook = DOMAIN view.hook /\ hook.error = TRUE /\ hook.data = view.hook.data
      BY <2>1 DEF NudgesPage!Async!Delivered, NudgesPage!Async!Failed, NudgesPage!Async!Resolved, NudgesPage!Async!Rejected, ShownOK
    <2> HIDE DEF hook
    <2>4. DOMAIN v = DOMAIN view /\ v.hook = hook /\ v.confirmed = view.confirmed
      BY DEF NudgesInv
    <2> HIDE DEF v
    <2>5. ShownOK(v)
      BY <2>1, <2>3, <2>4 DEF ShownOK, ReadOK
    <2> QED BY <2>2, <2>4, <2>5, NudgesCalm
  <1> QED BY <1>1, <1>2, <1>3, <1>4, <1>5

(* The server moves: what is paid stays paid.                                *)
LEMMA NudgeServerMoves ==
    ASSUME NudgesInv, NudgeServerOK(server'), server'.log = server.log, server'.scans = server.scans, server'.now >= server.now,
           view' = view, DOMAIN calls' = DOMAIN calls, calls'.scans = calls.scans, calls'.loads = calls.loads,
           \A p \in NudgesPage!Payments : server.status[p] = "paid" => server'.status[p] = "paid",
           \A c \in calls'.confirms : c \in calls.confirms \/ ConfirmOK(c, server'.status)
    PROVE NudgesInv'
  <1>1. server.now \in Nat /\ server'.now \in Nat
    BY DEF NudgesInv, NudgeServerOK
  <1>2. /\ NudgesPage!AsIsraelDate(server.now) <= NudgesPage!AsIsraelDate(server'.now)
        /\ NudgesPage!AsIsraelDate(server.now) \in Nat /\ NudgesPage!AsIsraelDate(server'.now) \in Nat
    BY <1>1, DatesGrow
  <1>3. \A s \in calls.scans : ScanOK(s, server')
    BY <1>2 DEF NudgesInv, NudgeScansOK, ScanOK
  <1>4. \A c \in calls.confirms : ConfirmOK(c, server'.status)
    BY DEF NudgesInv, ConfirmOK
  <1>5. \A p \in view.confirmed : server'.status[p] = "paid"
    BY DEF NudgesInv
  <1> QED BY <1>3, <1>4, <1>5 DEF NudgesInv, NudgeScansOK

LEMMA NudgeServerSteps ==
    ASSUME NudgesInv,
           NudgesPage!Tick \/ NudgesPage!Elsewhere \/ \E c \in calls.confirms : NudgesPage!ConfirmApplied(c)
    PROVE NudgesInv'
  <1> DEFINE moved(s) == /\ DOMAIN s = DOMAIN server /\ s.log = server.log /\ s.scans = server.scans
                         /\ s.now \in {server.now, server.now + 1}
                         /\ DOMAIN s.status = NudgesPage!Payments
                         /\ \A p \in NudgesPage!Payments : server.status[p] = "paid" => s.status[p] = "paid"
  <1>1. \A s : moved(s) => NudgeServerOK(s) /\ s.now >= server.now
    BY DEF NudgesInv, NudgeServerOK, LogOK
  <1>2. CASE NudgesPage!Tick
    <2>1. moved(server') /\ view' = view /\ calls' = calls
      BY <1>2 DEF NudgesPage!Tick, NudgesInv, NudgeServerOK
    <2> HIDE DEF moved
    <2> QED BY <1>1, <2>1, NudgeServerMoves DEF moved
  <1>3. CASE NudgesPage!Elsewhere
    <2>1. PICK p, status :
            /\ p \in NudgesPage!Payments
            /\ server.status[p] # "paid"
            /\ \/ server' = [server EXCEPT !.status[p] = status]
               \/ server' = [server EXCEPT !.status[p] = status, !.asked[p] = server.now]
      BY <1>3 DEF NudgesPage!Elsewhere
    <2>2. DOMAIN calls' = DOMAIN calls /\ calls'.scans = calls.scans /\ calls'.loads = calls.loads
          /\ calls'.confirms = calls.confirms /\ view' = view
      BY <1>3 DEF NudgesPage!Elsewhere, NudgesInv
    <2> DEFINE book == [server.status EXCEPT ![p] = status]
    <2>3. DOMAIN book = DOMAIN server.status /\ \A q \in DOMAIN server.status \ {p} : book[q] = server.status[q]
      OBVIOUS
    <2>4. /\ DOMAIN server' = DOMAIN server /\ server'.log = server.log /\ server'.scans = server.scans
          /\ server'.now = server.now /\ server'.status = book
      BY <2>1 DEF NudgesInv, NudgeServerOK
    <2> HIDE DEF book
    <2>5. moved(server')
      BY <2>1, <2>3, <2>4 DEF NudgesInv, NudgeServerOK
    <2> HIDE DEF moved
    <2> QED BY <1>1, <2>2, <2>5, NudgeServerMoves DEF moved
  <1>4. ASSUME NEW c \in calls.confirms, NudgesPage!ConfirmApplied(c) PROVE NudgesInv'
    <2> DEFINE ok == server.status[c.payment] = "awaiting_confirmation"
               answered == [c EXCEPT !.outcome = IF ok THEN "done" ELSE "refused"]
    <2>1. /\ view' = view /\ server' = IF ok THEN [server EXCEPT !.status[c.payment] = "paid"] ELSE server
          /\ calls' = [calls EXCEPT !.confirms = (@ \ {c}) \cup {answered}]
      BY <1>4 DEF NudgesPage!ConfirmApplied
    <2>2. ConfirmOK(c, server.status) /\ NudgeServerOK(server)
      BY DEF NudgesInv
    <2>3. moved(server') /\ (ok => server'.status[c.payment] = "paid")
      BY <2>1, <2>2 DEF NudgeServerOK, ConfirmOK
    <2>4. ConfirmOK(answered, server'.status)
      BY <2>2, <2>3 DEF ConfirmOK
    <2> HIDE DEF ok, answered
    <2>5. DOMAIN calls' = DOMAIN calls /\ calls'.scans = calls.scans /\ calls'.loads = calls.loads
          /\ calls'.confirms = (calls.confirms \ {c}) \cup {answered}
      BY <2>1 DEF NudgesInv
    <2> HIDE DEF moved
    <2> QED BY <1>1, <2>1, <2>3, <2>4, <2>5, NudgeServerMoves DEF moved
  <1> QED BY <1>2, <1>3, <1>4

(* The list is read again: with what was confirmed it begins a new scan.     *)
LEMMA NudgeReadsKeep ==
    ASSUME NudgesInv,
           \/ NudgesPage!OtherReads
           \/ \E c \in calls.confirms : NudgesPage!ConfirmAnswered(c)
           \/ \E who \in {Owner.nudges[p] : p \in NudgesPage!Payments} \cup {TheManager} : NudgesPage!Remount(who)
    PROVE NudgesInv'
  <1>1. OncePerDay(server.log)
    BY DEF NudgesInv
  <1>2. CASE NudgesPage!OtherReads
    <2>1. /\ server' = NudgesPage!WithScan /\ view' = view
          /\ calls' = [calls EXCEPT !.scans = @ \cup {NudgesPage!Scan}]
      BY <1>2 DEF NudgesPage!OtherReads
    <2>2. DOMAIN calls' = DOMAIN calls /\ calls'.scans = calls.scans \cup {NudgesPage!Scan}
          /\ calls'.confirms = calls.confirms /\ calls'.loads = calls.loads
      BY <2>1 DEF NudgesInv
    <2> QED BY <1>1, <2>1, <2>2, ScanStarts DEF NudgesInv
  <1>3. ASSUME NEW c \in calls.confirms, NudgesPage!ConfirmAnswered(c) PROVE NudgesInv'
    <2> DEFINE hook == NudgesPage!Async!Begun(view.hook)
               confirmed == view.confirmed \cup {c.payment}
               loads == NudgesPage!Async!Retired(calls.loads, {"nudges"}) \cup {NudgesPage!Read(view)}
    <2>1. /\ server' = NudgesPage!WithScan /\ DOMAIN view' = DOMAIN view /\ view'.hook = hook
          /\ view'.confirmed = confirmed
      BY <1>3 DEF NudgesPage!ConfirmAnswered, NudgesPage!Reading, NudgesInv
    <2>2. /\ DOMAIN calls' = DOMAIN calls /\ calls'.scans = calls.scans \cup {NudgesPage!Scan}
          /\ calls'.confirms = calls.confirms \ {c} /\ calls'.loads = loads
      BY <1>3 DEF NudgesPage!ConfirmAnswered, NudgesInv
    <2>3. c.payment \in NudgesPage!Payments /\ server.status[c.payment] = "paid"
      BY <1>3 DEF NudgesPage!ConfirmAnswered, NudgesInv, ConfirmOK
    <2>4. \A p \in confirmed : p \in NudgesPage!Payments /\ server.status[p] = "paid"
      BY <2>3 DEF NudgesInv
    <2>5. /\ DOMAIN hook = {"data", "error", "loading", "refreshing"} /\ hook.data = view.hook.data
          /\ hook.loading = TRUE \/ hook.refreshing = TRUE
      BY DEF NudgesPage!Async!Begun, NudgesInv, ShownOK
    <2>6. \A l \in loads : ReadOK(l, view')
      <3> HIDE DEF confirmed
      <3>1. ReadOK(NudgesPage!Read(view), view')
        BY <2>1, <2>4, NudgesOf DEF ReadOK, NudgesPage!Read, NudgesPage!Async!Answer
      <3>2. \A l \in NudgesPage!Async!Retired(calls.loads, {"nudges"}) : ReadOK(l, view')
        <4> SUFFICES ASSUME NEW old \in calls.loads
                     PROVE ReadOK([old EXCEPT !.alive = @ /\ old.hook \notin {"nudges"}], view')
          BY DEF NudgesPage!Async!Retired
        <4> DEFINE l == [old EXCEPT !.alive = @ /\ old.hook \notin {"nudges"}]
        <4>1. ReadOK(old, view)
          BY DEF NudgesInv
        <4>2. DOMAIN l = DOMAIN old /\ l.hook = old.hook /\ l.answer = old.answer /\ ~l.alive
          BY <4>1 DEF ReadOK
        <4> HIDE DEF l
        <4>3. ReadOK(l, view')
          BY <4>1, <4>2 DEF ReadOK
        <4> QED BY <4>3 DEF l
      <3> QED BY <3>1, <3>2
    <2> HIDE DEF hook, confirmed, loads
    <2>7. ShownOK(view')
      BY <2>1, <2>5 DEF ShownOK, NudgesPage!Async!Settled, NudgesInv
    <2> QED BY <1>1, <2>1, <2>2, <2>4, <2>6, <2>7, ScanStarts DEF NudgesInv
  <1>4. ASSUME NEW who, NudgesPage!Remount(who) PROVE NudgesInv'
    <2> DEFINE blank == [view EXCEPT !.me = who, !.hook = NudgesPage!Async!Unmounted, !.busy = Null, !.confirmed = {}]
               read == NudgesPage!Read(blank)
    <2>1. /\ server' = NudgesPage!WithScan /\ view' = [blank EXCEPT !.hook = NudgesPage!Async!Begun(@)]
          /\ calls' = [calls EXCEPT !.left = @ - 1, !.confirms = {}, !.loads = {read}, !.scans = @ \cup {NudgesPage!Scan}]
      BY <1>4 DEF NudgesPage!Remount, NudgesPage!Reading
    <2>2. DOMAIN blank = DOMAIN view /\ blank.hook = NudgesPage!Async!Unmounted /\ blank.confirmed = {}
      BY DEF NudgesInv
    <2> HIDE DEF blank
    <2>3. DOMAIN view' = DOMAIN view /\ view'.hook = NudgesPage!Async!Begun(NudgesPage!Async!Unmounted) /\ view'.confirmed = {}
      BY <2>1, <2>2 DEF NudgesInv
    <2>4. ShownOK(view')
      BY <2>3 DEF ShownOK, NudgesPage!Async!Begun, NudgesPage!Async!Unmounted
    <2>5. ReadOK(read, view')
      BY <2>3, NudgesOf DEF ReadOK, NudgesPage!Read, NudgesPage!Async!Answer
    <2> HIDE DEF read
    <2>6. /\ DOMAIN calls' = DOMAIN calls /\ calls'.scans = calls.scans \cup {NudgesPage!Scan}
          /\ calls'.confirms = {} /\ calls'.loads = {read}
      BY <2>1 DEF NudgesInv
    <2> QED BY <1>1, <2>1, <2>3, <2>4, <2>5, <2>6, ScanStarts DEF NudgesInv
  <1> QED BY <1>2, <1>3, <1>4

LEMMA NudgesStep == ASSUME NudgesInv, NudgesPage!Next PROVE NudgesInv'
  BY NudgeScanReads, NudgeScanCommits, NudgeCalmSteps, NudgeServerSteps, NudgeReadsKeep DEF NudgesPage!Next

LEMMA NudgesSays == NudgesInv => NudgesPage!NudgedOnceADay
  BY DEF NudgesInv, OncePerDay, ShownOK, NudgesPage!Items, NudgesPage!NudgedOn, NudgesPage!NudgedOnceADay

-----------------------------------------------------------------------------
(* The administrator's queue on the dashboard.                               *)
PendingIn(s, ids) == {a \in DOMAIN Owner.dashboard : Owner.dashboard[a] \in ids /\ s.documents[a] = "pending"}

(* The reads so far: of the investors asked for, but those left and those    *)
(* named as unread; what changed since is known by the count of changes.     *)
ReadSoFar(rows, ids, s) ==
    /\ DOMAIN rows = {"todo", "found", "failed", "asOf"}
    /\ rows.todo \subseteq ids /\ rows.todo \cap rows.failed = {}
    /\ rows.asOf \in Nat /\ rows.asOf <= s.changed
    /\ \A a \in rows.found : Owner.dashboard[a] \in ids
    /\ rows.asOf = s.changed => rows.found = PendingIn(s, (ids \ rows.todo) \ rows.failed)

QueueAnswerOK(answer, s) == DOMAIN answer = {"key", "rows"} /\ ReadSoFar(answer.rows, answer.key.ids, s)

QueueLoadOK(l, s) ==
    /\ DOMAIN l = {"hook", "answer", "alive"}
    /\ l.hook = "queue" => QueueAnswerOK(l.answer, s)

QueueHookOK(hooks, s) ==
    /\ DOMAIN hooks = DashboardPage!Hooks
    /\ DOMAIN hooks["queue"] = {"data", "error", "loading", "refreshing"}
    /\ hooks["queue"].data # Null => QueueAnswerOK(hooks["queue"].data, s) /\ hooks["queue"].data.rows.todo = {}

HookShape(hook) == DOMAIN hook = {"data", "error", "loading", "refreshing"}
DashboardViewOK(v) == DOMAIN v = {"me", "filter", "review", "hooks", "asked", "instance"}

DashboardInv ==
    /\ DOMAIN server = {"investors", "payments", "documents", "changed"} /\ server.changed \in Nat
    /\ DashboardViewOK(view) /\ QueueHookOK(view.hooks, server)
    /\ view.review # Null => view.review \in DashboardPage!ShownAgreements(view)
    /\ DOMAIN calls = {"left", "request", "loads"}
    /\ \A l \in calls.loads : QueueLoadOK(l, server)

LEMMA ShownDepends == ASSUME NEW v, NEW w, w.me = v.me, w.filter = v.filter, w.hooks = v.hooks
    PROVE DashboardPage!ShownAgreements(w) = DashboardPage!ShownAgreements(v)
  <1>1. DashboardPage!Book(w) = DashboardPage!Book(v)
    BY DEF DashboardPage!Book, DashboardPage!BookReady
  <1>2. DashboardPage!DepsOf(w, "queue") = DashboardPage!DepsOf(v, "queue")
    BY <1>1 DEF DashboardPage!DepsOf, DashboardPage!BookReady
  <1>3. DashboardPage!QueueReady(w) <=> DashboardPage!QueueReady(v)
    BY <1>2 DEF DashboardPage!QueueReady, DashboardPage!PageShown
  <1> QED BY <1>3 DEF DashboardPage!ShownAgreements

LEMMA QueueBegins == ASSUME DashboardInv, NEW v, NEW h PROVE QueueLoadOK(DashboardPage!Begin(v, h), server)
  <1> DEFINE deps == DashboardPage!DepsOf(v, h)
             rows == DashboardPage!Rows(h, deps)
             l == DashboardPage!Begin(v, h)
  <1>1. DOMAIN l = {"hook", "answer", "alive"} /\ l.hook = h /\ l.answer = [key |-> deps, rows |-> rows]
    BY DEF DashboardPage!Begin, DashboardPage!Async!Load, DashboardPage!Async!Answer
  <1>2. h = "queue" => rows = [todo |-> deps.ids, found |-> {}, failed |-> {}, asOf |-> server.changed]
    BY DEF DashboardPage!Rows
  <1> HIDE DEF deps, rows, l
  <1>3. ASSUME h = "queue" PROVE ReadSoFar(rows, deps.ids, server)
    BY <1>2, <1>3 DEF ReadSoFar, PendingIn, DashboardInv
  <1> QED BY <1>1, <1>3 DEF QueueLoadOK, QueueAnswerOK, l

LEMMA DashboardStart == DashboardPage!Init => DashboardInv
  <1> SUFFICES ASSUME DashboardPage!Init PROVE DashboardInv
    OBVIOUS
  <1>1. DOMAIN server = {"investors", "payments", "documents", "changed"} /\ server.changed \in Nat
    BY ChangesAreCounted DEF DashboardPage!Init
  <1>2. PICK me : LET blank == DashboardPage!Blank(me) IN
          /\ view = [blank EXCEPT !.asked = [h \in DashboardPage!Hooks |->
                        IF h \in DashboardPage!PageHooks(me) THEN DashboardPage!DepsOf(blank, h) ELSE Null]]
          /\ calls = [left |-> Events.dashboard, request |-> Null,
                      loads |-> {DashboardPage!Begin(blank, h) : h \in DashboardPage!PageHooks(me)}]
    BY DEF DashboardPage!Init
  <1> DEFINE blank == DashboardPage!Blank(me)
  <1>3. DashboardViewOK(blank) /\ QueueHookOK(blank.hooks, server) /\ blank.review = Null
    BY DEF DashboardPage!Blank, DashboardViewOK, QueueHookOK, DashboardPage!Hooks, DashboardPage!ListHooks,
           DashboardPage!QueueHooks, DashboardPage!Async!Unmounted
  <1>4. \A h \in DashboardPage!PageHooks(me) : h # "queue"
    BY DEF DashboardPage!PageHooks
  <1>5. \A h : DashboardPage!Begin(blank, h).hook = h /\ DOMAIN DashboardPage!Begin(blank, h) = {"hook", "answer", "alive"}
    BY DEF DashboardPage!Begin, DashboardPage!Async!Load
  <1>6. \A l \in calls.loads : QueueLoadOK(l, server)
    BY <1>2, <1>4, <1>5 DEF QueueLoadOK
  <1> HIDE DEF blank
  <1>7. DashboardViewOK(view) /\ view.hooks = blank.hooks /\ view.review = Null
    BY <1>2, <1>3 DEF DashboardViewOK, blank
  <1> QED BY <1>1, <1>2, <1>3, <1>6, <1>7 DEF DashboardInv

(* A render: the queue keeps its answer, loses it or asks again.             *)
LEMMA DashboardRenders ==
    ASSUME DashboardInv, server' = server, NEW v, DashboardViewOK(v), QueueHookOK(v.hooks, server),
           NEW reloaded, NEW loads, \A l \in loads : QueueLoadOK(l, server),
           NEW next, next = DashboardPage!RenderedWith(v, reloaded, loads),
           view' = DashboardPage!Kept(next.view), DOMAIN calls' = DOMAIN calls, calls'.loads = next.loads
    PROVE DashboardInv'
  <1> DEFINE up   == DashboardPage!Mounted(v)
             gone == {h \in DashboardPage!Hooks : view.asked[h] # Null /\ (h \notin up \/ DashboardPage!Fresh(v, h))}
             run  == {h \in up : h \in reloaded \/ DashboardPage!Fresh(v, h) \/ view.asked[h] # DashboardPage!DepsOf(v, h)}
             base == [h \in DashboardPage!Hooks |-> IF h \in gone THEN DashboardPage!Async!Unmounted ELSE v.hooks[h]]
             hooks == [h \in DashboardPage!Hooks |-> IF h \in run THEN DashboardPage!Async!Begun(base[h]) ELSE base[h]]
             asked == [h \in DashboardPage!Hooks |-> IF h \in up THEN DashboardPage!DepsOf(v, h) ELSE Null]
             instance == [h \in DashboardPage!Hooks |-> DashboardPage!Instance(v, h)]
             new == {DashboardPage!Begin(v, h) : h \in run}
             w == [v EXCEPT !.hooks = hooks, !.asked = asked, !.instance = instance]
  <1>1. next = [view |-> w, loads |-> {l \in loads : l.hook \notin run \cup gone} \cup new]
    BY DEF DashboardPage!RenderedWith
  <1>2. \A l \in new : QueueLoadOK(l, server)
    BY QueueBegins
  <1>3. DOMAIN hooks = DashboardPage!Hooks /\ "queue" \in DashboardPage!Hooks
        /\ \/ hooks["queue"] = base["queue"]
           \/ hooks["queue"] = DashboardPage!Async!Begun(base["queue"])
    BY DEF DashboardPage!Hooks, DashboardPage!ListHooks, DashboardPage!QueueHooks
  <1>4. base["queue"] = DashboardPage!Async!Unmounted \/ base["queue"] = v.hooks["queue"]
    BY <1>3
  <1> HIDE DEF up, gone, run, base, asked, instance, new
  <1>5. DOMAIN base["queue"] = {"data", "error", "loading", "refreshing"}
        /\ base["queue"].data \in {Null, v.hooks["queue"].data}
    BY <1>4 DEF QueueHookOK, DashboardPage!Async!Unmounted
  <1> HIDE DEF hooks
  <1>6. DOMAIN hooks["queue"] = {"data", "error", "loading", "refreshing"}
        /\ hooks["queue"].data \in {Null, v.hooks["queue"].data}
    BY <1>3, <1>5 DEF DashboardPage!Async!Begun
  <1>7. QueueHookOK(hooks, server)
    BY <1>3, <1>6 DEF QueueHookOK
  <1>8. DashboardViewOK(w) /\ w.hooks = hooks
    BY DEF DashboardViewOK
  <1>9. next.view = w /\ \A l \in next.loads : QueueLoadOK(l, server)
    BY <1>1, <1>2
  <1> HIDE DEF w
  <1>10. /\ DashboardViewOK(view') /\ view'.hooks = w.hooks /\ view'.me = w.me /\ view'.filter = w.filter
         /\ view'.review # Null => view'.review \in DashboardPage!ShownAgreements(w)
    BY <1>8, <1>9 DEF DashboardPage!Kept, DashboardViewOK
  <1>11. DashboardPage!ShownAgreements(view') = DashboardPage!ShownAgreements(w)
    BY <1>10, ShownDepends
  <1>12. (view.review # Null => view.review \in DashboardPage!ShownAgreements(view))'
    BY <1>10, <1>11
  <1> QED BY <1>7, <1>8, <1>9, <1>10, <1>12 DEF DashboardInv

LEMMA DashboardUsesKeep ==
    ASSUME DashboardInv, DashboardPage!SelectScope \/ DashboardPage!RetryPage \/ DashboardPage!RefreshQueue
    PROVE DashboardInv'
  <1>1. DashboardViewOK(view) /\ QueueHookOK(view.hooks, server)
    BY DEF DashboardInv
  <1>2. PICK f, reloaded : \/ DashboardPage!Use(view, reloaded)
                           \/ DashboardPage!Use([view EXCEPT !.filter = f], reloaded)
    BY DEF DashboardPage!SelectScope, DashboardPage!RetryPage, DashboardPage!RefreshQueue
  <1>3. ASSUME NEW v, DashboardViewOK(v), v.hooks = view.hooks, DashboardPage!Use(v, reloaded) PROVE DashboardInv'
    <2> DEFINE next == DashboardPage!RenderedWith(v, reloaded, calls.loads)
    <2>1. /\ server' = server /\ view' = DashboardPage!Kept(next.view)
          /\ calls' = [calls EXCEPT !.loads = next.loads, !.left = @ - 1]
      BY <1>3 DEF DashboardPage!Use
    <2> HIDE DEF next
    <2>2. DOMAIN calls' = DOMAIN calls /\ calls'.loads = next.loads
      BY <2>1 DEF DashboardInv
    <2>3. \A l \in calls.loads : QueueLoadOK(l, server)
      BY DEF DashboardInv
    <2>4. next = DashboardPage!RenderedWith(v, reloaded, calls.loads)
      BY DEF next
    <2> QED BY <1>1, <1>3, <2>1, <2>2, <2>3, <2>4, DashboardRenders
  <1>4. DashboardViewOK([view EXCEPT !.filter = f]) /\ [view EXCEPT !.filter = f].hooks = view.hooks
    BY <1>1 DEF DashboardViewOK
  <1> QED BY <1>1, <1>2, <1>3, <1>4

LEMMA DashboardAnswersKeep ==
    ASSUME DashboardInv,
           \/ DashboardPage!RequestAnswered
           \/ \E l \in calls.loads : DashboardPage!LoadDelivered(l) \/ DashboardPage!LoadFailed(l)
    PROVE DashboardInv'
  <1>1. DashboardViewOK(view) /\ QueueHookOK(view.hooks, server) /\ \A l \in calls.loads : QueueLoadOK(l, server)
    BY DEF DashboardInv
  <1>2. CASE DashboardPage!RequestAnswered
    <2> DEFINE told == calls.request.op # "remind"
               v == IF told THEN view ELSE [view EXCEPT !.review = Null]
               reloaded == IF told THEN {"figures", "own"} ELSE {}
               next == DashboardPage!RenderedWith(v, reloaded, calls.loads)
    <2>1. /\ server' = server /\ view' = DashboardPage!Kept(next.view)
          /\ calls' = [calls EXCEPT !.request = Null, !.loads = next.loads]
      BY <1>2 DEF DashboardPage!RequestAnswered
    <2>2. DashboardViewOK(v) /\ v.hooks = view.hooks
      BY <1>1 DEF DashboardViewOK
    <2> HIDE DEF v, reloaded
    <2>3. next = DashboardPage!RenderedWith(v, reloaded, calls.loads)
      OBVIOUS
    <2> HIDE DEF next
    <2>4. DOMAIN calls' = DOMAIN calls /\ calls'.loads = next.loads
      BY <2>1 DEF DashboardInv
    <2> QED BY <1>1, <2>1, <2>2, <2>3, <2>4, DashboardRenders
  <1>3. ASSUME NEW l \in calls.loads, DashboardPage!LoadDelivered(l) \/ DashboardPage!LoadFailed(l) PROVE DashboardInv'
    <2> DEFINE old == view.hooks[l.hook]
               hook == IF DashboardPage!LoadDelivered(l) THEN DashboardPage!Async!Delivered(old, l)
                       ELSE DashboardPage!Async!Failed(old, l)
               hooks == [view.hooks EXCEPT ![l.hook] = hook]
               v == [view EXCEPT !.hooks = hooks]
               next == DashboardPage!RenderedWith(v, {}, calls.loads \ {l})
    <2>1. /\ server' = server /\ view' = DashboardPage!Kept(next.view)
          /\ \/ calls' = [calls EXCEPT !.loads = next.loads]
             \/ calls' = [calls EXCEPT !.loads = next.loads, !.left = @ - 1]
      BY <1>3 DEF DashboardPage!LoadDelivered, DashboardPage!LoadFailed, DashboardPage!Render
    <2>2. l.hook = "queue" => hook = DashboardPage!Async!Delivered(old, l) /\ l.answer.rows.todo = {}
      BY <1>3 DEF DashboardPage!LoadDelivered, DashboardPage!LoadFailed
    <2> HIDE DEF hook
    <2>3. ASSUME l.hook = "queue" PROVE /\ DOMAIN hook = {"data", "error", "loading", "refreshing"}
                                        /\ hook.data = old.data \/ (hook.data = l.answer /\ l.answer.rows.todo = {})
      BY <1>1, <2>2, <2>3 DEF QueueHookOK, DashboardPage!Async!Delivered, DashboardPage!Async!Resolved
    <2>4. /\ DOMAIN hooks = DOMAIN view.hooks
          /\ hooks["queue"] = IF l.hook = "queue" THEN hook ELSE view.hooks["queue"]
      BY <1>1 DEF QueueHookOK, DashboardPage!Hooks, DashboardPage!ListHooks, DashboardPage!QueueHooks
    <2> HIDE DEF hooks
    <2>5. QueueHookOK(hooks, server)
      BY <1>1, <2>3, <2>4 DEF QueueHookOK, QueueLoadOK
    <2>6. DashboardViewOK(v) /\ v.hooks = hooks
      BY <1>1 DEF DashboardViewOK
    <2> HIDE DEF v
    <2>7. next = DashboardPage!RenderedWith(v, {}, calls.loads \ {l})
      OBVIOUS
    <2> HIDE DEF next
    <2>8. DOMAIN calls' = DOMAIN calls /\ calls'.loads = next.loads
      BY <2>1 DEF DashboardInv
    <2> QED BY <1>1, <2>1, <2>5, <2>6, <2>7, <2>8, DashboardRenders
  <1> QED BY <1>2, <1>3

(* What asks the server for nothing.                                         *)
LEMMA DashboardHandsKeep ==
    ASSUME DashboardInv,
           \/ \E status \in {"paid", "scheduled"} : DashboardPage!Answer(status)
           \/ \E a \in DOMAIN Owner.dashboard : DashboardPage!OpenReview(a)
           \/ DashboardPage!CancelReview \/ DashboardPage!SendReminder \/ DashboardPage!ReminderAborted
           \/ DashboardPage!ConfirmationFailed
    PROVE DashboardInv'
  <1>1. DashboardViewOK(view) /\ DOMAIN calls = {"left", "request", "loads"}
    BY DEF DashboardInv
  <1>2. server' = server /\ DOMAIN calls' = DOMAIN calls /\ calls'.loads = calls.loads
    BY <1>1 DEF DashboardPage!Answer, DashboardPage!OpenReview, DashboardPage!CancelReview, DashboardPage!SendReminder,
           DashboardPage!ReminderAborted, DashboardPage!ConfirmationFailed
  <1>3. \/ view' = view \/ view' = [view EXCEPT !.review = Null]
        \/ \E a \in DashboardPage!ShownAgreements(view) : view' = [view EXCEPT !.review = a]
    BY DEF DashboardPage!Answer, DashboardPage!OpenReview, DashboardPage!CancelReview, DashboardPage!SendReminder,
           DashboardPage!ReminderAborted, DashboardPage!ConfirmationFailed
  <1>4. /\ DashboardViewOK(view') /\ view'.hooks = view.hooks /\ view'.me = view.me /\ view'.filter = view.filter
        /\ view'.review # Null => view'.review \in DashboardPage!ShownAgreements(view)
    BY <1>1, <1>3 DEF DashboardViewOK, DashboardInv
  <1>5. DashboardPage!ShownAgreements(view') = DashboardPage!ShownAgreements(view)
    BY <1>4, ShownDepends
  <1>6. (view.review # Null => view.review \in DashboardPage!ShownAgreements(view))'
    BY <1>4, <1>5
  <1> QED BY <1>2, <1>4, <1>6 DEF DashboardInv


(* The server moves: what was read is of the past, unless nothing changed.   *)
LEMMA DashboardServerMoves ==
    ASSUME DashboardInv, view' = view, DOMAIN calls' = DOMAIN calls, calls'.loads = calls.loads, DOMAIN server' = DOMAIN server,
           \/ server'.documents = server.documents /\ server'.changed = server.changed
           \/ server'.changed = server.changed + 1
    PROVE DashboardInv'
  <1>1. server.changed \in Nat /\ server'.changed \in Nat
    BY DEF DashboardInv
  <1>2. ASSUME NEW rows, NEW ids, ReadSoFar(rows, ids, server) PROVE ReadSoFar(rows, ids, server')
    BY <1>1, <1>2 DEF ReadSoFar, PendingIn
  <1>3. \A answer : QueueAnswerOK(answer, server) => QueueAnswerOK(answer, server')
    BY <1>2 DEF QueueAnswerOK
  <1>4. (view.review # Null => view.review \in DashboardPage!ShownAgreements(view))'
    <2>1. DashboardPage!ShownAgreements(view') = DashboardPage!ShownAgreements(view)
      OBVIOUS
    <2> QED BY <2>1 DEF DashboardInv
  <1> QED BY <1>1, <1>3, <1>4 DEF DashboardInv, QueueHookOK, QueueLoadOK

LEMMA DashboardServerKeeps == ASSUME DashboardInv, DashboardPage!RequestApplied \/ DashboardPage!Others PROVE DashboardInv'
  <1>1. DOMAIN server = {"investors", "payments", "documents", "changed"} /\ DOMAIN calls = {"left", "request", "loads"}
    BY DEF DashboardInv
  <1>2. CASE DashboardPage!RequestApplied
    <2>1. /\ view' = view /\ DOMAIN calls' = DOMAIN calls /\ calls'.loads = calls.loads
          /\ DOMAIN server' = DOMAIN server /\ server'.documents = server.documents /\ server'.changed = server.changed
      BY <1>1, <1>2 DEF DashboardPage!RequestApplied
    <2> QED BY <2>1, DashboardServerMoves
  <1>3. CASE DashboardPage!Others
    <2>1. view' = view /\ DOMAIN calls' = DOMAIN calls /\ calls'.loads = calls.loads
      BY <1>1, <1>3 DEF DashboardPage!Others
    <2>2. /\ DOMAIN server' = DOMAIN server
          /\ \/ server'.documents = server.documents /\ server'.changed = server.changed
             \/ server'.changed = server.changed + 1
      BY <1>1, <1>3 DEF DashboardPage!Others
    <2> QED BY <2>1, <2>2, DashboardServerMoves
  <1> QED BY <1>2, <1>3

LEMMA DashboardReadKeeps == ASSUME DashboardInv, NEW l \in calls.loads, DashboardPage!QueueRead(l) PROVE DashboardInv'
  <1> DEFINE rows == l.answer.rows
             ids == l.answer.key.ids
  <1>1. /\ DOMAIN l = {"hook", "answer", "alive"} /\ DOMAIN l.answer = {"key", "rows"}
        /\ ReadSoFar(rows, ids, server) /\ DOMAIN rows = {"todo", "found", "failed", "asOf"}
    BY DEF DashboardPage!QueueRead, DashboardInv, QueueLoadOK, QueueAnswerOK, ReadSoFar
  <1> DEFINE rest(i) == [l EXCEPT !.answer.rows.todo = @ \ {i}]
             read(i) == [rest(i) EXCEPT !.answer.rows.found = @ \cup DashboardPage!PendingOf(i)]
             unread(i) == [rest(i) EXCEPT !.answer.rows.failed = @ \cup {i}]
  <1>2. PICK i, k :
          /\ i \in rows.todo
          /\ k \in {read(i), unread(i)}
          /\ \/ calls' = [calls EXCEPT !.loads = (@ \ {l}) \cup {k}]
             \/ calls' = [calls EXCEPT !.left = @ - 1, !.loads = (@ \ {l}) \cup {k}]
    <2>1. PICK i \in rows.todo :
            \/ calls' = [calls EXCEPT !.loads = (@ \ {l}) \cup {read(i)}]
            \/ calls' = [calls EXCEPT !.left = @ - 1, !.loads = (@ \ {l}) \cup {unread(i)}]
      BY DEF DashboardPage!QueueRead, DashboardPage!UnderWay
    <2> HIDE DEF read, unread
    <2> QED BY <2>1
  <1>3. /\ DOMAIN k = DOMAIN l /\ k.hook = l.hook /\ DOMAIN k.answer = DOMAIN l.answer /\ k.answer.key = l.answer.key
        /\ DOMAIN k.answer.rows = DOMAIN rows /\ k.answer.rows.todo = rows.todo \ {i} /\ k.answer.rows.asOf = rows.asOf
        /\ \/ k.answer.rows.found = rows.found \cup DashboardPage!PendingOf(i) /\ k.answer.rows.failed = rows.failed
           \/ k.answer.rows.found = rows.found /\ k.answer.rows.failed = rows.failed \cup {i}
    <2> DEFINE r == rest(i)
    <2>1. /\ DOMAIN r = DOMAIN l /\ r.hook = l.hook /\ DOMAIN r.answer = DOMAIN l.answer /\ r.answer.key = l.answer.key
          /\ DOMAIN r.answer.rows = DOMAIN rows /\ r.answer.rows.todo = rows.todo \ {i} /\ r.answer.rows.asOf = rows.asOf
          /\ r.answer.rows.found = rows.found /\ r.answer.rows.failed = rows.failed
      BY <1>1
    <2> HIDE DEF r
    <2>2. CASE k = [r EXCEPT !.answer.rows.found = @ \cup DashboardPage!PendingOf(i)]
      BY <1>1, <2>1, <2>2
    <2>3. CASE k = [r EXCEPT !.answer.rows.failed = @ \cup {i}]
      BY <1>1, <2>1, <2>3
    <2> QED BY <1>2, <2>2, <2>3 DEF r
  <1> HIDE DEF rest, read, unread
  <1>4. DashboardPage!PendingOf(i) = PendingIn(server, {i})
    BY DEF DashboardPage!PendingOf, PendingIn
  <1>5. ReadSoFar(k.answer.rows, ids, server)
    <2> DEFINE next == k.answer.rows
    <2>1. /\ DOMAIN next = {"todo", "found", "failed", "asOf"} /\ next.todo \subseteq ids
          /\ next.todo \cap next.failed = {} /\ next.asOf \in Nat /\ next.asOf <= server.changed
      BY <1>1, <1>3 DEF ReadSoFar
    <2>2. \A a \in next.found : Owner.dashboard[a] \in ids
      BY <1>1, <1>2, <1>3, <1>4 DEF ReadSoFar, PendingIn
    <2>3. ASSUME next.asOf = server.changed PROVE next.found = PendingIn(server, (ids \ next.todo) \ next.failed)
      <3>1. rows.found = PendingIn(server, (ids \ rows.todo) \ rows.failed) /\ i \in ids /\ i \notin rows.failed
        BY <1>1, <1>2, <1>3, <2>3 DEF ReadSoFar
      <3>2. CASE next.failed = rows.failed \cup {i} /\ next.found = rows.found
        <4>1. (ids \ next.todo) \ next.failed = (ids \ rows.todo) \ rows.failed
          BY <1>1, <1>2, <1>3, <3>2 DEF ReadSoFar
        <4> QED BY <3>1, <3>2, <4>1
      <3>3. CASE next.failed = rows.failed /\ next.found = rows.found \cup DashboardPage!PendingOf(i)
        <4>1. (ids \ next.todo) \ next.failed = ((ids \ rows.todo) \ rows.failed) \cup {i}
          BY <1>1, <1>2, <1>3, <3>1, <3>3 DEF ReadSoFar
        <4>2. \A u : PendingIn(server, u \cup {i}) = PendingIn(server, u) \cup PendingIn(server, {i})
          BY DEF PendingIn
        <4> QED BY <1>4, <3>1, <3>3, <4>1, <4>2
      <3> QED BY <1>3, <3>2, <3>3
    <2> QED BY <2>1, <2>2, <2>3 DEF ReadSoFar
  <1>6. QueueLoadOK(k, server)
    BY <1>1, <1>3, <1>5 DEF QueueLoadOK, QueueAnswerOK
  <1>7. DOMAIN calls' = DOMAIN calls /\ calls'.loads = (calls.loads \ {l}) \cup {k}
    BY <1>2 DEF DashboardInv
  <1>8. server' = server /\ view' = view
    BY DEF DashboardPage!QueueRead
  <1>9. (view.review # Null => view.review \in DashboardPage!ShownAgreements(view))'
    BY <1>8 DEF DashboardInv
  <1> QED BY <1>6, <1>7, <1>8, <1>9 DEF DashboardInv

LEMMA DashboardStep == ASSUME DashboardInv, DashboardPage!Next PROVE DashboardInv'
  BY DashboardUsesKeep, DashboardAnswersKeep, DashboardHandsKeep, DashboardServerKeeps, DashboardReadKeeps
     DEF DashboardPage!Next

LEMMA DashboardSays == DashboardInv => DashboardPage!QueueMatchesScope
  <1> SUFFICES ASSUME DashboardInv PROVE DashboardPage!QueueMatchesScope
    OBVIOUS
  <1> DEFINE data == view.hooks["queue"].data
             rows == data.rows
             book == DashboardPage!Book(view)
  <1>1. ASSUME DashboardPage!QueueReady(view)
        PROVE /\ \A a \in rows.found : Owner.dashboard[a] \in book
              /\ rows.asOf = server.changed =>
                    rows.found = UNION {DashboardPage!PendingOf(i) : i \in book \ rows.failed}
    <2>1. QueueAnswerOK(data, server) /\ rows.todo = {}
      BY <1>1 DEF DashboardInv, QueueHookOK, DashboardPage!QueueReady
    <2>2. data.key.ids = book
      BY <1>1 DEF DashboardPage!QueueReady, DashboardPage!DepsOf
    <2> HIDE DEF book, data
    <2>3. ReadSoFar(rows, book, server)
      BY <2>1, <2>2 DEF QueueAnswerOK
    <2>4. \A ids : PendingIn(server, ids) = UNION {DashboardPage!PendingOf(i) : i \in ids}
      BY DEF PendingIn, DashboardPage!PendingOf
    <2>5. (book \ rows.todo) \ rows.failed = book \ rows.failed
      BY <2>1
    <2> QED BY <2>3, <2>4, <2>5 DEF ReadSoFar
  <1> QED BY <1>1 DEF DashboardPage!QueueMatchesScope, DashboardInv

-----------------------------------------------------------------------------
(* The urgent payments of the dashboard.  Both lists are in the order of     *)
(* their months, and together too for the payments of a group; the loop over *)
(* them keeps the row of the payments so far, by induction over positions.   *)
MonthOf(p) == Dues.dashboard[p].month
UrgentAt(all, i, group) == {k \in 1 .. Len(all) : DashboardPage!IsUrgent(all[k], i, group)}
OpenAt(all, ks) == {k \in ks : all[k].status = "scheduled"}
FirstAt(all, ks) == IF OpenAt(all, ks) = {} THEN ks ELSE OpenAt(all, ks)
UrgentShape == [id : Nat, status : {"scheduled", "awaiting_confirmation"}, due : Nat, amount : Nat]

(* The row of the payments at ks: of the first of them to handle, with the   *)
(* sum of them all.                                                          *)
RowOf(all, ks, row, sum) ==
    IF ks = {} THEN row = Null /\ sum = 0
    ELSE /\ row \in UrgentShape /\ row.amount = sum
         /\ row.status = IF OpenAt(all, ks) = {} THEN "awaiting_confirmation" ELSE "scheduled"
         /\ \E k \in FirstAt(all, ks) : row.id = all[k].id /\ row.due = MonthOf(all[k].id)
         /\ \A k \in FirstAt(all, ks) : row.due <= MonthOf(all[k].id)

(* One more payment, due no earlier than those before.                       *)
LEMMA OneMoreAbsorbed ==
    ASSUME NEW all, NEW ks, NEW new, new \notin ks, NEW prev, NEW sum \in Nat, RowOf(all, ks, prev, sum),
           all[new].status \in {"scheduled", "awaiting_confirmation"},
           \A k \in ks \cup {new} : all[k].id \in DashboardPage!Payments,
           \A k \in ks : all[k].status \in {"scheduled", "awaiting_confirmation"},
           \A k \in ks : MonthOf(all[k].id) <= MonthOf(all[new].id)
    PROVE LET row == DashboardPage!Row(all[new]) IN
          RowOf(all, ks \cup {new}, DashboardPage!Absorbed(prev, row), sum + Dues.dashboard[all[new].id].cash)
  <1> DEFINE row == DashboardPage!Row(all[new])
             cash == Dues.dashboard[all[new].id].cash
             next == DashboardPage!Absorbed(prev, row)
             more == ks \cup {new}
  <1>1. \A k \in more : all[k].id \in Nat /\ MonthOf(all[k].id) \in Nat
    BY DuesAreCounted DEF DashboardPage!Payments, MonthOf
  <1>2. /\ row \in UrgentShape /\ row.id = all[new].id /\ row.status = all[new].status
        /\ row.due = MonthOf(all[new].id) /\ row.amount = cash /\ cash \in Nat
    <2>1. row = [id |-> all[new].id, status |-> all[new].status, due |-> MonthOf(all[new].id), amount |-> cash]
      BY DEF DashboardPage!Row, MonthOf
    <2>2. all[new].id \in Nat /\ MonthOf(all[new].id) \in Nat /\ cash \in Nat
      BY DuesAreCounted DEF DashboardPage!Payments, MonthOf
    <2> HIDE DEF row, cash
    <2> QED BY <2>1, <2>2 DEF UrgentShape
  <1> HIDE DEF row, cash
  <1>3. OpenAt(all, more) = OpenAt(all, ks) \cup (IF row.status = "scheduled" THEN {new} ELSE {})
    BY <1>2 DEF OpenAt
  <1>4. CASE ks = {}
    <2>1. next = row /\ more = {new} /\ sum = 0
      BY <1>4 DEF RowOf, DashboardPage!Absorbed
    <2>2. FirstAt(all, {new}) = {new} /\ (OpenAt(all, {new}) = {} <=> row.status # "scheduled")
      BY <1>2 DEF FirstAt, OpenAt
    <2>3. 0 + cash = cash /\ row.due <= row.due
      BY <1>2 DEF UrgentShape
    <2> HIDE DEF next
    <2>4. RowOf(all, more, row, 0 + cash)
      BY <1>2, <2>1, <2>2, <2>3 DEF RowOf, UrgentShape
    <2> QED BY <2>1, <2>4 DEF cash, row, next
  <1>5. CASE ks # {}
    <2>1. /\ prev \in UrgentShape /\ prev.amount = sum /\ prev # Null
          /\ prev.status = IF OpenAt(all, ks) = {} THEN "awaiting_confirmation" ELSE "scheduled"
          /\ \A k \in FirstAt(all, ks) : prev.due <= MonthOf(all[k].id)
      BY <1>5, DuesAreCounted DEF RowOf, UrgentShape
    <2>2. PICK k \in FirstAt(all, ks) : prev.id = all[k].id /\ prev.due = MonthOf(all[k].id)
      BY <1>5 DEF RowOf
    <2>3. k \in ks /\ prev.due <= row.due /\ ~(row.due < prev.due)
      <3>1. k \in ks
        BY <2>2 DEF FirstAt, OpenAt
      <3> QED BY <1>1, <1>2, <2>2, <3>1
    <2>4. CASE prev.status = "awaiting_confirmation" /\ row.status = "scheduled"
      <3>1. next = [row EXCEPT !.amount = sum + cash]
        BY <1>2, <2>1, <2>4 DEF DashboardPage!Absorbed
      <3> HIDE DEF next
      <3>2. /\ next \in UrgentShape /\ next.amount = sum + cash /\ next.id = row.id /\ next.due = row.due
            /\ next.status = "scheduled"
        BY <1>2, <2>4, <3>1 DEF UrgentShape
      <3>3. OpenAt(all, more) = {new} /\ FirstAt(all, more) = {new} /\ more # {}
        BY <1>3, <2>1, <2>4 DEF FirstAt
      <3>4. next.due <= MonthOf(all[new].id)
        BY <1>1, <1>2, <3>2
      <3>5. RowOf(all, more, next, sum + cash)
        <4> HIDE DEF more
        <4> QED BY <1>2, <3>2, <3>3, <3>4 DEF RowOf
      <3> QED BY <3>5 DEF cash, row, next
    <2>5. CASE ~(prev.status = "awaiting_confirmation" /\ row.status = "scheduled")
      <3>1. next = [prev EXCEPT !.amount = sum + cash]
        BY <1>2, <2>1, <2>3, <2>5 DEF DashboardPage!Absorbed
      <3> HIDE DEF next
      <3>2. /\ next \in UrgentShape /\ next.amount = sum + cash /\ next.id = prev.id /\ next.due = prev.due
            /\ next.status = prev.status
        BY <1>2, <2>1, <3>1 DEF UrgentShape
      <3>3. /\ FirstAt(all, ks) \subseteq FirstAt(all, more) /\ FirstAt(all, more) \subseteq FirstAt(all, ks) \cup {new}
            /\ OpenAt(all, more) = {} <=> OpenAt(all, ks) = {}
            /\ more # {}
        BY <1>3, <2>1, <2>5 DEF FirstAt
      <3>4. next.due <= MonthOf(all[new].id)
        BY <1>2, <2>3, <3>2
      <3>5. RowOf(all, more, next, sum + cash)
        <4> HIDE DEF more
        <4>1. \A j \in FirstAt(all, more) : next.due <= MonthOf(all[j].id)
          BY <2>1, <3>2, <3>3, <3>4
        <4>2. k \in FirstAt(all, more) /\ next.id = all[k].id /\ next.due = MonthOf(all[k].id)
          BY <2>2, <3>2, <3>3
        <4> QED BY <2>1, <3>2, <3>3, <4>1, <4>2 DEF RowOf
      <3> QED BY <3>5 DEF cash, row, next
    <2> QED BY <2>4, <2>5
  <1> QED BY <1>4, <1>5

(* The loop of mergeByInvestor over payments in the order of their months.   *)
MergedTo(all, i, group, f) ==
    f = [k \in 0 .. Len(all) |->
            IF k = 0 THEN Null
            ELSE IF DashboardPage!IsUrgent(all[k], i, group) THEN DashboardPage!Absorbed(f[k - 1], DashboardPage!Row(all[k]))
            ELSE f[k - 1]]
SumTo(all, ks, f) ==
    f = [k \in 0 .. Len(all) |->
            IF k = 0 THEN 0 ELSE f[k - 1] + IF k \in ks THEN Dues.dashboard[all[k].id].cash ELSE 0]

LEMMA AbsorbedShape == ASSUME NEW prev \in UrgentShape \cup {Null}, NEW row \in UrgentShape
    PROVE DashboardPage!Absorbed(prev, row) \in UrgentShape
  <1> DEFINE sum == prev.amount + row.amount
  <1>1. CASE prev = Null
    BY <1>1 DEF DashboardPage!Absorbed
  <1>2. CASE prev # Null
    <2>1. prev \in UrgentShape /\ sum \in Nat
      BY <1>2 DEF UrgentShape
    <2> DEFINE a == [row EXCEPT !.amount = sum]
               b == [prev EXCEPT !.amount = sum, !.due = row.due, !.id = row.id]
               c == [prev EXCEPT !.amount = sum]
    <2>2. DashboardPage!Absorbed(prev, row) \in {a, b, c}
      BY <1>2 DEF DashboardPage!Absorbed
    <2> HIDE DEF sum
    <2>3. a \in UrgentShape /\ b \in UrgentShape /\ c \in UrgentShape
      BY <2>1 DEF UrgentShape
    <2> QED BY <2>2, <2>3
  <1> QED BY <1>1, <1>2

LEMMA MergedExists ==
    ASSUME NEW S, NEW all \in Seq(S), NEW i, NEW group, \A k \in 1 .. Len(all) : all[k].id \in DashboardPage!Payments
    PROVE \E f : MergedTo(all, i, group, f)
  <1> DEFINE n == Len(all)
             T == UrgentShape \cup {Null}
             body(k, prev) == IF DashboardPage!IsUrgent(all[k], i, group)
                              THEN DashboardPage!Absorbed(prev, DashboardPage!Row(all[k])) ELSE prev
             step == [x \in (1 .. n) \X T |-> body(x[1], x[2])]
  <1>1. n \in Nat /\ Null \in T
    OBVIOUS
  <1>2. ASSUME NEW k \in 1 .. n, NEW prev \in T PROVE body(k, prev) \in T
    <2>1. ASSUME DashboardPage!IsUrgent(all[k], i, group) PROVE DashboardPage!Row(all[k]) \in UrgentShape
      BY <2>1, DuesAreCounted DEF DashboardPage!Row, DashboardPage!IsUrgent, UrgentShape, DashboardPage!Payments
    <2> QED BY <2>1, AbsorbedShape
  <1> HIDE DEF body, T
  <1>3. step \in [(1 .. n) \X T -> T]
    BY <1>2
  <1>4. \A k \in 1 .. n, prev \in T : step[<<k, prev>>] = body(k, prev)
    OBVIOUS
  <1> HIDE DEF step, n
  <1>5. PICK f : f = [k \in 0 .. n |-> IF k = 0 THEN Null ELSE step[<<k, f[k - 1]>>]]
    <2>1. \E f : Unfolds(f, n, Null, step)
      BY <1>1, <1>3, RecursionExists
    <2> QED BY <2>1 DEF Unfolds
  <1>6. \A k \in 0 .. n : f[k] \in T
    <2> DEFINE G == {k \in 0 .. n : f[k] \in T}
    <2>1. 0 \in G
      BY <1>1, <1>5
    <2>2. ASSUME NEW k \in 0 .. n, k # n, k \in G PROVE k + 1 \in G
      <3>1. k + 1 \in 1 .. n /\ k + 1 \in 0 .. n /\ k + 1 # 0 /\ (k + 1) - 1 = k /\ f[k] \in T
        BY <1>1, <2>2
      <3>2. f[k + 1] = step[<<k + 1, f[k]>>] /\ <<k + 1, f[k]>> \in (1 .. n) \X T
        BY <1>5, <3>1
      <3> QED BY <1>3, <3>1, <3>2
    <2> HIDE DEF G
    <2>3. \A k \in 0 .. n : k \in G
      BY <1>1, <2>1, <2>2, StepByStep
    <2> QED BY <2>3 DEF G
  <1>7. ASSUME NEW k \in 0 .. n, k # 0 PROVE step[<<k, f[k - 1]>>] = body(k, f[k - 1])
    <2>1. k \in 1 .. n /\ k - 1 \in 0 .. n
      BY <1>1, <1>7
    <2> QED BY <1>4, <1>6, <2>1
  <1>8. f = [k \in 0 .. n |-> IF k = 0 THEN Null ELSE body(k, f[k - 1])]
    BY <1>5, <1>7
  <1> QED BY <1>8 DEF MergedTo, n, body

LEMMA SumExists ==
    ASSUME NEW S, NEW all \in Seq(S), NEW ks, \A k \in 1 .. Len(all) : all[k].id \in DashboardPage!Payments
    PROVE \E f : SumTo(all, ks, f)
  <1> DEFINE n == Len(all)
             more(k) == IF k \in ks THEN Dues.dashboard[all[k].id].cash ELSE 0
             step == [x \in (1 .. n) \X Nat |-> x[2] + more(x[1])]
  <1>1. n \in Nat /\ \A k \in 1 .. n : more(k) \in Nat
    BY DuesAreCounted DEF DashboardPage!Payments
  <1> HIDE DEF more
  <1>2. step \in [(1 .. n) \X Nat -> Nat]
    BY <1>1
  <1>3. \A k \in 1 .. n, prev \in Nat : step[<<k, prev>>] = prev + more(k)
    OBVIOUS
  <1> HIDE DEF step, n
  <1>4. PICK f : f = [k \in 0 .. n |-> IF k = 0 THEN 0 ELSE step[<<k, f[k - 1]>>]]
    <2>1. \E f : Unfolds(f, n, 0, step)
      BY <1>1, <1>2, RecursionExists
    <2> QED BY <2>1 DEF Unfolds
  <1>5. \A k \in 0 .. n : f[k] \in Nat
    <2> DEFINE G == {k \in 0 .. n : f[k] \in Nat}
    <2>1. 0 \in G
      BY <1>1, <1>4
    <2>2. ASSUME NEW k \in 0 .. n, k # n, k \in G PROVE k + 1 \in G
      <3>1. k + 1 \in 1 .. n /\ k + 1 \in 0 .. n /\ k + 1 # 0 /\ (k + 1) - 1 = k /\ f[k] \in Nat
        BY <1>1, <2>2
      <3>2. f[k + 1] = step[<<k + 1, f[k]>>] /\ <<k + 1, f[k]>> \in (1 .. n) \X Nat
        BY <1>4, <3>1
      <3> QED BY <1>2, <3>1, <3>2
    <2> HIDE DEF G
    <2>3. \A k \in 0 .. n : k \in G
      BY <1>1, <2>1, <2>2, StepByStep
    <2> QED BY <2>3 DEF G
  <1>6. ASSUME NEW k \in 0 .. n, k # 0 PROVE step[<<k, f[k - 1]>>] = f[k - 1] + more(k)
    <2>1. k \in 1 .. n /\ k - 1 \in 0 .. n
      BY <1>1, <1>6
    <2> QED BY <1>3, <1>5, <2>1
  <1>7. f = [k \in 0 .. n |-> IF k = 0 THEN 0 ELSE f[k - 1] + more(k)]
    BY <1>4, <1>6
  <1> QED BY <1>7 DEF SumTo, n, more

(* Payments before one that is merged are due no later.                      *)
InOrder(all, ks) == \A j, k \in ks : j < k => MonthOf(all[j].id) <= MonthOf(all[k].id)

LEMMA MergedIsFirst ==
    ASSUME NEW S, NEW all \in Seq(S), NEW i, NEW group, \A k \in 1 .. Len(all) : all[k].id \in DashboardPage!Payments,
           NEW ks, ks = UrgentAt(all, i, group), InOrder(all, ks),
           NEW f, MergedTo(all, i, group, f), NEW g, SumTo(all, ks, g)
    PROVE RowOf(all, ks, f[Len(all)], g[Len(all)])
  <1> DEFINE n == Len(all)
             upto(k) == {j \in ks : j <= k}
             G == {k \in 0 .. n : g[k] \in Nat /\ RowOf(all, upto(k), f[k], g[k])}
  <1>1. n \in Nat /\ ks \subseteq 1 .. n
    BY DEF UrgentAt
  <1>2. 0 \in G
    <2>1. upto(0) = {} /\ 0 \in 0 .. n
      BY <1>1
    <2>2. f[0] = Null /\ g[0] = 0
      BY <2>1 DEF MergedTo, SumTo
    <2> HIDE DEF upto, n
    <2>3. RowOf(all, upto(0), f[0], g[0])
      BY <2>1, <2>2 DEF RowOf
    <2> QED BY <2>1, <2>2, <2>3
  <1>3. ASSUME NEW k \in 0 .. n, k # n, k \in G PROVE k + 1 \in G
    <2> DEFINE new == k + 1
    <2>1. new \in 1 .. n /\ new \in 0 .. n /\ new # 0 /\ new - 1 = k /\ RowOf(all, upto(k), f[k], g[k]) /\ g[k] \in Nat
      BY <1>1, <1>3
    <2>2. /\ f[new] = IF new \in ks THEN DashboardPage!Absorbed(f[k], DashboardPage!Row(all[new])) ELSE f[k]
          /\ g[new] = g[k] + IF new \in ks THEN Dues.dashboard[all[new].id].cash ELSE 0
      <3>1. /\ f[new] = IF DashboardPage!IsUrgent(all[new], i, group)
                        THEN DashboardPage!Absorbed(f[new - 1], DashboardPage!Row(all[new])) ELSE f[new - 1]
            /\ g[new] = g[new - 1] + IF new \in ks THEN Dues.dashboard[all[new].id].cash ELSE 0
        <4> HIDE DEF new
        <4> QED BY <2>1 DEF MergedTo, SumTo
      <3>2. new \in ks <=> DashboardPage!IsUrgent(all[new], i, group)
        <4> HIDE DEF new
        <4> QED BY <2>1 DEF UrgentAt
      <3> HIDE DEF new
      <3> QED BY <2>1, <3>1, <3>2
    <2>3. upto(new) = upto(k) \cup (IF new \in ks THEN {new} ELSE {})
      BY <1>1, <2>1
    <2>4. CASE new \in ks
      <3>1. /\ new \notin upto(k) /\ \A j \in upto(k) : MonthOf(all[j].id) <= MonthOf(all[new].id)
        <4>1. \A j \in upto(k) : j \in ks /\ j < new
          BY <1>1
        <4> QED BY <2>4, <4>1 DEF InOrder
      <3>2. \A j \in ks : all[j].id \in DashboardPage!Payments /\ all[j].status \in {"scheduled", "awaiting_confirmation"}
        BY <1>1 DEF UrgentAt, DashboardPage!IsUrgent
      <3>3. Dues.dashboard[all[new].id].cash \in Nat
        BY <2>4, <3>2, DuesAreCounted DEF DashboardPage!Payments
      <3>4. upto(k) \subseteq ks
        OBVIOUS
      <3> HIDE DEF new, upto
      <3>5. RowOf(all, upto(k) \cup {new}, DashboardPage!Absorbed(f[k], DashboardPage!Row(all[new])),
                  g[k] + Dues.dashboard[all[new].id].cash)
        BY <2>1, <2>4, <3>1, <3>2, <3>4, OneMoreAbsorbed
      <3>6. RowOf(all, upto(new), f[new], g[new]) /\ g[new] \in Nat
        BY <2>1, <2>2, <2>3, <2>4, <3>3, <3>5
      <3> QED BY <2>1, <3>6 DEF new
    <2>5. CASE new \notin ks
      <3>1. upto(new) = upto(k) /\ f[new] = f[k] /\ g[new] = g[k]
        <4> HIDE DEF new, upto
        <4> QED BY <2>1, <2>2, <2>3, <2>5
      <3> HIDE DEF upto
      <3> QED BY <2>1, <3>1
    <2> QED BY <2>4, <2>5
  <1> HIDE DEF G
  <1>4. n \in G
    BY <1>1, <1>2, <1>3, StepByStep
  <1>5. upto(n) = ks
    BY <1>1
  <1> HIDE DEF upto
  <1> QED BY <1>4, <1>5 DEF G, n

(* A list of payments of year y, due no earlier than those before them.      *)
Schedule(rows, y) ==
    /\ \E S : rows \in Seq(S)
    /\ \A k \in 1 .. Len(rows) : rows[k].id \in DashboardPage!Payments /\ DashboardPage!Year(MonthOf(rows[k].id)) = y
    /\ \A j, k \in 1 .. Len(rows) : j < k => MonthOf(rows[j].id) <= MonthOf(rows[k].id)

LEMMA YearIsScheduled == ASSUME NEW y, NEW scope
    PROVE Schedule(DashboardPage!WithStatus(DashboardPage!OfYear(y, scope)), y)
  <1> DEFINE ps == {p \in DashboardPage!Payments : DashboardPage!Year(MonthOf(p)) = y /\ scope \in {0, Dues.dashboard[p].investor}}
             R == {x \in ps \X ps : DashboardPage!Before(x[1], x[2])}
             n == Cardinality(ps)
             before(p) == {q \in ps : DashboardPage!Before(q, p)}
             list == DashboardPage!BySchedule(ps)
             rows == DashboardPage!WithStatus(list)
  <1>1. ps \subseteq Nat /\ ps \subseteq DashboardPage!Payments /\ \A p \in ps : MonthOf(p) \in Nat
    BY DuesAreCounted DEF DashboardPage!Payments, MonthOf
  <1>2. IsFiniteSet(ps)
    BY DuesAreCounted, FS_Subset DEF DashboardPage!Payments
  <1>3. \A p \in ps : DashboardPage!Year(MonthOf(p)) = y
    OBVIOUS
  <1>4. list = DashboardPage!OfYear(y, scope)
    BY DEF DashboardPage!OfYear, MonthOf, DashboardPage!All
  <1> HIDE DEF ps
  <1>5. \A p, q \in ps : <<p, q>> \in R <=> DashboardPage!Before(p, q)
    OBVIOUS
  <1> HIDE DEF R
  <1>6. \A p, q \in ps : DashboardPage!Before(p, q) <=> MonthOf(p) < MonthOf(q) \/ (MonthOf(p) = MonthOf(q) /\ p < q)
    BY DEF DashboardPage!Before, MonthOf
  <1>7. /\ \A p \in ps : <<p, p>> \notin R
        /\ \A p, q, r \in ps : <<p, q>> \in R /\ <<q, r>> \in R => <<p, r>> \in R
        /\ \A p, q \in ps : p # q => <<p, q>> \in R \/ <<q, p>> \in R
    BY <1>1, <1>5, <1>6
  <1>8. \A p \in ps : before(p) = {q \in ps : <<q, p>> \in R}
    BY <1>5
  <1> HIDE DEF before
  <1>9. /\ n \in Nat
        /\ \A p \in ps : Cardinality(before(p)) \in Nat
        /\ \A p, q \in ps : <<p, q>> \in R => Cardinality(before(p)) < Cardinality(before(q))
        /\ \A k \in 1 .. n : \E p \in ps : Cardinality(before(p)) = k - 1
    <2>1. /\ Cardinality(ps) \in Nat
          /\ \A p \in ps : Cardinality({q \in ps : <<q, p>> \in R}) \in Nat
          /\ \A p, q \in ps : <<p, q>> \in R =>
                Cardinality({r \in ps : <<r, p>> \in R}) < Cardinality({r \in ps : <<r, q>> \in R})
          /\ \A k \in 1 .. Cardinality(ps) : \E p \in ps : Cardinality({q \in ps : <<q, p>> \in R}) = k - 1
      BY <1>2, <1>7, RanksAreTaken
    <2> DEFINE rank(p) == Cardinality({q \in ps : <<q, p>> \in R})
    <2>2. \A p \in ps : Cardinality(before(p)) = rank(p)
      BY <1>8
    <2>3. /\ Cardinality(ps) \in Nat
          /\ \A p \in ps : rank(p) \in Nat
          /\ \A p, q \in ps : <<p, q>> \in R => rank(p) < rank(q)
          /\ \A k \in 1 .. Cardinality(ps) : \E p \in ps : rank(p) = k - 1
      BY <2>1
    <2> HIDE DEF rank
    <2> QED BY <2>2, <2>3
  <1>10. list = [k \in 1 .. n |-> CHOOSE p \in ps : Cardinality(before(p)) = k - 1]
    BY Zenon DEF DashboardPage!BySchedule, before, DashboardPage!Cardinality, Cardinality
  <1> HIDE DEF list, n
  <1>11. \A k \in 1 .. n : list[k] \in ps /\ Cardinality(before(list[k])) = k - 1
    BY <1>9, <1>10
  <1>12. rows = [k \in 1 .. n |-> [id |-> list[k], status |-> server.payments[list[k]]]]
    BY <1>10 DEF DashboardPage!WithStatus
  <1> HIDE DEF rows
  <1> DEFINE S == {rows[k] : k \in 1 .. n}
  <1>13. rows \in Seq(S) /\ Len(rows) = n /\ \A k \in 1 .. n : rows[k].id = list[k]
    <2>1. DOMAIN rows = 1 .. n /\ \A k \in 1 .. n : rows[k] \in S /\ rows[k].id = list[k]
      BY <1>12
    <2>2. rows = [k \in 1 .. n |-> rows[k]]
      BY <1>12
    <2> HIDE DEF S
    <2>3. rows \in [1 .. n -> S]
      BY <2>1, <2>2
    <2> QED BY <1>9, <2>1, <2>3
  <1> HIDE DEF S
  <1>14. ASSUME NEW j \in 1 .. n, NEW k \in 1 .. n, j < k PROVE MonthOf(list[j]) <= MonthOf(list[k])
    <2>1. list[j] \in ps /\ list[k] \in ps /\ Cardinality(before(list[j])) = j - 1 /\ Cardinality(before(list[k])) = k - 1
      BY <1>11
    <2>2. ~(<<list[k], list[j]>> \in R)
      <3>1. ASSUME <<list[k], list[j]>> \in R PROVE FALSE
        <4>1. Cardinality(before(list[k])) < Cardinality(before(list[j]))
          BY <1>9, <2>1, <3>1
        <4>2. k - 1 < j - 1
          BY <2>1, <4>1
        <4> QED BY <1>9, <1>14, <4>2
      <3> QED BY <3>1
    <2>3. ~(MonthOf(list[k]) < MonthOf(list[j]))
      BY <1>5, <1>6, <2>1, <2>2
    <2>4. MonthOf(list[j]) \in Nat /\ MonthOf(list[k]) \in Nat
      BY <1>1, <2>1
    <2> QED BY <2>3, <2>4
  <1>15. Schedule(rows, y)
    <2>1. \A k \in 1 .. n : rows[k].id \in DashboardPage!Payments /\ DashboardPage!Year(MonthOf(rows[k].id)) = y
      BY <1>1, <1>3, <1>11, <1>13
    <2>2. \A j, k \in 1 .. n : j < k => MonthOf(rows[j].id) <= MonthOf(rows[k].id)
      BY <1>13, <1>14
    <2> QED BY <1>13, <2>1, <2>2 DEF Schedule
  <1> QED BY <1>4, <1>15 DEF rows

(* The list of this year, and in January that of the year before.            *)
ListOK(h, rows) ==
    /\ h = "urgent" => Schedule(rows, DashboardPage!Year(ThisMonth))
    /\ h = "previous" => rows = <<>> \/ (DashboardPage!IncludePrevYear /\ Schedule(rows, DashboardPage!Year(ThisMonth) - 1))

LEMMA ListsBegin == ASSUME NEW h, NEW deps PROVE ListOK(h, DashboardPage!Rows(h, deps))
  BY YearIsScheduled DEF ListOK, DashboardPage!Rows

(* Both lists together, for one investor and group.                          *)
LEMMA BothInOrder ==
    ASSUME NEW u, NEW p, u = <<>> \/ ListOK("urgent", u), ListOK("previous", p), NEW i, NEW group \in {"missing", "overdue"}
    PROVE /\ \E S : u \o p \in Seq(S)
          /\ \A k \in 1 .. Len(u \o p) : (u \o p)[k].id \in DashboardPage!Payments
          /\ InOrder(u \o p, UrgentAt(u \o p, i, group))
  <1> DEFINE all == u \o p
             y == DashboardPage!Year(ThisMonth)
             ks == UrgentAt(all, i, group)
  <1>1. ThisMonth \in Nat \ {0} /\ y \in Int /\ \A m \in Nat \ {0} : DashboardPage!Year(m) = (m - 1) \div 12
    BY DuesAreCounted DEF DashboardPage!Year
  <1>2. u = <<>> \/ Schedule(u, y)
    BY DEF ListOK
  <1>3. p = <<>> \/ (DashboardPage!IncludePrevYear /\ Schedule(p, y - 1))
    BY DEF ListOK
  <1>4. PICK S, T : u \in Seq(S) /\ p \in Seq(T)
    <2>1. <<>> \in Seq({})
      OBVIOUS
    <2>2. \E S : u \in Seq(S)
      BY <1>2, <2>1 DEF Schedule
    <2>3. \E T : p \in Seq(T)
      BY <1>3, <2>1 DEF Schedule
    <2> QED BY <2>2, <2>3
  <1>5. all \in Seq(S \cup T) /\ Len(all) = Len(u) + Len(p) /\ Len(u) \in Nat /\ Len(p) \in Nat
    BY <1>4
  <1>6. \A k \in 1 .. Len(all) : IF k <= Len(u) THEN all[k] = u[k] /\ k \in 1 .. Len(u)
                                 ELSE all[k] = p[k - Len(u)] /\ k - Len(u) \in 1 .. Len(p)
    BY <1>4, <1>5
  <1> HIDE DEF all, y
  <1>7. \A k \in 1 .. Len(u) : u[k].id \in DashboardPage!Payments /\ DashboardPage!Year(MonthOf(u[k].id)) = y
    BY <1>2, <1>4 DEF Schedule
  <1>8. \A k \in 1 .. Len(p) : p[k].id \in DashboardPage!Payments /\ DashboardPage!IncludePrevYear
    BY <1>3, <1>4 DEF Schedule
  <1>9. \A k \in 1 .. Len(all) : all[k].id \in DashboardPage!Payments
    BY <1>6, <1>7, <1>8
  <1>10. ks \subseteq 1 .. Len(all) /\ \A k \in ks : MonthOf(all[k].id) \in Nat \ {0}
    BY <1>9, DuesAreCounted DEF UrgentAt, MonthOf, DashboardPage!Payments
  <1>11. \A k \in ks : IF group = "missing" THEN MonthOf(all[k].id) = ThisMonth ELSE MonthOf(all[k].id) < ThisMonth
    BY DEF UrgentAt, DashboardPage!IsUrgent, MonthOf
  <1> HIDE DEF ks
  <1>12. ASSUME NEW j \in ks, NEW k \in ks, j < k PROVE MonthOf(all[j].id) <= MonthOf(all[k].id)
    <2>1. MonthOf(all[j].id) \in Nat /\ MonthOf(all[k].id) \in Nat /\ j \in 1 .. Len(all) /\ k \in 1 .. Len(all)
      BY <1>10
    <2>2. CASE group = "missing"
      BY <1>1, <1>11, <2>1, <2>2
    <2>3. CASE group = "overdue" /\ k <= Len(u)
      <3>1. all[j] = u[j] /\ all[k] = u[k] /\ j \in 1 .. Len(u) /\ k \in 1 .. Len(u)
        BY <1>5, <1>6, <1>12, <2>1, <2>3
      <3>2. Schedule(u, y)
        BY <1>2, <3>1
      <3> QED BY <1>12, <3>1, <3>2 DEF Schedule
    <2>4. CASE group = "overdue" /\ ~(k <= Len(u))
      <3>1. all[k] = p[k - Len(u)] /\ k - Len(u) \in 1 .. Len(p)
        BY <1>6, <2>1, <2>4
      <3>2. DashboardPage!IncludePrevYear /\ Schedule(p, y - 1)
        BY <1>3, <3>1
      <3>3. ~(j <= Len(u))
        <4>1. ASSUME j <= Len(u) PROVE FALSE
          <5> DEFINE m == MonthOf(all[j].id)
          <5>1. DashboardPage!Year(m) = y /\ m \in Nat \ {0} /\ m < ThisMonth
            BY <1>6, <1>7, <1>10, <1>11, <2>1, <2>4, <4>1
          <5> HIDE DEF m
          <5>2. (m - 1) \div 12 = (ThisMonth - 1) \div 12 /\ (ThisMonth - 1) % 12 = 0
            BY <1>1, <3>2, <5>1 DEF y, DashboardPage!IncludePrevYear
          <5> QED BY <1>1, <5>1, <5>2
        <4> QED BY <4>1
      <3>4. all[j] = p[j - Len(u)] /\ j - Len(u) \in 1 .. Len(p) /\ j - Len(u) < k - Len(u)
        BY <1>5, <1>6, <1>12, <2>1, <3>3
      <3> QED BY <3>1, <3>2, <3>4 DEF Schedule
    <2> QED BY <2>2, <2>3, <2>4
  <1>13. InOrder(all, ks)
    BY <1>12 DEF InOrder
  <1> QED BY <1>5, <1>9, <1>13 DEF all, ks

(* What the lists of urgent payments hold, and the answers on their way.     *)
DueLists == {"urgent", "previous"}
ListsHeld(hooks) == \A h \in DueLists :
    HookShape(hooks[h]) /\ (hooks[h].data # Null => ListOK(h, hooks[h].data.rows))
ListsInv ==
    /\ DashboardInv /\ ListsHeld(view.hooks)
    /\ \A l \in calls.loads : ListOK(l.hook, l.answer.rows)

LEMMA AnyBegins == ASSUME NEW v, NEW h
    PROVE LET l == DashboardPage!Begin(v, h) IN l.hook = h /\ ListOK(l.hook, l.answer.rows)
  BY ListsBegin DEF DashboardPage!Begin, DashboardPage!Async!Load, DashboardPage!Async!Answer

LEMMA ListsStart == DashboardPage!Init => ListsInv
  <1> SUFFICES ASSUME DashboardPage!Init PROVE ListsInv
    OBVIOUS
  <1>1. PICK me : LET blank == DashboardPage!Blank(me) IN
          /\ view = [blank EXCEPT !.asked = [h \in DashboardPage!Hooks |->
                        IF h \in DashboardPage!PageHooks(me) THEN DashboardPage!DepsOf(blank, h) ELSE Null]]
          /\ calls = [left |-> Events.dashboard, request |-> Null,
                      loads |-> {DashboardPage!Begin(blank, h) : h \in DashboardPage!PageHooks(me)}]
    BY DEF DashboardPage!Init
  <1> DEFINE blank == DashboardPage!Blank(me)
  <1>2. view.hooks = [h \in DashboardPage!Hooks |-> DashboardPage!Async!Unmounted]
    BY <1>1 DEF DashboardPage!Blank
  <1>3. \A h \in DueLists : h \in DashboardPage!Hooks
    BY DEF DueLists, DashboardPage!Hooks, DashboardPage!ListHooks
  <1>4. ListsHeld(view.hooks)
    BY <1>2, <1>3 DEF ListsHeld, HookShape, DashboardPage!Async!Unmounted
  <1> HIDE DEF blank
  <1>5. \A l \in calls.loads : ListOK(l.hook, l.answer.rows)
    BY <1>1, AnyBegins DEF blank
  <1> QED BY <1>4, <1>5, DashboardStart DEF ListsInv

(* A render keeps what a list holds, or drops it, and only adds loads.       *)
LEMMA ListsRendered ==
    ASSUME NEW v, ListsHeld(v.hooks), DashboardViewOK(v), NEW reloaded,
           NEW loads, \A l \in loads : ListOK(l.hook, l.answer.rows),
           NEW next, next = DashboardPage!RenderedWith(v, reloaded, loads)
    PROVE /\ ListsHeld(DashboardPage!Kept(next.view).hooks)
          /\ \A l \in next.loads : ListOK(l.hook, l.answer.rows)
  <1> DEFINE up   == DashboardPage!Mounted(v)
             gone == {h \in DashboardPage!Hooks : view.asked[h] # Null /\ (h \notin up \/ DashboardPage!Fresh(v, h))}
             run  == {h \in up : h \in reloaded \/ DashboardPage!Fresh(v, h) \/ view.asked[h] # DashboardPage!DepsOf(v, h)}
             base == [h \in DashboardPage!Hooks |-> IF h \in gone THEN DashboardPage!Async!Unmounted ELSE v.hooks[h]]
             hooks == [h \in DashboardPage!Hooks |-> IF h \in run THEN DashboardPage!Async!Begun(base[h]) ELSE base[h]]
             asked == [h \in DashboardPage!Hooks |-> IF h \in up THEN DashboardPage!DepsOf(v, h) ELSE Null]
             instance == [h \in DashboardPage!Hooks |-> DashboardPage!Instance(v, h)]
             new == {DashboardPage!Begin(v, h) : h \in run}
             w == [v EXCEPT !.hooks = hooks, !.asked = asked, !.instance = instance]
  <1>1. next = [view |-> w, loads |-> {l \in loads : l.hook \notin run \cup gone} \cup new]
    BY DEF DashboardPage!RenderedWith
  <1>2. \A l \in new : ListOK(l.hook, l.answer.rows)
    BY AnyBegins
  <1>3. ASSUME NEW h \in DueLists PROVE HookShape(hooks[h]) /\ hooks[h].data \in {Null, v.hooks[h].data}
    <2>1. h \in DashboardPage!Hooks
      BY DEF DueLists, DashboardPage!Hooks, DashboardPage!ListHooks
    <2>2. base[h] = DashboardPage!Async!Unmounted \/ base[h] = v.hooks[h]
      BY <2>1
    <2>3. HookShape(base[h]) /\ base[h].data \in {Null, v.hooks[h].data}
      <3>1. HookShape(v.hooks[h])
        BY DEF ListsHeld
      <3>2. HookShape(DashboardPage!Async!Unmounted) /\ DashboardPage!Async!Unmounted.data = Null
        BY DEF HookShape, DashboardPage!Async!Unmounted
      <3> HIDE DEF base
      <3> QED BY <2>2, <3>1, <3>2
    <2> HIDE DEF base, run
    <2>4. hooks[h] = base[h] \/ hooks[h] = DashboardPage!Async!Begun(base[h])
      BY <2>1
    <2> HIDE DEF hooks
    <2>5. HookShape(hooks[h]) /\ hooks[h].data = base[h].data
      BY <2>3, <2>4 DEF DashboardPage!Async!Begun, HookShape
    <2> QED BY <2>3, <2>5
  <1> HIDE DEF up, gone, run, base, hooks, asked, instance, new
  <1>4. w.hooks = hooks /\ DashboardPage!Kept(w).hooks = w.hooks
    BY DEF DashboardViewOK, DashboardPage!Kept
  <1> HIDE DEF w
  <1>5. ListsHeld(hooks)
    BY <1>3 DEF ListsHeld
  <1> QED BY <1>1, <1>2, <1>4, <1>5

LEMMA ListsAnswersKeep ==
    ASSUME ListsInv,
           \/ DashboardPage!SelectScope \/ DashboardPage!RetryPage \/ DashboardPage!RefreshQueue
           \/ DashboardPage!RequestAnswered
           \/ \E l \in calls.loads : DashboardPage!LoadDelivered(l) \/ DashboardPage!LoadFailed(l)
    PROVE ListsHeld(view'.hooks) /\ \A l \in calls'.loads : ListOK(l.hook, l.answer.rows)
  <1>1. /\ DashboardViewOK(view) /\ ListsHeld(view.hooks) /\ DOMAIN calls = {"left", "request", "loads"}
        /\ \A l \in calls.loads : ListOK(l.hook, l.answer.rows) /\ DOMAIN view.hooks = DashboardPage!Hooks
    BY DEF ListsInv, DashboardInv, QueueHookOK
  <1>2. ASSUME NEW v, DashboardViewOK(v), ListsHeld(v.hooks), NEW reloaded, NEW loads, loads \subseteq calls.loads,
               NEW next, next = DashboardPage!RenderedWith(v, reloaded, loads),
               view' = DashboardPage!Kept(next.view), calls'.loads = next.loads
        PROVE ListsHeld(view'.hooks) /\ \A l \in calls'.loads : ListOK(l.hook, l.answer.rows)
    <2>1. \A l \in loads : ListOK(l.hook, l.answer.rows)
      BY <1>1, <1>2
    <2> QED BY <1>2, <2>1, ListsRendered
  <1>3. ASSUME NEW v, DashboardViewOK(v), v.hooks = view.hooks, NEW reloaded, DashboardPage!Use(v, reloaded)
        PROVE ListsHeld(view'.hooks) /\ \A l \in calls'.loads : ListOK(l.hook, l.answer.rows)
    <2> DEFINE next == DashboardPage!RenderedWith(v, reloaded, calls.loads)
    <2>1. view' = DashboardPage!Kept(next.view) /\ calls' = [calls EXCEPT !.loads = next.loads, !.left = @ - 1]
      BY <1>3 DEF DashboardPage!Use
    <2>2. next = DashboardPage!RenderedWith(v, reloaded, calls.loads)
      OBVIOUS
    <2> HIDE DEF next
    <2>3. calls'.loads = next.loads /\ ListsHeld(v.hooks)
      BY <1>1, <1>3, <2>1
    <2> QED BY <1>2, <1>3, <2>1, <2>2, <2>3
  <1>4. CASE DashboardPage!SelectScope \/ DashboardPage!RetryPage \/ DashboardPage!RefreshQueue
    <2>1. PICK f, reloaded : \/ DashboardPage!Use(view, reloaded)
                             \/ DashboardPage!Use([view EXCEPT !.filter = f], reloaded)
      BY <1>4 DEF DashboardPage!SelectScope, DashboardPage!RetryPage, DashboardPage!RefreshQueue
    <2>2. DashboardViewOK([view EXCEPT !.filter = f]) /\ [view EXCEPT !.filter = f].hooks = view.hooks
      BY <1>1 DEF DashboardViewOK
    <2> QED BY <1>1, <1>3, <2>1, <2>2
  <1>5. CASE DashboardPage!RequestAnswered
    <2> DEFINE told == calls.request.op # "remind"
               v == IF told THEN view ELSE [view EXCEPT !.review = Null]
               reloaded == IF told THEN {"figures", "own"} ELSE {}
               next == DashboardPage!RenderedWith(v, reloaded, calls.loads)
    <2>1. view' = DashboardPage!Kept(next.view) /\ calls' = [calls EXCEPT !.request = Null, !.loads = next.loads]
      BY <1>5 DEF DashboardPage!RequestAnswered
    <2>2. DashboardViewOK(v) /\ v.hooks = view.hooks
      BY <1>1 DEF DashboardViewOK
    <2> HIDE DEF v, reloaded
    <2>3. next = DashboardPage!RenderedWith(v, reloaded, calls.loads)
      OBVIOUS
    <2> HIDE DEF next
    <2>4. calls'.loads = next.loads /\ ListsHeld(v.hooks)
      BY <1>1, <2>1, <2>2
    <2> QED BY <1>2, <2>1, <2>2, <2>3, <2>4
  <1>6. ASSUME NEW l \in calls.loads, DashboardPage!LoadDelivered(l) \/ DashboardPage!LoadFailed(l)
        PROVE ListsHeld(view'.hooks) /\ \A k \in calls'.loads : ListOK(k.hook, k.answer.rows)
    <2> DEFINE old == view.hooks[l.hook]
               hook == IF DashboardPage!LoadDelivered(l) THEN DashboardPage!Async!Delivered(old, l)
                       ELSE DashboardPage!Async!Failed(old, l)
               hooks == [view.hooks EXCEPT ![l.hook] = hook]
               v == [view EXCEPT !.hooks = hooks]
               next == DashboardPage!RenderedWith(v, {}, calls.loads \ {l})
    <2>1. /\ view' = DashboardPage!Kept(next.view)
          /\ \/ calls' = [calls EXCEPT !.loads = next.loads]
             \/ calls' = [calls EXCEPT !.loads = next.loads, !.left = @ - 1]
      BY <1>6 DEF DashboardPage!LoadDelivered, DashboardPage!LoadFailed, DashboardPage!Render
    <2>2. ASSUME HookShape(old) PROVE HookShape(hook) /\ (hook.data = old.data \/ hook.data = l.answer)
      BY <2>2 DEF HookShape, DashboardPage!Async!Delivered, DashboardPage!Async!Failed, DashboardPage!Async!Resolved,
                  DashboardPage!Async!Rejected
    <2> HIDE DEF hook
    <2>3. \A h \in DueLists : hooks[h] = IF h = l.hook THEN hook ELSE view.hooks[h]
      BY <1>1 DEF DueLists, DashboardPage!Hooks, DashboardPage!ListHooks
    <2> HIDE DEF hooks
    <2>4. ListsHeld(hooks)
      <3> SUFFICES ASSUME NEW h \in DueLists
                   PROVE HookShape(hooks[h]) /\ (hooks[h].data # Null => ListOK(h, hooks[h].data.rows))
        BY DEF ListsHeld
      <3>1. CASE h = l.hook
        <4>1. HookShape(old) /\ (old.data # Null => ListOK(h, old.data.rows)) /\ ListOK(h, l.answer.rows)
          BY <1>1, <3>1 DEF ListsHeld
        <4> QED BY <2>2, <2>3, <3>1, <4>1
      <3>2. CASE h # l.hook
        BY <1>1, <2>3, <3>2 DEF ListsHeld
      <3> QED BY <3>1, <3>2
    <2>5. DashboardViewOK(v) /\ v.hooks = hooks
      BY <1>1 DEF DashboardViewOK
    <2> HIDE DEF v
    <2>6. next = DashboardPage!RenderedWith(v, {}, calls.loads \ {l})
      OBVIOUS
    <2> HIDE DEF next
    <2>7. calls'.loads = next.loads
      BY <1>1, <2>1
    <2> QED BY <1>2, <2>1, <2>4, <2>5, <2>6, <2>7
  <1> QED BY <1>4, <1>5, <1>6

LEMMA ListsOthersKeep ==
    ASSUME ListsInv,
           \/ \E status \in {"paid", "scheduled"} : DashboardPage!Answer(status)
           \/ \E a \in DOMAIN Owner.dashboard : DashboardPage!OpenReview(a)
           \/ DashboardPage!CancelReview \/ DashboardPage!SendReminder \/ DashboardPage!ReminderAborted
           \/ DashboardPage!ConfirmationFailed
           \/ DashboardPage!RequestApplied \/ DashboardPage!Others
    PROVE ListsHeld(view'.hooks) /\ \A l \in calls'.loads : ListOK(l.hook, l.answer.rows)
  <1>1. DashboardViewOK(view) /\ DOMAIN calls = {"left", "request", "loads"}
    BY DEF ListsInv, DashboardInv
  <1>2. calls'.loads = calls.loads
    BY <1>1 DEF DashboardPage!Answer, DashboardPage!OpenReview, DashboardPage!CancelReview, DashboardPage!SendReminder,
           DashboardPage!ReminderAborted, DashboardPage!ConfirmationFailed, DashboardPage!RequestApplied, DashboardPage!Others
  <1>3. view'.hooks = view.hooks
    BY <1>1 DEF DashboardPage!Answer, DashboardPage!OpenReview, DashboardPage!CancelReview, DashboardPage!SendReminder,
           DashboardPage!ReminderAborted, DashboardPage!ConfirmationFailed, DashboardPage!RequestApplied, DashboardPage!Others, DashboardViewOK
  <1> QED BY <1>2, <1>3 DEF ListsInv

LEMMA ListsReadKeeps == ASSUME ListsInv, NEW l \in calls.loads, DashboardPage!QueueRead(l)
    PROVE ListsHeld(view'.hooks) /\ \A k \in calls'.loads : ListOK(k.hook, k.answer.rows)
  <1>1. DOMAIN calls = {"left", "request", "loads"} /\ l.hook = "queue" /\ DOMAIN l = {"hook", "answer", "alive"}
    BY DEF ListsInv, DashboardInv, QueueLoadOK, DashboardPage!QueueRead
  <1> DEFINE rest(i) == [l EXCEPT !.answer.rows.todo = @ \ {i}]
             read(i) == [rest(i) EXCEPT !.answer.rows.found = @ \cup DashboardPage!PendingOf(i)]
             unread(i) == [rest(i) EXCEPT !.answer.rows.failed = @ \cup {i}]
  <1>2. PICK k : k.hook = "queue" /\ calls'.loads = (calls.loads \ {l}) \cup {k}
    <2>1. PICK i :
            \/ calls' = [calls EXCEPT !.loads = (@ \ {l}) \cup {read(i)}]
            \/ calls' = [calls EXCEPT !.left = @ - 1, !.loads = (@ \ {l}) \cup {unread(i)}]
      BY DEF DashboardPage!QueueRead
    <2>2. rest(i).hook = "queue" /\ DOMAIN rest(i) = DOMAIN l
      BY <1>1
    <2> HIDE DEF rest
    <2>3. read(i).hook = "queue" /\ unread(i).hook = "queue"
      BY <1>1, <2>2
    <2> HIDE DEF read, unread
    <2> QED BY <1>1, <2>1, <2>3
  <1>3. ListOK(k.hook, k.answer.rows)
    BY <1>2 DEF ListOK
  <1>4. view' = view
    BY DEF DashboardPage!QueueRead
  <1> QED BY <1>2, <1>3, <1>4 DEF ListsInv

LEMMA ListsStep == ASSUME ListsInv, DashboardPage!Next PROVE ListsInv'
  <1>1. DashboardInv'
    BY DashboardStep DEF ListsInv
  <1>2. ListsHeld(view'.hooks) /\ \A l \in calls'.loads : ListOK(l.hook, l.answer.rows)
    BY ListsAnswersKeep, ListsOthersKeep, ListsReadKeeps DEF DashboardPage!Next
  <1>3. ListsHeld(view.hooks)'
    BY <1>2 DEF ListsHeld, ListOK, Schedule
  <1> QED BY <1>1, <1>2, <1>3 DEF ListsInv

(* What UrgentRowIsOldest says of the row shown for the payments at ks.      *)
IsOldest(all, ks, shown) ==
    LET open  == {k \in ks : all[k].status = "scheduled"}
        first == IF open = {} THEN ks ELSE open
        sum[k \in 0 .. Len(all)] ==
            IF k = 0 THEN 0 ELSE sum[k - 1] + IF k \in ks THEN Dues.dashboard[all[k].id].cash ELSE 0
    IN IF ks = {} THEN shown = Null
       ELSE /\ \E k \in first : shown.id = all[k].id /\ shown.due = Dues.dashboard[all[k].id].month
            /\ \A k \in first : shown.due <= Dues.dashboard[all[k].id].month
            /\ shown.status = (IF open = {} THEN "awaiting_confirmation" ELSE "scheduled")
            /\ shown.amount = sum[Len(all)]

LEMMA ListsSay == ListsInv => DashboardPage!UrgentRowIsOldest
  <1> SUFFICES ASSUME ListsInv, NEW i, NEW group \in {"missing", "overdue"}
               PROVE LET all == DashboardPage!LoadedPayments IN
                     IsOldest(all, {k \in DOMAIN all : DashboardPage!IsUrgent(all[k], i, group)},
                              DashboardPage!UrgentRow(i, group))
    BY Zenon DEF DashboardPage!UrgentRowIsOldest, IsOldest
  <1> DEFINE u   == DashboardPage!LoadedOr("urgent")
             p   == DashboardPage!LoadedOr("previous")
             all == DashboardPage!LoadedPayments
             ks  == UrgentAt(all, i, group)
             f   == CHOOSE f : MergedTo(all, i, group, f)
             g   == CHOOSE g : SumTo(all, ks, g)
  <1>1. u = <<>> \/ ListOK("urgent", u)
    BY DEF ListsInv, ListsHeld, DueLists, DashboardPage!LoadedOr
  <1>2. ListOK("previous", p)
    BY DEF ListsInv, ListsHeld, DueLists, DashboardPage!LoadedOr, ListOK
  <1>3. all = u \o p
    BY DEF DashboardPage!LoadedPayments
  <1> HIDE DEF u, p, all
  <1>4. PICK S : all \in Seq(S)
    BY <1>1, <1>2, <1>3, BothInOrder
  <1>5. /\ \A k \in 1 .. Len(all) : all[k].id \in DashboardPage!Payments
        /\ InOrder(all, ks)
    BY <1>1, <1>2, <1>3, BothInOrder
  <1>6. MergedTo(all, i, group, f)
    <2>1. \E h : MergedTo(all, i, group, h)
      BY <1>4, <1>5, MergedExists
    <2> QED BY Zenon, <2>1
  <1>7. SumTo(all, ks, g)
    <2>1. \E h : SumTo(all, ks, h)
      BY <1>4, <1>5, SumExists
    <2> QED BY Zenon, <2>1
  <1>8. DashboardPage!UrgentRow(i, group) = f[Len(all)]
    BY Zenon DEF DashboardPage!UrgentRow, DashboardPage!MergedFor, MergedTo, all
  <1> HIDE DEF f
  <1> DEFINE sum[k \in 0 .. Len(all)] ==
                 IF k = 0 THEN 0 ELSE sum[k - 1] + IF k \in ks THEN Dues.dashboard[all[k].id].cash ELSE 0
  <1>9. sum = g
    BY Zenon DEF SumTo
  <1> HIDE DEF g, sum, ks
  <1>10. RowOf(all, ks, f[Len(all)], g[Len(all)])
    BY <1>4, <1>5, <1>6, <1>7, MergedIsFirst DEF ks
  <1>11. ks = {k \in DOMAIN all : DashboardPage!IsUrgent(all[k], i, group)}
    BY <1>4 DEF ks, UrgentAt
  <1> DEFINE shown == DashboardPage!UrgentRow(i, group)
  <1>12. IsOldest(all, ks, shown)
    <2> DEFINE open  == {k \in ks : all[k].status = "scheduled"}
               first == IF open = {} THEN ks ELSE open
    <2>1. IF ks = {} THEN shown = Null
          ELSE /\ \E k \in first : shown.id = all[k].id /\ shown.due = Dues.dashboard[all[k].id].month
               /\ \A k \in first : shown.due <= Dues.dashboard[all[k].id].month
               /\ shown.status = (IF open = {} THEN "awaiting_confirmation" ELSE "scheduled")
               /\ shown.amount = sum[Len(all)]
      BY <1>8, <1>9, <1>10 DEF RowOf, FirstAt, OpenAt, MonthOf
    <2> HIDE DEF shown
    <2> QED BY Zenon, <2>1 DEF IsOldest, sum
  <1> HIDE DEF shown
  <1> QED BY <1>11, <1>12 DEF shown, all

-----------------------------------------------------------------------------
(* The panels below the payments.  Of every loop over the list of plans,     *)
(* what holds after k of them goes on to the next.                           *)
PanelsInv == view.plans \in Seq(PlanTrack)

(* The loop of Sum over the list of plans.                                   *)
AddsUp(tracks, f) ==
    f = [k \in 0 .. Len(view.plans) |->
            IF k = 0 THEN 0
            ELSE f[k - 1] + IF view.plans[k] \in tracks THEN view.plans[k].balance ELSE 0]

LEMMA BalancesAreCounted == ASSUME PanelsInv
    PROVE /\ Len(view.plans) \in Nat
          /\ \A k \in 1 .. Len(view.plans) : view.plans[k] \in PlanTrack /\ view.plans[k].balance \in Nat
  <1>1. Len(view.plans) \in Nat /\ \A k \in 1 .. Len(view.plans) : view.plans[k] \in PlanTrack
    BY DEF PanelsInv
  <1>2. \A p \in PlanTrack : p.balance \in Nat
    BY DEF PlanTrack
  <1> QED BY <1>1, <1>2

LEMMA PanelSum == ASSUME PanelsInv, NEW tracks
    PROVE \E f : AddsUp(tracks, f) /\ PanelsPage!Sum(tracks) = f[Len(view.plans)]
  <1> DEFINE n == Len(view.plans)
             more(k) == IF view.plans[k] \in tracks THEN view.plans[k].balance ELSE 0
             step == [x \in (1 .. n) \X Nat |-> x[2] + more(x[1])]
  <1>1. n \in Nat /\ \A k \in 1 .. n : more(k) \in Nat
    BY BalancesAreCounted
  <1> HIDE DEF more
  <1>2. step \in [(1 .. n) \X Nat -> Nat]
    BY <1>1
  <1>3. \A k \in 1 .. n, prev \in Nat : step[<<k, prev>>] = prev + more(k)
    OBVIOUS
  <1> HIDE DEF step, n
  <1>4. PICK f : f = [k \in 0 .. n |-> IF k = 0 THEN 0 ELSE step[<<k, f[k - 1]>>]]
    <2>1. \E f : Unfolds(f, n, 0, step)
      BY <1>1, <1>2, RecursionExists
    <2> QED BY <2>1 DEF Unfolds
  <1>5. \A k \in 0 .. n : f[k] \in Nat
    <2> DEFINE G == {k \in 0 .. n : f[k] \in Nat}
    <2>1. 0 \in G
      BY <1>1, <1>4
    <2>2. ASSUME NEW k \in 0 .. n, k # n, k \in G PROVE k + 1 \in G
      <3>1. k + 1 \in 1 .. n /\ k + 1 \in 0 .. n /\ k + 1 # 0 /\ (k + 1) - 1 = k /\ f[k] \in Nat
        BY <1>1, <2>2
      <3>2. f[k + 1] = step[<<k + 1, f[k]>>] /\ <<k + 1, f[k]>> \in (1 .. n) \X Nat
        BY <1>4, <3>1
      <3> QED BY <1>2, <3>1, <3>2
    <2> HIDE DEF G
    <2>3. \A k \in 0 .. n : k \in G
      BY <1>1, <2>1, <2>2, StepByStep
    <2> QED BY <2>3 DEF G
  <1>6. ASSUME NEW k \in 0 .. n, k # 0 PROVE step[<<k, f[k - 1]>>] = f[k - 1] + more(k)
    <2>1. k \in 1 .. n /\ k - 1 \in 0 .. n
      BY <1>1, <1>6
    <2> QED BY <1>3, <1>5, <2>1
  <1>7. f = [k \in 0 .. n |-> IF k = 0 THEN 0 ELSE f[k - 1] + more(k)]
    BY <1>4, <1>6
  <1>8. AddsUp(tracks, f)
    BY <1>7 DEF AddsUp, n, more
  <1> DEFINE g == CHOOSE g : AddsUp(tracks, g)
  <1>9. AddsUp(tracks, g)
    BY Zenon, <1>8
  <1>10. PanelsPage!Sum(tracks) = g[Len(view.plans)]
    BY Zenon DEF PanelsPage!Sum, AddsUp
  <1> HIDE DEF g
  <1> QED BY <1>9, <1>10

(* Sums of disjoint sets of tracks add up.                                   *)
LEMMA PanelSumsAdd == ASSUME PanelsInv, NEW T, NEW U, T \cap U = {}
    PROVE PanelsPage!Sum(T \cup U) = PanelsPage!Sum(T) + PanelsPage!Sum(U)
  <1> DEFINE n == Len(view.plans)
  <1>1. PICK f : AddsUp(T, f) /\ PanelsPage!Sum(T) = f[n]
    BY PanelSum
  <1>2. PICK g : AddsUp(U, g) /\ PanelsPage!Sum(U) = g[n]
    BY PanelSum
  <1>3. PICK h : AddsUp(T \cup U, h) /\ PanelsPage!Sum(T \cup U) = h[n]
    BY PanelSum
  <1>4. n \in Nat /\ \A k \in 1 .. n : view.plans[k].balance \in Nat
    BY BalancesAreCounted
  <1> DEFINE G == {k \in 0 .. n : f[k] \in Nat /\ g[k] \in Nat /\ h[k] = f[k] + g[k]}
  <1>5. 0 \in G
    <2>1. 0 \in 0 .. n
      BY <1>4
    <2>2. f[0] = 0 /\ g[0] = 0 /\ h[0] = 0
      BY <1>1, <1>2, <1>3, <2>1 DEF AddsUp
    <2> QED BY <2>1, <2>2
  <1>6. ASSUME NEW k \in 0 .. n, k # n, k \in G PROVE k + 1 \in G
    <2> DEFINE new == k + 1
               p == view.plans[new]
    <2>1. new \in 1 .. n /\ new \in 0 .. n /\ new # 0 /\ new - 1 = k /\ p.balance \in Nat
          /\ f[k] \in Nat /\ g[k] \in Nat /\ h[k] = f[k] + g[k]
      BY <1>4, <1>6
    <2> HIDE DEF new
    <2>2. /\ f[new] = f[k] + IF p \in T THEN p.balance ELSE 0
          /\ g[new] = g[k] + IF p \in U THEN p.balance ELSE 0
          /\ h[new] = h[k] + IF p \in T \cup U THEN p.balance ELSE 0
      BY <1>1, <1>2, <1>3, <2>1 DEF AddsUp
    <2>3. new \in G
      <3> DEFINE more == p.balance
      <3> HIDE DEF p, more
      <3>1. CASE p \in T
        <4>1. p \notin U /\ p \in T \cup U
          BY <3>1
        <4>2. f[new] = f[k] + p.balance /\ g[new] = g[k] + 0 /\ h[new] = h[k] + p.balance
          BY <2>2, <3>1, <4>1
        <4> QED BY <2>1, <4>2
      <3>2. CASE p \notin T /\ p \in U
        <4>1. p \in T \cup U
          BY <3>2
        <4>2. f[new] = f[k] + 0 /\ g[new] = g[k] + p.balance /\ h[new] = h[k] + p.balance
          BY <2>2, <3>2, <4>1
        <4> QED BY <2>1, <4>2
      <3>3. CASE p \notin T /\ p \notin U
        <4>1. p \notin T \cup U
          BY <3>3
        <4>2. f[new] = f[k] + 0 /\ g[new] = g[k] + 0 /\ h[new] = h[k] + 0
          BY <2>2, <3>3, <4>1
        <4> QED BY <2>1, <4>2
      <3> QED BY <3>1, <3>2, <3>3
    <2> QED BY <2>3 DEF new
  <1> HIDE DEF G
  <1>7. n \in G
    <2> HIDE DEF n
    <2>1. n \in Nat /\ n \in 0 .. n
      BY <1>4
    <2>2. \A k \in 0 .. n : k # n /\ k \in G => k + 1 \in G
      BY <1>6
    <2> QED BY <1>5, <2>1, <2>2, StepByStep
  <1> QED BY <1>1, <1>2, <1>3, <1>7 DEF G

LEMMA PanelSumOfNone == ASSUME PanelsInv PROVE PanelsPage!Sum({}) = 0
  <1> DEFINE n == Len(view.plans)
  <1>1. PICK f : AddsUp({}, f) /\ PanelsPage!Sum({}) = f[n]
    BY PanelSum
  <1>2. n \in Nat
    BY BalancesAreCounted
  <1> DEFINE G == {k \in 0 .. n : f[k] = 0}
  <1>3. 0 \in G
    BY <1>1, <1>2 DEF AddsUp
  <1>4. ASSUME NEW k \in 0 .. n, k # n, k \in G PROVE k + 1 \in G
    <2>1. k + 1 \in 0 .. n /\ k + 1 # 0 /\ (k + 1) - 1 = k /\ f[k] = 0
      BY <1>2, <1>4
    <2>2. f[k + 1] = f[k] + 0
      BY <1>1, <2>1 DEF AddsUp
    <2> QED BY <2>1, <2>2
  <1> HIDE DEF G
  <1>5. n \in G
    <2> HIDE DEF n
    <2>1. n \in Nat /\ n \in 0 .. n
      BY <1>2
    <2>2. \A k \in 0 .. n : k # n /\ k \in G => k + 1 \in G
      BY <1>4
    <2> QED BY <1>3, <2>1, <2>2, StepByStep
  <1> QED BY <1>1, <1>5 DEF G

(* The loop of OneEach for one investor, over the savings.                   *)
Better(p, q) == PanelsPage!Before(p, q, PanelsPage!SavingsScore)
Keeps(i, f) ==
    f = [k \in 0 .. Len(view.plans) |->
            IF k = 0 THEN Null
            ELSE IF /\ view.plans[k] \in PanelsPage!SavesNear /\ view.plans[k].investor = i
                    /\ f[k - 1] = Null \/ PanelsPage!Before(f[k - 1], view.plans[k], PanelsPage!SavingsScore)
            THEN view.plans[k] ELSE f[k - 1]]

LEMMA BetterIsAnOrder == ASSUME NEW p \in PlanTrack, NEW q \in PlanTrack
    PROVE /\ ~Better(p, p)
          /\ Better(p, q) => \A r \in PlanTrack : Better(p, r) \/ ~Better(q, r)
          /\ Better(p, q) => ~Better(q, p)
  <1> DEFINE score(r) == PanelsPage!SavingsScore(r)
  <1>1. \A r \in PlanTrack : score(r) \in Nat /\ r.date \in Nat
    BY DEF PanelsPage!SavingsScore, PlanTrack
  <1>2. \A r, s : Better(r, s) <=> score(s) > score(r) \/ (score(s) = score(r) /\ s.date > r.date)
    BY DEF Better, PanelsPage!Before
  <1> HIDE DEF score
  <1> QED BY <1>1, <1>2

LEMMA KeepsExists == ASSUME PanelsInv, NEW i PROVE \E f : Keeps(i, f)
  <1> DEFINE n == Len(view.plans)
             T == PlanTrack \cup {Null}
             takes(k, prev) == /\ view.plans[k] \in PanelsPage!SavesNear /\ view.plans[k].investor = i
                               /\ prev = Null \/ PanelsPage!Before(prev, view.plans[k], PanelsPage!SavingsScore)
             body(k, prev) == IF takes(k, prev) THEN view.plans[k] ELSE prev
             step == [x \in (1 .. n) \X T |-> body(x[1], x[2])]
  <1>1. n \in Nat /\ Null \in T /\ \A k \in 1 .. n : view.plans[k] \in T
    BY BalancesAreCounted
  <1> HIDE DEF takes, T, n
  <1>2. \A k \in 1 .. n, prev \in T : body(k, prev) \in T
    BY <1>1
  <1> HIDE DEF body
  <1>3. step \in [(1 .. n) \X T -> T]
    BY <1>2
  <1>4. \A k \in 1 .. n, prev \in T : step[<<k, prev>>] = body(k, prev)
    OBVIOUS
  <1> HIDE DEF step
  <1>5. PICK f : f = [k \in 0 .. n |-> IF k = 0 THEN Null ELSE step[<<k, f[k - 1]>>]]
    <2>1. \E f : Unfolds(f, n, Null, step)
      BY <1>1, <1>3, RecursionExists
    <2> QED BY <2>1 DEF Unfolds
  <1>6. \A k \in 0 .. n : f[k] \in T
    <2> DEFINE G == {k \in 0 .. n : f[k] \in T}
    <2>1. 0 \in G
      BY <1>1, <1>5
    <2>2. ASSUME NEW k \in 0 .. n, k # n, k \in G PROVE k + 1 \in G
      <3>1. k + 1 \in 1 .. n /\ k + 1 \in 0 .. n /\ k + 1 # 0 /\ (k + 1) - 1 = k /\ f[k] \in T
        BY <1>1, <2>2
      <3>2. f[k + 1] = step[<<k + 1, f[k]>>] /\ <<k + 1, f[k]>> \in (1 .. n) \X T
        BY <1>5, <3>1
      <3> QED BY <1>3, <3>1, <3>2
    <2> HIDE DEF G
    <2>3. \A k \in 0 .. n : k \in G
      BY <1>1, <2>1, <2>2, StepByStep
    <2> QED BY <2>3 DEF G
  <1>7. ASSUME NEW k \in 0 .. n, k # 0 PROVE step[<<k, f[k - 1]>>] = body(k, f[k - 1])
    <2>1. k \in 1 .. n /\ k - 1 \in 0 .. n
      BY <1>1, <1>7
    <2> QED BY <1>4, <1>6, <2>1
  <1>8. f = [k \in 0 .. n |-> IF k = 0 THEN Null ELSE body(k, f[k - 1])]
    BY <1>5, <1>7
  <1> QED BY <1>8 DEF Keeps, n, body, takes

(* What it keeps is the best of the investor's, if there are any.            *)
LEMMA KeepsTheBest == ASSUME PanelsInv, NEW i, NEW f, Keeps(i, f)
    PROVE LET kept == f[Len(view.plans)]
              mine == {p \in PanelsPage!SavesNear : p.investor = i}
          IN IF mine = {} THEN kept = Null
             ELSE kept \in mine /\ kept # Null /\ \A q \in mine : ~Better(kept, q)
  <1> DEFINE n == Len(view.plans)
             mine == {p \in PanelsPage!SavesNear : p.investor = i}
             upto(k) == {view.plans[j] : j \in {j \in 1 .. n : j <= k /\ view.plans[j] \in mine}}
             Best(k) == IF upto(k) = {} THEN f[k] = Null
                        ELSE f[k] \in upto(k) /\ \A q \in upto(k) : ~Better(f[k], q)
             G == {k \in 0 .. n : Best(k)}
  <1>1. n \in Nat /\ \A k \in 1 .. n : view.plans[k] \in PlanTrack
    BY BalancesAreCounted
  <1>2. Null \notin PlanTrack
    BY PlansAreListed
  <1>3. mine \subseteq PlanTrack /\ mine \subseteq {view.plans[k] : k \in 1 .. n}
    <2>1. PanelsPage!SavesNear \subseteq {view.plans[k] : k \in 1 .. n}
      BY DEF PanelsPage!SavesNear, PanelsPage!Saves, PanelsPage!Tracks
    <2> QED BY <1>1, <2>1
  <1>4. 0 \in G
    <2>1. upto(0) = {} /\ 0 \in 0 .. n
      BY <1>1
    <2>2. f[0] = Null
      BY <2>1 DEF Keeps
    <2> HIDE DEF upto, mine, n
    <2> QED BY <2>1, <2>2
  <1>5. ASSUME NEW k \in 0 .. n, k # n, k \in G PROVE k + 1 \in G
    <2> DEFINE new == k + 1
               p == view.plans[new]
    <2>1. new \in 1 .. n /\ new \in 0 .. n /\ new # 0 /\ new - 1 = k /\ Best(k) /\ p \in PlanTrack
      <3>1. Best(k)
        BY <1>5
      <3>2. new \in 1 .. n /\ new \in 0 .. n /\ new # 0 /\ new - 1 = k
        <4>1. n \in Nat /\ k \in 0 .. n /\ k # n
          BY <1>1, <1>5
        <4> HIDE DEF n
        <4> QED BY <4>1
      <3> HIDE DEF Best, new
      <3> QED BY <1>1, <3>1, <3>2
    <2>2. upto(new) = upto(k) \cup (IF p \in mine THEN {p} ELSE {})
      BY <2>1, <1>1
    <2>3. f[new] = IF p \in mine /\ (f[k] = Null \/ Better(f[k], p)) THEN p ELSE f[k]
      <3> HIDE DEF new
      <3>1. f[new] = IF /\ p \in PanelsPage!SavesNear /\ p.investor = i
                        /\ f[new - 1] = Null \/ PanelsPage!Before(f[new - 1], p, PanelsPage!SavingsScore)
                     THEN p ELSE f[new - 1]
        BY <2>1 DEF Keeps
      <3> HIDE DEF p
      <3> QED BY <2>1, <3>1 DEF Better
    <2>4. upto(k) \subseteq PlanTrack
      BY <1>1
    <2> HIDE DEF new, p, upto, mine
    <2>5. CASE p \notin mine
      <3>1. upto(new) = upto(k) /\ f[new] = f[k]
        BY <2>2, <2>3, <2>5
      <3> QED BY <2>1, <3>1 DEF new
    <2>6. CASE p \in mine /\ upto(k) = {}
      <3>1. upto(new) = {p} /\ f[new] = p
        BY <2>1, <2>2, <2>3, <2>6
      <3>2. ~Better(p, p)
        BY <2>1, BetterIsAnOrder
      <3>3. Best(new)
        BY <3>1, <3>2
      <3> QED BY <2>1, <3>3 DEF new
    <2>7. CASE p \in mine /\ upto(k) # {}
      <3>1. f[k] \in upto(k) /\ f[k] \in PlanTrack /\ f[k] # Null /\ upto(new) = upto(k) \cup {p}
            /\ \A q \in upto(k) : ~Better(f[k], q)
        BY <1>2, <2>1, <2>2, <2>4, <2>7
      <3>2. CASE Better(f[k], p)
        <4>1. f[new] = p
          BY <2>3, <2>7, <3>2
        <4>2. \A q \in upto(new) : ~Better(p, q)
          BY <2>1, <2>4, <3>1, <3>2, BetterIsAnOrder
        <4>3. Best(new)
          BY <3>1, <4>1, <4>2
        <4> QED BY <2>1, <4>3 DEF new
      <3>3. CASE ~Better(f[k], p)
        <4>1. f[new] = f[k]
          BY <2>3, <2>7, <3>1, <3>3
        <4>2. Best(new)
          BY <3>1, <3>3, <4>1
        <4> QED BY <2>1, <4>2 DEF new
      <3> QED BY <3>2, <3>3
    <2> QED BY <2>5, <2>6, <2>7
  <1>6. n \in G
    <2> HIDE DEF n, G
    <2>1. n \in Nat /\ n \in 0 .. n
      BY <1>1
    <2>2. \A k \in 0 .. n : k # n /\ k \in G => k + 1 \in G
      BY <1>5
    <2> QED BY <1>4, <2>1, <2>2, StepByStep
  <1>7. upto(n) = mine
    BY <1>1, <1>3
  <1>8. Best(n)
    BY <1>6
  <1> HIDE DEF upto, mine
  <1> QED BY <1>2, <1>3, <1>7, <1>8 DEF mine, n

(* The latest of some tracks of the list, by induction over its positions.   *)
LEMMA LatestExists == ASSUME PanelsInv, NEW tracks, tracks \subseteq PanelsPage!Tracks, tracks # {}
    PROVE \E p \in tracks : \A q \in tracks : q.date <= p.date
  <1> DEFINE n == Len(view.plans)
             upto(k) == {view.plans[j] : j \in {j \in 1 .. n : j <= k /\ view.plans[j] \in tracks}}
             Best(k) == upto(k) = {} \/ \E p \in upto(k) : \A q \in upto(k) : q.date <= p.date
             G == {k \in 0 .. n : Best(k)}
  <1>1. n \in Nat /\ \A k \in 1 .. n : view.plans[k].date \in Nat
    <2>1. \A p \in PlanTrack : p.date \in Nat
      BY DEF PlanTrack
    <2> QED BY <2>1, BalancesAreCounted
  <1>2. 0 \in G
    <2>1. upto(0) = {} /\ 0 \in 0 .. n
      BY <1>1
    <2> HIDE DEF upto, n
    <2> QED BY <2>1
  <1>3. ASSUME NEW k \in 0 .. n, k # n, k \in G PROVE k + 1 \in G
    <2> DEFINE new == k + 1
               p == view.plans[new]
    <2>1. Best(k)
      BY <1>3
    <2>2. new \in 0 .. n /\ new \in 1 .. n /\ p.date \in Nat
      <3>1. n \in Nat /\ k \in 0 .. n /\ k # n
        BY <1>1, <1>3
      <3>2. new \in 0 .. n /\ new \in 1 .. n
        <4> HIDE DEF n
        <4> QED BY <3>1
      <3> HIDE DEF new
      <3> QED BY <1>1, <3>2
    <2>3. upto(new) = upto(k) \cup (IF p \in tracks THEN {p} ELSE {})
      BY <1>1, <2>2
    <2>4. \A q \in upto(k) : q.date \in Nat
      BY <1>1
    <2> HIDE DEF upto, new, p
    <2>5. CASE p \notin tracks \/ upto(k) = {}
      <3>1. upto(new) = upto(k) \/ upto(new) = {p}
        BY <2>3, <2>5
      <3>2. p.date <= p.date
        BY <2>2
      <3>3. Best(new)
        BY <2>1, <3>1, <3>2
      <3> QED BY <2>2, <3>3 DEF new
    <2>6. CASE p \in tracks /\ upto(k) # {}
      <3>1. PICK r \in upto(k) : \A q \in upto(k) : q.date <= r.date
        BY <2>1, <2>6
      <3>2. upto(new) = upto(k) \cup {p} /\ r.date \in Nat
        BY <2>3, <2>4, <2>6
      <3>3. CASE p.date <= r.date
        <4>1. r \in upto(new) /\ \A q \in upto(new) : q.date <= r.date
          BY <3>1, <3>2, <3>3
        <4> QED BY <2>2, <4>1 DEF new
      <3>4. CASE r.date <= p.date
        <4>1. p \in upto(new) /\ \A q \in upto(new) : q.date <= p.date
          BY <2>2, <2>4, <3>1, <3>2, <3>4
        <4> QED BY <2>2, <4>1 DEF new
      <3> QED BY <2>2, <3>2, <3>3, <3>4
    <2> QED BY <2>5, <2>6
  <1>4. n \in G
    <2> HIDE DEF n, G
    <2>1. n \in Nat /\ n \in 0 .. n
      BY <1>1
    <2>2. \A k \in 0 .. n : k # n /\ k \in G => k + 1 \in G
      BY <1>3
    <2> QED BY <1>2, <2>1, <2>2, StepByStep
  <1>5. upto(n) = tracks
    BY <1>1 DEF PanelsPage!Tracks
  <1>6. Best(n)
    BY <1>4
  <1> HIDE DEF upto
  <1> QED BY <1>5, <1>6

(* The term of an investor's row is of the year if one of its tracks is.     *)
LEMMA TermIsOfTheYear == ASSUME PanelsInv, NEW i, NEW r \in PanelsPage!Tracks, r.investor = i, PanelsPage!InYear(r)
    PROVE PanelsPage!InYear(PanelsPage!PrimaryPlan(i))
  <1> DEFINE mine == {p \in PanelsPage!Tracks : p.investor = i}
             near == {p \in mine : PanelsPage!InYear(p)}
             runs == {p \in near : PanelsPage!Active(p)}
  <1>1. r \in near /\ near \subseteq PanelsPage!Tracks /\ mine # {} /\ \A p \in near : PanelsPage!InYear(p)
    OBVIOUS
  <1>2. PanelsPage!PrimaryPlan(i) = IF runs # {} THEN PanelsPage!First(runs) ELSE PanelsPage!Latest(near)
    BY <1>1 DEF PanelsPage!PrimaryPlan
  <1>3. runs \subseteq near
    OBVIOUS
  <1> HIDE DEF mine, near, runs
  <1>4. CASE runs # {}
    <2> DEFINE ids == {p.id : p \in runs}
    <2>1. \A p \in runs : p.id \in Nat
      <3>1. \A p \in PlanTrack : p.id \in Nat
        BY DEF PlanTrack
      <3>2. runs \subseteq PlanTrack
        BY <1>1, <1>3, BalancesAreCounted DEF PanelsPage!Tracks
      <3> QED BY <3>1, <3>2
    <2>2. ids \subseteq Nat /\ ids # {}
      BY <1>4, <2>1
    <2>3. PICK least \in ids : \A j \in ids : least <= j
      <3> HIDE DEF ids
      <3> QED BY <2>2, LeastExists
    <2>4. \E p \in runs : \A q \in runs : p.id <= q.id
      BY <2>3
    <2>5. PanelsPage!First(runs) \in runs
      BY <2>4 DEF PanelsPage!First
    <2> QED BY <1>1, <1>2, <1>3, <1>4, <2>5
  <1>5. CASE runs = {}
    <2>1. \E p \in near : \A q \in near : q.date <= p.date
      BY <1>1, LatestExists
    <2>2. PanelsPage!Latest(near) \in near
      BY <2>1 DEF PanelsPage!Latest
    <2> QED BY <1>1, <1>2, <1>5, <2>2
  <1> QED BY <1>4, <1>5

(* In everybody's view: one track of each investor that has one, the best.   *)
LEMMA SavingsAreTheBest == ASSUME PanelsInv, ~PanelsPage!Single
    PROVE /\ PanelsPage!TheClearest(PanelsPage!SavingsInView, PanelsPage!SavesNear, PanelsPage!SavingsScore)
          /\ \A q \in PanelsPage!SavesNear : \E p \in PanelsPage!SavingsInView : p.investor = q.investor
  <1> DEFINE n == Len(view.plans)
             loop(i) == CHOOSE f : Keeps(i, f)
             kept(i) == loop(i)[n]
             mine(i) == {p \in PanelsPage!SavesNear : p.investor = i}
  <1>1. PanelsPage!SavingsInView = {kept(i) : i \in Investors} \ {Null}
    BY Zenon DEF PanelsPage!SavingsInView, PanelsPage!OneEach, Keeps
  <1>2. ASSUME NEW i PROVE IF mine(i) = {} THEN kept(i) = Null
                           ELSE kept(i) \in mine(i) /\ kept(i) # Null /\ \A q \in mine(i) : ~Better(kept(i), q)
    <2>1. \E f : Keeps(i, f)
      BY KeepsExists
    <2> DEFINE f == loop(i)
    <2>2. Keeps(i, f)
      BY Zenon, <2>1
    <2> HIDE DEF f
    <2>3. LET last == f[n] IN IF mine(i) = {} THEN last = Null
          ELSE last \in mine(i) /\ last # Null /\ \A q \in mine(i) : ~Better(last, q)
      BY <2>2, KeepsTheBest
    <2> QED BY <2>3 DEF f
  <1> HIDE DEF kept
  <1>3. ASSUME NEW q \in PanelsPage!SavesNear PROVE q.investor \in Investors /\ q \in mine(q.investor)
    <2>1. \A p \in PlanTrack : p.investor \in Investors
      BY DEF PlanTrack
    <2>2. q \in PlanTrack
      BY BalancesAreCounted DEF PanelsPage!SavesNear, PanelsPage!Saves, PanelsPage!Tracks
    <2> QED BY <2>1, <2>2
  <1>4. ASSUME NEW p \in PanelsPage!SavingsInView, NEW q \in PanelsPage!SavesNear, p.investor = q.investor
        PROVE ~PanelsPage!Before(p, q, PanelsPage!SavingsScore)
    <2>1. PICK i \in Investors : p = kept(i) /\ p # Null
      BY <1>1
    <2>2. p \in mine(i) /\ \A r \in mine(i) : ~Better(p, r)
      BY <1>2, <2>1
    <2>3. ~Better(p, q)
      BY <1>4, <2>2
    <2> QED BY <2>3 DEF Better
  <1>5. ASSUME NEW q \in PanelsPage!SavesNear PROVE \E p \in PanelsPage!SavingsInView : p.investor = q.investor
    <2>1. kept(q.investor) \in mine(q.investor) /\ kept(q.investor) # Null
      BY <1>2, <1>3
    <2> QED BY <1>1, <1>3, <2>1
  <1> QED BY <1>4, <1>5 DEF PanelsPage!TheClearest

(* The cards hold the active tracks, each in one card.                       *)
LEMMA CardsAddUp == ASSUME PanelsInv
    PROVE /\ PanelsPage!Cards = {} => PanelsPage!SavingsTotal = 0
          /\ \A card \in PanelsPage!Cards :
                PanelsPage!SavingsTotal = PanelsPage!Sum(card.tracks) +
                    PanelsPage!Sum(UNION {other.tracks : other \in PanelsPage!Cards \ {card}})
  <1> DEFINE on == PanelsPage!ActiveSavings
             of(i) == {p \in on : p.investor = i}
             card(i) == [investor |-> i, tracks |-> of(i)]
  <1>1. PanelsPage!Cards = {card(i) : i \in {p.investor : p \in on}}
    BY DEF PanelsPage!Cards
  <1>2. PanelsPage!SavingsTotal = PanelsPage!Sum(on)
    BY DEF PanelsPage!SavingsTotal
  <1> HIDE DEF on
  <1>3. ASSUME PanelsPage!Cards = {} PROVE on = {}
    BY <1>1, <1>3
  <1>4. ASSUME NEW c \in PanelsPage!Cards
        PROVE PanelsPage!SavingsTotal = PanelsPage!Sum(c.tracks) +
                  PanelsPage!Sum(UNION {other.tracks : other \in PanelsPage!Cards \ {c}})
    <2> DEFINE rest == UNION {other.tracks : other \in PanelsPage!Cards \ {c}}
    <2>1. PICK i : c = card(i)
      BY <1>1
    <2>2. c.tracks = of(i)
      BY <2>1
    <2>3. rest = {p \in on : p.investor # i}
      <3>1. ASSUME NEW p \in rest PROVE p \in on /\ p.investor # i
        <4>1. PICK other \in PanelsPage!Cards : other # c /\ p \in other.tracks
          BY <3>1
        <4>2. PICK j : other = card(j)
          BY <1>1, <4>1
        <4>3. j # i /\ p \in of(j)
          BY <2>1, <4>1, <4>2
        <4> QED BY <4>3
      <3>2. ASSUME NEW p \in on, p.investor # i PROVE p \in rest
        <4> DEFINE other == card(p.investor)
        <4>1. other \in PanelsPage!Cards /\ other.investor # c.investor /\ p \in other.tracks
          BY <1>1, <2>1, <3>2
        <4>2. other \in PanelsPage!Cards \ {c}
          BY <4>1
        <4> HIDE DEF other
        <4> QED BY <4>1, <4>2
      <3> HIDE DEF rest
      <3> QED BY <3>1, <3>2
    <2> HIDE DEF rest
    <2>4. on = c.tracks \cup rest /\ c.tracks \cap rest = {}
      BY <2>2, <2>3
    <2>5. PanelsPage!Sum(c.tracks \cup rest) = PanelsPage!Sum(c.tracks) + PanelsPage!Sum(rest)
      BY <2>4, PanelSumsAdd
    <2> QED BY <1>2, <2>4, <2>5 DEF rest
  <1> QED BY <1>2, <1>3, <1>4, PanelSumOfNone

LEMMA PanelsSay == PanelsInv => PanelsPage!PanelsAgree
  <1> SUFFICES ASSUME PanelsInv PROVE PanelsPage!PanelsAgree
    OBVIOUS
  <1>1. {p.id : p \in PanelsPage!Buttons} \subseteq PanelsPage!ReportTargets
    <2>1. PanelsPage!Buttons \subseteq PanelsPage!SavingsInView
      <3> DEFINE on == PanelsPage!ActiveSavings
                 of(i) == {p \in on : p.investor = i}
      <3>1. on \subseteq PanelsPage!SavingsInView /\ PanelsPage!ClosedSavings \subseteq PanelsPage!SavingsInView
        BY DEF PanelsPage!ActiveSavings, PanelsPage!ClosedSavings
      <3>2. PanelsPage!Cards = {[investor |-> i, tracks |-> of(i)] : i \in {p.investor : p \in on}}
        BY DEF PanelsPage!Cards
      <3> HIDE DEF on
      <3>3. \A c \in PanelsPage!Cards : c.tracks \subseteq on
        BY <3>2
      <3>4. PanelsPage!Buttons = PanelsPage!ClosedSavings \cup UNION {c.tracks : c \in PanelsPage!Cards}
        BY DEF PanelsPage!Buttons
      <3> QED BY <3>1, <3>3, <3>4
    <2> QED BY <2>1 DEF PanelsPage!ReportTargets, PanelsPage!StatusReports
  <1>2. ASSUME NEW row \in PanelsPage!YearRows, row.term # Null
        PROVE \/ PanelsPage!InYear(row.term)
              \/ ~\E p \in PanelsPage!Tracks : p.investor = row.investor /\ PanelsPage!InYear(p)
    <2>1. row.term = PanelsPage!PrimaryPlan(row.investor)
      BY DEF PanelsPage!YearRows
    <2> QED BY <2>1, TermIsOfTheYear
  <1> QED BY <1>1, <1>2, SavingsAreTheBest, CardsAddUp DEF PanelsPage!PanelsAgree

LEMMA PanelsStart == PanelsPage!Init => PanelsInv
  BY PlansAreListed DEF PanelsPage!Init, PanelsInv

-----------------------------------------------------------------------------
(* The investor's file.  A tick is for the document on the screen, whose     *)
(* date is that of the dialog, and nothing that could replace it is on its   *)
(* way; a request carries the hash of the document that was ticked.          *)
IsDoc(x) == x = InvestorsPage!Document(x.kind, x.source, x.date, x.version)
Doc(rows) == rows = Null \/ IsDoc(rows)
DatedDoc(d, rows) == IsDoc(rows) /\ rows.date = d.date

Prepared == {"new", "close", "dates", "replace"}
Redating == {"dates", "replace"}

DialogShape(d) ==
    DOMAIN d = {"kind", "source", "date", "reviewed", "ticked", "busy", "sent"} /\ d.reviewed \in BOOLEAN
FileViewOK(v) ==
    /\ DOMAIN v = {"selected", "section", "track", "editing", "issued", "dialog", "hooks"}
    /\ DialogShape(v.dialog)
    /\ DOMAIN v.hooks = InvestorsPage!Hooks /\ \A h \in InvestorsPage!Hooks : HookShape(v.hooks[h])
FileLoadOK(l) == l = [hook |-> l.hook, answer |-> l.answer, alive |-> l.alive] /\ l.alive \in BOOLEAN
FileRequestOK(r) == r # Null =>
    /\ DOMAIN r = {"op", "who", "source", "date", "hash", "ticked", "current", "outcome", "made"}
    /\ r.op \in Prepared \cup {"cancel", "update", "delete", "investor"}
    /\ r.op \in Prepared => r.hash = r.ticked
FileCallsOK(c) ==
    /\ DOMAIN c = {"loads", "request", "left"}
    /\ \A l \in c.loads : FileLoadOK(l)
    /\ FileRequestOK(c.request)

Previews(loads) == {l \in loads : l.hook = "preview"}
Coming(loads) == {l \in Previews(loads) : l.alive}

DialogOK(d, hook, loads) ==
    /\ hook.data # Null => Doc(hook.data.rows)
    /\ \A l \in Previews(loads) : Doc(l.answer.rows)
    /\ \A k, l \in Coming(loads) : k = l
    /\ Coming(loads) # {} => ~InvestorsPage!Async!Settled(hook)
    /\ d.kind \in Redating =>
         /\ hook.data # Null => Coming(loads) = {} /\ DatedDoc(d, hook.data.rows)
         /\ \A l \in Coming(loads) : DatedDoc(d, l.answer.rows)
    /\ d.reviewed =>
         /\ d.kind \in Redating \cup {"close"} /\ hook.data # Null
         /\ Coming(loads) = {} /\ d.ticked = hook.data.rows
         /\ d.kind = "close" => ~hook.error

ServerShape(s) == DOMAIN s = {"version", "plans", "book", "agreements"}

FileInv ==
    /\ FileViewOK(view) /\ FileCallsOK(calls) /\ ServerShape(server)
    /\ DialogOK(view.dialog, view.hooks["preview"], calls.loads)

LEMMA CurrentIsDoc == ASSUME NEW kind, NEW source, NEW date
    PROVE IsDoc(InvestorsPage!Current(kind, source, date)) /\ InvestorsPage!Current(kind, source, date).date = date
  BY DEF IsDoc, InvestorsPage!Current, InvestorsPage!Document

(* Fewer loads endanger nothing, nor does another dialog that neither redates *)
(* nor is ticked.                                                            *)
LEMMA FewerLoads == ASSUME NEW d, NEW hook, NEW loads, NEW fewer, DialogOK(d, hook, loads), Previews(fewer) \subseteq Previews(loads)
    PROVE DialogOK(d, hook, fewer)
  <1>1. Coming(fewer) \subseteq Coming(loads)
    BY DEF Coming
  <1> QED BY <1>1 DEF DialogOK

LEMMA PlainDialog == ASSUME NEW d, NEW e, NEW hook, NEW loads, DialogOK(d, hook, loads), e.kind \notin Redating, ~e.reviewed
    PROVE DialogOK(e, hook, loads)
  BY DEF DialogOK

LEMMA BlankPreview == ASSUME NEW d, NEW e, NEW hook, NEW loads, DialogOK(d, hook, loads), ~e.reviewed,
        e.kind \in Redating => e.kind = d.kind /\ e.date = d.date
    PROVE DialogOK(e, InvestorsPage!Async!Unmounted, loads)
  <1>1. InvestorsPage!Async!Unmounted.data = Null /\ ~InvestorsPage!Async!Settled(InvestorsPage!Async!Unmounted)
    BY DEF InvestorsPage!Async!Unmounted, InvestorsPage!Async!Settled
  <1> QED BY <1>1 DEF DialogOK, DatedDoc

LEMMA SameDialog == ASSUME NEW d, NEW e, NEW hook, NEW loads, DialogOK(d, hook, loads),
        e.kind = d.kind, e.date = d.date, e.reviewed = d.reviewed, e.ticked = d.ticked
    PROVE DialogOK(e, hook, loads)
  BY DEF DialogOK, DatedDoc

(* The hooks that run again: a new load, and the ones before it retired.     *)
LEMMA RetiredLoads == ASSUME NEW loads, NEW again, \A l \in loads : FileLoadOK(l)
    PROVE /\ \A l \in InvestorsPage!Async!Retired(loads, again) : FileLoadOK(l)
          /\ "preview" \notin again => Previews(InvestorsPage!Async!Retired(loads, again)) = Previews(loads)
          /\ "preview" \in again => Coming(InvestorsPage!Async!Retired(loads, again)) = {}
          /\ \A l \in Previews(InvestorsPage!Async!Retired(loads, again)) :
                \E k \in Previews(loads) : k.answer = l.answer
  <1> DEFINE R(l) == [l EXCEPT !.alive = @ /\ l.hook \notin again]
  <1>1. ASSUME NEW l \in loads
        PROVE /\ FileLoadOK(R(l)) /\ R(l).hook = l.hook /\ R(l).answer = l.answer
              /\ "preview" \notin again /\ l.hook = "preview" => R(l) = l
              /\ l.hook \in again => ~R(l).alive
    <2> DEFINE b == l.alive /\ l.hook \notin again
    <2>1. l = [hook |-> l.hook, answer |-> l.answer, alive |-> l.alive] /\ l.alive \in BOOLEAN
      BY <1>1 DEF FileLoadOK
    <2>2. R(l) = [hook |-> l.hook, answer |-> l.answer, alive |-> b]
      BY <2>1
    <2>3. /\ b \in BOOLEAN
          /\ "preview" \notin again /\ l.hook = "preview" => b = l.alive
          /\ l.hook \in again => b = FALSE
      BY <2>1
    <2> HIDE DEF R, b
    <2>4. R(l).hook = l.hook /\ R(l).answer = l.answer /\ R(l).alive = b
      BY <2>2
    <2>5. R(l) = [hook |-> R(l).hook, answer |-> R(l).answer, alive |-> R(l).alive]
      BY <2>2
    <2>6. ASSUME b = l.alive PROVE R(l) = l
      BY <2>1, <2>2, <2>6
    <2> QED BY <2>3, <2>4, <2>5, <2>6 DEF FileLoadOK
  <1>2. InvestorsPage!Async!Retired(loads, again) = {R(l) : l \in loads}
    BY DEF InvestorsPage!Async!Retired
  <1> HIDE DEF R
  <1> QED BY <1>1, <1>2 DEF Previews, Coming

LEMMA RunsAgain ==
    ASSUME NEW v, NEW again, NEW loads, NEW hooks, NEW after, FileViewOK(v), \A l \in loads : FileLoadOK(l),
           again \subseteq InvestorsPage!Hooks,
           DialogOK(v.dialog, v.hooks["preview"], loads),
           "preview" \in again => ~v.dialog.reviewed /\ (v.dialog.kind \in Redating => v.hooks["preview"].data = Null),
           hooks = [h \in InvestorsPage!Hooks |-> IF h \in again THEN InvestorsPage!Async!Begun(v.hooks[h]) ELSE v.hooks[h]],
           after = InvestorsPage!Async!Retired(loads, again) \cup {InvestorsPage!LoadOf(v, h) : h \in again}
    PROVE /\ DOMAIN hooks = InvestorsPage!Hooks /\ \A h \in InvestorsPage!Hooks : HookShape(hooks[h])
          /\ \A l \in after : FileLoadOK(l)
          /\ DialogOK(v.dialog, hooks["preview"], after)
  <1> DEFINE old == InvestorsPage!Async!Retired(loads, again)
             new == {InvestorsPage!LoadOf(v, h) : h \in again}
             asked == InvestorsPage!LoadOf(v, "preview")
  <1>1. \A h \in InvestorsPage!Hooks :
           /\ HookShape(InvestorsPage!Async!Begun(v.hooks[h])) /\ InvestorsPage!Async!Begun(v.hooks[h]).data = v.hooks[h].data
           /\ ~InvestorsPage!Async!Settled(InvestorsPage!Async!Begun(v.hooks[h]))
    BY DEF FileViewOK, HookShape, InvestorsPage!Async!Begun, InvestorsPage!Async!Settled
  <1>2. "preview" \in InvestorsPage!Hooks
    BY DEF InvestorsPage!Hooks
  <1>3. \A h \in InvestorsPage!Hooks : HookShape(hooks[h])
    BY <1>1 DEF FileViewOK
  <1>4. /\ \A h \in again : FileLoadOK(InvestorsPage!LoadOf(v, h)) /\ InvestorsPage!LoadOf(v, h).hook = h
        /\ asked.alive /\ asked.answer.rows = InvestorsPage!Rows(v, "preview")
    BY DEF InvestorsPage!LoadOf, InvestorsPage!Async!Load, InvestorsPage!Async!Answer, FileLoadOK
  <1>5. Doc(InvestorsPage!Rows(v, "preview"))
        /\ (v.dialog.kind \in Redating => DatedDoc(v.dialog, InvestorsPage!Rows(v, "preview")))
    BY CurrentIsDoc DEF InvestorsPage!Rows, Doc, DatedDoc, Redating
  <1>6. /\ \A l \in old : FileLoadOK(l)
        /\ "preview" \notin again => Previews(old) = Previews(loads)
        /\ "preview" \in again => Coming(old) = {}
        /\ \A l \in Previews(old) : \E k \in Previews(loads) : k.answer = l.answer
    BY RetiredLoads
  <1>7. \A l \in old \cup new : FileLoadOK(l)
    BY <1>4, <1>6
  <1>8. DialogOK(v.dialog, hooks["preview"], old \cup new)
    <2>1. CASE "preview" \notin again
      <3>1. Previews(old \cup new) = Previews(loads)
        BY <1>4, <1>6, <2>1 DEF Previews
      <3>2. hooks["preview"] = v.hooks["preview"]
        BY <1>2, <2>1
      <3> QED BY <3>1, <3>2, FewerLoads
    <2>2. CASE "preview" \in again
      <3>1. Coming(old \cup new) = {asked} /\ Previews(old \cup new) = Previews(old) \cup {asked}
        BY <1>4, <1>6, <2>2 DEF Previews, Coming
      <3>2. hooks["preview"].data = v.hooks["preview"].data /\ ~InvestorsPage!Async!Settled(hooks["preview"])
        BY <1>1, <1>2, <2>2
      <3> HIDE DEF old, new, asked
      <3>3. \A l \in Previews(old \cup new) : Doc(l.answer.rows)
        BY <1>4, <1>5, <1>6, <3>1 DEF DialogOK
      <3> QED BY <1>4, <1>5, <2>2, <3>1, <3>2, <3>3 DEF DialogOK
    <2> QED BY <2>1, <2>2
  <1> QED BY <1>3, <1>7, <1>8

(* A render with the dialog v.dialog: its preview is asked for again only    *)
(* when that can replace nothing that was ticked.                            *)
LEMMA BegunKeeps ==
    ASSUME FileInv, NEW v, NEW hooks \in SUBSET InvestorsPage!Hooks, FileViewOK(v),
           DialogOK(v.dialog, v.hooks["preview"], InvestorsPage!StillOpen(v, calls.loads)),
           "preview" \in InvestorsPage!Rerun(v, hooks) =>
              ~v.dialog.reviewed /\ (v.dialog.kind \in Redating => v.hooks["preview"].data = Null)
    PROVE /\ FileViewOK(InvestorsPage!Begun(v, hooks))
          /\ \A l \in InvestorsPage!LoadsAfter(v, hooks) : FileLoadOK(l)
          /\ DialogOK(InvestorsPage!Begun(v, hooks).dialog, InvestorsPage!Begun(v, hooks).hooks["preview"],
                      InvestorsPage!LoadsAfter(v, hooks))
  <1> DEFINE again == InvestorsPage!Rerun(v, hooks)
             loads == InvestorsPage!StillOpen(v, calls.loads)
             after == [h \in InvestorsPage!Hooks |-> IF h \in again THEN InvestorsPage!Async!Begun(v.hooks[h]) ELSE v.hooks[h]]
  <1>1. again \subseteq InvestorsPage!Hooks
    BY DEF InvestorsPage!Rerun
  <1>2. \A l \in loads : FileLoadOK(l)
    BY DEF InvestorsPage!StillOpen, FileInv, FileCallsOK
  <1>3. InvestorsPage!LoadsAfter(v, hooks) = InvestorsPage!Async!Retired(loads, again) \cup {InvestorsPage!LoadOf(v, h) : h \in again}
    BY DEF InvestorsPage!LoadsAfter
  <1>4. InvestorsPage!Begun(v, hooks) = [v EXCEPT !.hooks = after]
    BY DEF InvestorsPage!Begun
  <1>5. after = [h \in InvestorsPage!Hooks |-> IF h \in again THEN InvestorsPage!Async!Begun(v.hooks[h]) ELSE v.hooks[h]]
    OBVIOUS
  <1>6. /\ DialogOK(v.dialog, v.hooks["preview"], loads)
        /\ "preview" \in again => ~v.dialog.reviewed /\ (v.dialog.kind \in Redating => v.hooks["preview"].data = Null)
    OBVIOUS
  <1> HIDE DEF again, loads, after
  <1>7. /\ DOMAIN after = InvestorsPage!Hooks /\ \A h \in InvestorsPage!Hooks : HookShape(after[h])
        /\ \A l \in InvestorsPage!LoadsAfter(v, hooks) : FileLoadOK(l)
        /\ DialogOK(v.dialog, after["preview"], InvestorsPage!LoadsAfter(v, hooks))
    BY <1>1, <1>2, <1>3, <1>6, <1>5, RunsAgain
  <1>8. /\ DOMAIN [v EXCEPT !.hooks = after] = DOMAIN v /\ [v EXCEPT !.hooks = after].hooks = after
        /\ [v EXCEPT !.hooks = after].dialog = v.dialog
    BY DEF FileViewOK
  <1> QED BY <1>4, <1>7, <1>8 DEF FileViewOK

LEMMA KeptKeeps ==
    ASSUME NEW v, NEW loads, FileViewOK(v), DialogOK(v.dialog, v.hooks["preview"], loads)
    PROVE FileViewOK(InvestorsPage!Kept(v)) /\ DialogOK(InvestorsPage!Kept(v).dialog, InvestorsPage!Kept(v).hooks["preview"], loads)
  <1>1. CASE InvestorsPage!Rendered(v)
    BY <1>1 DEF InvestorsPage!Kept
  <1>2. CASE ~InvestorsPage!Rendered(v)
    <2> DEFINE n == InvestorsPage!NoDialog
               hooks == [v.hooks EXCEPT !["preview"] = InvestorsPage!Async!Unmounted]
               w == [v EXCEPT !.dialog = n]
    <2>1. InvestorsPage!Kept(v) = [w EXCEPT !.hooks = hooks]
      BY <1>2 DEF InvestorsPage!Kept, FileViewOK
    <2>2. DialogShape(n) /\ n.kind = "none" /\ ~n.reviewed
      BY DEF InvestorsPage!NoDialog, DialogShape
    <2>3. HookShape(InvestorsPage!Async!Unmounted) /\ "preview" \in InvestorsPage!Hooks
      BY DEF InvestorsPage!Async!Unmounted, HookShape, InvestorsPage!Hooks
    <2>4. /\ DOMAIN hooks = InvestorsPage!Hooks /\ hooks["preview"] = InvestorsPage!Async!Unmounted
          /\ \A h \in InvestorsPage!Hooks : HookShape(hooks[h])
      BY <2>3 DEF FileViewOK
    <2> HIDE DEF n, hooks
    <2>5. DOMAIN w = DOMAIN v /\ w.dialog = n
      BY DEF FileViewOK
    <2> HIDE DEF w
    <2>6. DOMAIN [w EXCEPT !.hooks = hooks] = DOMAIN v /\ [w EXCEPT !.hooks = hooks].hooks = hooks
          /\ [w EXCEPT !.hooks = hooks].dialog = n
      BY <2>5 DEF FileViewOK
    <2>7. DialogOK(n, hooks["preview"], loads)
      BY <2>2, <2>4, BlankPreview DEF Redating
    <2> QED BY <2>1, <2>2, <2>4, <2>6, <2>7 DEF FileViewOK
  <1> QED BY <1>1, <1>2

LEMMA UseKeeps ==
    ASSUME FileInv, NEW v, NEW hooks \in SUBSET InvestorsPage!Hooks, NEW request,
           InvestorsPage!Use(v, hooks, request), FileViewOK(v), FileRequestOK(request),
           DialogOK(v.dialog, v.hooks["preview"], InvestorsPage!StillOpen(v, calls.loads)),
           "preview" \in InvestorsPage!Rerun(v, hooks) =>
              ~v.dialog.reviewed /\ (v.dialog.kind \in Redating => v.hooks["preview"].data = Null)
    PROVE FileInv'
  <1> DEFINE w == InvestorsPage!Begun(v, hooks)
             loads == InvestorsPage!LoadsAfter(v, hooks)
  <1>1. FileViewOK(w) /\ (\A l \in loads : FileLoadOK(l)) /\ DialogOK(w.dialog, w.hooks["preview"], loads)
    BY BegunKeeps
  <1>2. /\ view' = InvestorsPage!Kept(w) /\ server' = server
        /\ calls' = [calls EXCEPT !.loads = loads, !.request = request, !.left = @ - 1]
    BY DEF InvestorsPage!Use
  <1> HIDE DEF w, loads
  <1>3. FileViewOK(view') /\ DialogOK(view'.dialog, view'.hooks["preview"], loads)
    BY <1>1, <1>2, KeptKeeps
  <1>4. DOMAIN calls' = DOMAIN calls /\ calls'.loads = loads /\ calls'.request = request
    BY <1>2 DEF FileInv, FileCallsOK
  <1>5. FileCallsOK(calls')
    BY <1>1, <1>4 DEF FileInv, FileCallsOK
  <1> QED BY <1>2, <1>3, <1>4, <1>5 DEF FileInv

LEMMA FileStart == InvestorsPage!Init => FileInv
  <1> SUFFICES ASSUME InvestorsPage!Init PROVE FileInv
    OBVIOUS
  <1>1. ServerShape(server)
    BY DEF InvestorsPage!Init, ServerShape
  <1>2. calls = [loads |-> {}, request |-> Null, left |-> Events.investors]
    BY DEF InvestorsPage!Init
  <1>3. FileCallsOK(calls) /\ calls.loads = {}
    BY <1>2 DEF FileCallsOK, FileRequestOK
  <1>4. FileViewOK(view) /\ DialogOK(view.dialog, view.hooks["preview"], {})
    <2> DEFINE d == InvestorsPage!NoDialog
               u == InvestorsPage!Async!Unmounted
               blank(i) == [selected |-> i, section |-> "plans", track |-> "active", editing |-> Null,
                            issued |-> Null, dialog |-> d, hooks |-> [h \in InvestorsPage!Hooks |-> u]]
               answer(i, h) == InvestorsPage!Async!Answer(InvestorsPage!KeyOf(blank(i), h), InvestorsPage!Rows(blank(i), h))
               hooks(i) == [h \in InvestorsPage!Hooks |-> IF h = "preview" THEN u
                              ELSE InvestorsPage!Async!Resolved(u, answer(i, h))]
    <2>1. DialogShape(d) /\ d.kind = "none" /\ ~d.reviewed
      BY DEF InvestorsPage!NoDialog, DialogShape
    <2>2. HookShape(u) /\ u.data = Null /\ \A x : HookShape(InvestorsPage!Async!Resolved(u, x))
      BY DEF InvestorsPage!Async!Unmounted, HookShape, InvestorsPage!Async!Resolved
    <2> DEFINE first(i) == [h \in InvestorsPage!Hooks |-> IF h = "preview" THEN blank(i).hooks[h]
                              ELSE InvestorsPage!Async!Resolved(blank(i).hooks[h], answer(i, h))]
    <2>3. PICK i : view = [blank(i) EXCEPT !.hooks = first(i)]
      BY DEF InvestorsPage!Init
    <2>4. \A h \in InvestorsPage!Hooks : blank(i).hooks[h] = u
      OBVIOUS
    <2> HIDE DEF answer
    <2>5. first(i) = hooks(i)
      BY <2>4
    <2>6. view = [blank(i) EXCEPT !.hooks = hooks(i)]
      BY <2>3, <2>5
    <2>7. /\ DOMAIN hooks(i) = InvestorsPage!Hooks /\ hooks(i)["preview"] = u
          /\ \A h \in InvestorsPage!Hooks : HookShape(hooks(i)[h])
      BY <2>2 DEF InvestorsPage!Hooks
    <2> HIDE DEF d, u, hooks
    <2>8. /\ DOMAIN view = {"selected", "section", "track", "editing", "issued", "dialog", "hooks"}
          /\ view.dialog = d /\ view.hooks = hooks(i)
      BY <2>6
    <2>9. DialogOK(d, u, {})
      BY <2>1, <2>2 DEF DialogOK, Previews, Coming, Redating
    <2> QED BY <2>1, <2>7, <2>8, <2>9 DEF FileViewOK
  <1> QED BY <1>1, <1>3, <1>4 DEF FileInv

(* The key of the preview is of the dialog alone.                            *)
LEMMA PreviewKey == ASSUME NEW v, NEW hooks, "preview" \notin hooks,
        v.dialog.kind = view.dialog.kind, v.dialog.source = view.dialog.source,
        v.dialog.kind = "close" => v.dialog.date = view.dialog.date
    PROVE "preview" \notin InvestorsPage!Rerun(v, hooks)
  BY DEF InvestorsPage!Rerun, InvestorsPage!KeyOf

(* The dialog stays open, for the same document and with the same tick.      *)
LEMMA StillOpenKeeps == ASSUME FileInv, NEW v, NEW d, NEW hook, DialogOK(d, hook, calls.loads)
    PROVE DialogOK(d, hook, InvestorsPage!StillOpen(v, calls.loads))
  <1>1. Previews(InvestorsPage!StillOpen(v, calls.loads)) \subseteq Previews(calls.loads)
    BY DEF InvestorsPage!StillOpen, Previews
  <1> QED BY <1>1, FewerLoads

LEMMA SameUseKeeps ==
    ASSUME FileInv, NEW v, NEW hooks \in SUBSET InvestorsPage!Hooks, NEW request, InvestorsPage!Use(v, hooks, request),
           "preview" \notin hooks, FileViewOK(v), FileRequestOK(request), v.hooks["preview"] = view.hooks["preview"],
           v.dialog.kind = view.dialog.kind, v.dialog.source = view.dialog.source, v.dialog.date = view.dialog.date,
           v.dialog.reviewed = view.dialog.reviewed, v.dialog.ticked = view.dialog.ticked
    PROVE FileInv'
  <1>1. DialogOK(v.dialog, v.hooks["preview"], calls.loads)
    BY SameDialog DEF FileInv
  <1>2. DialogOK(v.dialog, v.hooks["preview"], InvestorsPage!StillOpen(v, calls.loads))
    BY <1>1, StillOpenKeeps
  <1>3. "preview" \notin InvestorsPage!Rerun(v, hooks)
    BY PreviewKey
  <1> QED BY <1>2, <1>3, UseKeeps

LEMMA CalmRequests ==
    /\ FileRequestOK(Null)
    /\ \A op, who, source : op \notin Prepared /\ op \in {"cancel", "update", "delete", "investor"} =>
          FileRequestOK(InvestorsPage!Simple(op, who, source))
    /\ \A op, who, source, date, hash : op \in Prepared =>
          FileRequestOK(InvestorsPage!Request(op, who, source, date, hash, hash))
  <1>1. ASSUME NEW op, NEW who, NEW source, NEW date, NEW hash, NEW ticked,
               op \in Prepared \cup {"cancel", "update", "delete", "investor"}, op \in Prepared => hash = ticked
        PROVE FileRequestOK(InvestorsPage!Request(op, who, source, date, hash, ticked))
    <2> DEFINE r == InvestorsPage!Request(op, who, source, date, hash, ticked)
    <2>1. /\ DOMAIN r = {"op", "who", "source", "date", "hash", "ticked", "current", "outcome", "made"}
          /\ r.op = op /\ r.hash = hash /\ r.ticked = ticked
      BY DEF InvestorsPage!Request
    <2> QED BY <1>1, <2>1 DEF FileRequestOK
  <1> QED BY <1>1 DEF FileRequestOK, InvestorsPage!Simple

LEMMA SetField == ASSUME NEW v, FileViewOK(v) 
    PROVE /\ \A x : LET w == [v EXCEPT !.section = x] IN FileViewOK(w) /\ w.dialog = v.dialog /\ w.hooks = v.hooks
          /\ \A x : LET w == [v EXCEPT !.track = x] IN FileViewOK(w) /\ w.dialog = v.dialog /\ w.hooks = v.hooks
          /\ \A x : LET w == [v EXCEPT !.editing = x] IN FileViewOK(w) /\ w.dialog = v.dialog /\ w.hooks = v.hooks
          /\ \A x : LET w == [v EXCEPT !.issued = x] IN FileViewOK(w) /\ w.dialog = v.dialog /\ w.hooks = v.hooks
          /\ \A x : LET w == [v EXCEPT !.selected = x] IN FileViewOK(w) /\ w.dialog = v.dialog /\ w.hooks = v.hooks
          /\ \A d : LET w == [v EXCEPT !.dialog = d] IN (DialogShape(d) => FileViewOK(w)) /\ w.dialog = d /\ w.hooks = v.hooks
          /\ \A h : LET w == [v EXCEPT !.hooks = h] IN
               /\ DOMAIN h = InvestorsPage!Hooks /\ (\A k \in InvestorsPage!Hooks : HookShape(h[k])) => FileViewOK(w)
               /\ w.dialog = v.dialog /\ w.hooks = h
  BY DEF FileViewOK

LEMMA FileCalmKeeps ==
    ASSUME FileInv, FileViewOK(view'), view'.dialog = view.dialog, view'.hooks = view.hooks,
           FileCallsOK(calls'), calls'.loads = calls.loads, ServerShape(server')
    PROVE FileInv'
  BY DEF FileInv

LEMMA FileTabsKeep ==
    ASSUME FileInv, InvestorsPage!GoToSection \/ InvestorsPage!ShowTrack \/ InvestorsPage!ToggleEdit \/ InvestorsPage!CloseIssued
    PROVE FileInv'
  <1>1. server' = server /\ calls' = calls
    BY DEF InvestorsPage!GoToSection, InvestorsPage!ShowTrack, InvestorsPage!ToggleEdit, InvestorsPage!CloseIssued
  <1>2. FileViewOK(view') /\ view'.dialog = view.dialog /\ view'.hooks = view.hooks
    <2>1. \/ view' = view
          \/ \E x : view' = [view EXCEPT !.section = x]
          \/ \E x : view' = [view EXCEPT !.track = x]
          \/ \E x : view' = [view EXCEPT !.editing = x]
          \/ view' = [view EXCEPT !.issued = Null]
      BY Zenon DEF InvestorsPage!GoToSection, InvestorsPage!ShowTrack, InvestorsPage!ToggleEdit, InvestorsPage!CloseIssued
    <2> QED BY <2>1 DEF FileInv, FileViewOK
  <1> QED BY <1>1, <1>2, FileCalmKeeps DEF FileInv

LEMMA FileOthersKeep == ASSUME FileInv, InvestorsPage!Others PROVE FileInv'
  <1>1. view' = view /\ calls' = [calls EXCEPT !.left = @ - 1]
    BY DEF InvestorsPage!Others
  <1>2. ServerShape(server')
    BY DEF InvestorsPage!Others, FileInv, ServerShape
  <1>3. FileCallsOK(calls') /\ calls'.loads = calls.loads
    BY <1>1 DEF FileInv, FileCallsOK
  <1> QED BY <1>1, <1>2, <1>3, FileCalmKeeps DEF FileInv

LEMMA FileAppliesKeep == ASSUME FileInv, InvestorsPage!RequestApplied PROVE FileInv'
  <1>1. view' = view /\ calls.request # Null /\ ServerShape(server)
    BY DEF InvestorsPage!RequestApplied, FileInv
  <1>2. PICK outcome, made : calls' = [calls EXCEPT !.request.outcome = outcome,
                                              !.request.made = made]
    BY DEF InvestorsPage!RequestApplied
  <1> DEFINE sent == [calls.request EXCEPT !.outcome = outcome, !.made = made]
  <1>3. calls' = [calls EXCEPT !.request = sent]
    BY <1>2 DEF FileInv, FileCallsOK
  <1>4. FileRequestOK(sent)
    <2>1. DOMAIN sent = DOMAIN calls.request /\ sent.op = calls.request.op
          /\ sent.hash = calls.request.hash /\ sent.ticked = calls.request.ticked
      BY <1>1 DEF FileInv, FileCallsOK, FileRequestOK
    <2> HIDE DEF sent
    <2> QED BY <1>1, <2>1 DEF FileInv, FileCallsOK, FileRequestOK
  <1> HIDE DEF sent
  <1>5. FileCallsOK(calls') /\ calls'.loads = calls.loads
    BY <1>3, <1>4 DEF FileInv, FileCallsOK
  <1>6. ServerShape(server')
    <2> DEFINE r == calls.request
    <2>1. \/ server' = server
          \/ server' = [server EXCEPT !.agreements[r.source].status = "cancelled"]
          \/ server' = [server EXCEPT !.version[r.who] = @ + 1]
          \/ server' = [server EXCEPT !.plans[r.source] = "deleted"]
          \/ server' = [server EXCEPT !.book = @ \cup {r.who}]
          \/ server' = InvestorsPage!WithAgreement(r)
      BY DEF InvestorsPage!RequestApplied
    <2> QED BY <1>1, <2>1 DEF ServerShape, InvestorsPage!WithAgreement
  <1> QED BY <1>1, <1>5, <1>6, FileCalmKeeps DEF FileInv

LEMMA FileSelectsKeep ==
    ASSUME FileInv, InvestorsPage!SelectInvestor \/ InvestorsPage!RetryPage \/ InvestorsPage!CancelDraft
                    \/ InvestorsPage!SaveOrDeletePlan \/ InvestorsPage!CreateInvestor
    PROVE FileInv'
  <1>1. "preview" \notin {} /\ "preview" \notin InvestorsPage!PageHooks /\ "preview" \notin {"investors"}
        /\ InvestorsPage!PageHooks \in SUBSET InvestorsPage!Hooks /\ {"investors"} \in SUBSET InvestorsPage!Hooks
        /\ {} \in SUBSET InvestorsPage!Hooks
    BY DEF InvestorsPage!PageHooks, InvestorsPage!Hooks
  <1>2. FileViewOK(view) /\ FileRequestOK(calls.request)
    BY DEF FileInv, FileCallsOK
  <1>3. CASE InvestorsPage!SelectInvestor
    <2>1. PICK i : InvestorsPage!Use([view EXCEPT !.selected = i, !.track = "active", !.editing = Null], {}, calls.request)
      BY <1>3 DEF InvestorsPage!SelectInvestor
    <2> DEFINE v == [view EXCEPT !.selected = i, !.track = "active", !.editing = Null]
    <2>2. FileViewOK(v) /\ v.dialog = view.dialog /\ v.hooks = view.hooks
      BY <1>2 DEF FileViewOK
    <2>3. InvestorsPage!Use(v, {}, calls.request)
      BY <2>1
    <2> HIDE DEF v
    <2> QED BY <1>1, <1>2, <2>2, <2>3, SameUseKeeps
  <1>4. CASE InvestorsPage!RetryPage
    <2>1. \/ InvestorsPage!Use(view, InvestorsPage!PageHooks, calls.request)
          \/ InvestorsPage!Use(view, {"investors"}, calls.request)
      BY <1>4 DEF InvestorsPage!RetryPage
    <2> QED BY <1>1, <1>2, <2>1, SameUseKeeps
  <1>5. CASE InvestorsPage!CancelDraft \/ InvestorsPage!SaveOrDeletePlan \/ InvestorsPage!CreateInvestor
    <2>1. PICK op, who, source :
             /\ op \in {"cancel", "update", "delete", "investor"}
             /\ InvestorsPage!Use(view, {}, InvestorsPage!Simple(op, who, source))
      BY <1>5 DEF InvestorsPage!CancelDraft, InvestorsPage!SaveOrDeletePlan, InvestorsPage!CreateInvestor
    <2>2. op \notin Prepared
      BY <2>1 DEF Prepared
    <2>3. FileRequestOK(InvestorsPage!Simple(op, who, source))
      BY <2>1, <2>2, CalmRequests
    <2> QED BY <1>1, <1>2, <2>1, <2>3, SameUseKeeps
  <1> QED BY <1>3, <1>4, <1>5

LEMMA FilePreparesKeep == ASSUME FileInv, InvestorsPage!Prepare \/ InvestorsPage!PrepareNewPlan PROVE FileInv'
  <1> DEFINE d == view.dialog
             sending == InvestorsPage!Sending(d)
             v == [view EXCEPT !.dialog = sending]
  <1>1. FileViewOK(view) /\ DialogShape(d)
    BY DEF FileInv, FileViewOK
  <1>2. DialogShape(sending) /\ sending.kind = d.kind /\ sending.source = d.source /\ sending.date = d.date
        /\ sending.reviewed = d.reviewed /\ sending.ticked = d.ticked
    BY <1>1 DEF DialogShape, InvestorsPage!Sending
  <1>3. PICK request : InvestorsPage!Use([view EXCEPT !.dialog = InvestorsPage!Sending(@)], {}, request) /\ FileRequestOK(request)
    <2>1. CASE InvestorsPage!Prepare
      <3>1. d.reviewed /\ InvestorsPage!Use([view EXCEPT !.dialog = InvestorsPage!Sending(@)], {},
              InvestorsPage!Request(d.kind, InvestorsPage!SubjectOf(d.kind, d.source), d.source, d.date,
                                    InvestorsPage!Shown("preview"), d.ticked))
        BY <2>1 DEF InvestorsPage!Prepare
      <3>2. d.ticked = InvestorsPage!Shown("preview") /\ d.kind \in Prepared
        BY <3>1 DEF FileInv, DialogOK, InvestorsPage!Shown, Prepared, Redating
      <3> QED BY <3>1, <3>2, CalmRequests
    <2>2. CASE InvestorsPage!PrepareNewPlan
      <3>1. PICK i, date, doc : InvestorsPage!Use([view EXCEPT !.dialog = InvestorsPage!Sending(@)], {},
                                                  InvestorsPage!Request("new", i, i, date, doc, doc))
        BY <2>2 DEF InvestorsPage!PrepareNewPlan
      <3> QED BY <3>1, CalmRequests DEF Prepared
    <2> QED BY <2>1, <2>2
  <1>4. InvestorsPage!Use(v, {}, request)
    BY <1>3
  <1>5. FileViewOK(v) /\ v.dialog = sending /\ v.hooks = view.hooks
    BY <1>1, <1>2, SetField
  <1> HIDE DEF v, sending
  <1> QED BY <1>2, <1>3, <1>4, <1>5, SameUseKeeps

(* What opening, changing and reviewing a dialog does to it.                 *)
LEMMA ClearedTick == ASSUME NEW d, DialogShape(d)
    PROVE LET e == InvestorsPage!TickCleared(d) IN
          DialogShape(e) /\ ~e.reviewed /\ e.kind = d.kind /\ e.source = d.source /\ e.date = d.date /\ e.busy = d.busy
  BY DEF DialogShape, InvestorsPage!TickCleared

LEMMA Regeneration == ASSUME NEW v, FileViewOK(v)
    PROVE LET w == InvestorsPage!Regenerated(v) IN
          /\ FileViewOK(w) /\ w.dialog = InvestorsPage!TickCleared(v.dialog)
          /\ w.hooks["preview"] = InvestorsPage!Async!Unmounted
  <1> DEFINE d == InvestorsPage!TickCleared(v.dialog)
             u == InvestorsPage!Async!Unmounted
             hooks == [v.hooks EXCEPT !["preview"] = u]
             w == [v EXCEPT !.dialog = d]
  <1>1. DialogShape(d)
    BY ClearedTick DEF FileViewOK
  <1>2. HookShape(u) /\ "preview" \in InvestorsPage!Hooks
    BY DEF InvestorsPage!Async!Unmounted, HookShape, InvestorsPage!Hooks
  <1>3. InvestorsPage!Regenerated(v) = [w EXCEPT !.hooks = hooks]
    BY DEF InvestorsPage!Regenerated, FileViewOK
  <1> HIDE DEF d, u
  <1>4. /\ DOMAIN hooks = InvestorsPage!Hooks /\ hooks["preview"] = u
        /\ \A h \in InvestorsPage!Hooks : HookShape(hooks[h])
    BY <1>2 DEF FileViewOK
  <1> HIDE DEF hooks
  <1>5. DOMAIN w = DOMAIN v /\ w.dialog = d
    BY DEF FileViewOK
  <1> HIDE DEF w
  <1>6. DOMAIN [w EXCEPT !.hooks = hooks] = DOMAIN v /\ [w EXCEPT !.hooks = hooks].hooks = hooks
        /\ [w EXCEPT !.hooks = hooks].dialog = d
    BY <1>5 DEF FileViewOK
  <1>7. FileViewOK([w EXCEPT !.hooks = hooks])
    BY <1>1, <1>4, <1>6 DEF FileViewOK
  <1> QED BY <1>3, <1>4, <1>6, <1>7 DEF d, u

LEMMA FileOpensKeep == ASSUME FileInv, InvestorsPage!OpenDialog PROVE FileInv'
  <1>1. FileViewOK(view) /\ FileRequestOK(calls.request)
    BY DEF FileInv, FileCallsOK
  <1>2. view.dialog = InvestorsPage!NoDialog
        /\ \E kind \in Prepared : \E source : InvestorsPage!Use(InvestorsPage!Opened(kind, source), {}, calls.request)
    <2>1. ASSUME NEW kind \in Prepared, NEW source, InvestorsPage!CanOpen(kind, source) PROVE view.dialog = InvestorsPage!NoDialog
      BY <2>1 DEF Prepared, InvestorsPage!CanOpen, InvestorsPage!Card, InvestorsPage!Row, InvestorsPage!Uncovered
    <2>2. \E kind \in Prepared : \E source :
             /\ InvestorsPage!CanOpen(kind, source)
             /\ InvestorsPage!Use(InvestorsPage!Opened(kind, source), {}, calls.request)
      BY DEF InvestorsPage!OpenDialog, Prepared
    <2> QED BY <2>1, <2>2
  <1>3. PICK kind, source : kind \in Prepared /\ InvestorsPage!Use(InvestorsPage!Opened(kind, source), {}, calls.request)
    BY <1>2
  <1> DEFINE n == InvestorsPage!NoDialog
             d == [n EXCEPT !.kind = kind, !.source = source]
             u == InvestorsPage!Async!Unmounted
             hooks == [view.hooks EXCEPT !["preview"] = u]
             w == [view EXCEPT !.dialog = d]
             v == InvestorsPage!Opened(kind, source)
  <1>4. DialogShape(d) /\ d.kind = kind /\ ~d.reviewed /\ n.kind = "none"
    BY DEF InvestorsPage!NoDialog, DialogShape
  <1>5. HookShape(u) /\ u.data = Null /\ "preview" \in InvestorsPage!Hooks
    BY DEF InvestorsPage!Async!Unmounted, HookShape, InvestorsPage!Hooks
  <1>6. v = [w EXCEPT !.hooks = hooks]
    BY <1>1 DEF InvestorsPage!Opened, FileViewOK
  <1> HIDE DEF n, d, u, v
  <1>7. /\ DOMAIN hooks = InvestorsPage!Hooks /\ hooks["preview"] = u
        /\ \A h \in InvestorsPage!Hooks : HookShape(hooks[h])
    BY <1>1, <1>5 DEF FileViewOK
  <1> HIDE DEF hooks
  <1>8. DOMAIN w = DOMAIN view /\ w.dialog = d
    BY <1>1 DEF FileViewOK
  <1> HIDE DEF w
  <1>9. DOMAIN v = DOMAIN view /\ v.hooks = hooks /\ v.dialog = d
    BY <1>1, <1>6, <1>8 DEF FileViewOK
  <1>10. FileViewOK(v)
    BY <1>1, <1>4, <1>7, <1>9 DEF FileViewOK
  <1>11. kind # "none"
    BY <1>3 DEF Prepared
  <1>12. Previews(InvestorsPage!StillOpen(v, calls.loads)) = {}
    BY <1>2, <1>4, <1>9, <1>11 DEF InvestorsPage!StillOpen, Previews, n
  <1>13. DialogOK(d, u, InvestorsPage!StillOpen(v, calls.loads))
    BY <1>4, <1>5, <1>12 DEF DialogOK, Coming
  <1>14. {} \in SUBSET InvestorsPage!Hooks /\ InvestorsPage!Use(v, {}, calls.request)
    BY <1>3 DEF v
  <1>15. DialogOK(v.dialog, v.hooks["preview"], InvestorsPage!StillOpen(v, calls.loads))
         /\ ~v.dialog.reviewed /\ v.hooks["preview"].data = Null
    BY <1>4, <1>5, <1>7, <1>9, <1>13
  <1> QED BY <1>1, <1>10, <1>14, <1>15, UseKeeps

LEMMA FileClosesKeep == ASSUME FileInv, InvestorsPage!CloseDialog PROVE FileInv'
  <1> DEFINE n == InvestorsPage!NoDialog
             v == [view EXCEPT !.dialog = n]
  <1>1. FileViewOK(view) /\ FileRequestOK(calls.request) /\ DialogOK(view.dialog, view.hooks["preview"], calls.loads)
    BY DEF FileInv, FileCallsOK
  <1>2. DialogShape(n) /\ n.kind \notin Redating /\ ~n.reviewed
    BY DEF InvestorsPage!NoDialog, DialogShape, Redating
  <1>3. InvestorsPage!Use(v, {}, calls.request) /\ {} \in SUBSET InvestorsPage!Hooks
    BY DEF InvestorsPage!CloseDialog
  <1> HIDE DEF n
  <1>4. FileViewOK(v) /\ v.dialog = n /\ v.hooks = view.hooks
    BY <1>1, <1>2 DEF FileViewOK
  <1> HIDE DEF v
  <1>5. DialogOK(n, view.hooks["preview"], calls.loads)
    BY <1>1, <1>2, PlainDialog
  <1>6. DialogOK(v.dialog, v.hooks["preview"], InvestorsPage!StillOpen(v, calls.loads))
    BY <1>4, <1>5, StillOpenKeeps
  <1> QED BY <1>1, <1>2, <1>3, <1>4, <1>6, UseKeeps

LEMMA FileDatesKeep == ASSUME FileInv, InvestorsPage!ChangeDate PROVE FileInv'
  <1> DEFINE changed(x) == [view EXCEPT !.dialog.date = x]
  <1>1. PICK x \in InvestorsPage!Dates :
           /\ view.dialog.kind \notin {"none", "new"}
           /\ \/ /\ view.dialog.kind = "close"
                 /\ InvestorsPage!Use([changed(x) EXCEPT !.dialog = InvestorsPage!TickCleared(@)], {}, calls.request)
              \/ /\ view.dialog.kind # "close" /\ view' = InvestorsPage!Regenerated(changed(x))
                 /\ calls' = [calls EXCEPT !.loads = InvestorsPage!Async!Retired(@, {"preview"})] /\ server' = server
    BY DEF InvestorsPage!ChangeDate
  <1> DEFINE d == [view.dialog EXCEPT !.date = x]
             e == InvestorsPage!TickCleared(d)
             v == changed(x)
  <1>2. FileViewOK(view) /\ FileCallsOK(calls) /\ ServerShape(server)
        /\ DialogOK(view.dialog, view.hooks["preview"], calls.loads)
    BY DEF FileInv
  <1>3. DialogShape(d) /\ d.kind = view.dialog.kind
    BY <1>2 DEF FileViewOK, DialogShape
  <1>4. v = [view EXCEPT !.dialog = d]
    BY <1>2 DEF FileViewOK
  <1> HIDE DEF d, changed
  <1>5. FileViewOK(v) /\ v.dialog = d /\ v.hooks = view.hooks
    BY <1>2, <1>3, <1>4 DEF FileViewOK
  <1> HIDE DEF v
  <1>6. DialogShape(e) /\ ~e.reviewed /\ e.kind = view.dialog.kind
    BY <1>3, ClearedTick
  <1>7. CASE view.dialog.kind = "close"
    <2> DEFINE w == [v EXCEPT !.dialog = e]
    <2>1. [v EXCEPT !.dialog = InvestorsPage!TickCleared(@)] = w
      BY <1>5 DEF FileViewOK
    <2>2. InvestorsPage!Use(w, {}, calls.request) /\ {} \in SUBSET InvestorsPage!Hooks
      BY <1>1, <1>7, <2>1 DEF v
    <2> HIDE DEF e
    <2>3. FileViewOK(w) /\ w.dialog = e /\ w.hooks = view.hooks
      BY <1>5, <1>6 DEF FileViewOK
    <2> HIDE DEF w
    <2>4. e.kind \notin Redating
      BY <1>6, <1>7 DEF Redating
    <2>5. DialogOK(w.dialog, w.hooks["preview"], InvestorsPage!StillOpen(w, calls.loads))
      BY <1>2, <1>6, <2>3, <2>4, PlainDialog, StillOpenKeeps
    <2>6. FileRequestOK(calls.request) /\ ~w.dialog.reviewed /\ w.dialog.kind \notin Redating
      BY <1>2, <1>6, <2>3, <2>4 DEF FileCallsOK
    <2> QED BY <2>2, <2>3, <2>5, <2>6, UseKeeps
  <1>8. CASE view.dialog.kind # "close"
    <2> DEFINE loads == InvestorsPage!Async!Retired(calls.loads, {"preview"})
               w == InvestorsPage!Regenerated(v)
    <2>1. /\ \A l \in loads : FileLoadOK(l)
          /\ Coming(loads) = {}
          /\ \A l \in Previews(loads) : \E k \in Previews(calls.loads) : k.answer = l.answer
      BY <1>2, RetiredLoads DEF FileCallsOK
    <2>2. view' = w /\ calls' = [calls EXCEPT !.loads = loads] /\ server' = server
      BY <1>1, <1>8 DEF v
    <2>3. FileViewOK(w) /\ w.dialog = e /\ w.hooks["preview"] = InvestorsPage!Async!Unmounted
      BY <1>5, Regeneration
    <2> HIDE DEF w, e, loads
    <2>4. DOMAIN calls' = DOMAIN calls /\ calls'.loads = loads /\ calls'.request = calls.request
      BY <1>2, <2>2 DEF FileCallsOK
    <2>5. FileCallsOK(calls')
      BY <1>2, <2>1, <2>4 DEF FileCallsOK
    <2>6. InvestorsPage!Async!Unmounted.data = Null
      BY DEF InvestorsPage!Async!Unmounted
    <2>7. DialogOK(e, InvestorsPage!Async!Unmounted, loads)
      BY <1>2, <1>6, <2>1, <2>6 DEF DialogOK
    <2> QED BY <1>2, <2>2, <2>3, <2>4, <2>5, <2>7 DEF FileInv
  <1> QED BY <1>7, <1>8

LEMMA FileReadsKeep == ASSUME FileInv, InvestorsPage!LoadPreview \/ InvestorsPage!RetryPreview PROVE FileInv'
  <1>1. FileViewOK(view) /\ FileRequestOK(calls.request) /\ DialogOK(view.dialog, view.hooks["preview"], calls.loads)
        /\ {"preview"} \in SUBSET InvestorsPage!Hooks
    BY DEF FileInv, FileCallsOK, InvestorsPage!Hooks
  <1>2. CASE InvestorsPage!RetryPreview
    <2>1. InvestorsPage!Use(view, {"preview"}, calls.request) /\ view.dialog.kind = "close" /\ view.hooks["preview"].error
      BY <1>2 DEF InvestorsPage!RetryPreview
    <2>2. ~view.dialog.reviewed /\ view.dialog.kind \notin Redating
      BY <1>1, <2>1 DEF DialogOK, Redating
    <2>3. DialogOK(view.dialog, view.hooks["preview"], InvestorsPage!StillOpen(view, calls.loads))
      BY <1>1, StillOpenKeeps
    <2> QED BY <1>1, <2>1, <2>2, <2>3, UseKeeps
  <1>3. CASE InvestorsPage!LoadPreview
    <2> DEFINE w == InvestorsPage!Regenerated(view)
               d == [w.dialog EXCEPT !.busy = TRUE]
               v == [w EXCEPT !.dialog = d]
               u == InvestorsPage!Async!Unmounted
    <2>1. InvestorsPage!Use([w EXCEPT !.dialog.busy = TRUE], {"preview"}, calls.request)
      BY <1>3 DEF InvestorsPage!LoadPreview
    <2>2. FileViewOK(w) /\ w.dialog = InvestorsPage!TickCleared(view.dialog) /\ w.hooks["preview"] = u
      BY <1>1, Regeneration
    <2>3. DialogShape(w.dialog) /\ ~w.dialog.reviewed /\ w.dialog.kind = view.dialog.kind /\ w.dialog.date = view.dialog.date
      BY <1>1, <2>2, ClearedTick DEF FileViewOK
    <2> HIDE DEF w
    <2>4. DialogShape(d) /\ ~d.reviewed /\ d.kind = view.dialog.kind /\ d.date = view.dialog.date
      BY <2>3 DEF DialogShape
    <2>5. [w EXCEPT !.dialog.busy = TRUE] = v
      BY <2>2 DEF FileViewOK
    <2> HIDE DEF d
    <2>6. FileViewOK(v) /\ v.dialog = d /\ v.hooks = w.hooks
      BY <2>2, <2>4 DEF FileViewOK
    <2>7. InvestorsPage!Use(v, {"preview"}, calls.request)
      BY <2>1, <2>5
    <2> HIDE DEF v
    <2>8. DialogOK(d, u, calls.loads)
      BY <1>1, <2>4, BlankPreview
    <2>9. DialogOK(v.dialog, v.hooks["preview"], InvestorsPage!StillOpen(v, calls.loads))
      BY <2>2, <2>6, <2>8, StillOpenKeeps
    <2>10. u.data = Null
      BY DEF InvestorsPage!Async!Unmounted
    <2>11. ~v.dialog.reviewed /\ v.hooks["preview"].data = Null
      BY <2>2, <2>4, <2>6, <2>10
    <2> QED BY <1>1, <2>6, <2>7, <2>9, <2>11, UseKeeps
  <1> QED BY <1>2, <1>3

LEMMA FileTicksKeep == ASSUME FileInv, InvestorsPage!Tick PROVE FileInv'
  <1> DEFINE d == view.dialog
             rows == view.hooks["preview"].data.rows
             ticked == IF d.reviewed THEN Null ELSE [rows EXCEPT !.date = d.date]
             e == [d EXCEPT !.reviewed = ~@]
             f == [e EXCEPT !.ticked = ticked]
  <1>1. /\ InvestorsPage!Ready /\ server' = server /\ calls' = calls
        /\ view' = [view EXCEPT !.dialog.reviewed = ~@, !.dialog.ticked = ticked]
    BY DEF InvestorsPage!Tick, InvestorsPage!Shown
  <1>2. FileViewOK(view) /\ DialogShape(d) /\ DialogOK(d, view.hooks["preview"], calls.loads)
    BY DEF FileInv, FileViewOK
  <1>3. view' = [view EXCEPT !.dialog = f]
    BY <1>1, <1>2 DEF FileViewOK, DialogShape
  <1>4. /\ d.kind \in Redating \cup {"close"} /\ view.hooks["preview"].data # Null
        /\ DatedDoc(d, rows) /\ Coming(calls.loads) = {}
        /\ d.kind = "close" => ~view.hooks["preview"].error
    <2>1. CASE d.kind = "close"
      BY <1>1, <1>2, <2>1 DEF InvestorsPage!Ready, InvestorsPage!Has, InvestorsPage!Shown, DialogOK, Doc, DatedDoc
    <2>2. CASE d.kind \in Redating
      BY <1>1, <1>2, <2>2 DEF InvestorsPage!Ready, InvestorsPage!Has, DialogOK, Redating
    <2> QED BY <1>1, <2>1, <2>2 DEF InvestorsPage!Ready, Redating
  <1>5. [rows EXCEPT !.date = d.date] = rows
    <2>1. rows = [kind |-> rows.kind, source |-> rows.source, date |-> rows.date, version |-> rows.version] /\ rows.date = d.date
      BY <1>4 DEF DatedDoc, IsDoc, InvestorsPage!Document
    <2> HIDE DEF rows
    <2> QED BY <2>1
  <1> HIDE DEF ticked
  <1>6. DOMAIN e = DOMAIN d /\ e.kind = d.kind /\ e.date = d.date /\ e.reviewed \in BOOLEAN /\ (e.reviewed <=> ~d.reviewed)
    BY <1>2 DEF DialogShape
  <1> HIDE DEF e
  <1>7. DialogShape(f) /\ f.kind = d.kind /\ f.date = d.date /\ (f.reviewed <=> ~d.reviewed) /\ f.ticked = ticked
    BY <1>2, <1>6 DEF DialogShape
  <1> HIDE DEF f
  <1>8. FileViewOK(view') /\ view'.dialog = f /\ view'.hooks = view.hooks
    BY <1>2, <1>3, <1>7 DEF FileViewOK
  <1>9. f.reviewed => f.ticked = rows
    BY <1>5, <1>7 DEF ticked
  <1>10. DialogOK(f, view.hooks["preview"], calls.loads)
    BY <1>2, <1>4, <1>7, <1>9 DEF DialogOK, DatedDoc
  <1> QED BY <1>1, <1>8, <1>10 DEF FileInv

LEMMA FileDropsKeep == ASSUME FileInv, NEW l \in calls.loads, InvestorsPage!LoadFailed(l) PROVE FileInv'
  <1> DEFINE d == view.dialog
             busy == d.busy /\ (d.sent \/ l.hook # "preview")
             e == [d EXCEPT !.busy = busy]
             hooks == [view.hooks EXCEPT ![l.hook] = InvestorsPage!Async!Failed(@, l)]
             loads == calls.loads \ {l}
             w == [view EXCEPT !.hooks = hooks]
  <1>1. FileViewOK(view) /\ FileCallsOK(calls) /\ DialogShape(d) /\ DialogOK(d, view.hooks["preview"], calls.loads)
    BY DEF FileInv, FileViewOK
  <1>2. view' = [w EXCEPT !.dialog = e]
    BY <1>1 DEF InvestorsPage!LoadFailed, FileViewOK
  <1>3. calls' = [calls EXCEPT !.loads = loads, !.left = @ - 1] /\ server' = server
    BY DEF InvestorsPage!LoadFailed
  <1> HIDE DEF busy
  <1>4. DialogShape(e) /\ e.kind = d.kind /\ e.date = d.date /\ e.reviewed = d.reviewed /\ e.ticked = d.ticked
    BY <1>1 DEF DialogShape
  <1>5. \A h \in InvestorsPage!Hooks :
           /\ HookShape(InvestorsPage!Async!Failed(view.hooks[h], l))
           /\ InvestorsPage!Async!Failed(view.hooks[h], l).data = view.hooks[h].data
           /\ ~l.alive => InvestorsPage!Async!Failed(view.hooks[h], l) = view.hooks[h]
    BY <1>1 DEF FileViewOK, HookShape, InvestorsPage!Async!Failed, InvestorsPage!Async!Rejected
  <1>6. /\ DOMAIN hooks = InvestorsPage!Hooks /\ \A h \in InvestorsPage!Hooks : HookShape(hooks[h])
        /\ hooks["preview"].data = view.hooks["preview"].data
        /\ hooks["preview"] = view.hooks["preview"] \/ l \in Coming(calls.loads)
    BY <1>1, <1>5 DEF FileViewOK, Coming, Previews, InvestorsPage!Hooks
  <1> HIDE DEF e, hooks
  <1>7. DOMAIN w = DOMAIN view /\ w.hooks = hooks /\ w.dialog = d
    BY <1>1 DEF FileViewOK
  <1> HIDE DEF w
  <1>8. DOMAIN view' = DOMAIN view /\ view'.hooks = hooks /\ view'.dialog = e
    BY <1>1, <1>2, <1>7 DEF FileViewOK
  <1>9. FileViewOK(view')
    BY <1>1, <1>4, <1>6, <1>8 DEF FileViewOK
  <1>10. DOMAIN calls' = DOMAIN calls /\ calls'.loads = loads /\ calls'.request = calls.request
    BY <1>1, <1>3 DEF FileCallsOK
  <1>11. Previews(loads) \subseteq Previews(calls.loads) /\ Coming(loads) = Coming(calls.loads) \ {l}
    BY DEF Previews, Coming
  <1>12. FileCallsOK(calls')
    BY <1>1, <1>10 DEF FileCallsOK
  <1>13. DialogOK(e, hooks["preview"], loads)
    <2>1. CASE hooks["preview"] = view.hooks["preview"]
      BY <1>1, <1>4, <1>11, <2>1, FewerLoads, SameDialog
    <2>2. CASE l \in Coming(calls.loads)
      <3>1. Coming(loads) = {} /\ ~d.reviewed
        BY <1>1, <1>11, <2>2 DEF DialogOK
      <3> QED BY <1>1, <1>4, <1>6, <1>11, <2>2, <3>1 DEF DialogOK
    <2> QED BY <1>6, <2>1, <2>2
  <1> QED BY <1>3, <1>8, <1>9, <1>10, <1>12, <1>13 DEF FileInv

LEMMA StillOpenLoads == ASSUME NEW v, NEW loads PROVE InvestorsPage!StillOpen(v, loads) \subseteq loads
  BY DEF InvestorsPage!StillOpen

LEMMA RegeneratedKeeps ==
    ASSUME NEW v, NEW loads, FileViewOK(v), \A l \in loads : FileLoadOK(l), DialogOK(v.dialog, v.hooks["preview"], loads)
    PROVE LET w == InvestorsPage!Regenerated(v)
              after == InvestorsPage!Async!Retired(loads, {"preview"})
          IN FileViewOK(w) /\ (\A l \in after : FileLoadOK(l)) /\ DialogOK(w.dialog, w.hooks["preview"], after)
  <1> DEFINE w == InvestorsPage!Regenerated(v)
             after == InvestorsPage!Async!Retired(loads, {"preview"})
  <1>1. /\ \A l \in after : FileLoadOK(l)
        /\ Coming(after) = {}
        /\ \A l \in Previews(after) : \E k \in Previews(loads) : k.answer = l.answer
    BY RetiredLoads
  <1>2. FileViewOK(w) /\ w.dialog = InvestorsPage!TickCleared(v.dialog) /\ w.hooks["preview"] = InvestorsPage!Async!Unmounted
    BY Regeneration
  <1>3. ~w.dialog.reviewed
    BY <1>2, ClearedTick DEF FileViewOK
  <1>4. InvestorsPage!Async!Unmounted.data = Null
    BY DEF InvestorsPage!Async!Unmounted
  <1> HIDE DEF w, after
  <1>5. DialogOK(w.dialog, InvestorsPage!Async!Unmounted, after)
    BY <1>1, <1>3, <1>4 DEF DialogOK
  <1> QED BY <1>1, <1>2, <1>5 DEF w, after

LEMMA FileArrivesKeep == ASSUME FileInv, NEW l \in calls.loads, InvestorsPage!LoadDelivered(l) PROVE FileInv'
  <1> DEFINE d == view.dialog
             hooks == [view.hooks EXCEPT ![l.hook] = InvestorsPage!Async!Delivered(@, l)]
             answered == [view EXCEPT !.hooks[l.hook] = InvestorsPage!Async!Delivered(@, l)]
             released == IF l.hook = "preview" /\ view.dialog.kind \in {"dates", "replace"} /\ ~view.dialog.sent
                         THEN [answered EXCEPT !.dialog.busy = FALSE] ELSE answered
             changed == InvestorsPage!SourceChanged(released)
             base == IF changed THEN InvestorsPage!Regenerated(released) ELSE released
             rest == calls.loads \ {l}
             loads == IF changed THEN InvestorsPage!Async!Retired(rest, {"preview"}) ELSE rest
             next == InvestorsPage!Kept(base)
  <1>1. FileViewOK(view) /\ FileCallsOK(calls) /\ DialogShape(d) /\ DialogOK(d, view.hooks["preview"], calls.loads)
    BY DEF FileInv, FileViewOK
  <1>2. /\ view' = next /\ server' = server
        /\ calls' = [calls EXCEPT !.loads = InvestorsPage!StillOpen(next,
                         IF changed THEN InvestorsPage!Async!Retired(@ \ {l}, {"preview"}) ELSE @ \ {l}),
                       !.request = IF changed /\ @ # Null THEN [@ EXCEPT !.current = FALSE] ELSE @]
    BY DEF InvestorsPage!LoadDelivered
  <1>3. FileViewOK(answered) /\ answered.dialog = d /\ DialogOK(d, answered.hooks["preview"], rest)
    <2>1. \A h \in InvestorsPage!Hooks :
             LET new == InvestorsPage!Async!Delivered(view.hooks[h], l) IN
             /\ HookShape(new)
             /\ \/ new = view.hooks[h] /\ ~l.alive
                \/ new.data = l.answer /\ l.alive
      BY <1>1 DEF FileViewOK, HookShape, InvestorsPage!Async!Delivered, InvestorsPage!Async!Resolved
    <2>2. /\ DOMAIN hooks = InvestorsPage!Hooks /\ \A h \in InvestorsPage!Hooks : HookShape(hooks[h])
          /\ \/ hooks["preview"] = view.hooks["preview"]
             \/ hooks["preview"].data = l.answer /\ l \in Coming(calls.loads)
      BY <1>1, <2>1 DEF FileViewOK, Coming, Previews, InvestorsPage!Hooks
    <2>3. answered = [view EXCEPT !.hooks = hooks]
      BY <1>1 DEF FileViewOK
    <2> HIDE DEF hooks, answered
    <2>4. DOMAIN answered = DOMAIN view /\ answered.hooks = hooks /\ answered.dialog = d
      BY <1>1, <2>3 DEF FileViewOK
    <2>5. FileViewOK(answered)
      BY <1>1, <2>2, <2>4 DEF FileViewOK
    <2>6. Previews(rest) \subseteq Previews(calls.loads) /\ Coming(rest) = Coming(calls.loads) \ {l}
      BY DEF Previews, Coming
    <2>7. CASE hooks["preview"] = view.hooks["preview"]
      BY <1>1, <2>4, <2>5, <2>6, <2>7, FewerLoads
    <2>8. CASE hooks["preview"].data = l.answer /\ l \in Coming(calls.loads)
      <3>1. Coming(rest) = {} /\ ~d.reviewed /\ Doc(l.answer.rows) /\ (d.kind \in Redating => DatedDoc(d, l.answer.rows))
        BY <1>1, <2>6, <2>8 DEF DialogOK, Coming
      <3> QED BY <1>1, <2>4, <2>5, <2>6, <2>8, <3>1 DEF DialogOK
    <2> QED BY <2>2, <2>7, <2>8
  <1> HIDE DEF answered
  <1>4. FileViewOK(released) /\ DialogOK(released.dialog, released.hooks["preview"], rest)
    <2>1. CASE released = answered
      BY <1>3, <2>1
    <2>2. CASE released = [answered EXCEPT !.dialog.busy = FALSE]
      <3> DEFINE e == [d EXCEPT !.busy = FALSE]
                 v == [answered EXCEPT !.dialog = e]
      <3>1. released = v
        BY <1>3, <2>2 DEF FileViewOK
      <3>2. DialogShape(e) /\ e.kind = d.kind /\ e.date = d.date /\ e.reviewed = d.reviewed /\ e.ticked = d.ticked
        BY <1>1 DEF DialogShape
      <3> HIDE DEF e
      <3>3. FileViewOK(v) /\ v.dialog = e /\ v.hooks = answered.hooks
        BY <1>3, <3>2 DEF FileViewOK
      <3>4. DialogOK(e, answered.hooks["preview"], rest)
        BY <1>3, <3>2, SameDialog
      <3> HIDE DEF v, released
      <3> QED BY <3>1, <3>3, <3>4
    <2> QED BY <2>1, <2>2
  <1>5. \A k \in rest : FileLoadOK(k)
    BY <1>1 DEF FileCallsOK
  <1> HIDE DEF released, rest
  <1>6. FileViewOK(base) /\ (\A k \in loads : FileLoadOK(k)) /\ DialogOK(base.dialog, base.hooks["preview"], loads)
    BY <1>4, <1>5, RegeneratedKeeps
  <1> DEFINE request == IF changed /\ calls.request # Null THEN [calls.request EXCEPT !.current = FALSE] ELSE calls.request
             open == InvestorsPage!StillOpen(next, loads)
  <1>7. calls' = [calls EXCEPT !.loads = open, !.request = request]
    BY <1>2 DEF rest
  <1>8. FileRequestOK(request)
    <2> HIDE DEF changed
    <2> DEFINE r == calls.request
               late == [r EXCEPT !.current = FALSE]
    <2>1. ASSUME r # Null PROVE FileRequestOK(late)
      <3>1. DOMAIN late = DOMAIN r /\ late.op = r.op /\ late.hash = r.hash /\ late.ticked = r.ticked
        BY <1>1, <2>1 DEF FileCallsOK, FileRequestOK
      <3> HIDE DEF late
      <3> QED BY <1>1, <2>1, <3>1 DEF FileCallsOK, FileRequestOK
    <2> QED BY <1>1, <2>1 DEF FileCallsOK
  <1> HIDE DEF base, loads, changed, request
  <1>9. FileViewOK(next) /\ DialogOK(next.dialog, next.hooks["preview"], loads)
    BY <1>6, KeptKeeps
  <1> HIDE DEF next
  <1>10. open \subseteq loads
    BY StillOpenLoads
  <1>11. DialogOK(next.dialog, next.hooks["preview"], open)
    BY <1>9, <1>10, FewerLoads DEF Previews
  <1> HIDE DEF open
  <1>12. DOMAIN calls' = DOMAIN calls /\ calls'.loads = open /\ calls'.request = request
    BY <1>1, <1>7 DEF FileCallsOK
  <1>13. FileCallsOK(calls')
    BY <1>1, <1>6, <1>8, <1>10, <1>12 DEF FileCallsOK
  <1> QED BY <1>2, <1>9, <1>11, <1>12, <1>13 DEF FileInv

LEMMA FileRefusalsKeep == ASSUME FileInv, InvestorsPage!RequestFailed PROVE FileInv'
  <1> DEFINE d == view.dialog
             again == IF d.sent /\ d.kind = "close" THEN {"preview"} ELSE {}
             cleared == IF d.kind \in {"dates", "replace"} THEN InvestorsPage!Regenerated(view)
                        ELSE [view EXCEPT !.dialog = InvestorsPage!TickCleared(@)]
             freed == IF d.sent THEN [cleared EXCEPT !.dialog = InvestorsPage!Freed(@)] ELSE view
             loads == InvestorsPage!LoadsAfter(freed, again)
             w == InvestorsPage!Begun(freed, again)
  <1>1. FileViewOK(view) /\ FileCallsOK(calls) /\ DialogShape(d) /\ DialogOK(d, view.hooks["preview"], calls.loads)
    BY DEF FileInv, FileViewOK
  <1> DEFINE number == IF calls.request.outcome = "refused" THEN calls.left ELSE calls.left - 1
  <1>2. calls' = [calls EXCEPT !.request = Null, !.loads = loads, !.left = number]
    BY DEF InvestorsPage!RequestFailed
  <1>3. view' = w /\ server' = server
    BY DEF InvestorsPage!RequestFailed
  <1>4. again \in SUBSET InvestorsPage!Hooks
    BY DEF InvestorsPage!Hooks
  <1>5. /\ FileViewOK(freed) /\ DialogOK(freed.dialog, freed.hooks["preview"], calls.loads)
        /\ "preview" \in InvestorsPage!Rerun(freed, again) =>
              ~freed.dialog.reviewed /\ (freed.dialog.kind \in Redating => freed.hooks["preview"].data = Null)
    <2>1. CASE ~d.sent
      <3>1. freed = view /\ again = {}
        BY <2>1
      <3>2. "preview" \notin InvestorsPage!Rerun(view, {})
        BY PreviewKey
      <3> QED BY <1>1, <3>1, <3>2
    <2>2. CASE d.sent
      <3> DEFINE e == InvestorsPage!TickCleared(d)
                 f == InvestorsPage!Freed(e)
      <3>1. DialogShape(e) /\ ~e.reviewed /\ e.kind = d.kind /\ e.date = d.date
        BY <1>1, ClearedTick
      <3>2. DialogShape(f) /\ ~f.reviewed /\ f.kind = d.kind /\ f.date = d.date
        BY <3>1 DEF DialogShape, InvestorsPage!Freed
      <3>3. /\ FileViewOK(cleared) /\ cleared.dialog = e
            /\ IF d.kind \in Redating THEN cleared.hooks["preview"] = InvestorsPage!Async!Unmounted
               ELSE cleared.hooks = view.hooks
        <4>1. CASE d.kind \in Redating
          BY <1>1, <4>1, Regeneration DEF Redating
        <4>2. CASE d.kind \notin Redating
          <5>1. cleared = [view EXCEPT !.dialog = e]
            BY <1>1, <4>2 DEF FileViewOK, Redating
          <5> HIDE DEF e, cleared
          <5> QED BY <1>1, <3>1, <4>2, <5>1 DEF FileViewOK
        <4> QED BY <4>1, <4>2
      <3> HIDE DEF e, cleared
      <3>4. freed = [cleared EXCEPT !.dialog = f]
        BY <2>2, <3>3 DEF FileViewOK
      <3> HIDE DEF f, freed
      <3>5. FileViewOK(freed) /\ freed.dialog = f /\ freed.hooks = cleared.hooks
        BY <3>2, <3>3, <3>4 DEF FileViewOK
      <3>6. InvestorsPage!Async!Unmounted.data = Null
        BY DEF InvestorsPage!Async!Unmounted
      <3>7. CASE d.kind \in Redating
        <4>1. DialogOK(f, InvestorsPage!Async!Unmounted, calls.loads)
          BY <1>1, <3>2, BlankPreview
        <4> QED BY <3>2, <3>3, <3>5, <3>6, <3>7, <4>1
      <3>8. CASE d.kind \notin Redating
        <4>1. DialogOK(f, view.hooks["preview"], calls.loads)
          BY <1>1, <3>2, <3>8, PlainDialog
        <4> QED BY <3>2, <3>3, <3>5, <3>8, <4>1
      <3> QED BY <3>7, <3>8
    <2> QED BY <2>1, <2>2
  <1> HIDE DEF freed, again
  <1>6. DialogOK(freed.dialog, freed.hooks["preview"], InvestorsPage!StillOpen(freed, calls.loads))
    BY <1>5, StillOpenKeeps
  <1>7. FileViewOK(w) /\ (\A l \in loads : FileLoadOK(l)) /\ DialogOK(w.dialog, w.hooks["preview"], loads)
    BY <1>4, <1>5, <1>6, BegunKeeps
  <1> HIDE DEF w, loads
  <1>8. DOMAIN calls' = DOMAIN calls /\ calls'.loads = loads /\ calls'.request = Null
    BY <1>1, <1>2 DEF FileCallsOK
  <1>9. FileCallsOK(calls')
    BY <1>1, <1>7, <1>8 DEF FileCallsOK, FileRequestOK
  <1> QED BY <1>3, <1>7, <1>8, <1>9 DEF FileInv

(* What an answered request does to the page leaves its dialog as it is, or  *)
(* puts one there that neither redates nor is ticked.                        *)
LEMMA AfterAnswer == ASSUME NEW r, FileViewOK(view), DialogOK(view.dialog, view.hooks["preview"], calls.loads)
    PROVE LET next == InvestorsPage!AfterSuccess(r) IN
          /\ FileViewOK(next) /\ next.hooks["preview"] = view.hooks["preview"]
          /\ next.dialog = view.dialog \/ (next.dialog.kind \notin Redating /\ ~next.dialog.reviewed)
  <1> DEFINE n == InvestorsPage!NoDialog
             next == InvestorsPage!AfterSuccess(r)
             new == [n EXCEPT !.kind = "new", !.source = r.who]
  <1>1. DialogShape(n) /\ n.kind \notin Redating /\ ~n.reviewed
    BY DEF InvestorsPage!NoDialog, DialogShape, Redating
  <1>2. DialogShape(new) /\ new.kind \notin Redating /\ ~new.reviewed
    BY DEF InvestorsPage!NoDialog, DialogShape, Redating
  <1>3. CASE r.op \in Prepared
    <2> DEFINE closed == [view EXCEPT !.dialog = n]
    <2>1. FileViewOK(closed) /\ closed.dialog = n /\ closed.hooks = view.hooks
      <3> HIDE DEF n
      <3> QED BY <1>1 DEF FileViewOK
    <2>2. \E v \in {view, closed} : next \in {v, [v EXCEPT !.issued = r.made, !.section = "documents"]}
      BY <1>3 DEF InvestorsPage!AfterSuccess, Prepared
    <2> HIDE DEF next, closed, n
    <2>3. \A v \in {view, closed} : LET w == [v EXCEPT !.issued = r.made, !.section = "documents"] IN
             FileViewOK(w) /\ w.dialog = v.dialog /\ w.hooks = v.hooks
      BY <2>1 DEF FileViewOK
    <2> QED BY <1>1, <2>1, <2>2, <2>3 DEF next
  <1>4. CASE r.op = "investor"
    <2>1. PICK rows : next = [view EXCEPT !.selected = r.who, !.track = "active", !.editing = Null, !.section = "plans",
                                !.hooks["investors"].data.rows = rows, !.dialog = new]
      BY <1>4 DEF InvestorsPage!AfterSuccess
    <2> DEFINE hook == [view.hooks["investors"] EXCEPT !.data.rows = rows]
               hooks == [view.hooks EXCEPT !["investors"] = hook]
    <2>2. next = [view EXCEPT !.selected = r.who, !.track = "active", !.editing = Null, !.section = "plans",
                     !.hooks = hooks, !.dialog = new]
      BY <2>1 DEF FileViewOK
    <2>3. HookShape(hook)
      BY DEF FileViewOK, HookShape, InvestorsPage!Hooks
    <2> HIDE DEF hook, next, new
    <2>4. /\ DOMAIN hooks = InvestorsPage!Hooks /\ hooks["preview"] = view.hooks["preview"]
          /\ \A h \in InvestorsPage!Hooks : HookShape(hooks[h])
      BY <2>3 DEF FileViewOK, InvestorsPage!Hooks
    <2> HIDE DEF hooks
    <2>5. DOMAIN next = DOMAIN view /\ next.hooks = hooks /\ next.dialog = new
      BY <2>2 DEF FileViewOK
    <2>6. FileViewOK(next) /\ next.hooks["preview"] = view.hooks["preview"] /\ next.dialog = new
      BY <1>2, <2>4, <2>5 DEF FileViewOK, new
    <2> QED BY <1>2, <2>6 DEF next, new
  <1>5. CASE r.op = "update"
    <2>1. next = [view EXCEPT !.editing = Null]
      BY <1>5 DEF InvestorsPage!AfterSuccess
    <2> HIDE DEF next
    <2>2. FileViewOK(next) /\ next.hooks = view.hooks /\ next.dialog = view.dialog
      BY <2>1 DEF FileViewOK
    <2> QED BY <2>2 DEF next
  <1>6. CASE r.op \notin Prepared \cup {"investor", "update"}
    BY <1>6 DEF InvestorsPage!AfterSuccess, Prepared
  <1> QED BY <1>3, <1>4, <1>5, <1>6

LEMMA FileAnswersKeep == ASSUME FileInv, InvestorsPage!RequestAnswered PROVE FileInv'
  <1> DEFINE r == calls.request
             again == IF r.op = "investor" THEN {"investors"}
                      ELSE IF r.op \in {"dates", "replace"} /\ ~r.current THEN {} ELSE InvestorsPage!PageHooks
             next == InvestorsPage!AfterSuccess(r)
             loads == InvestorsPage!LoadsAfter(next, again)
             w == InvestorsPage!Begun(next, again)
  <1>1. FileViewOK(view) /\ FileCallsOK(calls) /\ DialogOK(view.dialog, view.hooks["preview"], calls.loads)
    BY DEF FileInv
  <1>2. view' = InvestorsPage!Kept(w) /\ server' = server /\ calls' = [calls EXCEPT !.loads = loads, !.request = Null]
    BY DEF InvestorsPage!RequestAnswered
  <1>3. again \in SUBSET InvestorsPage!Hooks /\ "preview" \notin again
    BY DEF InvestorsPage!Hooks, InvestorsPage!PageHooks
  <1>4. /\ FileViewOK(next) /\ next.hooks["preview"] = view.hooks["preview"]
        /\ next.dialog = view.dialog \/ (next.dialog.kind \notin Redating /\ ~next.dialog.reviewed)
    BY <1>1, AfterAnswer
  <1> HIDE DEF again, next
  <1>5. DialogOK(next.dialog, next.hooks["preview"], calls.loads)
    BY <1>1, <1>4, PlainDialog
  <1>6. DialogOK(next.dialog, next.hooks["preview"], InvestorsPage!StillOpen(next, calls.loads))
    BY <1>5, StillOpenKeeps
  <1>7. "preview" \in InvestorsPage!Rerun(next, again) =>
           ~next.dialog.reviewed /\ (next.dialog.kind \in Redating => next.hooks["preview"].data = Null)
    BY <1>3, <1>4, PreviewKey
  <1>8. FileViewOK(w) /\ (\A l \in loads : FileLoadOK(l)) /\ DialogOK(w.dialog, w.hooks["preview"], loads)
    BY <1>3, <1>4, <1>6, <1>7, BegunKeeps
  <1> HIDE DEF w, loads
  <1>9. FileViewOK(view') /\ DialogOK(view'.dialog, view'.hooks["preview"], loads)
    BY <1>2, <1>8, KeptKeeps
  <1>10. DOMAIN calls' = DOMAIN calls /\ calls'.loads = loads /\ calls'.request = Null
    BY <1>1, <1>2 DEF FileCallsOK
  <1>11. FileCallsOK(calls')
    BY <1>1, <1>8, <1>10 DEF FileCallsOK, FileRequestOK
  <1> QED BY <1>2, <1>9, <1>10, <1>11 DEF FileInv

LEMMA FileStep == ASSUME FileInv, InvestorsPage!Next PROVE FileInv'
  BY FileTabsKeep, FileOthersKeep, FileAppliesKeep, FileSelectsKeep, FilePreparesKeep, FileOpensKeep,
     FileClosesKeep, FileDatesKeep, FileReadsKeep, FileTicksKeep, FileDropsKeep, FileArrivesKeep,
     FileRefusalsKeep, FileAnswersKeep, ZenonT(60)
     DEF InvestorsPage!Next

LEMMA FileSays == ASSUME FileInv, InvestorsPage!Next PROVE InvestorsPage!PreparesWhatWasTicked
  <1> DEFINE r == calls.request
             made == DOMAIN server'.agreements \ InvestorsPage!Offers
  <1>1. ServerShape(server) /\ FileRequestOK(r)
    BY DEF FileInv, FileCallsOK
  <1>2. CASE InvestorsPage!RequestApplied /\ r.op \in Prepared
    <2>1. r # Null /\ (server' = server \/ (InvestorsPage!Accepts(r) /\ server' = InvestorsPage!WithAgreement(r)))
      BY <1>2 DEF InvestorsPage!RequestApplied, Prepared
    <2>2. CASE server' = server
      BY <2>2 DEF InvestorsPage!PreparesWhatWasTicked, InvestorsPage!Offers
    <2>3. CASE InvestorsPage!Accepts(r) /\ server' = InvestorsPage!WithAgreement(r)
      <3>1. \A a \in made : server'.agreements[a] = InvestorsPage!Issued(r)
        BY <1>1, <2>3 DEF InvestorsPage!WithAgreement, ServerShape
      <3>2. InvestorsPage!Issued(r).doc = InvestorsPage!Current(r.op, r.source, r.date)
        BY DEF InvestorsPage!Issued
      <3>3. r.ticked = InvestorsPage!Current(r.op, r.source, r.date)
        BY <1>1, <1>2, <2>1, <2>3 DEF InvestorsPage!Accepts, FileRequestOK
      <3> QED BY <2>1, <3>1, <3>2, <3>3 DEF InvestorsPage!PreparesWhatWasTicked
    <2> QED BY <2>1, <2>2, <2>3
  <1>3. CASE InvestorsPage!RequestApplied /\ r.op \notin Prepared
    <2>1. \/ server' = server
          \/ server' = [server EXCEPT !.agreements[r.source].status = "cancelled"]
          \/ server' = [server EXCEPT !.version[r.who] = @ + 1]
          \/ server' = [server EXCEPT !.plans[r.source] = "deleted"]
          \/ server' = [server EXCEPT !.book = @ \cup {r.who}]
      <3>1. r # Null
        BY <1>3 DEF InvestorsPage!RequestApplied
      <3>2. r.op \in {"cancel", "update", "delete", "investor"}
        BY <1>1, <1>3, <3>1 DEF FileRequestOK
      <3> QED BY <1>3, <3>2 DEF InvestorsPage!RequestApplied
    <2>2. DOMAIN server'.agreements = InvestorsPage!Offers
      BY <1>1, <2>1 DEF ServerShape, InvestorsPage!Offers
    <2> QED BY <2>2 DEF InvestorsPage!PreparesWhatWasTicked
  <1>4. CASE InvestorsPage!Others
    <2>1. DOMAIN server'.agreements = InvestorsPage!Offers
      BY <1>1, <1>4 DEF ServerShape, InvestorsPage!Offers, InvestorsPage!Others
    <2> QED BY <2>1 DEF InvestorsPage!PreparesWhatWasTicked
  <1>5. CASE ~InvestorsPage!RequestApplied /\ ~InvestorsPage!Others
    <2>1. server' = server
      BY <1>5, Zenon DEF InvestorsPage!Next, InvestorsPage!Use,
           InvestorsPage!SelectInvestor, InvestorsPage!GoToSection, InvestorsPage!ShowTrack, InvestorsPage!RetryPage,
           InvestorsPage!OpenDialog, InvestorsPage!CloseDialog, InvestorsPage!ChangeDate, InvestorsPage!LoadPreview,
           InvestorsPage!RetryPreview, InvestorsPage!Tick, InvestorsPage!Prepare, InvestorsPage!PrepareNewPlan,
           InvestorsPage!CancelDraft, InvestorsPage!ToggleEdit, InvestorsPage!SaveOrDeletePlan, InvestorsPage!CreateInvestor,
           InvestorsPage!RequestAnswered, InvestorsPage!RequestFailed, InvestorsPage!CloseIssued,
           InvestorsPage!LoadDelivered, InvestorsPage!LoadFailed
    <2> QED BY <2>1 DEF InvestorsPage!Offers, InvestorsPage!PreparesWhatWasTicked
  <1> QED BY <1>2, <1>3, <1>4, <1>5

-----------------------------------------------------------------------------
(* The pages together: one is on the screen, and stays.                      *)
PagesInv ==
    /\ page = "contracts" => ContractsInv
    /\ page = "assistant" => AssistantInv
    /\ page = "vault" => VaultInv
    /\ page = "bell" => BellInv
    /\ page = "nudges" => NudgesInv
    /\ page = "dashboard" => ListsInv
    /\ page = "panels" => PanelsInv
    /\ page = "investors" => FileInv

LEMMA PagesStart == Init => PagesInv
  BY ContractsStart, AssistantStart, VaultStart, BellStart, NudgesStart, ListsStart, FileStart,
     PanelsStart
     DEF Init, NoPage, PageInit, PagesInv

(* A step of the device, and no step at all, leave the page as it is.        *)
LEMMA PagesStay == ASSUME PagesInv, UNCHANGED pageVars PROVE PagesInv'
  <1>1. page' = page /\ view' = view /\ server' = server /\ calls' = calls
    BY DEF pageVars
  <1>2. (ContractsInv => ContractsInv') /\ (AssistantInv => AssistantInv')
    BY <1>1 DEF ContractsInv, AssistantInv
  <1>3. (VaultInv => VaultInv') /\ (BellInv => BellInv')
    BY <1>1 DEF VaultInv, BellInv
  <1>4. (NudgesInv => NudgesInv') /\ (ListsInv => ListsInv')
    BY <1>1 DEF NudgesInv, DashboardInv, ListsInv, ListsHeld, ListOK, Schedule
  <1>5. (FileInv => FileInv') /\ (PanelsInv => PanelsInv')
    BY <1>1 DEF FileInv, PanelsInv
  <1> QED BY <1>1, <1>2, <1>3, <1>4, <1>5 DEF PagesInv

LEMMA PagesStep == ASSUME PagesInv, [Next]_systemVars PROVE PagesInv'
  <1>1. CASE UNCHANGED pageVars
    BY <1>1, PagesStay
  <1>2. CASE PageNext /\ page' = page
    <2>1. ASSUME page \in {"payments", "money", "quotes", "accounts"} PROVE PagesInv'
      BY <1>2, <2>1 DEF PagesInv
    <2>2. CASE page = "contracts" /\ ContractsPage!Next
      BY <1>2, <2>2, ContractsStep DEF PagesInv
    <2>3. CASE page = "assistant" /\ AssistantPage!Next
      BY <1>2, <2>3, AssistantStep DEF PagesInv
    <2>4. CASE page = "vault" /\ VaultPage!Next
      BY <1>2, <2>4, VaultStep DEF PagesInv
    <2>5. CASE page = "bell" /\ BellPage!Next
      BY <1>2, <2>5, BellStep DEF PagesInv
    <2>6. CASE page = "nudges" /\ NudgesPage!Next
      BY <1>2, <2>6, NudgesStep DEF PagesInv
    <2>7. CASE page = "dashboard" /\ DashboardPage!Next
      BY <1>2, <2>7, ListsStep DEF PagesInv
    <2>8. CASE page = "investors" /\ InvestorsPage!Next
      BY <1>2, <2>8, FileStep DEF PagesInv
    <2> QED BY <1>2, <2>1, <2>2, <2>3, <2>4, <2>5, <2>6, <2>7, <2>8 DEF PageNext
  <1> QED BY <1>1, <1>2 DEF Next, systemVars, pageVars

LEMMA PagesAlways == Spec => []PagesInv
  BY PagesStart, PagesStep, PTL DEF Spec

(* A late answer puts no other contract on the screen than the one wanted.   *)
THEOREM LateAnswerOpensNothing == Spec => LastOpenedIsShown
  <1>1. ASSUME PagesInv, [Next]_systemVars PROVE [page = "contracts" => ContractsPage!ShowsTheLastOpened]_systemVars
    <2>1. CASE UNCHANGED systemVars
      BY <2>1
    <2>2. CASE UNCHANGED pageVars
      BY <2>2 DEF pageVars, ContractsPage!ShowsTheLastOpened
    <2>3. CASE PageNext /\ page = "contracts"
      BY <1>1, <2>3, ContractsShow DEF PageNext, PagesInv
    <2> QED BY <1>1, <2>1, <2>2, <2>3 DEF Next
  <1> QED BY <1>1, PagesAlways, PTL DEF Spec, LastOpenedIsShown

(* One proposal of the assistant asks the investor for one confirmation,     *)
(* and for the amount it named, however often it is confirmed and answered.  *)
THEOREM ProposalAsksOnce == Spec => []OneRequestPerProposal
  <1>1. PagesInv => OneRequestPerProposal
    BY AssistantSays DEF PagesInv, OneRequestPerProposal
  <1> QED BY <1>1, PagesAlways, PTL

(* The file that is saved is of the investor whose row was clicked.          *)
THEOREM SavedFileIsOfItsRow == Spec => []FileIsOfItsRow
  <1>1. PagesInv => FileIsOfItsRow
    BY VaultSays DEF PagesInv, FileIsOfItsRow
  <1> QED BY <1>1, PagesAlways, PTL

(* The bell announces an event once, whatever the order of its answers.      *)
THEOREM BellAnnouncesOnce == Spec => []AnnouncedOnce
  <1>1. PagesInv => AnnouncedOnce
    BY BellSays DEF PagesInv, AnnouncedOnce
  <1> QED BY <1>1, PagesAlways, PTL

(* An overdue confirmation is announced at most once a day, and is not asked *)
(* for after it was given.                                                   *)
THEOREM NudgeIsDaily == Spec => []NudgedOnceADay
  <1>1. PagesInv => NudgedOnceADay
    BY NudgesSays DEF PagesInv, NudgedOnceADay
  <1> QED BY <1>1, PagesAlways, PTL

(* The administrator's queue is the answer for the scope on the screen, and   *)
(* complete but for the investors it names as unread, though its reads run   *)
(* several at a time and may outlive the scope that asked for them.          *)
THEOREM QueueIsOfItsScope == Spec => []QueueMatchesScope
  <1>1. PagesInv => QueueMatchesScope
    BY DashboardSays DEF PagesInv, QueueMatchesScope, ListsInv
  <1> QED BY <1>1, PagesAlways, PTL

(* Each urgent row opens the payment of its investor to handle first and     *)
(* asks for the sum of them all, though a transfer that was sent may stand   *)
(* before one that was not, and two lists are joined in January.             *)
THEOREM UrgentIsOldest == Spec => []UrgentRowIsOldest
  <1>1. PagesInv => UrgentRowIsOldest
    BY ListsSay DEF PagesInv, UrgentRowIsOldest
  <1> QED BY <1>1, PagesAlways, PTL

(* The panels of savings and reports below the payments agree with each      *)
(* other for any list of plans: every button has its report, every total is  *)
(* that of its cards, and nobody is shown a lesser track for a better one.   *)
THEOREM PanelsAlwaysAgree == Spec => []PanelsAgree
  <1>1. PagesInv => PanelsAgree
    BY PanelsSay DEF PagesInv, PanelsAgree
  <1> QED BY <1>1, PagesAlways, PTL

(* An agreement that an investor's file prepares says what was on the screen *)
(* when the manager ticked that it had been read.                            *)
THEOREM PreparedIsReviewed == Spec => PreparedAsReviewed
  <1>1. ASSUME PagesInv, [Next]_systemVars
        PROVE [page = "investors" => InvestorsPage!PreparesWhatWasTicked]_systemVars
    <2>1. CASE UNCHANGED systemVars
      BY <2>1
    <2>2. CASE UNCHANGED pageVars
      BY <2>2 DEF pageVars, InvestorsPage!PreparesWhatWasTicked, InvestorsPage!Offers
    <2>3. CASE PageNext /\ page = "investors"
      BY <1>1, <2>3, FileSays DEF PageNext, PagesInv
    <2>4. CASE page # "investors"
      BY <2>4
    <2> QED BY <1>1, <2>1, <2>2, <2>3, <2>4 DEF Next
  <1> QED BY <1>1, PagesAlways, PTL DEF Spec, PreparedAsReviewed

=============================================================================
