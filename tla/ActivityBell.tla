---------------------------- MODULE ActivityBell ----------------------------
(***************************************************************************)
(* The managers' bell (components/NotificationCenter.tsx): it polls what   *)
(* happened every few seconds, announces the news once, and lists it with  *)
(* a filter.  Polls overlap when an answer is slow, and nothing cancels    *)
(* one: each answer is compared with what the tab has seen by then.        *)
(*                                                                         *)
(* Events are numbered as activity_service.py does; kinds keep what the    *)
(* bell tells apart; the badge is left out.  What the tab has seen outlives *)
(* a reload (sessionStorage).                                              *)
(***************************************************************************)
EXTENDS Naturals, FiniteSets, Sequences

CONSTANTS Null, MaxLog, MaxEvents, MaxCalls

VARIABLES view, server, calls
vars == <<view, server, calls>>

EventKinds == {"login", "urgent", "quiet"}      \* urgent stands for warning too
Filters == {"all", "login"}

(***************************************************************************)
(* activity_service.py                                                     *)
(***************************************************************************)
Ids == 1 .. Len(server.log)
Newest(ids) == IF ids = {} THEN 0 ELSE CHOOSE i \in ids : \A j \in ids : j <= i
Logins == {i \in Ids : server.log[i] = "login"}

Summary == [latest |-> Newest(Ids), latestLogin |-> Newest(Logins)]
\* What a list offers to mark: the unread of its filter.
Listed(filter) == server.unread \cap IF filter = "all" THEN Ids ELSE Logins

(***************************************************************************)
(* refreshSummary: one poll.                                               *)
(***************************************************************************)
\* A number that tells a call from the others under way.
Slot == CHOOSE n \in 0 .. MaxCalls : \A c \in calls.open : c.asked # n

\* after: what the handler that asked goes on with, as the filter it was shown with.
Poll(announce, after) ==
    [kind |-> "summary", announce |-> announce, after |-> after, asked |-> Slot,
     seen |-> view.seen, answer |-> Null]
Listing(filter) == [kind |-> "list", filter |-> filter, asked |-> Slot, answer |-> Null]
Marking(ids, filter) ==
    [kind |-> "mark", ids |-> ids, after |-> filter, asked |-> Slot, answer |-> Null]

\* Mutant: what was seen is read when the poll is sent.
SeenWhenAsked(c) == c.seen

\* prevLogin and prevEvent are read after the answer came.
SeenBefore(c) == view.seen

Announced(c) ==
    LET seen == SeenBefore(c)
        next == c.answer
    IN IF ~(c.announce /\ view.primed) THEN Null
       ELSE IF next.latestLogin > seen.login THEN next.latestLogin
       ELSE IF next.latest > seen.event /\ server.log[next.latest] = "urgent" THEN next.latest
       ELSE Null

Advanced(c) ==
    LET seen == SeenBefore(c) IN
    [login |-> IF c.answer.latestLogin > seen.login THEN c.answer.latestLogin ELSE view.seen.login,
     event |-> IF c.answer.latest > seen.event THEN c.answer.latest ELSE view.seen.event]

Continue(after) == IF after = Null THEN {} ELSE {Listing(after)}

\* The timer, or the tab coming back to the front.
Tick ==
    /\ calls.left > 0
    /\ Cardinality(calls.open) < MaxCalls
    /\ calls' = [calls EXCEPT !.open = @ \cup {Poll(TRUE, Null)}, !.left = @ - 1]
    /\ UNCHANGED <<view, server>>

SummaryAnswered(c) ==
    /\ c \in calls.open /\ c.kind = "summary" /\ c.answer # Null
    /\ LET news == Announced(c) IN
         view' = [view EXCEPT !.toast = IF news = Null THEN @ ELSE news,
                              !.announced = IF news = Null THEN @ ELSE Append(@, news),
                              !.seen = Advanced(c), !.primed = TRUE]
    /\ calls' = [calls EXCEPT !.open = (@ \ {c}) \cup Continue(c.after)]
    /\ UNCHANGED server

\* The first poll and those of the panel announce nothing.
FirstPoll == Poll(FALSE, Null)

(***************************************************************************)
(* The panel.                                                              *)
(***************************************************************************)
Use(v, new) ==
    /\ calls.left > 0
    /\ Cardinality(calls.open) + Cardinality(new) <= MaxCalls
    /\ view' = v
    /\ calls' = [calls EXCEPT !.open = @ \cup new, !.left = @ - 1]
    /\ UNCHANGED server

\* The effect of open and filter: the list, and the summary without a word.
Shown(v, filter) == [v EXCEPT !.open = TRUE, !.filter = filter]
OpenPanel == ~view.open /\ Use(Shown(view, view.filter), {Listing(view.filter), Poll(FALSE, Null)})
Choose(filter) ==
    /\ view.open /\ filter # view.filter
    /\ Use(Shown(view, filter), {Listing(filter), Poll(FALSE, Null)})

\* The bell again, a click outside, Escape, or a link out.
ClosePanel ==
    /\ view.open
    /\ view' = [view EXCEPT !.open = FALSE]
    /\ UNCHANGED <<server, calls>>

\* Marking awaits the server, then the summary, then the list of the filter it was clicked under.
MarkRead(id) == view.open /\ id \in view.rows /\ Use(view, {Marking({id}, view.filter)})
MarkAll == view.open /\ Use(view, {Marking(Ids, view.filter)})

Marked(c) ==
    /\ c \in calls.open /\ c.kind = "mark" /\ c.answer # Null
    /\ calls' = [calls EXCEPT !.open = (@ \ {c}) \cup {Poll(FALSE, c.after)}]
    /\ UNCHANGED <<view, server>>

ListAnswered(c) ==
    /\ c \in calls.open /\ c.kind = "list" /\ c.answer # Null
    /\ view' = [view EXCEPT !.rows = c.answer.ids]
    /\ calls' = [calls EXCEPT !.open = @ \ {c}]
    /\ UNCHANGED server

\* Closed, or by a timer: each announcement starts one, and none asks which toast it ends.
ToastEnds ==
    /\ view.toast # Null
    /\ view' = [view EXCEPT !.toast = Null]
    /\ UNCHANGED <<server, calls>>

\* The page is loaded again: what was seen stays.
Reload ==
    /\ calls.left > 0
    /\ view' = [view EXCEPT !.open = FALSE, !.filter = "all", !.rows = {},
                            !.toast = Null, !.primed = FALSE]
    /\ calls' = [calls EXCEPT !.open = {FirstPoll}, !.left = @ - 1]
    /\ UNCHANGED server

(***************************************************************************)
(* The server and the network.                                             *)
(***************************************************************************)
Arrive(c) ==
    /\ c \in calls.open /\ c.answer = Null
    /\ calls' = [calls EXCEPT !.open = (@ \ {c}) \cup
         {[c EXCEPT !.answer = CASE c.kind = "summary" -> Summary
                                 [] c.kind = "list" -> [ids |-> Listed(c.filter)]
                                 [] c.kind = "mark" -> "done"]}]
    /\ server' = IF c.kind = "mark" THEN [server EXCEPT !.unread = @ \ c.ids] ELSE server
    /\ UNCHANGED view

\* A failed poll changes nothing but lets the handler go on; a failed list is an empty one; a
\* mark that failed stops its handler.
Lost(c) ==
    /\ c \in calls.open /\ calls.left > 0
    /\ view' = IF c.kind = "list" THEN [view EXCEPT !.rows = {}] ELSE view
    /\ calls' = [calls EXCEPT !.open = (@ \ {c}) \cup (IF c.kind = "summary" THEN Continue(c.after) ELSE {}),
                              !.left = @ - 1]
    /\ UNCHANGED server

Happens ==
    /\ Len(server.log) < MaxLog
    /\ \E kind \in EventKinds :
          server' = [server EXCEPT !.log = Append(@, kind), !.unread = @ \cup {Len(server.log) + 1}]
    /\ UNCHANGED <<view, calls>>

Init ==
    /\ server = [log |-> <<"login">>, unread |-> {1}]
    /\ view = [open |-> FALSE, filter |-> "all", rows |-> {}, toast |-> Null,
               seen |-> [login |-> 0, event |-> 0], primed |-> FALSE, announced |-> <<>>]
    /\ calls = [left |-> MaxEvents,
                open |-> {[kind |-> "summary", announce |-> FALSE, after |-> Null, asked |-> 0,
                           seen |-> [login |-> 0, event |-> 0], answer |-> Null]}]

Next ==
    \/ Tick \/ OpenPanel \/ ClosePanel \/ MarkAll \/ ToastEnds \/ Reload \/ Happens
    \/ \E filter \in Filters : Choose(filter)
    \/ \E id \in view.rows : MarkRead(id)
    \/ \E c \in calls.open : Arrive(c) \/ SummaryAnswered(c) \/ Marked(c) \/ ListAnswered(c) \/ Lost(c)

Spec == Init /\ [][Next]_vars

\* News is announced once, and only as news: no event is announced twice in a tab, through polls
\* that overlap, answers that overtake each other and reloads of the page; and none that had
\* happened before the tab first looked (NotificationCenter.tsx: seenLoginRef, seenEventRef, primedRef).
AnnouncedOnce ==
    /\ \A i, j \in DOMAIN view.announced : view.announced[i] = view.announced[j] => i = j
    /\ \A i \in DOMAIN view.announced : view.announced[i] > 1
=============================================================================
