------------------------------ MODULE AsyncData ------------------------------
(***************************************************************************)
(* hooks/useAsync.ts: the loader every page reads the server with.         *)
(*                                                                         *)
(* A hook runs its loader again whenever its dependencies (here one key)   *)
(* change or reload() is called.  The run before it is no longer alive:    *)
(* its answer, however late, is dropped.  The data of the run before stays *)
(* on the screen until the new answer comes, and after a failure.          *)
(*                                                                         *)
(* A load is one run of a loader: the answer it carries is what the server *)
(* held when the run began, the oldest it can carry.                       *)
(***************************************************************************)

CONSTANT Null     \* data = null: no answer yet

Answer(key, rows) == [key |-> key, rows |-> rows]

Unmounted == [data |-> Null, error |-> FALSE, loading |-> TRUE, refreshing |-> FALSE]

Load(hook, answer) == [hook |-> hook, answer |-> answer, alive |-> TRUE]

(* The effect: a first run shows the loading screen, a later one refreshes.  *)
Begun(state) ==
    IF state.data = Null THEN [state EXCEPT !.loading = TRUE, !.error = FALSE]
    ELSE [state EXCEPT !.refreshing = TRUE, !.error = FALSE]

(* Its clean-up function: the runs of these hooks under way are not alive.   *)
Retired(loads, hooks) == {[l EXCEPT !.alive = @ /\ l.hook \notin hooks] : l \in loads}

Resolved(state, answer) ==
    [state EXCEPT !.data = answer, !.loading = FALSE, !.refreshing = FALSE]
Rejected(state) ==
    [state EXCEPT !.error = TRUE, !.loading = FALSE, !.refreshing = FALSE]

(* Mutant: the answer of a run that was replaced is kept.                    *)
DeliveredLate(state, load) == Resolved(state, load.answer)

Delivered(state, load) == IF load.alive THEN Resolved(state, load.answer) ELSE state
Failed(state, load)    == IF load.alive THEN Rejected(state) ELSE state

Settled(state) == ~state.loading /\ ~state.refreshing

(* What a hook that has settled without an error shows is what was asked for. *)
ShowsKey(state, key) == Settled(state) /\ ~state.error => state.data.key = key
=============================================================================
