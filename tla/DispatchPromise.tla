---------------------------- MODULE DispatchPromise ----------------------------
(***************************************************************************)
(* What the broker promises for each event, with none of its machinery: no  *)
(* queue, workers, files or counters, only where the event stands.          *)
(*                                                                          *)
(* An event that waits in memory may be lost with the process; one that     *)
(* waits on disk leaves the disk only by an evaluation or a counted loss,   *)
(* whatever happens to the process.                                         *)
(***************************************************************************)
CONSTANT Events

VARIABLE fate   \* fate[e]: where event e stands

Fates == {"unseen", "ignored", "memory", "disk", "evaluated", "lost", "abandoned"}

PromiseInit == fate = [e \in Events |-> "unseen"]

Moves(e, from, to) ==
    /\ fate[e] \in from
    /\ \E f \in to : fate' = [fate EXCEPT ![e] = f]

\* An event arrives: of no interest, or kept in memory or on disk, or counted lost.
Arrive(e) == Moves(e, {"unseen"}, {"ignored", "memory", "disk", "lost"})

\* The hunter gives its verdict.
Evaluate(e) == Moves(e, {"memory", "disk"}, {"evaluated"})

\* The hunter fails, and the event is kept on disk or counted lost.
Defer(e) == Moves(e, {"memory"}, {"disk", "lost"})
DeferAgain(e) == Moves(e, {"disk"}, {"lost"})

\* The process ends, and takes what is in memory with it.
End == fate' = [e \in Events |-> IF fate[e] = "memory" THEN "abandoned" ELSE fate[e]]

PromiseNext ==
    \/ \E e \in Events : Arrive(e) \/ Evaluate(e) \/ Defer(e) \/ DeferAgain(e)
    \/ End

PromiseSpec == PromiseInit /\ [][PromiseNext]_fate
==============================================================================
