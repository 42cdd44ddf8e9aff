---------------------------- MODULE EvaluatePromise ----------------------------
(***************************************************************************)
(* What HunterClient.Evaluate promises its callers, as Pipeline relies on   *)
(* it: a call that has begun ends once, with a verdict or with an error; one *)
(* that began under a cancelled context ends with an error.                 *)
(***************************************************************************)
CONSTANT Calls

VARIABLES
    call,       \* call[c]: not made, under way, or how it ended
    late,       \* calls that began under a cancelled context
    cancelled   \* the context is cancelled

PromiseInit ==
    /\ call = [c \in Calls |-> "none"]
    /\ late = {}
    /\ cancelled = FALSE

Begin(c) ==
    /\ call[c] = "none"
    /\ call' = [call EXCEPT ![c] = "running"]
    /\ late' = IF cancelled THEN late \cup {c} ELSE late
    /\ UNCHANGED cancelled

Return(c) ==
    /\ call[c] = "running"
    /\ \E r \in IF c \in late THEN {"err"} ELSE {"ok", "err"} : call' = [call EXCEPT ![c] = r]
    /\ UNCHANGED <<late, cancelled>>

Cancel ==
    /\ cancelled' = TRUE
    /\ UNCHANGED <<call, late>>

PromiseNext == Cancel \/ \E c \in Calls : Begin(c) \/ Return(c)

\* Every call returns, whatever the hunter does.
PromiseSpec ==
    /\ PromiseInit
    /\ [][PromiseNext]_<<call, late, cancelled>>
    /\ \A c \in Calls : WF_<<call, late, cancelled>>(Return(c))
==============================================================================
