----------------------------- MODULE HunterClient -----------------------------
(***************************************************************************)
(* broker/internal/hunter/client.go against the service of hunter/app.py.   *)
(*                                                                          *)
(* Several goroutines call Evaluate at once.  A call makes up to            *)
(* maxRetries + 1 requests with a wait before each but the first.  The      *)
(* client gives up on a request when its timeout or the context fires; the  *)
(* service does not notice and goes on handling it, so one call can have    *)
(* several requests in the service.                                         *)
(***************************************************************************)
EXTENDS Integers

CONSTANTS
    Calls,       \* calls of Evaluate
    MaxRetries   \* Client.maxRetries

ASSUME RetriesAssumption == MaxRetries \in Nat

VARIABLES
    phase,     \* phase[c]: where the call is
    attempt,   \* attempt[c]: the loop variable
    request,   \* request[c][a]: on the wire, or what the service made of it
    ctxDone,   \* the context all calls were given is cancelled
    late       \* calls that began after that

vars == <<phase, attempt, request, ctxDone, late>>

Attempts == 0 .. MaxRetries

\* The model is asked anew for every request, and need not say the same again.
Verdicts == {"kill", "alert"}

Init ==
    /\ phase = [c \in Calls |-> "none"]
    /\ attempt = [c \in Calls |-> 0]
    /\ request = [c \in Calls |-> [a \in Attempts |-> "none"]]
    /\ ctxDone = FALSE
    /\ late = {}

\* doRequest hands the request to net/http, which looks at the context: under a
\* cancelled one it sends nothing.  Else the request is on the wire, or lost.
Send(c, a) ==
    \E r \in IF ctxDone THEN {"none"} ELSE {"none", "wire"} :
        request' = [request EXCEPT ![c][a] = r]

\* Evaluate is called, and makes its first request at once.
Begin(c) ==
    /\ phase[c] = "none"
    /\ phase' = [phase EXCEPT ![c] = "request"]
    /\ Send(c, 0)
    /\ late' = IF ctxDone THEN late \cup {c} ELSE late
    /\ UNCHANGED <<attempt, ctxDone>>

-------------------------------------------------------------------------------
(* hunter/app.py *)

\* The request reaches the service: at any time later, also when the context has
\* been cancelled or the client has given up on it, or never.
Arrive(c, a) ==
    /\ request[c][a] = "wire"
    /\ request' = [request EXCEPT ![c][a] = "handling"]
    /\ UNCHANGED <<phase, attempt, ctxDone, late>>

\* The service answers: 200 with a verdict, after it has acted on a kill verdict
\* itself, or 500 when the engine or the responder raised.
Answers(c, a, r) ==
    /\ request[c][a] = "handling"
    /\ request' = [request EXCEPT ![c][a] = r]
    /\ UNCHANGED <<phase, attempt, ctxDone, late>>

\* To the client any answer may come; Response has what the service does first.
Serve(c, a) == \E r \in Verdicts \cup {"failure"} : Answers(c, a, r)

-------------------------------------------------------------------------------
\* The response to the current request is a 200 with a verdict.
Answered(c) == request[c][attempt[c]] \in Verdicts

\* doRequest returns the verdict, and so does Evaluate.
RequestOK(c) ==
    /\ phase[c] = "request"
    /\ Answered(c)
    /\ phase' = [phase EXCEPT ![c] = "ok"]
    /\ UNCHANGED <<attempt, request, ctxDone, late>>

\* Mutant: the loop condition is attempt < maxRetries.
AttemptsLeftButOne(c) == attempt[c] + 1 < MaxRetries

\* Mutant: one attempt too many.
AttemptsLeftOneMore(c) == attempt[c] <= MaxRetries

\* The loop condition, for the attempt after this one.
AttemptsLeft(c) == attempt[c] < MaxRetries

\* Mutant: the HTTP client has no timeout.
CanFailUntimed(c) == request[c][attempt[c]] \in {"none", "failure"} \/ ctxDone

\* A request can fail at any time: no connection, the timeout, the context, a
\* status other than 200, a body that does not decode.
CanFail(c) == TRUE

\* doRequest returns an error: wait for the next attempt, or give up.
RequestErr(c) ==
    /\ phase[c] = "request"
    /\ CanFail(c)
    /\ phase' = [phase EXCEPT ![c] = IF AttemptsLeft(c) THEN "backoff" ELSE "err"]
    /\ attempt' = [attempt EXCEPT ![c] = IF AttemptsLeft(c) THEN @ + 1 ELSE @]
    /\ UNCHANGED <<request, ctxDone, late>>

\* The wait is over: the next request is made.
BackoffOver(c) ==
    /\ phase[c] = "backoff"
    /\ phase' = [phase EXCEPT ![c] = "request"]
    /\ Send(c, attempt[c])
    /\ UNCHANGED <<attempt, ctxDone, late>>

\* The context is cancelled during the wait.
BackoffCancelled(c) ==
    /\ phase[c] = "backoff"
    /\ ctxDone
    /\ phase' = [phase EXCEPT ![c] = "err"]
    /\ UNCHANGED <<attempt, request, ctxDone, late>>

\* The broker is told to stop.
Cancel ==
    /\ ~ctxDone
    /\ ctxDone' = TRUE
    /\ UNCHANGED <<phase, attempt, request, late>>

-------------------------------------------------------------------------------
ClientStep(c) == RequestOK(c) \/ RequestErr(c) \/ BackoffOver(c) \/ BackoffCancelled(c)

Next ==
    \/ \E c \in Calls : Begin(c) \/ ClientStep(c)
    \/ \E c \in Calls, a \in Attempts : Arrive(c, a) \/ Serve(c, a)
    \/ Cancel

\* The client's timers run; nothing is assumed of the service.
Spec == Init /\ [][Next]_vars /\ \A c \in Calls : WF_vars(ClientStep(c))

-------------------------------------------------------------------------------
(* Properties *)

TypeOK ==
    /\ phase \in [Calls -> {"none", "request", "backoff", "ok", "err"}]
    /\ attempt \in [Calls -> Attempts]
    /\ request \in [Calls -> [Attempts -> {"none", "wire", "handling", "failure"} \cup Verdicts]]
    /\ ctxDone \in BOOLEAN
    /\ late \subseteq Calls

\* Evaluate reports an error only when it has used up its attempts, or the
\* context was cancelled.
GivesUpLast ==
    \A c \in Calls : phase[c] = "err" => attempt[c] = MaxRetries \/ ctxDone

\* The calls as their callers see them.
CallState == [c \in Calls |-> IF phase[c] \in {"request", "backoff"} THEN "running" ELSE phase[c]]

Promise == INSTANCE EvaluatePromise WITH call <- CallState, cancelled <- ctxDone

\* Evaluate does what Pipeline assumes of it, in particular that every call
\* returns even when the service hangs.
KeepsPromise == Promise!PromiseSpec

-------------------------------------------------------------------------------
(* A statement of the repository that the code does not meet; see the README. *)

\* hunter/app.py, where it acts on a kill verdict: "the Go broker independently
\* applies the same verdict on its side".  So a call during which the hunter
\* acted on a kill verdict returns that verdict.
SameVerdictApplied ==
    \A c \in Calls, a \in Attempts :
        request[c][a] = "kill" /\ phase[c] \in {"ok", "err"} =>
            phase[c] = "ok" /\ request[c][attempt[c]] = "kill"
===============================================================================
