------------------------------- MODULE Response -------------------------------
(***************************************************************************)
(* One event from the worker's call of Evaluate to the end of its process:  *)
(* the client (HunterClient), the engine of each request it makes (Engine), *)
(* and the responders (Respond) of the hunter, one for each request whose   *)
(* verdict is to kill, and of the broker, on the same pid.                  *)
(***************************************************************************)
EXTENDS Respond, Engine

CONSTANTS
    TheCall,       \* the one call of Evaluate
    TheBroker,     \* its call of KillProcess
    MaxRetries,    \* Client.maxRetries
    Replies        \* what the model may reply

Attempts == 0 .. MaxRetries

ASSUME ResponseAssumption ==
    /\ MaxRetries \in Nat
    /\ Brokers = {TheBroker}
    /\ Hunters = Attempts

VARIABLES
    phase, attempt, request, ctxDone, late,   \* of HunterClient
    reply   \* reply[a]: what the model said to the a-th request

client == <<phase, attempt, request, ctxDone, late>>
all == <<client, reply, vars>>

C == INSTANCE HunterClient WITH Calls <- {TheCall}

\* Nothing asked yet.
NoReply == [kind |-> "none"]

ResponseInit ==
    /\ Init
    /\ C!Init
    /\ reply = [a \in Attempts |-> NoReply]

Ended == {"ok", "gone", "mismatch", "refused", "raised"}

-------------------------------------------------------------------------------
\* A request reaches the service.
Arrive(a) == C!Arrive(TheCall, a) /\ UNCHANGED <<reply, vars>>

\* engine.evaluate asks the model.  Every request asks anew.
Ask(a) ==
    /\ request[TheCall][a] = "handling"
    /\ reply[a] = NoReply
    /\ \E r \in Replies : reply' = [reply EXCEPT ![a] = r]
    /\ UNCHANGED <<client, vars>>

\* The verdict on the a-th request, if the engine did not raise.
Judged(a) == reply[a].kind \notin {"none", "exception"}
action(a) == evaluate(reply[a]).action

\* The service acts on a kill verdict before it answers, whether or not anybody
\* waits for the answer.
HunterActs(a) ==
    /\ Judged(a)
    /\ action(a) = "kill"
    /\ kill_pid(a)
    /\ UNCHANGED <<client, reply>>

\* Mutant: the kill is left to a background task.
ActsAfterwards(a) == TRUE

\* kill_pid has returned or raised, if it was called.
Acted(a) == action(a) = "kill" => step[a] \in Ended

\* A verdict is a 200; an exception of the engine or of kill_pid is a 500.
Answer(a) ==
    /\ \/ Judged(a) /\ Acted(a)
       \/ reply[a].kind = "exception"
    /\ C!Answers(TheCall, a,
          IF reply[a].kind = "exception" \/ step[a] = "raised" THEN "failure"
          ELSE IF action(a) = "kill" THEN "kill" ELSE "alert")
    /\ UNCHANGED <<reply, vars>>

\* Pipeline.evaluate acts on the verdict it got; it does not look at the context.
BrokerActs ==
    /\ phase[TheCall] = "ok"
    /\ request[TheCall][attempt[TheCall]] = "kill"
    /\ KillProcess(TheBroker)
    /\ UNCHANGED <<client, reply>>

\* The process goes its own way.
Kernel == (Exec \/ Exit \/ Reuse) /\ UNCHANGED <<client, reply>>

Client ==
    /\ C!Begin(TheCall) \/ C!ClientStep(TheCall) \/ C!Cancel
    /\ UNCHANGED <<reply, vars>>

ResponseNext ==
    \/ Client
    \/ \E a \in Attempts : Arrive(a) \/ Ask(a) \/ HunterActs(a) \/ Answer(a)
    \/ BrokerActs
    \/ Kernel

\* The worker goes on; nothing is assumed of the service or of the process.
ResponseSpec ==
    /\ ResponseInit
    /\ [][ResponseNext]_all
    /\ WF_all(C!ClientStep(TheCall) /\ UNCHANGED <<reply, vars>>)
    /\ WF_all(BrokerActs)

-------------------------------------------------------------------------------
(* Properties *)

\* Also: whatever the model replies, the broker gets a verdict in the schema.
ResponseTypeOK ==
    /\ TypeOK
    /\ C!TypeOK
    /\ reply \in [Attempts -> Replies \cup {NoReply}]
    /\ \A a \in Attempts : Judged(a) =>
          evaluate(reply[a]) \in [severity : Severities, action : Actions,
                                 technique : Techniques \cup {NoTechnique}, confidence : 0 .. Top]

\* What llm_engine.py and config.py allow to be killed for, said of the reply
\* itself: the model asked for it, in the schema, on a critical finding, with
\* at least the floor's confidence, and gave its reasons.
Authorises(r) ==
    /\ r.kind = "tool"
    /\ r.complete
    /\ r.severity = "critical"
    /\ r.action = "kill"
    /\ Floor <= r.confidence /\ r.confidence <= Top /\ 0 <= r.confidence

\* No process is signalled, by whichever responder, unless a reply authorised
\* it: the hunter's own to that very request, the broker's to the request it
\* took the answer of.  Fallbacks, retries and late answers authorise nothing.
KillsAuthorised ==
    /\ \A a \in Attempts : victim[a] # 0 => Authorises(reply[a])
    /\ victim[TheBroker] # 0 => Authorises(reply[attempt[TheCall]])

\* For one answer the two responders do not race: when the broker takes its
\* first look at the process, the hunter has done what it had to for the same
\* verdict, without having failed.
HunterFirst ==
    step[TheBroker] # "start" => step[attempt[TheCall]] \in Ended \ {"raised"}

\* A reply that authorises a kill and reaches the broker is carried out, even when
\* the broker is told to stop meanwhile: KillProcess runs to its end, and unless it
\* declined (another name, no privilege, init) the process the sensor saw is gone
\* then or has its SIGKILL.
KillCarriedOut ==
    (phase[TheCall] = "ok" /\ Authorises(reply[attempt[TheCall]])) ~>
        \/ step[TheBroker] \in {"mismatch", "refused"}
        \/ step[TheBroker] \in {"ok", "gone"} /\ (occupant # 1 \/ victim[TheBroker] = 1)

-------------------------------------------------------------------------------
(* A statement of the repository that the code does not meet; see the README. *)

\* respond.go: "both are safe to run together: killing an already-dead process
\* is a no-op error, not a hazard", so one event ends at most one process.
OneVictim == \A q, r \in Responders : 0 \notin {victim[q], victim[r]} => victim[q] = victim[r]
===============================================================================
