---------------------------- MODULE ResponseProofs ----------------------------
(* Theorems about Response: whatever the model replies, for any number of      *)
(* retries and of processes that get the pid.                                  *)
EXTENDS Response, RespondProofs

\* A step of the response is a step of the responders, or none of them moves.
LEMMA RespondersStep ==
  ASSUME [ResponseNext]_all
  PROVE  [Next]_vars
<1>1. Attempts = Hunters /\ TheBroker \in Brokers
  BY ResponseAssumption
<1>2. ASSUME NEW a \in Attempts, HunterActs(a) PROVE Next
  BY <1>1, <1>2 DEF HunterActs, Next
<1>3. CASE BrokerActs
  BY <1>1, <1>3 DEF BrokerActs, Next
<1>4. CASE Kernel
  BY <1>4 DEF Kernel, Next
<1> QED
  BY <1>2, <1>3, <1>4 DEF ResponseNext, Client, Arrive, Ask, Answer, all

\* Tied to what the client, the engine and the service do, the responders still
\* do nothing that Respond does not allow: its theorems hold here too.
THEOREM ImplementsRespond == ResponseSpec => Spec
<1>1. ResponseInit => Init
  BY DEF ResponseInit
<1> QED  BY <1>1, RespondersStep, PTL DEF ResponseSpec, Spec

\* The process that is hit and the one that is reported killed or gone, for the
\* responders of one event.
THEOREM RespondersKeepTheirWord ==
  ResponseSpec => [](StrangersSpared /\ DoneMeansDead)
  BY ImplementsRespond, SpareAlways, SpareMeans, PTL

-------------------------------------------------------------------------------
(* Types *)

\* What can have become of a request.
Answered == {"none", "wire", "handling", "failure"} \cup C!Verdicts

\* One request's entry changes.
LEMMA RequestMoves ==
  ASSUME C!TypeOK, NEW a \in Attempts, NEW r \in Answered,
         request' = [request EXCEPT ![TheCall][a] = r]
  PROVE  /\ request' \in [{TheCall} -> [Attempts -> Answered]]
         /\ request'[TheCall][a] = r
         /\ \A b \in Attempts : b # a => request'[TheCall][b] = request[TheCall][b]
  BY DEF C!TypeOK, Answered, Attempts, C!Attempts

\* A request is made, and is lost or on the wire.
LEMMA SendMoves ==
  ASSUME C!TypeOK, NEW a \in Attempts, C!Send(TheCall, a)
  PROVE  /\ request' \in [{TheCall} -> [Attempts -> Answered]]
         /\ request'[TheCall][a] \in {"none", "wire"}
         /\ \A b \in Attempts : b # a => request'[TheCall][b] = request[TheCall][b]
<1>1. PICK r \in {"none", "wire"} : request' = [request EXCEPT ![TheCall][a] = r]
  BY DEF C!Send
<1>2. r \in Answered
  BY DEF Answered
<1> QED  BY <1>1, <1>2, RequestMoves

\* A request reaches the service.
LEMMA ArriveMoves ==
  ASSUME C!TypeOK, NEW a \in Attempts, Arrive(a)
  PROVE  /\ request' \in [{TheCall} -> [Attempts -> Answered]]
         /\ request[TheCall][a] = "wire"
         /\ request'[TheCall][a] = "handling"
         /\ \A b \in Attempts : b # a => request'[TheCall][b] = request[TheCall][b]
         /\ UNCHANGED <<phase, attempt, ctxDone, late, reply, vars>>
<1>1. "handling" \in Answered
  BY DEF Answered
<1>2. /\ request[TheCall][a] = "wire"
      /\ request' = [request EXCEPT ![TheCall][a] = "handling"]
      /\ UNCHANGED <<phase, attempt, ctxDone, late, reply, vars>>
  BY DEF Arrive, C!Arrive
<1>3. /\ request' \in [{TheCall} -> [Attempts -> Answered]]
      /\ request'[TheCall][a] = "handling"
      /\ \A b \in Attempts : b # a => request'[TheCall][b] = request[TheCall][b]
  BY <1>1, <1>2, RequestMoves
<1> QED  BY <1>2, <1>3

\* The service answers a request it is handling; it says "kill" only if its
\* verdict was that and it has acted on it without failing.
LEMMA AnswerMoves ==
  ASSUME C!TypeOK, NEW a \in Attempts, Answer(a)
  PROVE  /\ request' \in [{TheCall} -> [Attempts -> Answered]]
         /\ request[TheCall][a] = "handling"
         /\ request'[TheCall][a] = "kill" =>
               Judged(a) /\ action(a) = "kill" /\ step[a] \in Ended \ {"raised"}
         /\ \A b \in Attempts : b # a => request'[TheCall][b] = request[TheCall][b]
         /\ UNCHANGED <<phase, attempt, ctxDone, late, reply, vars>>
<1>1. PICK r \in {"failure", "kill", "alert"} :
        /\ C!Answers(TheCall, a, r)
        /\ r = "kill" => Judged(a) /\ action(a) = "kill" /\ step[a] \in Ended \ {"raised"}
  BY DEF Answer, Acted
<1>2. r \in Answered
  BY DEF Answered, C!Verdicts
<1>3. /\ request[TheCall][a] = "handling"
      /\ request' = [request EXCEPT ![TheCall][a] = r]
      /\ UNCHANGED <<phase, attempt, ctxDone, late>>
  BY <1>1 DEF C!Answers
<1>4. /\ request' \in [{TheCall} -> [Attempts -> Answered]]
      /\ request'[TheCall][a] = r
      /\ \A b \in Attempts : b # a => request'[TheCall][b] = request[TheCall][b]
  BY <1>2, <1>3, RequestMoves
<1> QED  BY <1>1, <1>3, <1>4 DEF Answer

\* The call's own steps, by their effect on what the responders go by: a call
\* that has a verdict stays where it is.
LEMMA ClientMoves ==
  ASSUME C!TypeOK, Client
  PROVE  /\ C!TypeOK'
         /\ phase[TheCall] = "ok" => UNCHANGED <<phase, attempt, request>>
         /\ \A b \in Attempts : request'[TheCall][b] \in {request[TheCall][b], "none", "wire"}
         /\ UNCHANGED <<reply, vars>>
<1> USE ResponseAssumption
<1>1. UNCHANGED <<reply, vars>>
  BY DEF Client
<1>2. CASE C!Begin(TheCall)
  <2>1. 0 \in Attempts
    BY DEF Attempts
  <2>2. /\ request' \in [{TheCall} -> [Attempts -> Answered]]
        /\ \A b \in Attempts : request'[TheCall][b] \in {request[TheCall][b], "none", "wire"}
    BY <1>2, <2>1, SendMoves DEF C!Begin
  <2> QED  BY <1>1, <1>2, <2>2 DEF C!Begin, C!TypeOK, Answered, Attempts, C!Attempts
<1>3. CASE C!RequestOK(TheCall)
  BY <1>1, <1>3 DEF C!RequestOK, C!TypeOK
<1>4. CASE C!RequestErr(TheCall)
  <2>1. attempt' \in [{TheCall} -> C!Attempts]
    BY <1>4 DEF C!RequestErr, C!AttemptsLeft, C!TypeOK, C!Attempts
  <2> QED  BY <1>1, <1>4, <2>1 DEF C!RequestErr, C!TypeOK
<1>5. CASE C!BackoffOver(TheCall)
  <2>1. attempt[TheCall] \in Attempts
    BY DEF C!TypeOK, Attempts, C!Attempts
  <2>2. /\ request' \in [{TheCall} -> [Attempts -> Answered]]
        /\ \A b \in Attempts : request'[TheCall][b] \in {request[TheCall][b], "none", "wire"}
    BY <1>5, <2>1, SendMoves DEF C!BackoffOver
  <2> QED  BY <1>1, <1>5, <2>2 DEF C!BackoffOver, C!TypeOK, Answered, Attempts, C!Attempts
<1>6. CASE C!BackoffCancelled(TheCall)
  BY <1>1, <1>6 DEF C!BackoffCancelled, C!TypeOK
<1>7. CASE C!Cancel
  BY <1>1, <1>7 DEF C!Cancel, C!TypeOK
<1> QED
  BY <1>2, <1>3, <1>4, <1>5, <1>6, <1>7 DEF Client, C!ClientStep

LEMMA ClientTypeStep ==
  ASSUME C!TypeOK, [ResponseNext]_all
  PROVE  C!TypeOK'
<1>1. CASE Client
  BY <1>1, ClientMoves
<1>2. ASSUME NEW a \in Attempts, Answer(a) PROVE C!TypeOK'
  BY <1>2, AnswerMoves DEF C!TypeOK, Answered, Attempts, C!Attempts
<1>3. ASSUME NEW a \in Attempts, Arrive(a) PROVE C!TypeOK'
  BY <1>3, ArriveMoves DEF C!TypeOK, Answered, Attempts, C!Attempts
<1>4. CASE UNCHANGED client
  BY <1>4 DEF client, C!TypeOK
<1> QED
  BY <1>1, <1>2, <1>3, <1>4 DEF ResponseNext, Ask, HunterActs, BrokerActs, Kernel, all

LEMMA ClientTypeInit == C!Init => C!TypeOK
<1> SUFFICES ASSUME C!Init PROVE C!TypeOK
  OBVIOUS
<1>1. 0 \in C!Attempts
  BY ResponseAssumption DEF C!Attempts
<1>2. [a \in C!Attempts |-> "none"] \in [C!Attempts -> Answered]
  BY DEF Answered
<1> QED  BY <1>1, <1>2 DEF C!Init, C!TypeOK, Answered

LEMMA ClientTypeAlways == ResponseSpec => []C!TypeOK
<1>1. ResponseInit => C!TypeOK
  BY ClientTypeInit DEF ResponseInit
<1> QED  BY <1>1, ClientTypeStep, PTL DEF ResponseSpec

-------------------------------------------------------------------------------
(* The engine *)

\* Whatever the model put into the tool's input, the verdict is in the schema.
LEMMA VerdictInSchema ==
  ASSUME NEW r
  PROVE  evaluate(r) \in [severity : Severities, action : Actions,
                         technique : Techniques \cup {NoTechnique}, confidence : 0 .. Top]
<1> USE EngineAssumption
<1>1. _fallback_verdict \in [severity : Severities, action : Actions,
                             technique : Techniques \cup {NoTechnique}, confidence : 0 .. Top]
  BY DEF _fallback_verdict, Severities, Actions
<1>2. ASSUME ValidInput(r)
      PROVE  _parse_tool_input(r) \in [severity : Severities, action : Actions,
                             technique : Techniques \cup {NoTechnique}, confidence : 0 .. Top]
  BY <1>2 DEF _parse_tool_input, ValidInput, is_known_technique, Actions
<1> QED  BY <1>1, <1>2 DEF evaluate, _parse_tool_input

\* The authority boundary: a verdict to kill comes only from a reply that
\* authorises it.
LEMMA KillIsAuthorised ==
  ASSUME NEW r, evaluate(r).action = "kill"
  PROVE  Authorises(r)
<1>1. r.kind = "tool" /\ ValidInput(r)
  BY DEF evaluate, _parse_tool_input, _fallback_verdict
<1>2. r.action = "kill" /\ MayKill(r)
  BY <1>1 DEF evaluate, _parse_tool_input
<1> QED  BY <1>1, <1>2, EngineAssumption DEF Authorises, MayKill, ValidInput

\* The authority boundary from both sides: of the replies the model can give, those
\* that llm_engine.py and config.py allow to be killed for, and no others, become a
\* verdict to kill.
THEOREM AuthorityBoundary ==
  ASSUME NEW r, r.kind = "tool" => r.confidence \in Int
  PROVE  evaluate(r).action = "kill" <=> Authorises(r)
<1>1. ASSUME Authorises(r) PROVE evaluate(r).action = "kill"
  <2>1. r.kind = "tool" /\ ValidInput(r) /\ MayKill(r) /\ r.action = "kill"
    BY <1>1, EngineAssumption DEF Authorises, ValidInput, MayKill, Severities, Actions
  <2> QED  BY <2>1 DEF evaluate, _parse_tool_input
<1> QED  BY <1>1, KillIsAuthorised

RepliesOK == reply \in [Attempts -> Replies \cup {NoReply}]

LEMMA ReplyStep ==
  ASSUME RepliesOK, [ResponseNext]_all
  PROVE  RepliesOK'
  BY DEF RepliesOK, ResponseNext, Client, Arrive, Ask, HunterActs, Answer, BrokerActs, Kernel, all

\* The types of the response; in particular whatever the model replies, a
\* request that does not fail ends with a verdict in the schema.
THEOREM ResponseTypeCorrect == ResponseSpec => []ResponseTypeOK
<1>1. ResponseInit => RepliesOK
  BY DEF ResponseInit, RepliesOK
<1>2. ResponseSpec => []RepliesOK
  BY <1>1, ReplyStep, PTL DEF ResponseSpec
<1>3. ASSUME TypeOK, C!TypeOK, RepliesOK PROVE ResponseTypeOK
  BY <1>3, VerdictInSchema DEF ResponseTypeOK, RepliesOK
<1> QED  BY <1>2, <1>3, ImplementsRespond, TypeCorrect, ClientTypeAlways, PTL

-------------------------------------------------------------------------------
(* The client *)

\* Every step is a step of HunterClient, or none of the client's and the service's:
\* an answer that waits for the engine and for the kill is still one that
\* HunterClient expects.
LEMMA ClientStepped ==
  ASSUME [ResponseNext]_all
  PROVE  [C!Next]_(C!vars)
<1>1. CASE Client
  BY <1>1 DEF Client, C!Next
<1>2. ASSUME NEW a \in Attempts, Answer(a) PROVE C!Next
  <2>1. PICK r \in {"failure", "kill", "alert"} : C!Answers(TheCall, a, r)
    BY <1>2 DEF Answer
  <2>2. C!Serve(TheCall, a)
    BY <2>1 DEF C!Serve, C!Verdicts
  <2> QED  BY <2>2 DEF C!Next, Attempts, C!Attempts
<1>3. ASSUME NEW a \in Attempts, Arrive(a) PROVE C!Next
  BY <1>3 DEF Arrive, C!Next, Attempts, C!Attempts
<1>4. CASE UNCHANGED client
  BY <1>4 DEF client, C!vars
<1> QED
  BY <1>1, <1>2, <1>3, <1>4 DEF ResponseNext, Ask, HunterActs, BrokerActs, Kernel, all

\* Tied to an engine and to a service that acts before it answers, the client still
\* does nothing that HunterClient does not allow.
THEOREM ImplementsClient == ResponseSpec => C!Init /\ [][C!Next]_(C!vars)
<1>1. ResponseInit => C!Init
  BY DEF ResponseInit
<1> QED  BY <1>1, ClientStepped, PTL DEF ResponseSpec

\* What the call's own steps make of its outcome.
LEMMA OutcomeStep ==
  ASSUME C!TypeOK, C!GivesUpLast, [ResponseNext]_all
  PROVE  C!GivesUpLast'
<1> USE DEF C!GivesUpLast
<1>1. attempt[TheCall] \in Attempts /\ attempt \in [{TheCall} -> Attempts]
  BY DEF C!TypeOK, Attempts, C!Attempts
<1>2. CASE Client
  <2>1. CASE C!Begin(TheCall)
    BY <2>1 DEF C!Begin, C!TypeOK
  <2>2. CASE C!RequestOK(TheCall)
    BY <2>2 DEF C!RequestOK, C!TypeOK
  <2>3. CASE C!RequestErr(TheCall)
    <3>1. phase'[TheCall] = "err" => ~C!AttemptsLeft(TheCall) /\ attempt'[TheCall] = attempt[TheCall]
      BY <2>3 DEF C!RequestErr, C!TypeOK
    <3>2. ~C!AttemptsLeft(TheCall) => attempt[TheCall] = MaxRetries
      BY <1>1, ResponseAssumption DEF C!AttemptsLeft, Attempts
    <3> QED  BY <3>1, <3>2
  <2>4. CASE C!BackoffOver(TheCall)
    BY <2>4 DEF C!BackoffOver, C!TypeOK
  <2>5. CASE C!BackoffCancelled(TheCall)
    BY <2>5 DEF C!BackoffCancelled, C!TypeOK
  <2>6. CASE C!Cancel
    BY <2>6 DEF C!Cancel
  <2> QED  BY <1>2, <2>1, <2>2, <2>3, <2>4, <2>5, <2>6 DEF Client, C!ClientStep
<1>3. ASSUME NEW a \in Attempts, Arrive(a) \/ Answer(a) PROVE C!GivesUpLast'
  BY <1>3, ArriveMoves, AnswerMoves
<1>4. CASE UNCHANGED client
  BY <1>4 DEF client
<1> QED
  BY <1>2, <1>3, <1>4 DEF ResponseNext, Ask, HunterActs, BrokerActs, Kernel, all

\* In the composition too, an error of the call means that it has no attempt left
\* or was told to stop.
THEOREM ClientKeepsItsWord == ResponseSpec => []C!GivesUpLast
<1>1. ResponseInit => C!GivesUpLast
  BY DEF ResponseInit, C!Init, C!GivesUpLast
<1> QED  BY <1>1, OutcomeStep, ClientTypeAlways, PTL DEF ResponseSpec

-------------------------------------------------------------------------------
(* Who may act, and when *)

\* A responder that has left its start was told to by a verdict to kill: the
\* hunter's by its own request's, the broker's by the answer the call returned,
\* which the service gave only once it had carried it out.
ActsOnVerdict ==
    /\ \A a \in Attempts : step[a] # "start" => Judged(a) /\ action(a) = "kill"
    /\ \A a \in Attempts : request[TheCall][a] = "kill" =>
          Judged(a) /\ action(a) = "kill" /\ step[a] \in Ended \ {"raised"}
    /\ step[TheBroker] # "start" =>
          phase[TheCall] = "ok" /\ request[TheCall][attempt[TheCall]] = "kill"

\* A responder that has ended stays where it is, and none moves another.
LEMMA ActingMoves ==
  ASSUME TypeOK, NEW r \in Responders, KillProcess(r) \/ kill_pid(r)
  PROVE  /\ step[r] \notin Ended
         /\ \A q \in Responders : q # r => step'[q] = step[q]
<1>1. step[r] \notin Ended
  BY DEF KillProcess, kill_pid, Open, Read, DirectSignal, HelperUnavailable, HelperTest, HelperRead,
     HelperSignal, Helping, Ended
<1>2. \E s : Goes(r, s)
  BY DEF KillProcess, kill_pid, Open, Read, DirectSignal, OwnSignal, HelperUnavailable, HelperTest,
     HelperRead, HelperSignal, Signal, CheckComm
<1> QED  BY <1>1, <1>2 DEF Goes, TypeOK

LEMMA ActsOnVerdictStep ==
  ASSUME TypeOK, C!TypeOK, RepliesOK, ActsOnVerdict, [ResponseNext]_all
  PROVE  ActsOnVerdict'
<1> USE DEF ActsOnVerdict
<1>1. /\ Attempts \subseteq Responders
      /\ TheBroker \in Responders \ Attempts
      /\ attempt[TheCall] \in Attempts
  BY ResponseAssumption, RespondAssumption DEF Responders, C!TypeOK, Attempts, C!Attempts
<1>2. CASE Client
  <2>1. UNCHANGED <<reply, step>>
    BY <1>2, ClientMoves DEF vars
  <2>2. \A a \in Attempts : request'[TheCall][a] = "kill" => request[TheCall][a] = "kill"
    BY <1>2, ClientMoves
  <2>3. phase[TheCall] = "ok" => UNCHANGED <<phase, attempt, request>>
    BY <1>2, ClientMoves
  <2> QED  BY <2>1, <2>2, <2>3 DEF Judged, action
<1>3. ASSUME NEW a \in Attempts, Ask(a) PROVE ActsOnVerdict'
  <2>1. ~Judged(a)
    BY <1>3 DEF Ask, Judged, NoReply
  <2>2. \A b \in Attempts : b # a => reply'[b] = reply[b]
    BY <1>3 DEF Ask, RepliesOK
  <2>3. UNCHANGED <<phase, attempt, request, step>>
    BY <1>3 DEF Ask, client, vars
  <2> QED  BY <2>1, <2>2, <2>3 DEF Judged, action
<1>4. ASSUME NEW a \in Attempts, HunterActs(a) PROVE ActsOnVerdict'
  <2>1. step[a] \notin Ended /\ \A q \in Responders : q # a => step'[q] = step[q]
    BY <1>1, <1>4, ActingMoves DEF HunterActs
  <2>2. Judged(a) /\ action(a) = "kill" /\ UNCHANGED <<phase, attempt, request, reply>>
    BY <1>4 DEF HunterActs, client
  <2> QED  BY <1>1, <2>1, <2>2 DEF Judged, action
<1>5. ASSUME NEW a \in Attempts, Answer(a) PROVE ActsOnVerdict'
  <2>1. UNCHANGED <<phase, attempt, reply, step>>
    BY <1>5, AnswerMoves DEF vars
  <2> QED  BY <1>1, <1>5, <2>1, AnswerMoves DEF Judged, action
<1>6. CASE BrokerActs
  <2>1. \A q \in Responders : q # TheBroker => step'[q] = step[q]
    BY <1>1, <1>6, ActingMoves DEF BrokerActs
  <2>2. /\ phase[TheCall] = "ok" /\ request[TheCall][attempt[TheCall]] = "kill"
        /\ UNCHANGED <<phase, attempt, request, reply>>
    BY <1>6 DEF BrokerActs, client
  <2> QED  BY <1>1, <2>1, <2>2 DEF Judged, action
<1>7. CASE Kernel
  BY <1>7 DEF Kernel, Exec, Exit, Reuse, client, Judged, action
<1>8. ASSUME NEW a \in Attempts, Arrive(a) PROVE ActsOnVerdict'
  <2>1. UNCHANGED <<phase, attempt, reply, step>>
    BY <1>8, ArriveMoves DEF vars
  <2> QED  BY <1>1, <1>8, <2>1, ArriveMoves DEF Judged, action
<1>9. CASE UNCHANGED all
  BY <1>9 DEF all, client, vars, Judged, action
<1> QED  BY <1>2, <1>3, <1>4, <1>5, <1>6, <1>7, <1>8, <1>9 DEF ResponseNext

LEMMA ActsOnVerdictAlways == ResponseSpec => []ActsOnVerdict
<1>1. ResponseInit => ActsOnVerdict
  BY ResponseAssumption, RespondAssumption
  DEF ResponseInit, Init, C!Init, ActsOnVerdict, Responders, Attempts, C!Attempts
<1>2. ResponseTypeOK => TypeOK /\ C!TypeOK /\ RepliesOK
  BY DEF ResponseTypeOK, RepliesOK
<1> QED  BY <1>1, <1>2, ActsOnVerdictStep, ResponseTypeCorrect, PTL DEF ResponseSpec

\* No process is signalled unless a reply of the model authorised it: neither a
\* fallback, nor a retry, nor a late answer, nor a floor missed by one.
THEOREM KillsAreAuthorised == ResponseSpec => []KillsAuthorised
<1>1. ASSUME SpareInv, C!TypeOK, ActsOnVerdict PROVE KillsAuthorised
  <2>1. attempt[TheCall] \in Attempts /\ Attempts \subseteq Responders /\ TheBroker \in Responders
    BY <1>1, ResponseAssumption DEF Responders, C!TypeOK, Attempts, C!Attempts
  <2>2. \A r \in Responders : victim[r] # 0 => step[r] # "start"
    BY <1>1 DEF SpareInv, SpareOf
  <2>3. \A a \in Attempts : action(a) = "kill" => Authorises(reply[a])
    BY KillIsAuthorised DEF action
  <2> QED  BY <1>1, <2>1, <2>2, <2>3 DEF KillsAuthorised, ActsOnVerdict
<1> QED
  BY <1>1, ImplementsRespond, SpareAlways, ClientTypeAlways, ActsOnVerdictAlways, PTL

\* The broker takes its first look at the process only after the hunter has
\* ended, without failing, what the same verdict told it to do.
THEOREM HunterActsFirst == ResponseSpec => []HunterFirst
<1>1. ASSUME C!TypeOK, ActsOnVerdict PROVE HunterFirst
  <2>1. attempt[TheCall] \in Attempts
    BY <1>1 DEF C!TypeOK, Attempts, C!Attempts
  <2> QED  BY <1>1, <2>1 DEF HunterFirst, ActsOnVerdict
<1> QED  BY <1>1, ClientTypeAlways, ActsOnVerdictAlways, PTL
===============================================================================
