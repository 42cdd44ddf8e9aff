-------------------------- MODULE HunterClientProofs --------------------------
(* Theorems about HunterClient, for any number of calls and retries. *)
EXTENDS HunterClient, TLAPS

\* The parts of TypeOK that steps of the client change.
Phases == {"none", "request", "backoff", "ok", "err"}
Answer == {"none", "wire", "handling", "failure"} \cup Verdicts

\* One entry of request changes, and the table stays well typed.
LEMMA RequestType ==
  ASSUME TypeOK, NEW c \in Calls, NEW a \in Attempts, NEW r \in Answer,
         request' = [request EXCEPT ![c][a] = r]
  PROVE  /\ request' \in [Calls -> [Attempts -> Answer]]
         /\ request'[c][a] = r
         /\ \A d \in Calls, b \in Attempts : d # c \/ b # a => request'[d][b] = request[d][b]
  BY DEF TypeOK, Answer

\* What Send does, in any context.
LEMMA SendType ==
  ASSUME TypeOK, NEW c \in Calls, NEW a \in Attempts, Send(c, a)
  PROVE  /\ request' \in [Calls -> [Attempts -> Answer]]
         /\ request'[c][a] \in {"none", "wire"}
         /\ ctxDone => request'[c][a] = "none"
         /\ \A d \in Calls, b \in Attempts : d # c \/ b # a => request'[d][b] = request[d][b]
<1>1. PICK r \in IF ctxDone THEN {"none"} ELSE {"none", "wire"} :
        request' = [request EXCEPT ![c][a] = r]
  BY DEF Send
<1>2. r \in Answer
  BY <1>1 DEF Answer
<1> QED  BY <1>1, <1>2, RequestType

\* A request reaches the service.
LEMMA ArriveType ==
  ASSUME TypeOK, NEW c \in Calls, NEW a \in Attempts, Arrive(c, a)
  PROVE  /\ request' \in [Calls -> [Attempts -> Answer]]
         /\ request[c][a] # "none"
         /\ \A d \in Calls, b \in Attempts : d # c \/ b # a => request'[d][b] = request[d][b]
         /\ UNCHANGED <<phase, attempt, ctxDone, late>>
<1>1. "handling" \in Answer
  BY DEF Answer
<1>2. /\ request[c][a] = "wire"
      /\ request' = [request EXCEPT ![c][a] = "handling"]
      /\ UNCHANGED <<phase, attempt, ctxDone, late>>
  BY DEF Arrive
<1>3. /\ request' \in [Calls -> [Attempts -> Answer]]
      /\ \A d \in Calls, b \in Attempts : d # c \/ b # a => request'[d][b] = request[d][b]
  BY <1>1, <1>2, RequestType
<1> QED  BY <1>2, <1>3

\* A step of the service: one request that is being handled gets its answer.
LEMMA ServeType ==
  ASSUME TypeOK, NEW c \in Calls, NEW a \in Attempts, Serve(c, a)
  PROVE  /\ request' \in [Calls -> [Attempts -> Answer]]
         /\ request[c][a] = "handling"
         /\ request'[c][a] # "none"
         /\ \A d \in Calls, b \in Attempts : d # c \/ b # a => request'[d][b] = request[d][b]
         /\ UNCHANGED <<phase, attempt, ctxDone, late>>
<1>1. PICK r \in Verdicts \cup {"failure"} : Answers(c, a, r)
  BY DEF Serve
<1>2. r \in Answer /\ r # "none"
  BY <1>1 DEF Answer, Verdicts
<1>3. /\ request[c][a] = "handling"
      /\ request' = [request EXCEPT ![c][a] = r]
      /\ UNCHANGED <<phase, attempt, ctxDone, late>>
  BY <1>1 DEF Answers
<1>4. /\ request' \in [Calls -> [Attempts -> Answer]]
      /\ request'[c][a] = r
      /\ \A d \in Calls, b \in Attempts : d # c \/ b # a => request'[d][b] = request[d][b]
  BY <1>2, <1>3, RequestType
<1> QED  BY <1>2, <1>3, <1>4

-------------------------------------------------------------------------------
LEMMA TypeInit == Init => TypeOK
<1> SUFFICES ASSUME Init PROVE TypeOK
  OBVIOUS
<1>1. [a \in Attempts |-> "none"] \in [Attempts -> Answer]
  BY DEF Answer
<1>2. request \in [Calls -> [Attempts -> Answer]]
  BY <1>1 DEF Init
<1>3. 0 \in Attempts
  BY RetriesAssumption DEF Attempts
<1> QED  BY <1>2, <1>3 DEF Init, TypeOK, Answer

LEMMA TypeStep == TypeOK /\ [Next]_vars => TypeOK'
<1> SUFFICES ASSUME TypeOK, [Next]_vars PROVE TypeOK'
  OBVIOUS
<1> USE RetriesAssumption
<1>1. CASE UNCHANGED vars
  BY <1>1 DEF TypeOK, vars
<1>2. ASSUME NEW c \in Calls, Begin(c) PROVE TypeOK'
  <2>1. 0 \in Attempts
    BY DEF Attempts
  <2>2. request' \in [Calls -> [Attempts -> Answer]]
    BY <1>2, <2>1, SendType DEF Begin
  <2> QED  BY <1>2, <2>2 DEF Begin, TypeOK, Answer
<1>3. ASSUME NEW c \in Calls, RequestOK(c) PROVE TypeOK'
  BY <1>3 DEF RequestOK, TypeOK
<1>4. ASSUME NEW c \in Calls, RequestErr(c) PROVE TypeOK'
  <2>1. attempt' \in [Calls -> Attempts]
    BY <1>4 DEF RequestErr, AttemptsLeft, TypeOK, Attempts
  <2> QED  BY <1>4, <2>1 DEF RequestErr, TypeOK
<1>5. ASSUME NEW c \in Calls, BackoffOver(c) PROVE TypeOK'
  <2>1. attempt[c] \in Attempts
    BY DEF TypeOK
  <2>2. request' \in [Calls -> [Attempts -> Answer]]
    BY <1>5, <2>1, SendType DEF BackoffOver
  <2> QED  BY <1>5, <2>2 DEF BackoffOver, TypeOK, Answer
<1>6. ASSUME NEW c \in Calls, BackoffCancelled(c) PROVE TypeOK'
  BY <1>6 DEF BackoffCancelled, TypeOK
<1>7. ASSUME NEW c \in Calls, NEW a \in Attempts, Serve(c, a) PROVE TypeOK'
  BY <1>7, ServeType DEF TypeOK, Answer
<1>8. ASSUME NEW c \in Calls, NEW a \in Attempts, Arrive(c, a) PROVE TypeOK'
  BY <1>8, ArriveType DEF TypeOK, Answer
<1>9. CASE Cancel
  BY <1>9 DEF Cancel, TypeOK
<1> QED
  BY <1>1, <1>2, <1>3, <1>4, <1>5, <1>6, <1>7, <1>8, <1>9 DEF Next, ClientStep

\* The client's variables keep their types: a call never makes more than
\* MaxRetries + 1 attempts.
THEOREM TypeCorrect == Spec => []TypeOK
  BY TypeInit, TypeStep, PTL DEF Spec

-------------------------------------------------------------------------------
(* What Evaluate returns. *)

LEMMA GivesUpStep ==
  ASSUME TypeOK, GivesUpLast, [Next]_vars
  PROVE  GivesUpLast'
<1> USE DEF GivesUpLast
<1>1. CASE UNCHANGED vars
  BY <1>1 DEF vars
<1>2. ASSUME NEW c \in Calls, Begin(c) \/ RequestOK(c) \/ BackoffOver(c) PROVE GivesUpLast'
  BY <1>2 DEF Begin, RequestOK, BackoffOver, TypeOK
<1>3. ASSUME NEW c \in Calls, RequestErr(c) PROVE GivesUpLast'
  BY <1>3, RetriesAssumption DEF RequestErr, AttemptsLeft, TypeOK, Attempts
<1>4. ASSUME NEW c \in Calls, BackoffCancelled(c) PROVE GivesUpLast'
  BY <1>4 DEF BackoffCancelled, TypeOK
<1>5. ASSUME NEW c \in Calls, NEW a \in Attempts, Serve(c, a) PROVE GivesUpLast'
  BY <1>5, ServeType
<1>6. ASSUME NEW c \in Calls, NEW a \in Attempts, Arrive(c, a) PROVE GivesUpLast'
  BY <1>6, ArriveType
<1>7. CASE Cancel
  BY <1>7 DEF Cancel
<1> QED
  BY <1>1, <1>2, <1>3, <1>4, <1>5, <1>6, <1>7 DEF Next, ClientStep

\* Evaluate gives up only after its last attempt or under a cancelled context.
THEOREM AttemptsAreUsedUp == Spec => []GivesUpLast
<1>1. Init => GivesUpLast
  BY DEF Init, GivesUpLast
<1> QED  BY <1>1, GivesUpStep, TypeCorrect, PTL DEF Spec

-------------------------------------------------------------------------------
(* Cancellation. *)

\* A request that is put on the wire is one of a call that has begun, and the
\* context was live then.
LEMMA SentAlive ==
  ASSUME TypeOK, [Next]_vars, NEW c \in Calls, NEW a \in Attempts,
         request[c][a] = "none", request'[c][a] # "none"
  PROVE  ~ctxDone /\ phase'[c] # "none"
<1>1. ASSUME NEW d \in Calls, NEW b \in Attempts, Send(d, b) PROVE ~ctxDone /\ d = c
  BY <1>1, SendType
<1>2. ASSUME NEW d \in Calls, Begin(d) PROVE ~ctxDone /\ phase'[c] # "none"
  BY <1>1, <1>2, RetriesAssumption DEF Begin, Attempts, TypeOK
<1>3. ASSUME NEW d \in Calls, BackoffOver(d) PROVE ~ctxDone /\ phase'[c] # "none"
  BY <1>1, <1>3 DEF BackoffOver, TypeOK
<1>4. ASSUME NEW d \in Calls, NEW b \in Attempts, Serve(d, b) PROVE FALSE
  BY <1>4, ServeType
<1>5. ASSUME NEW d \in Calls, NEW b \in Attempts, Arrive(d, b) PROVE FALSE
  BY <1>5, ArriveType
<1>6. ASSUME request' = request PROVE FALSE
  BY <1>6
<1> QED
  BY <1>2, <1>3, <1>4, <1>5, <1>6
  DEF Next, ClientStep, RequestOK, RequestErr, BackoffCancelled, Cancel, vars

-------------------------------------------------------------------------------
(* The promise Pipeline relies on, fairness aside. *)

\* A call that began late has no request on the wire or in the service, so it
\* cannot succeed; that is kept up by the calls that have not begun having none
\* either.
LateInv ==
    \A c \in Calls :
        /\ c \in late => ctxDone /\ phase[c] # "none"
        /\ c \in late \/ phase[c] = "none" => \A a \in Attempts : request[c][a] = "none"

LEMMA LateStep ==
  ASSUME TypeOK, LateInv, [Next]_vars
  PROVE  LateInv'
<1>1. \A c \in Calls, a \in Attempts :
        request[c][a] = "none" /\ request'[c][a] # "none" => ~ctxDone /\ phase'[c] # "none"
  BY SentAlive
<1>2. late \subseteq Calls /\ phase \in [Calls -> Phases]
  BY DEF TypeOK, Phases
<1>3. ctxDone => ctxDone'
  BY DEF Next, ClientStep, Begin, RequestOK, RequestErr, BackoffOver, BackoffCancelled, Arrive,
     Serve, Answers, Cancel, vars
<1>4. \A c \in Calls : phase[c] # "none" => phase'[c] # "none"
  BY <1>2
  DEF Next, ClientStep, Begin, RequestOK, RequestErr, BackoffOver, BackoffCancelled, Arrive,
      Serve, Answers, Cancel, vars
<1>5. CASE late' = late
  BY <1>1, <1>3, <1>4, <1>5 DEF LateInv
<1>6. ASSUME NEW c \in Calls, Begin(c), ctxDone PROVE LateInv'
  <2>1. late' = late \cup {c} /\ phase[c] = "none" /\ phase'[c] = "request"
    BY <1>2, <1>6 DEF Begin
  <2> QED  BY <1>1, <1>3, <1>4, <1>6, <2>1 DEF LateInv
<1> QED
  BY <1>5, <1>6 DEF Next, ClientStep, Begin, RequestOK, RequestErr, BackoffOver, BackoffCancelled,
     Arrive, Serve, Answers, Cancel, vars

LEMMA LateAlways == Spec => []LateInv
<1>1. Init => LateInv
  BY DEF Init, LateInv
<1> QED  BY <1>1, LateStep, TypeCorrect, PTL DEF Spec

\* How the callers see one call move on.
LEMMA CallStateMoves ==
  ASSUME TypeOK, NEW c \in Calls, NEW p \in Phases, phase' = [phase EXCEPT ![c] = p]
  PROVE  CallState' = [CallState EXCEPT ![c] = IF p \in {"request", "backoff"} THEN "running" ELSE p]
  BY DEF CallState, TypeOK, Phases

LEMMA PromiseStep ==
  ASSUME TypeOK, LateInv, [Next]_vars
  PROVE  [Promise!PromiseNext]_<<CallState, late, ctxDone>>
<1>1. ASSUME UNCHANGED <<phase, late, ctxDone>> PROVE UNCHANGED <<CallState, late, ctxDone>>
  BY <1>1 DEF CallState
<1>2. ASSUME NEW c \in Calls, Begin(c) PROVE Promise!Begin(c)
  <2>1. CallState' = [CallState EXCEPT ![c] = "running"]
    BY <1>2, CallStateMoves DEF Begin, Phases
  <2>2. CallState[c] = "none"
    BY <1>2 DEF Begin, CallState
  <2> QED  BY <1>2, <2>1, <2>2 DEF Begin, Promise!Begin
<1>3. ASSUME NEW c \in Calls, phase[c] \in {"request", "backoff"}, UNCHANGED <<late, ctxDone>>,
             NEW p \in IF c \in late THEN {"err"} ELSE {"ok", "err"},
             phase' = [phase EXCEPT ![c] = p]
      PROVE  Promise!Return(c)
  <2>1. CallState' = [CallState EXCEPT ![c] = p]
    BY <1>3, CallStateMoves DEF Phases
  <2>2. CallState[c] = "running"
    BY <1>3 DEF CallState
  <2> QED  BY <1>3, <2>1, <2>2 DEF Promise!Return
<1>4. ASSUME NEW c \in Calls, phase[c] \in {"request", "backoff"},
             NEW p \in {"request", "backoff"}, phase' = [phase EXCEPT ![c] = p]
      PROVE  CallState' = CallState
  <2>1. CallState' = [CallState EXCEPT ![c] = "running"]
    BY <1>4, CallStateMoves DEF Phases
  <2> QED  BY <1>4, <2>1 DEF CallState
<1>5. ASSUME NEW c \in Calls, RequestOK(c) PROVE Promise!Return(c)
  <2>1. c \notin late
    BY <1>5 DEF RequestOK, Answered, Verdicts, LateInv, TypeOK
  <2> QED  BY <1>3, <1>5, <2>1 DEF RequestOK
<1>6. ASSUME NEW c \in Calls, RequestErr(c)
      PROVE  Promise!Return(c) \/ UNCHANGED <<CallState, late, ctxDone>>
  BY <1>3, <1>4, <1>6 DEF RequestErr
<1>7. ASSUME NEW c \in Calls, BackoffOver(c) PROVE UNCHANGED <<CallState, late, ctxDone>>
  BY <1>4, <1>7 DEF BackoffOver
<1>8. ASSUME NEW c \in Calls, BackoffCancelled(c) PROVE Promise!Return(c)
  BY <1>3, <1>8 DEF BackoffCancelled
<1>9. ASSUME NEW c \in Calls, NEW a \in Attempts, Serve(c, a)
      PROVE  UNCHANGED <<CallState, late, ctxDone>>
  BY <1>1, <1>9, ServeType
<1>10. ASSUME NEW c \in Calls, NEW a \in Attempts, Arrive(c, a)
       PROVE  UNCHANGED <<CallState, late, ctxDone>>
  BY <1>1, <1>10, ArriveType
<1>11. CASE Cancel
  BY <1>11 DEF Cancel, Promise!Cancel, Promise!PromiseNext, CallState
<1>12. CASE UNCHANGED vars
  BY <1>1, <1>12 DEF vars
<1> QED
  BY <1>2, <1>5, <1>6, <1>7, <1>8, <1>9, <1>10, <1>11, <1>12
  DEF Next, ClientStep, Promise!PromiseNext

\* Evaluate implements the safety part of EvaluatePromise: a call ends once, and
\* one that began under a cancelled context never with a verdict.
THEOREM ImplementsPromise ==
  Spec => Promise!PromiseInit /\ [][Promise!PromiseNext]_<<CallState, late, ctxDone>>
<1>1. Init => Promise!PromiseInit
  BY DEF Init, Promise!PromiseInit, CallState
<1> QED  BY <1>1, PromiseStep, LateAlways, TypeCorrect, PTL DEF Spec
===============================================================================
