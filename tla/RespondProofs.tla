----------------------------- MODULE RespondProofs -----------------------------
(* Theorems about Respond, for any number of responders and processes. *)
EXTENDS Respond, TLAPS

Steps == {"start", "opened", "checked"} \cup Helping \cup
         {"ok", "gone", "mismatch", "refused", "raised"}

\* One step of responder r leaves the others where they are.
LEMMA OneMoves ==
  ASSUME TypeOK, NEW r \in Responders, NEW s \in Steps, Goes(r, s)
  PROVE  /\ step' \in [Responders -> Steps]
         /\ step'[r] = s
         /\ \A q \in Responders : q # r => step'[q] = step[q]
  BY DEF TypeOK, Goes, Steps, Helping

\* What the three kinds of step do that several responders share.
LEMMA CheckMoves ==
  ASSUME TypeOK, NEW r \in Responders, NEW s \in {"gone", "refused"},
         NEW c \in {"checked", "helperChecked"}, CheckComm(r, s, c)
  PROVE  /\ step' \in [Responders -> Steps]
         /\ step'[r] \in {"refused", "mismatch", s, c}
         /\ step'[r] = "gone" => occupant = 0
         /\ step'[r] = c => occupant # 0 /\ comm = Observed
         /\ \A q \in Responders : q # r => step'[q] = step[q] /\ saw'[q] = saw[q]
         /\ saw' \in [Responders -> 0 .. born]
         /\ saw'[r] = occupant
         /\ UNCHANGED <<occupant, born, comm, namesakes, victim>>
<1>1. PICK t \in {"refused", "mismatch", s, c} :
        /\ Goes(r, t)
        /\ t = "gone" => occupant = 0
        /\ t = c => occupant # 0 /\ comm = Observed
  BY DEF CheckComm, NameMatches
<1>2. step' \in [Responders -> Steps] /\ step'[r] = t /\ \A q \in Responders : q # r => step'[q] = step[q]
  BY <1>1, OneMoves DEF Steps, Helping
<1>3. saw' = [saw EXCEPT ![r] = occupant] /\ occupant \in 0 .. born
      /\ UNCHANGED <<occupant, born, comm, namesakes, victim>>
  BY RespondAssumption DEF CheckComm, kernel, TypeOK, Processes
<1> QED  BY <1>1, <1>2, <1>3 DEF TypeOK

LEMMA SignalMoves ==
  ASSUME TypeOK, NEW r \in Responders, NEW s \in {"gone", "refused"}, Signal(r, s)
  PROVE  /\ step' \in [Responders -> Steps]
         /\ step'[r] = IF occupant = 0 THEN s ELSE "ok"
         /\ \A q \in Responders : q # r => step'[q] = step[q] /\ victim'[q] = victim[q]
         /\ victim' \in [Responders -> 0 .. born]
         /\ victim'[r] = occupant
         /\ UNCHANGED <<occupant, born, comm, namesakes, saw>>
<1>1. PICK t \in {s, "ok"} : Goes(r, t) /\ t = IF occupant = 0 THEN s ELSE "ok"
  BY DEF Signal
<1>2. step' \in [Responders -> Steps] /\ step'[r] = t /\ \A q \in Responders : q # r => step'[q] = step[q]
  BY <1>1, OneMoves DEF Steps
<1>3. victim' = [victim EXCEPT ![r] = occupant] /\ occupant \in 0 .. born
      /\ UNCHANGED <<occupant, born, comm, namesakes, saw>>
  BY RespondAssumption DEF Signal, kernel, TypeOK, Processes
<1> QED  BY <1>1, <1>2, <1>3 DEF TypeOK

LEMMA OpenMoves ==
  ASSUME TypeOK, NEW r \in Responders, Open(r)
  PROVE  /\ step' \in [Responders -> Steps]
         /\ step'[r] = IF occupant = 0 THEN "gone" ELSE "opened"
         /\ \A q \in Responders : q # r => step'[q] = step[q] /\ saw'[q] = saw[q]
         /\ saw' \in [Responders -> 0 .. born]
         /\ saw'[r] = occupant
         /\ UNCHANGED <<occupant, born, comm, namesakes, victim>>
<1>1. PICK t \in {"gone", "opened"} : Goes(r, t) /\ t = IF occupant = 0 THEN "gone" ELSE "opened"
  BY DEF Open
<1>2. step' \in [Responders -> Steps] /\ step'[r] = t /\ \A q \in Responders : q # r => step'[q] = step[q]
  BY <1>1, OneMoves DEF Steps
<1>3. saw' = [saw EXCEPT ![r] = occupant] /\ occupant \in 0 .. born
      /\ UNCHANGED <<occupant, born, comm, namesakes, victim>>
  BY RespondAssumption DEF Open, kernel, TypeOK, Processes
<1> QED  BY <1>1, <1>2, <1>3 DEF TypeOK

LEMMA ReadMoves ==
  ASSUME TypeOK, NEW r \in Responders, Read(r)
  PROVE  /\ step' \in [Responders -> Steps]
         /\ step'[r] = IF occupant # saw[r] THEN "raised"
                       ELSE IF comm = Observed THEN "checked" ELSE "mismatch"
         /\ \A q \in Responders : q # r => step'[q] = step[q]
         /\ UNCHANGED <<occupant, born, comm, namesakes, saw, victim>>
<1>1. PICK t \in {"raised", "checked", "mismatch"} :
        Goes(r, t) /\ t = IF occupant # saw[r] THEN "raised"
                          ELSE IF comm = Observed THEN "checked" ELSE "mismatch"
  BY DEF Read, NameMatches
<1>2. step' \in [Responders -> Steps] /\ step'[r] = t /\ \A q \in Responders : q # r => step'[q] = step[q]
  BY <1>1, OneMoves DEF Steps
<1> QED  BY <1>1, <1>2 DEF Read, kernel

\* The steps that only move a responder: to the helper and on, or to give up.
LEMMA HelperMoves ==
  ASSUME TypeOK, NEW r \in Responders,
         NEW s \in {"helper", "helperFound", "ok", "refused", "raised"}, Goes(r, s),
         UNCHANGED <<kernel, saw, victim>>
  PROVE  /\ step' \in [Responders -> Steps]
         /\ step'[r] = s
         /\ \A q \in Responders : q # r => step'[q] = step[q]
         /\ UNCHANGED <<occupant, born, comm, namesakes, saw, victim>>
  BY OneMoves DEF Steps, Helping, kernel

\* What the helper's first test leads to.
LEMMA TestMoves ==
  ASSUME NEW r \in Responders, HelperTest(r)
  PROVE  \E s \in {"helperFound", "ok", "refused"} : Goes(r, s) /\ (s = "ok" => occupant = 0)
  BY DEF HelperTest

-------------------------------------------------------------------------------
LEMMA TypeInit == Init => TypeOK
  BY RespondAssumption DEF Init, TypeOK, Processes, Responders, Helping

LEMMA TypeStep ==
  ASSUME TypeOK, [Next]_vars
  PROVE  TypeOK'
<1> USE RespondAssumption
<1> USE DEF TypeOK, Steps, Helping
<1>1. CASE UNCHANGED vars
  BY <1>1 DEF vars, kernel
<1>2. CASE Exec
  <2>1. occupant = born
    BY <1>2 DEF Exec
  <2> QED  BY <1>2, <2>1 DEF Exec, Renamed, Processes
<1>3. CASE Exit
  BY <1>3 DEF Exit
<1>4. CASE Reuse
  <2>1. born' = born + 1 /\ born' \in Processes /\ occupant' = born'
    BY <1>4 DEF Reuse, Processes
  <2>2. namesakes' \subseteq 1 .. born' /\ comm' \in Comms
    BY <1>4, <2>1 DEF Reuse, Renamed, Processes
  <2>3. \A f \in [Responders -> 0 .. born] : f \in [Responders -> 0 .. born']
    BY <2>1 DEF Processes
  <2> QED  BY <1>4, <2>1, <2>2, <2>3 DEF Reuse
<1>5. ASSUME NEW r \in Brokers, KillProcess(r) PROVE TypeOK'
  <2>1. r \in Responders
    BY DEF Responders
  <2>2. CASE step[r] = "start" /\ CheckComm(r, "gone", "checked")
    BY <2>1, <2>2, CheckMoves DEF Responders
  <2>3. CASE Signal(r, "gone")
    BY <2>1, <2>3, SignalMoves DEF Responders
  <2>4. CASE Goes(r, "refused") /\ UNCHANGED <<kernel, saw, victim>>
    BY <2>1, <2>4, HelperMoves DEF Responders
  <2> QED  BY <1>5, <2>2, <2>3, <2>4 DEF KillProcess, OwnSignal
<1>6. ASSUME NEW r \in Hunters, kill_pid(r) PROVE TypeOK'
  <2>1. r \in Responders /\ r \notin Brokers
    BY DEF Responders
  <2>2. CASE Open(r)
    BY <2>1, <2>2, OpenMoves DEF Responders
  <2>3. CASE Read(r)
    BY <2>1, <2>3, ReadMoves DEF Responders
  <2>4. ASSUME NEW s \in {"gone", "refused"}, Signal(r, s) PROVE TypeOK'
    BY <2>1, <2>4, SignalMoves DEF Responders
  <2>5. ASSUME NEW s \in {"helper", "helperFound", "ok", "refused", "raised"}, Goes(r, s),
               UNCHANGED <<kernel, saw, victim>>, r \notin Privileged
        PROVE  TypeOK'
    BY <2>1, <2>5, HelperMoves DEF Responders
  <2>6. CASE step[r] \in Helping
    <3>1. r \notin Privileged
      BY <2>6
    <3>2. CASE HelperUnavailable(r)
      BY <2>5, <3>1, <3>2 DEF HelperUnavailable
    <3>3. CASE HelperTest(r)
      <4>1. UNCHANGED <<kernel, saw, victim>>
        BY <3>3 DEF HelperTest
      <4> QED  BY <2>1, <2>5, <3>1, <3>3, <4>1, TestMoves
    <3>4. CASE HelperRead(r)
      BY <2>1, <3>1, <3>4, CheckMoves DEF HelperRead, Responders
    <3> QED  BY <1>6, <2>2, <2>3, <2>4, <2>6, <3>2, <3>3, <3>4 DEF kill_pid, DirectSignal, HelperSignal
  <2>7. CASE step[r] \notin Helping
    BY <1>6, <2>2, <2>3, <2>4, <2>5, <2>7
    DEF kill_pid, DirectSignal, OwnSignal, HelperSignal, HelperRead, HelperTest, HelperUnavailable
  <2> QED  BY <2>6, <2>7
<1> QED  BY <1>1, <1>2, <1>3, <1>4, <1>5, <1>6 DEF Next

\* The responders' variables keep their types; in particular neither the broker
\* nor a privileged hunter ever turns to the helper.
THEOREM TypeCorrect == Spec => []TypeOK
  BY TypeInit, TypeStep, PTL DEF Spec

-------------------------------------------------------------------------------
(* Who is hit. *)

\* The process that shows the observed name has had it.
NameInv == occupant # 0 /\ comm = Observed => occupant \in namesakes

\* What holds of one responder.  The first three conjuncts are what the other
\* two, which are the properties, need: a responder signals once and at its end,
\* and what it has checked was a process of the observed name.
SpareOf(r) ==
    /\ victim[r] # 0 => step[r] = "ok"
    /\ step[r] = "opened" => saw[r] # 0
    /\ step[r] \in {"checked", "helperChecked"} => saw[r] \in namesakes
    /\ victim[r] \notin namesakes \cup {0} => victim[r] # saw[r]
    /\ step[r] \in {"ok", "gone"} => occupant # 1 \/ victim[r] = 1

SpareInv == NameInv /\ \A r \in Responders : SpareOf(r)

\* A responder's step concerns it alone.
LEMMA OthersUndisturbed ==
  ASSUME SpareInv, NEW r \in Responders, UNCHANGED <<occupant, comm, namesakes>>,
         \A q \in Responders : q # r =>
             step'[q] = step[q] /\ saw'[q] = saw[q] /\ victim'[q] = victim[q],
         SpareOf(r)'
  PROVE  SpareInv'
  BY DEF SpareInv, SpareOf, NameInv

\* A signal from a responder whose last look was at a namesake.
LEMMA SignalSpares ==
  ASSUME TypeOK, SpareInv, NEW r \in Responders, step[r] \in {"checked", "helperChecked"},
         NEW s \in {"gone", "refused"}, Signal(r, s)
  PROVE  SpareInv'
<1>1. saw[r] \in namesakes /\ saw[r] # 0
  BY DEF SpareInv, SpareOf, TypeOK
<1>2. SpareOf(r)'
  BY <1>1, SignalMoves DEF SpareOf
<1> QED  BY <1>2, SignalMoves, OthersUndisturbed

\* A look at the name.
LEMMA CheckSpares ==
  ASSUME TypeOK, SpareInv, NEW r \in Responders, step[r] # "ok",
         NEW s \in {"gone", "refused"}, NEW c \in {"checked", "helperChecked"}, CheckComm(r, s, c)
  PROVE  SpareInv'
<1>1. victim[r] = 0
  BY DEF SpareInv, SpareOf
<1>2. occupant # 0 /\ comm = Observed => occupant \in namesakes
  BY DEF SpareInv, NameInv
<1>3. SpareOf(r)'
  BY <1>1, <1>2, CheckMoves DEF SpareOf
<1> QED  BY <1>3, CheckMoves, OthersUndisturbed

\* A responder that moves on without a look or a signal: a kill is reported only
\* when there is no process.
LEMMA MoveSpares ==
  ASSUME TypeOK, SpareInv, NEW r \in Responders, step[r] # "ok",
         NEW s \in {"helper", "helperFound", "ok", "refused", "raised"}, Goes(r, s),
         s = "ok" => occupant = 0, UNCHANGED <<kernel, saw, victim>>
  PROVE  SpareInv'
<1>1. victim[r] = 0
  BY DEF SpareInv, SpareOf
<1>2. SpareOf(r)'
  BY <1>1, HelperMoves DEF SpareOf
<1> QED  BY <1>2, HelperMoves, OthersUndisturbed

LEMMA SpareStep ==
  ASSUME TypeOK, SpareInv, [Next]_vars
  PROVE  SpareInv'
<1>1. CASE UNCHANGED vars
  BY <1>1 DEF vars, kernel, SpareInv, SpareOf, NameInv
<1>2. CASE Exec
  BY <1>2 DEF Exec, Renamed, SpareInv, SpareOf, NameInv
<1>3. CASE Exit
  BY <1>3 DEF Exit, SpareInv, SpareOf, NameInv
<1>4. CASE Reuse
  <2>1. occupant' = born + 1 /\ namesakes \subseteq namesakes'
        /\ (comm' = Observed => born + 1 \in namesakes')
        /\ (namesakes' = namesakes \/ namesakes' = namesakes \cup {born + 1})
    BY <1>4 DEF Reuse, Renamed
  <2>2. born + 1 # 1 /\ \A r \in Responders : saw[r] # born + 1 /\ victim[r] # born + 1
    BY RespondAssumption DEF TypeOK, Processes
  <2>3. UNCHANGED <<step, saw, victim>>
    BY <1>4 DEF Reuse
  <2> QED  BY <2>1, <2>2, <2>3 DEF SpareInv, SpareOf, NameInv
<1>5. ASSUME NEW r \in Brokers, KillProcess(r) PROVE SpareInv'
  <2>1. r \in Responders
    BY DEF Responders
  <2> QED  BY <1>5, <2>1, CheckSpares, SignalSpares, MoveSpares DEF KillProcess, OwnSignal
<1>6. ASSUME NEW r \in Hunters, kill_pid(r) PROVE SpareInv'
  <2>1. r \in Responders
    BY DEF Responders
  <2>2. CASE Open(r)
    <3>1. victim[r] = 0
      BY <2>1, <2>2 DEF Open, SpareInv, SpareOf
    <3>2. SpareOf(r)'
      BY <2>1, <2>2, <3>1, OpenMoves DEF SpareOf
    <3> QED  BY <2>1, <2>2, <3>2, OpenMoves, OthersUndisturbed
  <2>3. CASE Read(r)
    <3>1. victim[r] = 0 /\ saw[r] # 0
      BY <2>1, <2>3 DEF Read, SpareInv, SpareOf
    <3>2. occupant # 0 /\ comm = Observed => occupant \in namesakes
      BY DEF SpareInv, NameInv
    <3>3. SpareOf(r)'
      BY <2>1, <2>3, <3>1, <3>2, ReadMoves DEF SpareOf
    <3> QED  BY <2>1, <2>3, <3>3, ReadMoves, OthersUndisturbed
  <2>4. CASE DirectSignal(r)
    BY <2>1, <2>4, SignalSpares, MoveSpares DEF DirectSignal, OwnSignal
  <2>5. CASE HelperUnavailable(r)
    BY <2>1, <2>5, MoveSpares DEF HelperUnavailable, Helping
  <2>6. CASE HelperTest(r)
    <3>1. step[r] # "ok" /\ UNCHANGED <<kernel, saw, victim>>
      BY <2>6 DEF HelperTest
    <3> QED  BY <2>1, <2>6, <3>1, TestMoves, MoveSpares
  <2>7. CASE HelperRead(r)
    BY <2>1, <2>7, CheckSpares DEF HelperRead
  <2>8. CASE HelperSignal(r)
    BY <2>1, <2>8, SignalSpares DEF HelperSignal
  <2> QED  BY <1>6, <2>2, <2>3, <2>4, <2>5, <2>6, <2>7, <2>8 DEF kill_pid
<1> QED  BY <1>1, <1>2, <1>3, <1>4, <1>5, <1>6 DEF Next

LEMMA SpareInit == Init => SpareInv
  BY DEF Init, SpareInv, SpareOf, NameInv

LEMMA SpareMeans == SpareInv => StrangersSpared /\ DoneMeansDead
  BY DEF SpareInv, SpareOf, StrangersSpared, DoneMeansDead

LEMMA SpareAlways == Spec => []SpareInv
  BY SpareInit, SpareStep, TypeCorrect, PTL DEF Spec

\* However many responders act on the pid and however often it changes hands, the
\* re-check of the name leaves only the window between check and signal in which
\* a process that never had the observed name can be hit.
THEOREM StrangersAreSpared == Spec => []StrangersSpared
  BY SpareAlways, SpareMeans, PTL

\* Whichever responder, the helper of kill_pid included, reports a kill or that
\* there is nothing to kill: the process the sensor saw has given up the pid, or has
\* that responder's SIGKILL, and this stays so.
THEOREM ReportsAreTrue == Spec => []DoneMeansDead
  BY SpareAlways, SpareMeans, PTL
===============================================================================
