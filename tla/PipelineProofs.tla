---------------------------- MODULE PipelineProofs ----------------------------
(* Theorems about Pipeline, for any number of events and workers. *)
EXTENDS Pipeline, TLAPS

\* The three facts about Elements the proofs use: an empty, a longer and a
\* shorter sequence.
LEMMA ElementsEmpty == Elements(<<>>) = {}
  BY DEF Elements

LEMMA ElementsAppend ==
  ASSUME NEW S, NEW s \in Seq(S), NEW e \in S
  PROVE  /\ Append(s, e) \in Seq(S)
         /\ Elements(Append(s, e)) = Elements(s) \cup {e}
<1>1. Append(s, e) \in Seq(S) /\ Len(Append(s, e)) = Len(s) + 1
  OBVIOUS
<1>2. \A i \in 1..Len(s) : Append(s, e)[i] = s[i]
  OBVIOUS
<1>3. Append(s, e)[Len(s) + 1] = e
  OBVIOUS
<1>4. DOMAIN Append(s, e) = 1..(Len(s) + 1) /\ DOMAIN s = 1..Len(s) /\ Len(s) \in Nat
  BY <1>1
<1>5. ASSUME NEW x PROVE x \in Elements(Append(s, e)) <=> x \in Elements(s) \cup {e}
  BY <1>2, <1>3, <1>4 DEF Elements
<1> QED  BY <1>1, <1>5

LEMMA ElementsHeadTail ==
  ASSUME NEW S, NEW s \in Seq(S), s # <<>>
  PROVE  /\ Head(s) \in S
         /\ Tail(s) \in Seq(S)
         /\ Len(Tail(s)) = Len(s) - 1
         /\ Elements(s) = {Head(s)} \cup Elements(Tail(s))
<1>1. Head(s) \in S /\ Head(s) = s[1] /\ Tail(s) \in Seq(S) /\ Len(Tail(s)) = Len(s) - 1
  OBVIOUS
<1>2. Len(s) \in Nat \ {0} /\ DOMAIN s = 1..Len(s) /\ DOMAIN Tail(s) = 1..(Len(s) - 1)
  BY <1>1
<1>3. \A i \in 1..(Len(s) - 1) : Tail(s)[i] = s[i + 1]
  OBVIOUS
<1>4. ASSUME NEW x \in Elements(s) PROVE x \in {Head(s)} \cup Elements(Tail(s))
  <2>1. PICK i \in 1..Len(s) : x = s[i]
    BY <1>2 DEF Elements
  <2>2. CASE i = 1
    BY <1>1, <2>1, <2>2
  <2>3. CASE i # 1
    <3>1. i - 1 \in 1..(Len(s) - 1) /\ Tail(s)[i - 1] = s[(i - 1) + 1] /\ (i - 1) + 1 = i
      BY <1>2, <1>3, <2>3
    <3> QED  BY <1>2, <2>1, <3>1 DEF Elements
  <2> QED  BY <2>2, <2>3
<1>5. ASSUME NEW x \in {Head(s)} \cup Elements(Tail(s)) PROVE x \in Elements(s)
  <2>1. CASE x = Head(s)
    BY <1>1, <1>2, <2>1 DEF Elements
  <2>2. CASE x \in Elements(Tail(s))
    <3>1. PICK i \in 1..(Len(s) - 1) : x = Tail(s)[i]
      BY <1>2, <2>2 DEF Elements
    <3>2. i + 1 \in 1..Len(s) /\ x = s[i + 1]
      BY <1>2, <1>3, <3>1
    <3> QED  BY <1>2, <3>2 DEF Elements
  <2> QED  BY <2>1, <2>2
<1> QED  BY <1>1, <1>4, <1>5

LEMMA ElementsType ==
  ASSUME NEW S, NEW s \in Seq(S)
  PROVE  Elements(s) \subseteq S
  BY DEF Elements

-------------------------------------------------------------------------------
\* The states of a log, as TypeOK has them.
Logs == [file : Seq(Events \cup {Torn}), ok : BOOLEAN]

\* A log made of a file and a flag, and the parts of a log.
LEMMA LogMade ==
  ASSUME NEW f \in Seq(Events \cup {Torn}), NEW b \in BOOLEAN
  PROVE  [file |-> f, ok |-> b] \in Logs
  BY DEF Logs

LEMMA LogParts ==
  ASSUME NEW log \in Logs
  PROVE  log.file \in Seq(Events \cup {Torn}) /\ log.ok \in BOOLEAN
  BY DEF Logs

LEMMA EmptyLog ==
  /\ \A S : <<>> \in Seq(S)
  /\ Len(<<>>) = 0
  /\ newAppendLog(<<>>) \in Logs
<1>1. \A S : <<>> \in Seq(S)
  OBVIOUS
<1>2. Len(<<>>) = 0
  OBVIOUS
<1> QED  BY <1>1, <1>2, LogMade DEF newAppendLog

\* An append, and the debris of a failed one, leave a log.
LEMMA AppendTypes ==
  ASSUME NEW log \in Logs, NEW logp
  PROVE  /\ \A r \in Events : AppendOK(log, r, logp) => logp \in Logs
         /\ \A r \in Events : AppendErr(log, r, logp) => logp \in Logs
<1>1. log.file \in Seq(Events \cup {Torn})
  BY LogParts
<1>2. ASSUME NEW r \in Events, AppendOK(log, r, logp) PROVE logp \in Logs
  <2>1. Append(log.file, r) \in Seq(Events \cup {Torn})
    BY <1>1, ElementsAppend
  <2> QED  BY <1>2, <2>1, LogMade DEF AppendOK
<1>3. ASSUME NEW r \in Events, AppendErr(log, r, logp) PROVE logp \in Logs
  <2>1. \A d \in Debris(log.file, r) : d \in Seq(Events \cup {Torn})
    <3>1. \A x \in {Torn, r} : Append(log.file, x) \in Seq(Events \cup {Torn})
      BY <1>1, ElementsAppend
    <3> QED  BY <1>1, <3>1 DEF Debris
  <2>2. CASE ~log.ok
    BY <1>3, <2>2 DEF AppendErr
  <2>3. CASE log.ok
    <3>1. PICK d \in Debris(log.file, r) : logp = [file |-> d, ok |-> FALSE]
      BY <1>3, <2>3, Zenon DEF AppendErr
    <3> QED  BY <2>1, <3>1, LogMade
  <2> QED  BY <2>2, <2>3
<1> QED  BY <1>2, <1>3

LEMMA BumpType ==
  ASSUME TypeOK, NEW C
  PROVE  Bump(C) \in [Counters -> Nat]
  BY DEF TypeOK, Bump

LEMMA SpillType ==
  ASSUME TypeOK, NEW e \in Events, NEW C, Spill(e, C)
  PROVE  /\ overflow' \in Logs
         /\ metrics' \in [Counters -> Nat]
         /\ lost' \subseteq Events
<1>1. overflow \in Logs /\ lost \subseteq Events
  BY DEF TypeOK, Logs
<1>2. overflow' \in Logs
  BY <1>1, AppendTypes DEF Spill
<1>3. metrics' \in [Counters -> Nat]
  BY BumpType DEF Spill
<1> QED  BY <1>1, <1>2, <1>3 DEF Spill

\* The initial state is well typed, and every action keeps it so.
LEMMA TypeInit == Init => TypeOK
<1> SUFFICES ASSUME Init PROVE TypeOK
  OBVIOUS
<1>1. queue \in Seq(Events) /\ Len(queue) <= QueueSize /\ replay \in Seq(Events \cup {Torn})
  BY EmptyLog, QueueSizeAssumption DEF Init, FreshMemory
<1>2. overflow \in Logs
  BY EmptyLog DEF Init
<1> QED  BY <1>1, <1>2 DEF Init, FreshMemory, TypeOK, Logs

LEMMA TypeStep == TypeOK /\ [Next]_vars => TypeOK'
<1> SUFFICES ASSUME TypeOK, [Next]_vars PROVE TypeOK'
  OBVIOUS
<1> USE EventsAssumption, QueueSizeAssumption
<1>1. CASE UNCHANGED vars
  BY <1>1 DEF TypeOK, vars, memory, disk, control, history
<1>2. ASSUME NEW e \in Events, HandleRaw(e) PROVE TypeOK'
  <2>1. metrics' \in [Counters -> Nat] /\ lost' \subseteq Events
        /\ overflow' \in Logs
    BY <1>2, BumpType, SpillType DEF HandleRaw, Enqueue, TypeOK, Logs
  <2>2. audit' \subseteq Events /\ auditOK' \in BOOLEAN
    BY <1>2 DEF HandleRaw, AuditAppend, TypeOK
  <2>3. queue' \in Seq(Events) /\ Len(queue') <= QueueSize
    <3>1. queue \in Seq(Events) /\ Len(queue) \in Nat /\ Len(queue) <= QueueSize
      BY DEF TypeOK
    <3>2. queue' = queue \/ (Len(queue) < QueueSize /\ queue' = Append(queue, e))
      BY <1>2 DEF HandleRaw, Enqueue, HasRoom
    <3>3. Append(queue, e) \in Seq(Events) /\ Len(Append(queue, e)) = Len(queue) + 1
      BY <3>1
    <3> QED  BY <3>1, <3>2, <3>3
  <2> QED  BY <1>2, <2>1, <2>2, <2>3 DEF HandleRaw, TypeOK, control, Logs
<1>3. ASSUME NEW w \in Workers, Receive(w) PROVE TypeOK'
  <2>1. queue' \in Seq(Events) /\ Len(queue') <= QueueSize /\ Head(queue) \in Events
    BY <1>3, ElementsHeadTail DEF Receive, TypeOK
  <2>2. late' \subseteq Callers
    BY <1>3 DEF Receive, Begins, Callers, TypeOK
  <2> QED  BY <1>3, <2>1, <2>2 DEF Receive, TypeOK, disk, history
<1>4. ASSUME NEW w \in Workers, EvaluateOK(w) PROVE TypeOK'
  <2>1. metrics' \in [Counters -> Nat]
    BY <1>4, BumpType DEF EvaluateOK, TypeOK
  <2>2. held[w] \in Events
    BY <1>4 DEF EvaluateOK, TypeOK
  <2>3. evaluated' \subseteq Events /\ responded' \subseteq Events
    BY <1>4, <2>2 DEF EvaluateOK, TypeOK
  <2> QED  BY <1>4, <2>1, <2>3 DEF EvaluateOK, TypeOK, disk, control
<1>5. ASSUME NEW w \in Workers, EvaluateErr(w) PROVE TypeOK'
  <2>1. held[w] \in Events
    BY <1>5 DEF EvaluateErr, TypeOK
  <2>2. metrics' \in [Counters -> Nat] /\ lost' \subseteq Events
        /\ overflow' \in Logs
    BY <1>5, <2>1, SpillType DEF EvaluateErr
  <2> QED  BY <1>5, <2>2 DEF EvaluateErr, TypeOK, control, Logs
<1>6. ASSUME NEW w \in Workers, WorkerExit(w) PROVE TypeOK'
  BY <1>6 DEF WorkerExit, TypeOK, disk, control, history
<1>7. CASE DrainOverflow
  <2>1. overflow' \in Logs
        /\ replay' \in Seq(Events \cup {Torn})
    <3>1. overflow \in Logs /\ overflow.file \in Seq(Events \cup {Torn}) /\ replay \in Seq(Events \cup {Torn})
      BY LogParts DEF TypeOK, Logs
    <3>2. CASE RotateOK(overflow, overflow') /\ replay' \in {overflow.file, <<>>}
      BY <3>1, <3>2, EmptyLog DEF RotateOK
    <3>3. CASE RotateErr(overflow, overflow', replay, replay')
      <4>1. replay' \in {replay, overflow.file}
        BY <3>3 DEF RotateErr
      <4>2. overflow' \in Logs
        BY <3>1, <3>3, EmptyLog, LogMade DEF RotateErr, Logs
      <4> QED  BY <3>1, <4>1, <4>2
    <3> QED  BY <1>7, <3>2, <3>3 DEF DrainOverflow
  <2>2. late' \subseteq Callers
    BY <1>7 DEF DrainOverflow, Begins, Callers, TypeOK
  <2> QED  BY <1>7, <2>1, <2>2 DEF DrainOverflow, TypeOK, history, Logs
<1>8. ASSUME NextRecord PROVE Head(replay) \in Events /\ replay' \in Seq(Events \cup {Torn}) /\ late' \subseteq Callers
  <2>1. replay' \in Seq(Events \cup {Torn}) /\ Head(replay) \in Events \cup {Torn}
    BY <1>8, ElementsHeadTail DEF NextRecord, TypeOK
  <2> QED  BY <1>8, <2>1 DEF NextRecord, Begins, Callers, TypeOK
<1>9. CASE ReplayOK
  BY <1>8, <1>9 DEF ReplayOK, TypeOK
<1>10. CASE ReplayErr
  <2>1. NextRecord /\ Head(replay) \in Events
    BY <1>8, <1>10 DEF ReplayErr
  <2>2. metrics' \in [Counters -> Nat] /\ lost' \subseteq Events
        /\ overflow' \in Logs
    BY <1>10, <2>1, SpillType DEF ReplayErr
  <2> QED  BY <1>8, <1>10, <2>1, <2>2 DEF ReplayErr, NextRecord, TypeOK, Logs
<1>11. CASE ReplayEnd
  BY <1>11 DEF ReplayEnd, TypeOK, Counters, control, history
<1>12. CASE DrainExit
  BY <1>12 DEF DrainExit, TypeOK, disk, control, history
<1>13. CASE Sigterm \/ OpenSucceeds \/ ReaderStops
  BY <1>13 DEF Sigterm, OpenSucceeds, ReaderStops, TypeOK, memory, disk, history
<1>14. ASSUME ProcessEnds PROVE TypeOK'
  <2>1. InMemory \subseteq Events
    BY ElementsType DEF InMemory, Holding, TypeOK
  <2> QED  BY <1>14, <2>1 DEF ProcessEnds, TypeOK, disk
<1>15. CASE Close \/ OpenGivesUp \/ Crash
  BY <1>14, <1>15 DEF Close, OpenGivesUp, Crash
<1>16. CASE Boot
  <2>1. overflow' \in Logs /\ carried' \in Nat
    BY <1>16, LogMade, LogParts DEF Boot, newAppendLog, TypeOK, Logs
  <2>2. queue' \in Seq(Events) /\ Len(queue') <= QueueSize
    BY <1>16, EmptyLog DEF Boot, FreshMemory
  <2>3. metrics' \in [Counters -> Nat]
    BY <1>16 DEF Boot
  <2>4. held' \in [Workers -> Events \cup {NoEvent}] /\ live' \subseteq Workers
    BY <1>16 DEF Boot, FreshMemory
  <2> QED  BY <1>16, <2>1, <2>2, <2>3, <2>4 DEF Boot, FreshMemory, TypeOK, Logs
<1> QED
  BY <1>1, <1>2, <1>3, <1>4, <1>5, <1>6, <1>7, <1>9, <1>10, <1>11, <1>12, <1>13, <1>15, <1>16
  DEF Next, WorkerStep, ReplayStep, MainStep

\* The broker's variables keep their types: in particular the queue never holds
\* more than QueueSize events and no file ever holds a foreign record.
THEOREM TypeCorrect == Spec => []TypeOK
  BY TypeInit, TypeStep, PTL DEF Spec

-------------------------------------------------------------------------------
(* Where events are, and that they stay accounted for. *)

Quiet == Faults \cap LossyFaults = {}

\* After the process has ended, nothing is left in memory and nothing runs.
Idle == main = "stopped" => queue = <<>> /\ Holding = {} /\ drain = "exited"

\* No partial record is in a file.
Whole == Torn \notin Elements(overflow.file) \cup Elements(replay)

\* Appending e adds e, and a failed append removes nothing.
LEMMA AppendElements ==
  ASSUME NEW log \in Logs, NEW r \in Events, NEW logp
  PROVE  /\ AppendOK(log, r, logp) => Elements(logp.file) = Elements(log.file) \cup {r}
         /\ AppendErr(log, r, logp) =>
              /\ Elements(log.file) \subseteq Elements(logp.file)
              /\ "torn" \notin Faults => Elements(logp.file) = Elements(log.file)
<1>1. log.file \in Seq(Events \cup {Torn})
  BY LogParts
<1>2. ASSUME AppendOK(log, r, logp) PROVE Elements(logp.file) = Elements(log.file) \cup {r}
  <2>1. logp.file = Append(log.file, r)
    BY <1>2 DEF AppendOK
  <2> QED  BY <1>1, <2>1, ElementsAppend
<1>3. ASSUME AppendErr(log, r, logp)
      PROVE  /\ Elements(log.file) \subseteq Elements(logp.file)
             /\ "torn" \notin Faults => Elements(logp.file) = Elements(log.file)
  <2>1. CASE ~log.ok
    BY <1>3, <2>1 DEF AppendErr
  <2>2. CASE log.ok
    <3>1. PICK d \in Debris(log.file, r) : logp = [file |-> d, ok |-> FALSE]
      BY <1>3, <2>2, Zenon DEF AppendErr
    <3>2. logp.file = d
      BY <3>1
    <3>3. d = log.file \/ (d \in {Append(log.file, Torn), Append(log.file, r)} /\ "torn" \in Faults)
      BY <3>1 DEF Debris
    <3>4. /\ Elements(Append(log.file, Torn)) = Elements(log.file) \cup {Torn}
          /\ Elements(Append(log.file, r)) = Elements(log.file) \cup {r}
      BY <1>1, ElementsAppend
    <3> QED  BY <3>2, <3>3, <3>4
  <2> QED  BY <2>1, <2>2
<1> QED  BY <1>2, <1>3

\* A spilled event is on disk or counted, and no other event is disturbed.
LEMMA SpillKeeps ==
  ASSUME TypeOK, NEW e \in Events, NEW C, Spill(e, C)
  PROVE  /\ Elements(overflow.file) \subseteq Elements(overflow'.file)
         /\ e \in Elements(overflow'.file) \cup lost'
         /\ lost \subseteq lost'
         /\ "torn" \notin Faults => Elements(overflow'.file) \subseteq Elements(overflow.file) \cup {e}
<1>1. overflow \in Logs
  BY DEF TypeOK, Logs
<1> QED  BY <1>1, AppendElements DEF Spill

\* What a worker does leaves with it: Receive moves one event from the queue to
\* a worker, and a result empties the worker's hands.
LEMMA HoldingMoves ==
  ASSUME TypeOK, NEW w \in Workers
  PROVE  /\ \A e \in Events : held' = [held EXCEPT ![w] = e] /\ held[w] = NoEvent
              => Holding' = Holding \cup {e}
         /\ held' = [held EXCEPT ![w] = NoEvent] => Holding \subseteq Holding' \cup {held[w]}
<1>1. ASSUME NEW e \in Events, held' = [held EXCEPT ![w] = e], held[w] = NoEvent
      PROVE  Holding' = Holding \cup {e}
  <2>1. held'[w] = e /\ \A v \in Workers : v # w => held'[v] = held[v]
    BY <1>1 DEF TypeOK
  <2>2. ASSUME NEW x PROVE x \in Holding' <=> x \in Holding \cup {e}
    BY <1>1, <2>1, EventsAssumption DEF Holding
  <2> QED  BY <2>2
<1>2. ASSUME held' = [held EXCEPT ![w] = NoEvent]
      PROVE  Holding \subseteq Holding' \cup {held[w]}
  <2>1. \A v \in Workers : v # w => held'[v] = held[v]
    BY <1>2 DEF TypeOK
  <2> QED  BY <2>1 DEF Holding
<1> QED  BY <1>1, <1>2

\* Nothing else leaves memory: every action hands its event on.
LEMMA MemoryStep ==
  ASSUME TypeOK, Idle, [Next]_vars
  PROVE  InMemory \subseteq (InMemory \cup OnDisk \cup evaluated \cup lost \cup abandoned)'
<1> DEFINE Safe == InMemory \cup OnDisk \cup evaluated \cup lost \cup abandoned
<1> SUFFICES InMemory \subseteq Safe'
  OBVIOUS
<1>1. CASE queue' = queue /\ held' = held
  BY <1>1 DEF InMemory, Holding
<1>2. ASSUME NEW e \in Events, HandleRaw(e) PROVE InMemory \subseteq Safe'
  <2>1. queue' = queue \/ queue' = Append(queue, e)
    BY <1>2 DEF HandleRaw, Enqueue
  <2>2. Elements(queue) \subseteq Elements(queue')
    <3>1. queue \in Seq(Events)
      BY DEF TypeOK
    <3>2. Elements(Append(queue, e)) = Elements(queue) \cup {e}
      BY <3>1, ElementsAppend
    <3> QED  BY <2>1, <3>2
  <2> QED  BY <1>2, <2>2 DEF HandleRaw, InMemory, Holding
<1>3. ASSUME NEW w \in Workers, Receive(w) PROVE InMemory \subseteq Safe'
  <2>1. Elements(queue) = {Head(queue)} \cup Elements(queue') /\ Head(queue) \in Events
    BY <1>3, ElementsHeadTail DEF Receive, TypeOK
  <2>2. Holding' = Holding \cup {Head(queue)}
    BY <1>3, <2>1, HoldingMoves DEF Receive
  <2> QED  BY <2>1, <2>2 DEF InMemory
<1>4. ASSUME NEW w \in Workers, EvaluateOK(w) PROVE InMemory \subseteq Safe'
  <2>1. Holding \subseteq Holding' \cup evaluated'
    BY <1>4, HoldingMoves DEF EvaluateOK
  <2> QED  BY <1>4, <2>1 DEF EvaluateOK, InMemory
<1>5. ASSUME NEW w \in Workers, EvaluateErr(w) PROVE InMemory \subseteq Safe'
  <2>1. held[w] \in Events
    BY <1>5 DEF EvaluateErr, TypeOK
  <2>2. held[w] \in Elements(overflow'.file) \cup lost'
    BY <1>5, <2>1, SpillKeeps DEF EvaluateErr
  <2>3. held[w] \in OnDisk' \cup lost'
    BY <2>1, <2>2, EventsAssumption DEF OnDisk
  <2>4. Holding \subseteq Holding' \cup {held[w]}
    BY <1>5, HoldingMoves DEF EvaluateErr
  <2> QED  BY <1>5, <2>3, <2>4 DEF EvaluateErr, InMemory
<1>6. ASSUME ProcessEnds PROVE InMemory \subseteq Safe'
  BY <1>6 DEF ProcessEnds
<1>7. CASE Boot
  BY <1>7, ElementsEmpty DEF Boot, Idle, InMemory
<1>8. CASE ReplayStep \/ OpenSucceeds \/ ReaderStops \/ Sigterm \/ UNCHANGED vars
  BY <1>1, <1>8 DEF ReplayStep, DrainOverflow, ReplayOK, ReplayErr, ReplayEnd, DrainExit,
     OpenSucceeds, ReaderStops, Sigterm, vars, memory
<1>9. ASSUME NEW w \in Workers, WorkerExit(w) PROVE InMemory \subseteq Safe'
  BY <1>1, <1>9 DEF WorkerExit
<1> QED
  BY <1>2, <1>3, <1>4, <1>5, <1>6, <1>7, <1>8, <1>9
  DEF Next, WorkerStep, MainStep, Close, OpenGivesUp, Crash

LEMMA IdleStep ==
  ASSUME TypeOK, Idle, [Next]_vars
  PROVE  Idle'
<1>1. ASSUME NEW e \in Events, HandleRaw(e) PROVE Idle'
  BY <1>1 DEF HandleRaw, Idle, control
<1>2. ASSUME NEW w \in Workers, WorkerStep(w) PROVE Idle'
  <2>1. held[w] # NoEvent => Holding # {}
    BY DEF Holding
  <2> QED
    BY <1>2, <2>1 DEF WorkerStep, Receive, EvaluateOK, EvaluateErr, WorkerExit, Idle, Holding, control
<1>3. CASE ReplayStep \/ Sigterm \/ UNCHANGED vars
  BY <1>3 DEF ReplayStep, DrainOverflow, ReplayOK, ReplayErr, ReplayEnd, DrainExit, Sigterm,
     Idle, Holding, vars, memory, control
<1>4. ASSUME ProcessEnds PROVE Idle'
  BY <1>4 DEF ProcessEnds, Idle, Holding
<1>5. CASE OpenSucceeds \/ ReaderStops \/ Boot
  BY <1>5 DEF OpenSucceeds, ReaderStops, Boot, Idle
<1> QED
  BY <1>1, <1>2, <1>3, <1>4, <1>5 DEF Next, MainStep, Close, OpenGivesUp, Crash

\* Design goal 1, the half about memory, whatever fails: between a successful
\* send and its verdict no event is mislaid by the queue or by a worker.
THEOREM MemoryHandedOver == Spec => HandOver
<1>1. Init => Idle
  BY DEF Init, Idle
<1>2. TypeOK /\ Idle /\ [Next]_vars => Idle'
  BY IdleStep
<1>3. TypeOK /\ Idle /\ [Next]_vars
        => [InMemory \subseteq (InMemory \cup OnDisk \cup evaluated \cup lost \cup abandoned)']_vars
  BY MemoryStep
<1> QED  BY <1>1, <1>2, <1>3, TypeCorrect, PTL DEF Spec, HandOver

-------------------------------------------------------------------------------
(* Spilled events, when no lossy failure happens. *)

\* Without lossy failures the files hold whole records, and a ".replay" file
\* exists only while it is read.  Neither holds without the other: a partial
\* record ends a replay early, and a stranded file is overwritten.
DiskInv == Whole /\ (replay # <<>> => drain = "replaying")

LEMMA QuietFaults ==
  ASSUME Quiet
  PROVE  /\ "torn" \notin Faults /\ "read" \notin Faults
         /\ "reopen" \notin Faults /\ "open" \notin Faults
         /\ "crash" \notin Faults /\ "nosensor" \notin Faults
  BY DEF Quiet, LossyFaults, RotationFaults, RestartFaults

\* A pass over a whole, readable ".replay" file ends only when nothing is left.
LEMMA WholeReplayEnds ==
  ASSUME TypeOK, Whole, "read" \notin Faults, ReplayEnd
  PROVE  replay = <<>>
<1>1. SUFFICES ASSUME replay # <<>> PROVE FALSE
  OBVIOUS
<1>2. Head(replay) \in Elements(replay)
  BY <1>1, ElementsHeadTail DEF TypeOK
<1> QED  BY <1>1, <1>2 DEF ReplayEnd, Whole

\* A tick without lossy failures moves the whole file, or nothing.
LEMMA TickMoves ==
  ASSUME Quiet, TypeOK, DrainOverflow
  PROVE  \/ /\ overflow'.file = <<>> /\ replay' = overflow.file
            /\ drain = "ticking" /\ drain' = "replaying"
         \/ overflow'.file = overflow.file /\ replay' = replay /\ drain' = drain
<1>1. CASE RotateOK(overflow, overflow') /\ replay' = overflow.file /\ drain' = "replaying"
  BY <1>1 DEF RotateOK, newAppendLog, DrainOverflow
<1>2. CASE RotateErr(overflow, overflow', replay, replay') /\ UNCHANGED drain
  BY <1>2, QuietFaults DEF RotateErr, TypeOK
<1> QED  BY <1>1, <1>2, QuietFaults DEF DrainOverflow

LEMMA DiskStep ==
  ASSUME Quiet, TypeOK, Idle, DiskInv, [Next]_vars
  PROVE  /\ DiskInv'
         /\ OnDisk \subseteq (OnDisk \cup evaluated \cup lost)'
<1> DEFINE Kept == OnDisk \subseteq (OnDisk \cup evaluated \cup lost)'
<1> SUFFICES DiskInv' /\ Kept
  OBVIOUS
<1> USE EventsAssumption
<1>1. CASE replay' = replay /\ overflow' = overflow /\ drain' = drain
  BY <1>1 DEF DiskInv, Whole, OnDisk
<1>2. ASSUME NEW e \in Events, NEW C, Spill(e, C), replay' = replay, drain' = drain
      PROVE  DiskInv' /\ Kept
  <2>1. /\ Elements(overflow.file) \subseteq Elements(overflow'.file)
        /\ Elements(overflow'.file) \subseteq Elements(overflow.file) \cup {e}
    BY <1>2, SpillKeeps, QuietFaults
  <2> QED  BY <1>2, <2>1 DEF DiskInv, Whole, OnDisk
<1>3. ASSUME NEW e \in Events, HandleRaw(e) PROVE DiskInv' /\ Kept
  BY <1>1, <1>2, <1>3 DEF HandleRaw, Enqueue
<1>4. ASSUME NEW w \in Workers, WorkerStep(w) PROVE DiskInv' /\ Kept
  <2>1. CASE EvaluateErr(w)
    <3>1. held[w] \in Events
      BY <2>1 DEF EvaluateErr, TypeOK
    <3> QED  BY <1>2, <2>1, <3>1 DEF EvaluateErr
  <2> QED  BY <1>1, <1>4, <2>1 DEF WorkerStep, Receive, EvaluateOK, WorkerExit, disk
<1>5. CASE DrainOverflow
  <2>1. CASE overflow'.file = overflow.file /\ replay' = replay /\ drain' = drain
    BY <2>1 DEF DiskInv, Whole, OnDisk
  <2>2. CASE overflow'.file = <<>> /\ replay' = overflow.file
             /\ drain = "ticking" /\ drain' = "replaying"
    <3>1. replay = <<>> /\ Elements(replay) = {} /\ Elements(overflow'.file) = {}
      BY <2>2, ElementsEmpty DEF DiskInv
    <3> QED  BY <2>2, <3>1 DEF DiskInv, Whole, OnDisk
  <2> QED  BY <1>5, <2>1, <2>2, TickMoves
<1>6. ASSUME NextRecord, drain' = drain
      PROVE  /\ Head(replay) \in Events
             /\ Elements(replay) = {Head(replay)} \cup Elements(replay')
             /\ drain' = "replaying"
  BY <1>6, ElementsHeadTail DEF NextRecord, TypeOK
<1>7. CASE ReplayOK
  <2>1. NextRecord /\ drain' = drain
    BY <1>7 DEF ReplayOK
  <2> QED  BY <1>6, <1>7, <2>1 DEF ReplayOK, DiskInv, Whole, OnDisk
<1>8. CASE ReplayErr
  <2>1. NextRecord /\ drain' = drain
    BY <1>8 DEF ReplayErr
  <2>2. /\ Elements(overflow.file) \subseteq Elements(overflow'.file)
        /\ Head(replay) \in Elements(overflow'.file) \cup lost'
        /\ Elements(overflow'.file) \subseteq Elements(overflow.file) \cup {Head(replay)}
    BY <1>6, <1>8, <2>1, SpillKeeps, QuietFaults DEF ReplayErr
  <2> QED  BY <1>6, <2>1, <2>2 DEF DiskInv, Whole, OnDisk
<1>9. CASE ReplayEnd
  <2>1. replay = <<>>
    BY <1>9, WholeReplayEnds, QuietFaults DEF DiskInv
  <2> QED  BY <1>9, <2>1 DEF ReplayEnd, DiskInv, Whole, OnDisk
<1>10. CASE DrainExit
  BY <1>10 DEF DrainExit, DiskInv, Whole, OnDisk, disk
<1>11. CASE Close
  BY <1>11 DEF Close, ProcessEnds, DiskInv, Whole, OnDisk, disk
<1>12. CASE Boot
  <2>1. overflow'.file = overflow.file /\ replay' = replay
    BY <1>12 DEF Boot, newAppendLog
  <2>2. replay = <<>>
    BY <1>12 DEF Boot, Idle, DiskInv
  <2> QED  BY <1>12, <2>1, <2>2 DEF Boot, FreshMemory, DiskInv, Whole, OnDisk
<1>13. CASE Sigterm \/ OpenSucceeds \/ ReaderStops \/ UNCHANGED vars
  BY <1>1, <1>13 DEF Sigterm, OpenSucceeds, ReaderStops, vars, memory, disk
<1>14. ~OpenGivesUp /\ ~Crash
  BY QuietFaults DEF OpenGivesUp, Crash
<1> QED
  BY <1>3, <1>4, <1>5, <1>7, <1>8, <1>9, <1>10, <1>11, <1>12, <1>13, <1>14
  DEF Next, ReplayStep, MainStep

\* An event becomes accepted only in HandleRaw, which keeps it or counts it.
LEMMA AcceptStep ==
  ASSUME TypeOK, [Next]_vars
  PROVE  Accepted' \subseteq Accepted \cup (InMemory \cup OnDisk \cup lost)'
<1> DEFINE Goal == Accepted' \subseteq Accepted \cup (InMemory \cup OnDisk \cup lost)'
<1> SUFFICES Goal
  OBVIOUS
<1>1. CASE unseen' = unseen
  BY <1>1 DEF Accepted
<1>2. ASSUME NEW e \in Events, HandleRaw(e) PROVE Goal
  <2>1. Accepted' \subseteq Accepted \cup ({e} \cap (Suspicious \ Short))
    BY <1>2 DEF HandleRaw, Accepted
  <2>2. SUFFICES ASSUME e \in Suspicious \ Short PROVE e \in (InMemory \cup OnDisk \cup lost)'
    BY <2>1
  <2>3. Enqueue(e)
    BY <1>2, <2>2 DEF HandleRaw
  <2>4. CASE HasRoom
    <3>1. queue' = Append(queue, e) /\ queue \in Seq(Events)
      BY <2>3, <2>4 DEF Enqueue, TypeOK
    <3>2. e \in Elements(queue')
      BY <3>1, ElementsAppend
    <3> QED  BY <3>2 DEF InMemory
  <2>5. CASE ~HasRoom
    <3>1. e \in Elements(overflow'.file) \cup lost'
      BY <2>3, <2>5, SpillKeeps DEF Enqueue
    <3> QED  BY <3>1, EventsAssumption DEF OnDisk
  <2> QED  BY <2>4, <2>5
<1>3. ASSUME NEW w \in Workers, WorkerStep(w) PROVE Goal
  BY <1>1, <1>3 DEF WorkerStep, Receive, EvaluateOK, EvaluateErr, WorkerExit
<1>4. CASE ReplayStep \/ MainStep \/ Sigterm \/ Crash \/ UNCHANGED vars
  BY <1>1, <1>4 DEF ReplayStep, DrainOverflow, ReplayOK, ReplayErr, ReplayEnd, DrainExit,
     MainStep, OpenSucceeds, OpenGivesUp, ReaderStops, Close, Boot, ProcessEnds, Sigterm, Crash, vars
<1> QED  BY <1>2, <1>3, <1>4 DEF Next

\* What is settled stays settled.
LEMMA HistoryStep ==
  ASSUME [Next]_vars
  PROVE  evaluated \subseteq evaluated' /\ lost \subseteq lost' /\ abandoned \subseteq abandoned'
<1>1. ASSUME NEW e \in Events, HandleRaw(e)
      PROVE  evaluated \subseteq evaluated' /\ lost \subseteq lost' /\ abandoned \subseteq abandoned'
  BY <1>1 DEF HandleRaw, Enqueue, Spill
<1>2. ASSUME NEW w \in Workers, WorkerStep(w)
      PROVE  evaluated \subseteq evaluated' /\ lost \subseteq lost' /\ abandoned \subseteq abandoned'
  BY <1>2 DEF WorkerStep, Receive, EvaluateOK, EvaluateErr, WorkerExit, Spill, history
<1>3. CASE ReplayStep
  BY <1>3 DEF ReplayStep, DrainOverflow, ReplayOK, ReplayErr, ReplayEnd, DrainExit, Spill, history
<1>4. CASE MainStep \/ Sigterm \/ Crash \/ UNCHANGED vars
  BY <1>4 DEF MainStep, OpenSucceeds, OpenGivesUp, ReaderStops, Close, Boot, ProcessEnds, Sigterm,
     Crash, vars, history
<1> QED  BY <1>1, <1>2, <1>3, <1>4 DEF Next

\* The inductive invariant.
SafeInv == TypeOK /\ Idle /\ (Quiet => DiskInv /\ NoSilentLoss)

LEMMA SafeInit == Init => SafeInv
<1> SUFFICES ASSUME Init PROVE SafeInv
  OBVIOUS
<1>1. Idle
  BY DEF Init, Idle
<1>2. replay = <<>> /\ overflow.file = <<>>
  BY DEF Init, newAppendLog
<1>3. DiskInv
  BY <1>2, ElementsEmpty DEF DiskInv, Whole
<1>4. NoSilentLoss
  BY EventsAssumption DEF Init, NoSilentLoss, Accepted
<1> QED  BY <1>1, <1>3, <1>4, TypeInit DEF SafeInv

LEMMA SafeStep == SafeInv /\ [Next]_vars => SafeInv'
<1> SUFFICES ASSUME SafeInv, [Next]_vars PROVE SafeInv'
  OBVIOUS
<1>1. TypeOK' /\ Idle'
  BY TypeStep, IdleStep DEF SafeInv
<1>2. ASSUME Quiet PROVE DiskInv' /\ NoSilentLoss'
  <2>1. DiskInv' /\ OnDisk \subseteq (OnDisk \cup evaluated \cup lost)'
    BY <1>2, DiskStep DEF SafeInv
  <2>2. InMemory \subseteq (InMemory \cup OnDisk \cup evaluated \cup lost \cup abandoned)'
    BY MemoryStep DEF SafeInv
  <2>3. Accepted \subseteq InMemory \cup OnDisk \cup evaluated \cup lost \cup abandoned
    BY <1>2 DEF SafeInv, NoSilentLoss, Quiet
  <2>4. Accepted' \subseteq (InMemory \cup OnDisk \cup evaluated \cup lost \cup abandoned)'
    BY <2>1, <2>2, <2>3, AcceptStep, HistoryStep DEF SafeInv
  <2> QED  BY <2>1, <2>4 DEF NoSilentLoss
<1> QED  BY <1>1, <1>2 DEF SafeInv, Quiet

LEMMA SafeAlways == Spec => []SafeInv
  BY SafeInit, SafeStep, PTL DEF Spec

\* Design goal 1 as far as the code meets it: in every run without lossy
\* failures, an accepted event is in memory, on disk, evaluated, counted in
\* EventsLost, or was in memory when the process ended.
THEOREM NothingSilentlyLost == Spec => []NoSilentLoss
<1>1. SafeInv => NoSilentLoss
  BY DEF SafeInv, NoSilentLoss, Quiet
<1> QED  BY <1>1, SafeAlways, PTL

\* A restart finds no ".replay" file to overwrite, unless a lossy failure left it.
THEOREM ReplayNeverStranded == Spec => []NoStrandedReplay
<1>1. SafeInv => NoStrandedReplay
  BY DEF SafeInv, NoStrandedReplay, DiskInv, Quiet
<1> QED  BY <1>1, SafeAlways, PTL

\* Without lossy failures a spilled event stays on disk until it is evaluated
\* or counted lost, across rotations, replays, shutdowns and restarts.
THEOREM SpillsAreDurable ==
  ASSUME Faults \cap LossyFaults = {}
  PROVE  Spec => SpillIsDurable
<1>1. SafeInv /\ [Next]_vars => [OnDisk \subseteq (OnDisk \cup evaluated \cup lost)']_vars
  BY DiskStep DEF SafeInv, Quiet
<1> QED  BY <1>1, SafeAlways, PTL DEF Spec, SpillIsDurable

-------------------------------------------------------------------------------
(* What a failure may cost. *)

\* A tick leaves the files alone, or moves the overflow file to ".replay" in place
\* of what was there, or, when it cannot be opened, empties both.
LEMMA AnyTickMoves ==
  ASSUME TypeOK, DrainOverflow
  PROVE  /\ drain = "ticking" /\ overflow.ok
         /\ \/ overflow'.file = overflow.file /\ replay' = replay
            \/ overflow'.file = <<>> /\ replay' = overflow.file
            \/ overflow'.file = <<>> /\ replay' = <<>> /\ "open" \in Faults
<1>1. drain = "ticking" /\ overflow.ok
  BY DEF DrainOverflow, RotateOK, RotateErr
<1>2. RotateOK(overflow, overflow') => overflow'.file = <<>>
  BY DEF RotateOK, newAppendLog
<1>3. ASSUME RotateErr(overflow, overflow', replay, replay')
      PROVE  \/ overflow'.file = overflow.file /\ replay' = replay
             \/ overflow'.file = <<>> /\ replay' = overflow.file
  BY <1>3 DEF RotateErr, TypeOK
<1> QED  BY <1>1, <1>2, <1>3 DEF DrainOverflow

\* What SpillLossExplained asks of a step.
Explained ==
  /\ \/ Elements(replay) \ {Torn} \subseteq (OnDisk \cup evaluated \cup lost)'
     \/ GivesUpReplay
  /\ \/ Elements(overflow.file) \ {Torn} \subseteq (OnDisk \cup evaluated \cup lost)'
     \/ GivesUpOverflow

LEMMA ExplainedStep ==
  ASSUME TypeOK, [Next]_vars
  PROVE  Explained
<1> USE EventsAssumption
<1>0. ASSUME OnDisk \subseteq (OnDisk \cup evaluated \cup lost)' PROVE Explained
  BY <1>0 DEF Explained, OnDisk
<1>1. CASE replay' = replay /\ overflow'.file = overflow.file
  BY <1>0, <1>1 DEF OnDisk
<1>2. ASSUME NEW e \in Events, NEW C, Spill(e, C), replay' = replay PROVE Explained
  BY <1>0, <1>2, SpillKeeps DEF OnDisk
<1>3. ASSUME NEW e \in Events, HandleRaw(e) PROVE Explained
  BY <1>1, <1>2, <1>3 DEF HandleRaw, Enqueue
<1>4. ASSUME NEW w \in Workers, WorkerStep(w) PROVE Explained
  <2>1. CASE EvaluateErr(w)
    <3>1. held[w] \in Events
      BY <2>1 DEF EvaluateErr, TypeOK
    <3> QED  BY <1>2, <2>1, <3>1 DEF EvaluateErr
  <2> QED  BY <1>1, <1>4, <2>1 DEF WorkerStep, Receive, EvaluateOK, WorkerExit, disk
<1>5. CASE DrainOverflow
  BY <1>1, <1>5, AnyTickMoves DEF Explained, GivesUpReplay, GivesUpOverflow, OnDisk
<1>6. ASSUME NextRecord
      PROVE  Head(replay) \in Events /\ Elements(replay) = {Head(replay)} \cup Elements(replay')
  BY <1>6, ElementsHeadTail DEF NextRecord, TypeOK
<1>7. CASE ReplayOK
  BY <1>0, <1>6, <1>7 DEF ReplayOK, OnDisk
<1>8. CASE ReplayErr
  <2>1. NextRecord
    BY <1>8 DEF ReplayErr
  <2>2. /\ Elements(overflow.file) \subseteq Elements(overflow'.file)
        /\ Head(replay) \in Elements(overflow'.file) \cup lost'
    BY <1>6, <1>8, <2>1, SpillKeeps DEF ReplayErr
  <2> QED  BY <1>0, <1>6, <2>1, <2>2 DEF OnDisk
<1>9. CASE ReplayEnd
  <2>1. CASE replay = <<>>
    BY <1>0, <1>9, <2>1, ElementsEmpty DEF ReplayEnd, OnDisk
  <2>2. CASE Head(replay) = Torn \/ "read" \in Faults
    BY <1>9, <2>2 DEF ReplayEnd, Explained, GivesUpReplay, OnDisk
  <2> QED  BY <1>9, <2>1, <2>2 DEF ReplayEnd
<1>10. ASSUME ProcessEnds PROVE Explained
  BY <1>1, <1>10 DEF ProcessEnds, disk
<1>11. CASE Boot
  BY <1>1, <1>11 DEF Boot, newAppendLog
<1>12. CASE DrainExit \/ Sigterm \/ OpenSucceeds \/ ReaderStops \/ UNCHANGED vars
  BY <1>1, <1>12 DEF DrainExit, Sigterm, OpenSucceeds, ReaderStops, vars, memory, disk
<1> QED
  BY <1>3, <1>4, <1>5, <1>7, <1>8, <1>9, <1>10, <1>11, <1>12
  DEF Next, ReplayStep, MainStep, Close, OpenGivesUp, Crash

\* Under every failure, for any number of events, workers and restarts: a spilled
\* event disappears only when the replay loop stops at a record it cannot read or
\* decode, overwrites a ".replay" file an earlier process left, or cannot open
\* the file it has just rotated.
THEOREM LossesAreExplained == Spec => SpillLossExplained
<1>1. TypeOK /\ [Next]_vars => [Explained]_vars
  BY ExplainedStep
<1>2. [][Explained]_vars => SpillLossExplained
  BY PTL DEF Explained, SpillLossExplained
<1> QED  BY <1>1, <1>2, TypeCorrect, PTL DEF Spec

-------------------------------------------------------------------------------
(* What a loss counter above zero says. *)

\* A spill counts a loss only when it leaves the log broken, and never mends it.
LEMMA SpillBreaks ==
  ASSUME TypeOK, LossMeansLogBroken, main # "stopped",
         NEW e, NEW C, "EventsLost" \notin C, Spill(e, C)
  PROVE  metrics'["EventsLost"] > 0 => ~overflow'.ok
<1>1. metrics["EventsLost"] \in Nat /\ "EventsLost" \in Counters
  BY DEF TypeOK, Counters
<1>2. CASE AppendOK(overflow, e, overflow') /\ metrics' = Bump(C)
  <2>1. overflow.ok /\ ~(metrics["EventsLost"] > 0)
    BY <1>2 DEF AppendOK, LossMeansLogBroken
  <2>2. metrics'["EventsLost"] = metrics["EventsLost"]
    BY <1>1, <1>2 DEF Bump
  <2> QED  BY <2>1, <2>2
<1>3. CASE AppendErr(overflow, e, overflow')
  <2>1. CASE overflow.ok
    <3>1. PICK d \in Debris(overflow.file, e) : overflow' = [file |-> d, ok |-> FALSE]
      BY <1>3, <2>1, Zenon DEF AppendErr
    <3> QED  BY <3>1
  <2>2. CASE ~overflow.ok
    BY <1>3, <2>2 DEF AppendErr
  <2> QED  BY <2>1, <2>2
<1> QED  BY <1>2, <1>3 DEF Spill

LEMMA LossStep ==
  ASSUME TypeOK, LossMeansLogBroken, [Next]_vars
  PROVE  LossMeansLogBroken'
<1>1. CASE main' = "stopped"
  BY <1>1 DEF LossMeansLogBroken
<1>2. CASE Boot
  <2>1. metrics'["EventsLost"] = 0
    BY <1>2 DEF Boot, Counters
  <2> QED  BY <2>1 DEF LossMeansLogBroken
<1>3. ASSUME main # "stopped", overflow' = overflow, metrics'["EventsLost"] = metrics["EventsLost"]
      PROVE  LossMeansLogBroken'
  BY <1>3 DEF LossMeansLogBroken
<1>4. ASSUME NEW C \in SUBSET (Counters \ {"EventsLost"}), metrics' = Bump(C)
      PROVE  metrics'["EventsLost"] = metrics["EventsLost"]
  BY <1>4 DEF Bump, Counters, TypeOK
<1>5. ASSUME NEW e \in Events, HandleRaw(e) PROVE LossMeansLogBroken'
  <2>1. main # "stopped" /\ main' = main
    BY <1>5 DEF HandleRaw, control
  <2>2. CASE overflow' = overflow /\ metrics' \in {Bump({"DecodeErrors"}), Bump({"EventsTotal"}),
                                               Bump({"EventsTotal", "SuspiciousTotal"})}
    BY <1>3, <1>4, <2>1, <2>2 DEF Counters
  <2>3. CASE Spill(e, {"EventsTotal", "SuspiciousTotal", "QueueOverflows"})
    BY <2>1, <2>3, SpillBreaks DEF LossMeansLogBroken
  <2> QED  BY <1>5, <2>2, <2>3 DEF HandleRaw, Enqueue
<1>6. ASSUME main # "stopped", NEW w \in Workers, WorkerStep(w) PROVE LossMeansLogBroken'
  <2>1. CASE EvaluateErr(w)
    BY <1>6, <2>1, SpillBreaks DEF EvaluateErr, LossMeansLogBroken, control
  <2>2. CASE Receive(w) \/ WorkerExit(w)
    BY <1>3, <1>6, <2>2 DEF Receive, WorkerExit, disk
  <2>3. CASE EvaluateOK(w)
    <3>1. overflow' = overflow /\ (metrics' = metrics \/ metrics' = Bump({"ActionsKill"}))
      BY <2>3 DEF EvaluateOK, disk
    <3> QED  BY <1>3, <1>4, <1>6, <3>1 DEF Counters
  <2> QED  BY <1>6, <2>1, <2>2, <2>3 DEF WorkerStep
<1>7. ASSUME main # "stopped", ReplayStep PROVE LossMeansLogBroken'
  <2>1. CASE ReplayErr
    BY <1>7, <2>1, SpillBreaks DEF ReplayErr, LossMeansLogBroken
  <2>2. CASE DrainOverflow
    <3>1. overflow.ok /\ metrics' = metrics
      BY <2>2 DEF DrainOverflow, RotateOK, RotateErr
    <3> QED  BY <1>7, <3>1 DEF LossMeansLogBroken
  <2>3. CASE ReplayEnd
    <3>1. overflow' = overflow /\ metrics'["EventsLost"] = metrics["EventsLost"]
      BY <2>3 DEF ReplayEnd, TypeOK, Counters
    <3> QED  BY <1>3, <1>7, <3>1
  <2>4. CASE ReplayOK \/ DrainExit
    BY <1>3, <1>7, <2>4 DEF ReplayOK, DrainExit, disk
  <2> QED  BY <1>7, <2>1, <2>2, <2>3, <2>4 DEF ReplayStep
<1>8. CASE Sigterm \/ OpenSucceeds \/ ReaderStops
  BY <1>3, <1>8 DEF Sigterm, OpenSucceeds, ReaderStops, disk
<1>9. CASE Close \/ OpenGivesUp \/ Crash
  BY <1>1, <1>9 DEF Close, OpenGivesUp, Crash, ProcessEnds
<1>10. ASSUME main = "stopped", ReplayStep \/ (\E w \in Workers : WorkerStep(w)) PROVE main' = main
  BY <1>10 DEF ReplayStep, DrainOverflow, ReplayOK, ReplayErr, ReplayEnd, DrainExit, WorkerStep,
     Receive, EvaluateOK, EvaluateErr, WorkerExit, control
<1>11. CASE UNCHANGED vars
  BY <1>11 DEF LossMeansLogBroken, vars, control, disk
<1> QED
  BY <1>1, <1>2, <1>5, <1>6, <1>7, <1>8, <1>9, <1>10, <1>11 DEF Next, MainStep

\* An events_lost above zero means, as the README says, that the overflow log is
\* broken, with every failure and for any number of events, ticks and workers.
THEOREM LossIsLogFailure == Spec => []LossMeansLogBroken
<1>1. Init => LossMeansLogBroken
  BY DEF Init, LossMeansLogBroken, Counters
<1> QED  BY <1>1, LossStep, TypeCorrect, PTL DEF Spec

-------------------------------------------------------------------------------
(* The audit file. *)

\* AuditComplete is not inductive: it needs that the log still takes records.
AuditInv == AuditComplete /\ ("audit" \notin Faults => auditOK)

LEMMA AuditStep == AuditInv /\ [Next]_vars => AuditInv'
<1> SUFFICES ASSUME AuditInv, [Next]_vars PROVE AuditInv'
  OBVIOUS
<1>1. CASE unseen' = unseen /\ audit' = audit /\ (auditOK' = auditOK \/ auditOK' = TRUE)
  BY <1>1 DEF AuditInv, AuditComplete
<1>2. ASSUME NEW e \in Events, HandleRaw(e) PROVE AuditInv'
  <2>1. unseen' = unseen \ {e}
    BY <1>2 DEF HandleRaw
  <2>2. CASE e \in Short
    BY <1>2, <2>1, <2>2 DEF HandleRaw, AuditInv, AuditComplete
  <2>3. CASE e \notin Short
    <3>1. AuditAppend(e)
      BY <1>2, <2>3 DEF HandleRaw
    <3>2. "audit" \notin Faults => audit' = audit \cup {e} /\ auditOK' = auditOK
      BY <3>1 DEF AuditAppend, AuditInv
    <3> QED  BY <2>1, <3>2 DEF AuditInv, AuditComplete
  <2> QED  BY <2>2, <2>3
<1>3. ASSUME NEW w \in Workers, WorkerStep(w) PROVE AuditInv'
  BY <1>1, <1>3 DEF WorkerStep, Receive, EvaluateOK, EvaluateErr, WorkerExit, disk
<1>4. CASE ReplayStep
  BY <1>1, <1>4 DEF ReplayStep, DrainOverflow, ReplayOK, ReplayErr, ReplayEnd, DrainExit, disk
<1>5. CASE MainStep \/ Sigterm \/ Crash \/ UNCHANGED vars
  BY <1>1, <1>5 DEF MainStep, OpenSucceeds, OpenGivesUp, ReaderStops, Close, Boot, ProcessEnds,
     Sigterm, Crash, vars, disk
<1> QED  BY <1>2, <1>3, <1>4, <1>5 DEF Next

\* Design goal 3: every record that decodes is audited, across crashes and
\* restarts, whatever becomes of it, unless a write to the audit log fails.
THEOREM AuditIsComplete == Spec => []AuditComplete
<1>1. Init => AuditInv
  BY DEF Init, AuditInv, AuditComplete
<1>2. AuditInv => AuditComplete
  BY DEF AuditInv
<1> QED  BY <1>1, <1>2, AuditStep, PTL DEF Spec
===============================================================================
