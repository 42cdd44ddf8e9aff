------------------------------- MODULE Pipeline -------------------------------
(***************************************************************************)
(* The broker process: broker/main.go, broker/internal/pipeline and the     *)
(* read loop of broker/internal/ingest.                                     *)
(*                                                                          *)
(* The reader goroutine (main) hands every ring buffer record to HandleRaw, *)
(* which audits it and either queues it for the worker pool or spills it to *)
(* the overflow log.  Workers ask the AI hunter for a verdict and spill     *)
(* what they could not have evaluated.  The replay loop rotates the         *)
(* overflow log and asks again.  SIGTERM cancels a context that all of them *)
(* watch; a crash takes all of them at once.  Files survive both.           *)
(*                                                                          *)
(* An event stands for one ring buffer record, and each record is read once,*)
(* so the order of arrival is the order in which HandleRaw picks them.      *)
(***************************************************************************)
EXTENDS AppendLog, Integers, FiniteSets

CONSTANTS
    Events,      \* the records the sensor publishes
    Short,       \* those events.Decode rejects
    Suspicious,  \* those triage.IsSuspicious selects
    Kill,        \* those whose verdict is action=kill
    Workers,     \* the worker pool
    QueueSize,   \* capacity of the dispatch queue
    NoEvent,     \* the worker holds no event
    Replayer     \* the replay loop, as a caller of HunterClient.Evaluate

ASSUME EventsAssumption ==
    /\ Short \subseteq Events
    /\ Suspicious \subseteq Events
    /\ Kill \subseteq Events
    /\ NoEvent \notin Events
    /\ Torn \notin Events
    /\ Replayer \notin Workers

ASSUME QueueSizeAssumption == QueueSize \in Nat \ {0}

VARIABLES
    unseen,     \* records not yet read from the ring buffer
    queue,      \* Pipeline.queue, a buffered channel
    held,       \* held[w]: the event worker w is evaluating
    live,       \* workers that have not returned
    drain,      \* the replay loop: waiting for a tick, replaying, or returned
    replay,     \* the part of the ".replay" file that is still to be read
    replayed,   \* drainOverflow's local count of successful replays
    overflow,   \* Pipeline.overflow
    audit,      \* events in the audit file; nothing reads it back
    auditOK,    \* the audit log still accepts writes
    main,       \* where main is: opening the map, reading, closing, or gone
    ctxDone,    \* the signal context is cancelled
    late,       \* callers whose Evaluate began under a cancelled context
    metrics,    \* Pipeline.metrics
    evaluated,  \* history: events the hunter returned a verdict for
    responded,  \* history: events whose verdict reached KillProcess
    lost,       \* history: events counted in EventsLost
    abandoned,  \* history: events in memory when the process ended
    carried     \* history: records in the overflow file at the last start

memory  == <<queue, held, live, drain, replayed>>
disk    == <<replay, overflow, audit, auditOK>>
control == <<main, ctxDone, late>>
history == <<evaluated, responded, lost, abandoned, carried>>
vars    == <<unseen, memory, disk, control, metrics, history>>

Counters == {"EventsTotal", "SuspiciousTotal", "QueueOverflows", "HunterErrors",
             "EventsLost", "ActionsKill", "DecodeErrors", "OverflowReplays"}

Callers == Workers \cup {Replayer}

Elements(s) == {s[i] : i \in DOMAIN s}
Holding == {held[w] : w \in Workers} \ {NoEvent}
InMemory == Elements(queue) \cup Holding
OnDisk == (Elements(overflow.file) \cup Elements(replay)) \ {Torn}

\* Events HandleRaw decoded and triage selected.
Accepted == (Suspicious \ Short) \ unseen

-------------------------------------------------------------------------------
\* One Add(1) to each of the metrics in C.
Bump(C) == [c \in Counters |-> IF c \in C THEN metrics[c] + 1 ELSE metrics[c]]

\* The worker pool and the replay loop as Start launches them.
FreshMemory(q, h, l, d, r) ==
    /\ q = <<>>
    /\ h = [w \in Workers |-> NoEvent]
    /\ l = Workers
    /\ d = "ticking"
    /\ r = 0

Init ==
    /\ unseen = Events
    /\ FreshMemory(queue, held, live, drain, replayed)
    /\ replay = <<>>
    /\ overflow = newAppendLog(<<>>)
    /\ audit = {}
    /\ auditOK = TRUE
    /\ main = "starting"
    /\ ctxDone = FALSE
    /\ late = {}
    /\ metrics = [c \in Counters |-> 0]
    /\ evaluated = {}
    /\ responded = {}
    /\ lost = {}
    /\ abandoned = {}
    /\ carried = 0

-------------------------------------------------------------------------------
\* Mutant: a failed spill is logged and not counted.
SpillUncounted(e, C) ==
    /\ AppendOK(overflow, e, overflow') \/ AppendErr(overflow, e, overflow')
    /\ metrics' = Bump(C)
    /\ UNCHANGED lost

\* Mutant: the loss is counted before the write is tried.
SpillCountedFirst(e, C) ==
    /\ metrics' = Bump(C \cup {"EventsLost"})
    /\ \/ AppendOK(overflow, e, overflow') /\ UNCHANGED lost
       \/ AppendErr(overflow, e, overflow') /\ lost' = lost \cup {e}

\* Writing e to the overflow log.  C are the counters the caller has bumped;
\* a failure is the CRITICAL case, the only one that counts the event lost.
Spill(e, C) ==
    \/ /\ AppendOK(overflow, e, overflow')
       /\ metrics' = Bump(C)
       /\ UNCHANGED lost
    \/ /\ AppendErr(overflow, e, overflow')
       /\ metrics' = Bump(C \cup {"EventsLost"})
       /\ lost' = lost \cup {e}

\* Mutant: triage comes before the audit log.
AuditSuspicious(e) == audit' = audit \cup ({e} \cap Suspicious) /\ UNCHANGED auditOK

\* audit.Append: a failure is logged, counted nowhere and stops nothing.
AuditAppend(e) ==
    \/ /\ auditOK
       /\ audit' = audit \cup {e}
       /\ UNCHANGED auditOK
    \/ /\ auditOK => "audit" \in Faults
       /\ auditOK' = FALSE
       /\ UNCHANGED audit

\* Mutant: one event more than the channel can buffer.
HasRoomForOneMore == Len(queue) <= QueueSize

HasRoom == Len(queue) < QueueSize

\* Mutant: every event is spilled, and queued as well when there is room.
EnqueueAndSpill(e) ==
    /\ Spill(e, {"EventsTotal", "SuspiciousTotal", "QueueOverflows"})
    /\ queue' = IF HasRoom THEN Append(queue, e) ELSE queue

\* The non-blocking send: queue the event if there is room, else spill it.
Enqueue(e) ==
    IF HasRoom
    THEN /\ queue' = Append(queue, e)
         /\ metrics' = Bump({"EventsTotal", "SuspiciousTotal"})
         /\ UNCHANGED <<overflow, lost>>
    ELSE /\ Spill(e, {"EventsTotal", "SuspiciousTotal", "QueueOverflows"})
         /\ UNCHANGED queue

\* Decode and triage: only a decodable, suspicious event is dispatched.
HandleRaw(e) ==
    /\ main = "running"
    /\ e \in unseen
    /\ unseen' = unseen \ {e}
    /\ IF e \in Short
       THEN /\ metrics' = Bump({"DecodeErrors"})
            /\ UNCHANGED <<audit, auditOK, queue, overflow, lost>>
       ELSE /\ AuditAppend(e)
            /\ IF e \in Suspicious
               THEN Enqueue(e)
               ELSE /\ metrics' = Bump({"EventsTotal"})
                    /\ UNCHANGED <<queue, overflow, lost>>
    /\ UNCHANGED <<held, live, drain, replayed, replay, control,
                   evaluated, responded, abandoned, carried>>

-------------------------------------------------------------------------------
\* Mutant: all calls share a context whose deadline has passed.
BeginsCancelled(c) == late' = late \cup {c}

\* A call of Evaluate that begins once the context is cancelled cannot succeed.
Begins(c) == late' = IF ctxDone THEN late \cup {c} ELSE late

\* The worker's select takes the queue case, and evaluate calls the hunter.
Receive(w) ==
    /\ w \in live
    /\ held[w] = NoEvent
    /\ queue # <<>>
    /\ held' = [held EXCEPT ![w] = Head(queue)]
    /\ queue' = Tail(queue)
    /\ Begins(w)
    /\ UNCHANGED <<unseen, live, drain, replayed, disk, main, ctxDone, metrics, history>>

\* The worker's select takes the ctx.Done case.
WorkerExit(w) ==
    /\ w \in live
    /\ ctxDone
    /\ held[w] = NoEvent
    /\ live' = live \ {w}
    /\ UNCHANGED <<unseen, queue, held, drain, replayed, disk, control, metrics, history>>

\* evaluate got a verdict; a kill verdict goes on to KillProcess.
EvaluateOK(w) ==
    /\ held[w] # NoEvent
    /\ w \notin late
    /\ held' = [held EXCEPT ![w] = NoEvent]
    /\ evaluated' = evaluated \cup {held[w]}
    /\ IF held[w] \in Kill
       THEN /\ metrics' = Bump({"ActionsKill"})
            /\ responded' = responded \cup {held[w]}
       ELSE UNCHANGED <<metrics, responded>>
    /\ UNCHANGED <<unseen, queue, live, drain, replayed, disk, control, lost, abandoned, carried>>

\* evaluate got an error: every attempt failed, or the context was cancelled.
EvaluateErr(w) ==
    /\ held[w] # NoEvent
    /\ held' = [held EXCEPT ![w] = NoEvent]
    /\ Spill(held[w], {"HunterErrors"})
    /\ UNCHANGED <<unseen, queue, live, drain, replayed, replay, audit, auditOK, control,
                   evaluated, responded, abandoned, carried>>

-------------------------------------------------------------------------------
\* A tick: rotate the overflow log and open the rotated file.  Its removal is
\* deferred before the open, so a failed open deletes what was to be replayed.
DrainOverflow ==
    /\ drain = "ticking"
    /\ \/ /\ RotateOK(overflow, overflow')
          /\ replay' = overflow.file
          /\ drain' = "replaying"
          /\ replayed' = 0
          /\ Begins(Replayer)
       \/ /\ "open" \in Faults
          /\ RotateOK(overflow, overflow')
          /\ replay' = <<>>
          /\ UNCHANGED <<drain, replayed, late>>
       \/ /\ RotateErr(overflow, overflow', replay, replay')
          /\ UNCHANGED <<drain, replayed, late>>
    /\ UNCHANGED <<unseen, queue, held, live, audit, auditOK, main, ctxDone, metrics, history>>

\* The decoder has another record: neither the end nor a malformed line.
NextRecord ==
    /\ drain = "replaying"
    /\ replay # <<>>
    /\ Head(replay) # Torn
    /\ replay' = Tail(replay)
    /\ Begins(Replayer)

\* The hunter answered.  The verdict itself is discarded.
ReplayOK ==
    /\ NextRecord
    /\ Replayer \notin late
    /\ replayed' = replayed + 1
    /\ evaluated' = evaluated \cup {Head(replay)}
    /\ UNCHANGED <<unseen, queue, held, live, drain, overflow, audit, auditOK, main, ctxDone,
                   metrics, responded, lost, abandoned, carried>>

\* The hunter failed again: the event goes to the fresh overflow file.
ReplayErr ==
    /\ NextRecord
    /\ Spill(Head(replay), {})
    /\ UNCHANGED <<unseen, queue, held, live, drain, replayed, audit, auditOK, main, ctxDone,
                   evaluated, responded, abandoned, carried>>

\* The decoder stops, at the end, at a malformed line or at a failed read, and
\* the file goes with what was not read.
ReplayEnd ==
    /\ drain = "replaying"
    /\ replay # <<>> => Head(replay) = Torn \/ "read" \in Faults
    /\ drain' = "ticking"
    /\ replay' = <<>>
    /\ replayed' = 0
    /\ metrics' = [metrics EXCEPT !["OverflowReplays"] = @ + replayed]
    /\ UNCHANGED <<unseen, queue, held, live, overflow, audit, auditOK, control, history>>

\* Mutant: the replay loop also looks at the context between two records.
DrainExitMidReplay ==
    /\ drain \in {"ticking", "replaying"}
    /\ ctxDone
    /\ drain' = "exited"
    /\ UNCHANGED <<unseen, queue, held, live, replayed, disk, control, metrics, history>>

\* The replay loop's select takes the ctx.Done case.
DrainExit ==
    /\ drain = "ticking"
    /\ ctxDone
    /\ drain' = "exited"
    /\ UNCHANGED <<unseen, queue, held, live, replayed, disk, control, metrics, history>>

-------------------------------------------------------------------------------
\* SIGINT or SIGTERM cancels the context; main does not look at it while it
\* is still waiting for the sensor to pin its map.
Sigterm ==
    /\ main \in {"starting", "running"}
    /\ ~ctxDone
    /\ ctxDone' = TRUE
    /\ UNCHANGED <<unseen, memory, disk, main, late, metrics, history>>

\* openWithRetry found the pinned map.
OpenSucceeds ==
    /\ main = "starting"
    /\ main' = "running"
    /\ UNCHANGED <<unseen, memory, disk, ctxDone, late, metrics, history>>

\* Mutant: nothing closes the reader, so only a record makes Read return.
ReaderStopsAtRecord ==
    /\ main = "running"
    /\ ctxDone
    /\ unseen # {}
    /\ main' = "closing"
    /\ UNCHANGED <<unseen, memory, disk, ctxDone, late, metrics, history>>

\* The read loop ends: the cancelled context has closed the reader.  Records
\* may still have been read between the cancellation and this step.
ReaderStops ==
    /\ main = "running"
    /\ ctxDone
    /\ main' = "closing"
    /\ UNCHANGED <<unseen, memory, disk, ctxDone, late, metrics, history>>

\* The end of the process, by whatever cause: memory is gone, files stay.
ProcessEnds ==
    /\ main' = "stopped"
    /\ abandoned' = abandoned \cup InMemory
    /\ queue' = <<>>
    /\ held' = [w \in Workers |-> NoEvent]
    /\ live' = {}
    /\ drain' = "exited"
    /\ replayed' = 0
    /\ UNCHANGED <<unseen, disk, ctxDone, late, metrics, evaluated, responded, lost, carried>>

\* Pipeline.Close: wait for the workers and the replay loop, then return from
\* main.  Every append has been flushed, so closing the logs writes nothing.
Close ==
    /\ main = "closing"
    /\ live = {}
    /\ drain = "exited"
    /\ ProcessEnds

\* openWithRetry ran out of attempts: log.Fatalf, with the pipeline running.
OpenGivesUp ==
    /\ "nosensor" \in Faults
    /\ main = "starting"
    /\ ProcessEnds

Crash ==
    /\ "crash" \in Faults
    /\ main # "stopped"
    /\ ProcessEnds

\* The broker is started again: pipeline.New reopens the files and Start
\* launches the goroutines, before the map is opened.
Boot ==
    /\ main = "stopped"
    /\ main' = "starting"
    /\ FreshMemory(queue', held', live', drain', replayed')
    /\ overflow' = newAppendLog(overflow.file)
    /\ auditOK' = TRUE
    /\ ctxDone' = FALSE
    /\ late' = {}
    /\ metrics' = [c \in Counters |-> 0]
    /\ carried' = Len(overflow.file)
    /\ UNCHANGED <<unseen, replay, audit, evaluated, responded, lost, abandoned>>

-------------------------------------------------------------------------------
WorkerStep(w) == Receive(w) \/ EvaluateOK(w) \/ EvaluateErr(w) \/ WorkerExit(w)
ReplayStep == DrainOverflow \/ ReplayOK \/ ReplayErr \/ ReplayEnd \/ DrainExit
MainStep == OpenSucceeds \/ OpenGivesUp \/ ReaderStops \/ Close \/ Boot

Next ==
    \/ \E e \in Events : HandleRaw(e)
    \/ \E w \in Workers : WorkerStep(w)
    \/ ReplayStep
    \/ MainStep
    \/ Sigterm
    \/ Crash

Spec == Init /\ [][Next]_vars

\* Every call of Evaluate returns, since its attempts are bounded and each has
\* a timeout; goroutines are scheduled; a ready context case is not passed over
\* for ever by Go's random select, and neither is the hunter down for ever.
Fairness ==
    /\ \A w \in Workers :
        /\ WF_vars(Receive(w))
        /\ WF_vars(EvaluateOK(w) \/ EvaluateErr(w))
        /\ SF_vars(WorkerExit(w))
    /\ WF_vars(DrainOverflow)
    /\ WF_vars(ReplayOK \/ ReplayErr)
    /\ WF_vars(ReplayEnd)
    /\ SF_vars(ReplayOK)
    /\ SF_vars(DrainExit)
    /\ WF_vars(OpenSucceeds \/ OpenGivesUp)
    /\ WF_vars(ReaderStops)
    /\ WF_vars(Close)

FairSpec == Spec /\ Fairness

-------------------------------------------------------------------------------
(* Properties *)

TypeOK ==
    /\ unseen \subseteq Events
    /\ queue \in Seq(Events) /\ Len(queue) <= QueueSize
    /\ held \in [Workers -> Events \cup {NoEvent}]
    /\ live \subseteq Workers
    /\ drain \in {"ticking", "replaying", "exited"}
    /\ replay \in Seq(Events \cup {Torn})
    /\ replayed \in Nat
    /\ overflow \in [file : Seq(Events \cup {Torn}), ok : BOOLEAN]
    /\ audit \subseteq Events
    /\ auditOK \in BOOLEAN
    /\ main \in {"starting", "running", "closing", "stopped"}
    /\ ctxDone \in BOOLEAN
    /\ late \subseteq Callers
    /\ metrics \in [Counters -> Nat]
    /\ evaluated \subseteq Events
    /\ responded \subseteq Events
    /\ lost \subseteq Events
    /\ abandoned \subseteq Events
    /\ carried \in Nat

\* Failures in which records that are on disk cannot be, or are not, replayed.
RotationFaults == {"torn", "read", "reopen", "open"}
RestartFaults == {"crash", "nosensor"}
LossyFaults == RotationFaults \cup RestartFaults

\* Design goal 1 as far as the code meets it: unless a lossy failure happens,
\* every accepted event is queued, being evaluated, on disk, evaluated, counted
\* in EventsLost, or was in memory when the process ended.
NoSilentLoss ==
    Faults \cap LossyFaults = {} =>
        Accepted \subseteq InMemory \cup OnDisk \cup evaluated \cup lost \cup abandoned

\* A spilled event stays in one of the two files until the hunter has evaluated
\* it or EventsLost has counted it: no rotation, replay, shutdown or restart may
\* drop it.
SpillIsDurable == [][OnDisk \subseteq (OnDisk \cup evaluated \cup lost)']_vars

\* A step at which the replay loop gives up the ".replay" file: it stops at a
\* record that is malformed or cannot be read, or a tick renames the overflow
\* file over one that an earlier process left.
GivesUpReplay ==
    \/ drain = "replaying" /\ drain' = "ticking" /\ (Head(replay) = Torn \/ "read" \in Faults)
    \/ drain = "ticking" /\ overflow.ok /\ overflow'.file = <<>>

\* A tick that renames the overflow file and then cannot open it.
GivesUpOverflow == drain = "ticking" /\ overflow.ok /\ overflow'.file = <<>> /\ "open" \in Faults

\* Whatever fails: a spilled event that leaves the disk unevaluated and uncounted
\* does so at such a step.  A crash, a restart, a shutdown or a failed write
\* costs the files nothing by itself; but a crash leaves a ".replay" file that
\* nobody reads.
SpillLossExplained ==
    [][/\ \/ Elements(replay) \ {Torn} \subseteq (OnDisk \cup evaluated \cup lost)'
          \/ GivesUpReplay
       /\ \/ Elements(overflow.file) \ {Torn} \subseteq (OnDisk \cup evaluated \cup lost)'
          \/ GivesUpOverflow]_vars

\* s holds no event twice.
Distinct(s) == \A i, j \in DOMAIN s : s[i] = s[j] /\ s[i] # Torn => i = j

\* An event is in one place at a time, and one that is evaluated is in none: the
\* queue, the workers, the overflow file and the file being replayed never
\* share an event, so no event is evaluated twice.  One that was counted lost is
\* in none of them either, but for a short write that misses only the newline:
\* it leaves the event in the file, to be replayed after a restart.
OnePlace ==
    LET Places == <<unseen, Elements(queue), Holding, Elements(overflow.file) \ {Torn},
                    Elements(replay) \ {Torn}, evaluated, abandoned>>
    IN  /\ \A i, j \in DOMAIN Places : i # j => Places[i] \cap Places[j] = {}
        /\ lost \cap (unseen \cup InMemory \cup abandoned) = {}
        /\ "torn" \notin Faults => lost \cap (OnDisk \cup evaluated) = {}
        /\ Distinct(queue)
        /\ Distinct(overflow.file)
        /\ Distinct(replay)
        /\ \A v, w \in Workers : held[v] = held[w] /\ held[v] # NoEvent => v = w

\* What the overflow log has taken in since the process started, and what it
\* held then, is what has left it again, by a counted loss or a counted replay,
\* plus what it still holds: the counters of /metrics explain the backlog.
SpillBalance ==
    Faults \cap RotationFaults = {} /\ main # "stopped" =>
        metrics["QueueOverflows"] + metrics["HunterErrors"] + carried =
            metrics["EventsLost"] + metrics["OverflowReplays"] + replayed
            + Len(overflow.file) + (IF drain = "replaying" THEN Len(replay) ELSE 0)

\* README on events_lost: "a nonzero value means the overflow log itself failed".
\* Whatever fails, and however often the log was rotated since: once the counter
\* is above zero the log takes no more records until the broker is started again.
LossMeansLogBroken ==
    main # "stopped" /\ metrics["EventsLost"] > 0 => ~overflow.ok

\* A ".replay" file exists only while the replay loop is reading it: an orderly
\* shutdown waits until the loop has evaluated or spilled again all of it, so a
\* restart never finds one it would overwrite.
NoStrandedReplay ==
    Faults \cap LossyFaults = {} => (replay # <<>> => drain = "replaying")

\* Design goal 3: unless a write fails, every record that decodes is in the
\* audit file whatever triage, the queue or the hunter made of it.
AuditComplete ==
    "audit" \notin Faults => Events \ (unseen \cup Short) \subseteq audit

\* A cancelled context always leads to the end of the process: the workers and
\* the replay loop notice it, and Close does not wait for ever.
ShutdownCompletes == ctxDone ~> main = "stopped"

\* While the broker is not told to stop, every accepted event ends up evaluated
\* or counted lost: from the queue, or by way of any number of spills.
EventuallySettled ==
    \A e \in Suspicious \ Short :
        (e \in Accepted) ~> (e \in evaluated \cup lost \cup abandoned \/ ctxDone)

\* Whatever fails: an event in memory leaves it only for the disk, a verdict, a
\* counted loss, or with the process.  Workers and queue never mislay one.
HandOver == [][InMemory \subseteq (InMemory \cup OnDisk \cup evaluated \cup lost \cup abandoned)']_vars

\* What each variable assignment says of an event, for DispatchPromise.
Fate == [e \in Events |->
    IF e \in unseen                     THEN "unseen"
    ELSE IF e \notin Suspicious \ Short THEN "ignored"
    ELSE IF e \in InMemory              THEN "memory"
    ELSE IF e \in OnDisk                THEN "disk"
    ELSE IF e \in evaluated             THEN "evaluated"
    ELSE IF e \in lost                  THEN "lost"
    ELSE "abandoned"]

Promise == INSTANCE DispatchPromise WITH fate <- Fate

\* The broker keeps the promise: each step of each goroutine moves at most one
\* event, along an allowed path, and the end of the process takes only memory.
KeepsPromise == Promise!PromiseSpec

\* Design goal 1 as pipeline.go words it: "Never silently drop a suspicious
\* event."
NeverSilentlyDropped == Accepted \subseteq InMemory \cup OnDisk \cup evaluated \cup lost

\* hunter/app.py: "the Go broker independently applies the same verdict on its
\* side", so a kill verdict the hunter gave reaches KillProcess.
KillVerdictApplied == evaluated \cap Kill \subseteq responded
===============================================================================
