# TLA+ models of ebpf-cyber-patrol

The system watches every `execve` on a host. An eBPF program writes one record
per call to a pinned ring buffer; a Go broker reads the records, audits them,
selects the suspicious ones and asks a Python service (the "hunter") for an AI
verdict; a `kill` verdict is carried out by the broker, and by the hunter itself
when it shares the host. This directory models the parts in which order,
failure and concurrency decide whether that works, checks them with TLC on small
instances, and proves the main results for all instances with TLAPS.

## Inventory

| Component | State | Operations | Talks to | What is hard |
|---|---|---|---|---|
| Sensor (`cyber-patrol-ebpf`, `-common`) | ring buffer | reserve, fill, submit, drop when full | broker, by the pinned map | several CPUs, a full ring, the `truncated` flag |
| Loader (`cyber-patrol-loader`) | attached program, pinned map | attach, detach, reuse the pin | sensor | restarts while records are in the ring |
| Ring buffer reader (`ingest`) | open reader | Open, Run, Close | `HandleRaw` | end by cancellation while records arrive |
| Dispatch pipeline (`pipeline.go`) | queue, workers, replay loop, counters | HandleRaw, worker, evaluate, replayLoop, drainOverflow, Close | hunter client, both logs, responder | three kinds of goroutine, a full queue, a failing hunter, shutdown |
| Append log (`appendlog.go`) | file, buffered writer | Append, rotate, Close | file system | sticky write errors, half-done rotation, partial records |
| Metrics (`metrics.go`) | eight counters | Add, MetricsHandler | all of the above | counters and backlog must agree |
| Broker process (`main.go`) | context | start, openWithRetry, signal, shutdown | everything in the broker | crash and restart between any two steps |
| Hunter client (`client.go`) | attempt, backoff | Evaluate, doRequest | hunter service | retries, timeouts, late answers, cancellation |
| Hunter service (`app.py`) | none | evaluate | engine, responder | acts before it answers |
| Threat engine (`llm_engine.py`) | none | evaluate, _parse_tool_input | model API | the authority boundary at its limits |
| Responders (`respond.go`, `responder.py`, `kill_pid.sh`) | none of their own; the process table | KillProcess, kill_pid, helper | kernel | pid reuse, exec and exit between check and signal |
| Decoding (`events.go`) | the wall-clock anchor | Decode, bootWallTime | HandleRaw | offsets kept by hand, two clocks read at two moments |
| Triage (`triage.go`) | none | IsSuspicious | HandleRaw | names cut by the kernel, odd paths |

Correctness, per component: the pipeline must not lose, duplicate or forget a
suspicious event, must finish shutting down, and its counters must explain what
it did; the append log must keep what it accepted; a record must be read as it
was written and its time must keep the order of events; triage must not be misled
by a name the kernel has cut; only a reply inside the authority boundary may lead
to a kill; the client must return, use its attempts, and not succeed under a
cancelled context; the responders
must hit the process the verdict is about or nothing, and say truthfully what
became of it. `PROJECT.json` lists the hazards line by line.

## Modules

| Module | Models |
|---|---|
| `AppendLog` | `appendlog.go`: the outcomes of `Append` and `rotate` as relations on a log, and the failures the environment may inject (`Faults`) |
| `Pipeline` | the broker: reader, `HandleRaw`, workers, replay loop, counters, signal, close, crash, restart |
| `DispatchPromise` | abstract: where one event may stand and how it may move |
| `PipelineProofs`, `DispatchProofs` | theorems about `Pipeline`; the second on places, counters and the refinement |
| `Sensor` | eBPF program, loader, pinned ring buffer, reader, and the decoding of a record |
| `Layout` | the bytes of a record: `repr(C)` on one side, the offsets of `events.go` on the other; extended by `Sensor` |
| `WallClock` | the time of an event: sensor clock, suspends, `bootWallTime`, `Decode` |
| `Triage` | `triage.go` on the execs of one process |
| `HunterClient` | `Evaluate` and `doRequest` against the endpoint of `app.py` |
| `EvaluatePromise` | abstract: what `Pipeline` assumes of `Evaluate` |
| `Respond` | the three responders against one pid |
| `Engine` | `llm_engine.py` with `models.py`, `mitre.py`, `config.py`: reply of the model to verdict, as operators |
| `Response` | `HunterClient`, `Engine` and `Respond` composed for one event |
| `HunterClientProofs`, `RespondProofs`, `ResponseProofs`, `SensorProofs`, `WallClockProofs`, `TriageProofs` | theorems about the module each is named for |
| `MCPipeline`, `MCSensor`, `MCHunterClient`, `MCRespond`, `MCResponse`, `MCTriage`, `MCWallClock` | the instances TLC checks |

**Pipeline.** An event is one ring buffer record. Each is read once, so `unseen`
and the choice of the next event stand for the ring buffer; it survives the
broker because the map is pinned. `queue`, `held[w]`, `live`, `drain` and
`replayed` are the process's memory; `overflow`, `replay` (the unread part of
the `.replay` file), `audit` and `auditOK` are files and handles. `main`,
`ctxDone` and `late` say where `main` is, whether the signal context is
cancelled, and which callers of `Evaluate` began after that; these cannot
succeed, because `net/http` refuses a request whose context is done. A call
under way at the cancellation may end either way. `HandleRaw` is one action: no other goroutine
shares what it touches except the queue (one channel operation) and the overflow
log (one operation under the log's mutex). A crash between its steps leaves the
record read and neither queued nor spilled, which is what `Sensor` calls
`mislaid`, or in the queue of a process that ends, `abandoned` here. Each worker step, each replayed record
and each rotation is an action, so they interleave freely.
`evaluated`, `responded`, `lost`, `abandoned` and `carried` are history.

Which records decode (`Short`), are suspicious (`Suspicious`) and would get a
kill verdict (`Kill`) are constants: the runs fix them, the theorems hold for
all of them. The audit file is a set, since nothing reads it back.

**Failures.** `Faults` names what may go wrong in an instance: `append` (a write
fails cleanly), `torn` (a short write leaves part of a record, or all of it but the
newline, which `json.Decoder` reads as a whole record later), `rename` and `reopen`
(rotation fails before or after the rename), `open` (the rotated file cannot be
opened), `read` (reading it fails before its end), `audit`, `crash`, and `nosensor` (`openWithRetry` gives up and
`log.Fatalf` ends the process while the replay loop runs; with the default
flags the first tick comes later than that, so it takes other settings). A
failed write is sticky, as in `bufio.Writer`. A crash is the death of the
process; what was written stays written, so the loss of the page cache in a power
failure is not covered. `torn`, `read`, `reopen`, `open`, `crash` and `nosensor`
are the `LossyFaults`: with them the code does lose spilled events, as the run
`crash_mid_replay` and its variants show, and `NoSilentLoss` and `NoStrandedReplay` say what holds
without them.

**Sensor.** `Enter`, `Fill` and `Leave` are `reserve`, the body and `submit` of
one run of the program on a CPU; the reserved memory belongs to it alone, so the
body is one step. `ring` is the ring buffer between consumer and producer
position, `mem` the bytes of its slots, which survive recycling; both belong to
the pinned map and survive loader and broker. The reader takes the oldest record
only when it is submitted. `Read` and `Handle` are two steps, so a crash may come
between them (`mislaid`); `Pipeline` starts at `Handle`. What the model says of
`bpf_probe_read_user_str_bytes` (fills up to the size less one and terminates;
zeroes the buffer on a fault) and of the ring buffer is external. `Capture` and
`Decode` work on buffers and lengths; `RecordIsFaithful` compares their
composition with the strings the call passed. Observed execves are bounded by
`MaxExecs`.

**Layout and WallClock.** `Offset` computes where `repr(C)` puts each field,
`Reads` is the table of `events.go`; `ReadWhereWritten` compares them for every
record read. In `WallClock` the sensor's clock stands still while the host is suspended
and `/proc/uptime` does not, and is rounded down to `Grain`; reading it and asking
for the time are two steps, and the first `Decode` of each broker process does
both. A record gets its place in the ring buffer when it is reserved (`Reserve`) and
its time later (`Capture`), as on a host with several CPUs, so the order of arrival
and that of the timestamps differ; `StampsOrderEvents` compares the timestamps with
the moments of capture. Nobody sets the wall clock.

**Triage.** Paths and names are sequences of characters, the tables are constants.
A process executes one program after the other and may rename itself; an exec
that fails still makes an event. The kernel's naming is external.
`DroppedIsNamesake` says what the heuristics let through, of a process that has
not renamed itself; a name that merely continues, or is continued by, the old one
is part of that.

**HunterClient.** Each call has its own attempt counter; each request has a life
of its own on the wire and in the service, which does not notice that a client has
given up. `net/http` looks at the context when it sends (`Send`); the request arrives
(`Arrive`) at any time after that, cancelled or not, or never. The
service may hang, fail, or produce a verdict, and asks the model anew each time.
Timers are "may fire at any time". `EvaluatePromise` is what `Pipeline` uses:
`EvaluateOK`, `EvaluateErr`, `ReplayOK`, `ReplayErr` and `late` are its `Return`
and `late`; the run `hunter_client` shows that the client keeps it.

**Respond.** One pid, its processes numbered in order. Process 1 is the one the
sensor saw; the name in the event is the one it had when it *entered* `execve`.
A killed process keeps the pid until it is reaped. `Privileged` are the responders
that may signal it themselves; to the others `kill(2)` answers `EPERM`, on which
`kill_pid` turns to the helper and `KillProcess` returns the error. `kill_pid` opens
and reads the comm file in two steps, and the helper looks for it and reads it in two,
because an exit between them has an outcome of its own. The helper may fail to run or
to end in time at any of its steps, which `kill_pid` reports or, for exceptions it does
not list, raises. A helper that is still running when its five seconds are over is not
followed further, so a signal it may yet send is not in the model.

**Engine and Response.** A reply of the model is an API error, an exception of
another kind, or the input of the verdict tool, whose fields need not keep to
the schema or be all there (`complete`). Confidence is in hundredths. `evaluate`, `_parse_tool_input` and
`_fallback_verdict` are the functions of that name. In `Response` every
request of the client that reaches the service asks the model (`Ask`), acts on a
kill verdict (`HunterActs`, the steps of `kill_pid`), and answers (`Answer`),
whether or not the client still waits; the broker acts on the answer it took
(`BrokerActs`, the steps of `KillProcess`); the process meanwhile execs, exits
and is replaced. `Authorises` restates the boundary that `config.py` documents
on the reply itself, so that the chain of validation, downgrade, HTTP
answer, retry and responder is compared with it from end to end. The worker's
verdict reaches `KillProcess` also after a cancellation, as in the code. That the
hunter shares the host is assumed; elsewhere the broker is the only responder.

## Runs

Runs that pass:

| Run | Instance | Shows |
|---|---|---|
| `pipeline_safety` | 4 events, 2 workers, queue of 1; `append`, `rename` | `NoSilentLoss`, `OnePlace`, `NoStrandedReplay`, `SpillIsDurable`; `SpillBalance`: spills and replays add up in `/metrics`; `Pipeline` implements `DispatchPromise` |
| `pipeline_faults` | 2 events with kill verdicts, 1 malformed record, 2 workers, every failure | `OnePlace`, `HandOver`; `SpillLossExplained`: an event disappears from the disk only at a step that gives up its file; `LossMeansLogBroken`: what the README says of `events_lost` |
| `pipeline_liveness` | 3 events, 1 benign, 1 worker, no failures, fairness | `EventuallySettled`, `ShutdownCompletes`, `AuditComplete` |
| `sensor` | 2 CPUs, ring of 2, 3 execves of 5 kinds, fairness | `RecordIsFaithful`, `ReadWhereWritten`, `ReservationsAreHeld`, `EachExecInOnePlace`, `InOrder`, `Delivered` |
| `wall_clock` | 3 events, 2 CPUs, 4 units awake, 2 asleep, uptime rounded to 2 | `StampsOrderEvents`, `StampAccurate` |
| `triage` | every path of up to 3 characters and six longer ones, names of 2 | `ReexecNotFlagged`, `DroppedIsNamesake`, `HiddenFound` |
| `hunter_client` | 2 calls, 2 retries | `GivesUpLast`, and the client implements `EvaluatePromise`, its liveness included |
| `response` | 1 call, 1 retry, 8 replies; broker, privileged and unprivileged hunter; 3 processes, 2 names; fairness | `KillsAuthorised`, `HunterFirst`, `StrangersSpared`, `DoneMeansDead`, `KillCarriedOut`: `KillProcess` runs to its end, and unless it declines, the process the sensor saw is gone or has its SIGKILL |

*Bounds.* No counter is capped: each event is read once, so the state space is
finite for a finite set of events, and starts, crashes and ticks may be repeated
without limit. A queue of one is full with one event; four events put one in each
worker's hands, one in the queue and one on disk at the same time. Three
processes allow a reuse before the check and another between check and signal
(`MaxProcesses`). Three execves in a ring of two fill it, drop one, or recycle a
slot (`MaxExecs`); sizes of 3 and 2 bytes have strings below, at and over the
limit. The eight replies are the boundary itself, one miss on each side of it, an
incomplete one, and no verdict at all; one retry is one request the client has given up on. Paths
of three characters have every arrangement of separators and dots around a name;
the longer ones have names that agree up to `TaskCommLen` and differ after it.
Time is bounded (`MaxAwake`, `MaxAsleep`, `MaxEvents`) so that the anchor may be
set before, between and after captures and suspends, and again after a restart. Events and workers are symmetric where no
constant tells them apart; the liveness run uses no symmetry. The client and the
responders end, and time does in `WallClock`, so those configurations switch
deadlock checking off.

*Fairness.* Weak fairness for goroutines that can run and for calls of
`Evaluate`, which end because attempts are bounded and timed. Strong fairness
for `WorkerExit` and `DrainExit`: Go's `select` picks at random among ready cases,
so a ready `ctx.Done` is not passed over for ever. Strong fairness for `ReplayOK`
says that the hunter is not down for ever, which the code cannot guarantee and
`EventuallySettled` needs. None for arrivals, signals, failures and restarts.
In `HunterClient` only the client is fair, not the service; in `Response` the
client and the broker's `KillProcess`, which has no blocking call. In `Sensor` a program
that runs ends, since eBPF programs are bounded, and an open reader reads.

Runs that end in a violation, each a disagreement between the code and what the
repository says of it (`findings` in `PROJECT.json` has the quotations):

| Run | The code |
|---|---|
| `shutdown_drops_queue` | drops the queue at an orderly shutdown, uncounted |
| `crash_mid_replay` | overwrites a leftover `.replay` file after a restart |
| `replay_discards_verdict` | discards the verdict of a replayed event |
| `mismatch_without_reuse` | refuses to kill the observed process once its `execve` has returned |

The models show more disagreements of the same kinds, for which no run of their
own is kept. Each takes one change to a configuration:

| Change | The code |
|---|---|
| `crash_mid_replay.cfg`, `Faults = {"open"}` | deletes the rotated file when it cannot open it: the `os.Remove` is deferred first (`pipeline.go:204`) |
| the same, `{"reopen"}` | forgets the rotated file when rotation fails after the rename (`appendlog.go:88`) |
| the same, `{"torn"}` | deletes the records behind a malformed one (`pipeline.go:218`) |
| the same, `{"read"}` | deletes the records behind a read error (`pipeline.go:218`) |
| `pipeline_liveness.cfg`, `Faults = {"append"}` | never replays again after one failed write: the error of `bufio.Writer` is sticky (`appendlog.go:72`), and `EventuallySettled` fails |
| `hunter_client.cfg`, `SameVerdictApplied` | lets hunter and broker act on different verdicts: the hunter acts on one whose answer the client no longer waits for |
| `response.cfg`, `KillDelivered` | reports a kill when the helper found no process and sent no signal (`responder.py:77`) |
| `response.cfg`, `PROPERTY ExitIsHandled` | raises when the process exits between open and read (`responder.py:43`) |
| `response.cfg`, `OneVictim` | may kill two processes for one event: the hunter's and, after a reuse of the pid by a process of the same name, the broker's; `respond.go:21` says "both are safe to run together" |
| `sensor.cfg`, `TruncationFlagged` | cuts a long path or argument and leaves `truncated` clear (`cyber-patrol-ebpf/src/main.rs:141`); `lib.rs:92` says bit 0 is set |
| `wall_clock.cfg`, `StampsInOrder` | hands events to `HandleRaw`, and so to the audit log, against the order of their timestamps: the place is reserved at `cyber-patrol-ebpf/src/main.rs:91`, the time is taken at line 115, on several CPUs |
| `wall_clock.cfg`, `SubSecond` in place of `StampAccurate` | is off by the time the host was suspended; `events.go:76` says "Good to well under a second of accuracy" |

Each property of a passing run has a mutant: a plausible slip in a mapped
definition (marked "Mutant" in the modules) under which TLC finds the property
violated.

## Proofs

Every safety property that a run checks is also a theorem, for all values of the
constants. The assumptions are those the
modules state on their constants (sizes are positive, subsets are subsets, the
special values are not events), and no others; the two theorems that need
failures to be excluded say so in their statement. Each theorem module extends
the module it is about.

**`PipelineProofs`**, for any sets of events and workers, any queue size
above zero and any set of failures:

- `TypeCorrect`: `Spec => []TypeOK`, one step per action.
- `MemoryHandedOver`: `Spec => HandOver`, under *every* failure.
- `NothingSilentlyLost`, `ReplayNeverStranded`: `Spec => []NoSilentLoss` and
  `Spec => []NoStrandedReplay`.
- `SpillsAreDurable`: `Spec => SpillIsDurable` if no lossy failure is possible.
- `LossIsLogFailure`: `Spec => []LossMeansLogBroken`, under every failure.
- `AuditIsComplete`: `Spec => []AuditComplete`, across crashes and restarts.
- `LossesAreExplained`: `Spec => SpillLossExplained`, under every failure. Where
  `SpillIsDurable` excludes the lossy failures, this says what each of them costs:
  the `.replay` file, at a step that stops at a malformed or unreadable record or renames
  another file over it (`GivesUpReplay`), and the overflow file, at a tick that cannot open
  what it has renamed (`GivesUpOverflow`). `AnyTickMoves` lists what a tick can do to the
  two files.

`NoSilentLoss` is not inductive: a `Boot` would drop a queue that is not empty, a
`DrainOverflow` would overwrite a `.replay` file, and a `ReplayEnd` at a partial
record would drop what is behind it. The inductive invariant `SafeInv` adds
`Idle` (nothing is in memory and nothing runs once the process has ended), and,
without lossy failures, `DiskInv` (files hold whole records, and a `.replay`
file exists only while it is read). Then `MemoryStep` and `DiskStep` say that what
is in memory or on disk stays accounted for, `HistoryStep` that what is settled
stays settled, and `AcceptStep` that an event becomes accepted only in a
`HandleRaw` that keeps or counts it; together they give the step of
`NoSilentLoss`. The two action properties follow from the same lemmas. The
lemmas on `Elements` are what is used of sequences.

`LossMeansLogBroken` and `AuditComplete` have steps of their own. The first rests on
`SpillBreaks` (only a spill counts a loss, and one that does leaves the log
broken) and on rotation being refused while the log is broken, so that nothing
short of a restart, which also resets the counter, makes it whole. For the second,
`AuditInv` adds that the audit log takes records as long as no audit write can fail.

**`DispatchProofs`**, of the same model:

- `EachEventInOnePlace`: `Spec => []OnePlace`, under every failure. `PlaceInv` puts
  `OnePlace` as a list of sets that are pairwise `Apart` and sequences
  without twins; each action moves one event from one of them to another, shrinks
  some, or renames one, and a lemma for each of these shapes does the set
  reasoning once. An event counted lost is none of the rest either (`LostInv`), except
  that a short write of all but the newline leaves it in the overflow file and it may be
  replayed after a restart; the clause that excludes this asks for `torn` to be excluded.
- `ImplementsPromise`: `Spec => KeepsPromise` without lossy failures, that is, the
  broker implements `DispatchPromise`. Every action is shown to be an allowed move
  of one event, the end of the process, or a stutter. It needs `PlaceInv` (an event has one fate),
  `SafeInv` (what a restart finds) and `OnlyAccepted` (nothing but what `HandleRaw`
  accepted is in the broker). The attempt showed that the refinement mapping
  `Fate` was a `CASE` whose arms overlapped where `OnePlace` did not yet exclude it, so
  that its value was not determined; it is an `IF` chain now.
- `SpillsBalance`: `Spec => []SpillBalance`, with crashes, failing appends and
  failing renames, which is more than its run has. `BalanceInv` adds that the files hold whole records,
  since a partial one ends a pass early, and that the count of a pass is zero
  outside one.

**`HunterClientProofs`**, for any number of calls and retries: `TypeCorrect`,
`AttemptsAreUsedUp` (`GivesUpLast`), and
`ImplementsPromise`: initial states and steps of the client are those of
`EvaluatePromise`. For the last, `LateInv` says that a call that began late has no
request on the wire or in the service, and that one that has not begun has none either. The
fairness of `EvaluatePromise` stays with the run.

**`RespondProofs`**, for any number of responders, names, and processes that get
the pid: `StrangersAreSpared` (`StrangersSpared`) and `ReportsAreTrue`
(`DoneMeansDead`).
`SpareInv` adds that a process with the observed name is among the namesakes,
that a responder past its check has seen one of them, and that a responder
signals only as it ends. Without the last, a second signal could replace the victim
the first property speaks of.

**`ResponseProofs`**, for any set of replies of the model and any number of
retries: `ImplementsRespond` shows that every step of the composition is a step of
`Respond` or leaves the process table and the responders alone, so
`RespondersKeepTheirWord` carries the results above over to it.
`KillsAreAuthorised` and `HunterActsFirst` rest on `ActsOnVerdict`: a
responder has left its start only on a verdict to kill, the hunter's own or the one
the call returned, and the service gives a kill as its answer only once it has
carried it out. The step from verdict to reply is `Engine`'s, by cases on the
kind of the reply; `AuthorityBoundary` states it in both directions, for every reply
whose confidence is a number: a verdict is to kill exactly when the reply authorises
it. `ImplementsClient` shows the same of `HunterClient` as `ImplementsRespond` of
`Respond`: an answer that waits for the engine and the kill is one the client's model
expects. `ClientKeepsItsWord` proves `GivesUpLast` again for the
composition, since a proof about the module does not carry over to an instance of it.

**`SensorProofs`**, for any number of CPUs, slots and execves, any sizes of the
buffers, and any calls: `TypeCorrect`; `EachExecAccounted` and `HandledInOrder`
(`EachExecInOnePlace`, `InOrder`) from `OrderInv`, which orders the reservations:
what was handled or mislaid is older than what is in hand, and that than what is in
the ring buffer. `RecordsAreFaithful` (`RecordIsFaithful`) needs two more. `InTurn`
says that slots are taken in turn, so that no two records in the ring buffer share
one and a recycled slot is nobody's; it takes arithmetic modulo `Slots`.
`WriteInv` says that a record that can be read, or is about to be
submitted, is all written. Then `CaptureFaithful` compares what `Capture` leaves in
a buffer with what `cStringN` reads back, for any earlier content.
`NoReservationIsOrphaned` (`ReservationsAreHeld`) compares the records that are not
submitted with the programs that run; it is inductive as it stands.
`FieldsAreReadWhereWritten` (`ReadWhereWritten`) works out the twelve offsets:
`OffsetIs` exhibits a table that meets the recursion of `Offset` and then shows, field
by field, that any function that meets it is that table.

**`WallClockProofs`**, for any rounding, any suspends and any number of CPUs:
`TimestampsOrderEvents` and `TimestampsAreAccurate` (`StampsOrderEvents`, `StampAccurate`)
from `ClockInv`: the anchor is set once, after the uptime was read; the uptime read is
within `Grain` of the truth; and what has been captured, decoded or not, has sensor times
in the order of the moments of capture (`SeenInTime`).

**`TriageProofs`**, for any paths, tables and length of the kernel's name:
`ReexecsAreNotFlagged`, `DroppedAreNamesakes`, `HiddenPathsAreFound`
(`ReexecNotFlagged`, `DroppedIsNamesake`, `HiddenFound`). `NameInv` says that a
name that was not changed is what the kernel made of the path. The rest is lemmas
on the operators: `NotMasquerading` (one name is a prefix of the other),
`CommOfIs` (the kernel's name is a prefix of the base name), `HiddenIs` (the parts between
adjacent separators against the definition by position).

Only model-checked:

- the liveness properties `EventuallySettled`, `ShutdownCompletes`, `Delivered` and
  `KillCarriedOut`, and the fairness of `EvaluatePromise`: liveness under fairness is out
  of the prover's reach. `ReservationsAreHeld` is the safety half of `Delivered`, and
  `AuthorityBoundary` that of `KillCarriedOut`.

## Not modelled, and what is left

Not modelled: terminal output and start scripts (pure I/O), build tooling, the
prompt text (what the model makes of it is a free choice), flag parsing, the
observability server. In particular:

- `MetricsHandler` loads ten numbers one after the other. A snapshot taken so need
  not satisfy `SpillBalance`, which is said of the counters themselves.
- In `Pipeline` the count of a spill and its write to the log are one step, so
  `SpillBalance` holds between such steps and not in the middle of one.
- A helper that outlives its five seconds and signals after `kill_pid` has returned.
- A confidence that is not a number, or a string that reads as one: what pydantic
  makes of it is not modelled, only that what it lets through lies in the range.
- pid 0 and 1: `KillProcess` and the helper refuse them, `kill_pid` does not.
  It is a guard on the input, and a property would restate it.
- `Sensor` and `Pipeline` meet at `Handle`/`HandleRaw` and are not composed: neither
  shares other state with the other, and the accounts on both sides
  (`EachExecInOnePlace`, `NoSilentLoss`) name the same hand-over.

Proofs left: that `OnePlace` and `EachExecInOnePlace` meet at `HandleRaw`, which takes a
composition of `Sensor` and `Pipeline`.
