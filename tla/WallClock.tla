------------------------------- MODULE WallClock -------------------------------
(***************************************************************************)
(* The time of an event: the sensor reserves a record in the ring buffer    *)
(* and stamps it with bpf_ktime_get_ns, which stands still while the host   *)
(* is suspended; the first Decode of a broker process anchors that clock to *)
(* wall-clock time by /proc/uptime, which does not, and every Decode adds   *)
(* the two.                                                                 *)
(*                                                                          *)
(* Times are whole numbers; wall-clock time is counted from the boot, and   *)
(* nobody sets the clock.                                                   *)
(***************************************************************************)
EXTENDS Integers, Sequences, FiniteSets

CONSTANTS
    Grain,      \* /proc/uptime is rounded down to multiples of this
    CPUs,       \* number of CPUs, each of which runs one program at a time
    MaxAwake,   \* bound: time the host runs
    MaxAsleep,  \* bound: time it is suspended
    MaxEvents   \* bound: records

ASSUME ClockAssumption == {Grain, CPUs} \subseteq Nat \ {0} /\ {MaxAwake, MaxAsleep, MaxEvents} \subseteq Nat

VARIABLES
    awake,      \* CLOCK_MONOTONIC
    asleep,     \* time spent suspended
    pending,    \* records not decoded yet, in the order they were reserved
    uptime,     \* bootWallTime: what it read; when, and when it went on, are history
    anchor,     \* procBootWall, once set
    stamped     \* events this broker process has decoded

vars == <<awake, asleep, pending, uptime, anchor, stamped>>

None == -1      \* not set
Failed == -2    \* /proc/uptime could not be read or parsed

NotRead == [value |-> None, read |-> 0, used |-> 0]

Now == awake + asleep

Init ==
    /\ awake = 0
    /\ asleep = 0
    /\ pending = <<>>
    /\ uptime = NotRead
    /\ anchor = None
    /\ stamped = <<>>

Tick ==
    /\ awake < MaxAwake
    /\ awake' = awake + 1
    /\ UNCHANGED <<asleep, pending, uptime, anchor, stamped>>

Suspend ==
    /\ asleep < MaxAsleep
    /\ asleep' = asleep + 1
    /\ UNCHANGED <<awake, pending, uptime, anchor, stamped>>

Unstamped == {k \in DOMAIN pending : pending[k].ns = None}

\* The sensor reserves a record, which fixes its place in the ring buffer.
Reserve ==
    /\ Cardinality(Unstamped) < CPUs
    /\ Len(pending) + Len(stamped) < MaxEvents
    /\ pending' = Append(pending, [ns |-> None, at |-> None])
    /\ UNCHANGED <<awake, asleep, uptime, anchor, stamped>>

\* It stamps the record, fills it and submits it.  at is history.
Capture(k) ==
    /\ k \in Unstamped
    /\ pending' = [pending EXCEPT ![k] = [ns |-> awake, at |-> Now]]
    /\ UNCHANGED <<awake, asleep, uptime, anchor, stamped>>

\* The reader gets the oldest record, once it is submitted.
Submitted == pending # <<>> /\ Head(pending).ns # None

-------------------------------------------------------------------------------
\* The first Decode enters procBootWallOnce and reads /proc/uptime.
ReadUptime ==
    /\ Submitted
    /\ anchor = None
    /\ uptime.value = None
    /\ \E v \in {(Now \div Grain) * Grain, Failed} : uptime' = [value |-> v, read |-> Now, used |-> 0]
    /\ UNCHANGED <<awake, asleep, pending, anchor, stamped>>

\* Then it asks for the time: the goroutine may have waited in between.
SetAnchor ==
    /\ uptime.value # None
    /\ anchor = None
    /\ anchor' = IF uptime.value = Failed THEN Now ELSE Now - uptime.value
    /\ uptime' = [uptime EXCEPT !.used = Now]
    /\ UNCHANGED <<awake, asleep, pending, stamped>>

\* Mutant: bootWallTime is computed at every Decode.
AnchoredEachTime == anchor' = None /\ uptime' = NotRead

\* sync.Once.
AnchoredOnce == UNCHANGED <<anchor, uptime>>

\* Mutant: the timestamp is the time of decoding.
StampNow(r) == Now

Stamp(r) == anchor + r.ns

Decode ==
    /\ Submitted
    /\ anchor # None
    /\ stamped' = Append(stamped, [ts |-> Stamp(Head(pending)), at |-> Head(pending).at])
    /\ pending' = Tail(pending)
    /\ AnchoredOnce
    /\ UNCHANGED <<awake, asleep>>

\* The broker is started again: records wait in the ring buffer meanwhile.
Restart ==
    /\ anchor # None
    /\ anchor' = None
    /\ uptime' = NotRead
    /\ stamped' = <<>>
    /\ UNCHANGED <<awake, asleep, pending>>

Captures == \E k \in DOMAIN pending : Capture(k)

Next == Tick \/ Suspend \/ Reserve \/ Captures \/ ReadUptime \/ SetAnchor \/ Decode \/ Restart

Spec == Init /\ [][Next]_vars

-------------------------------------------------------------------------------
(* Properties *)

\* "more than sufficient for security-alert ordering": within one broker process
\* timestamps order the events as they were captured, in whatever order their
\* records come out of the ring buffer, whenever the anchor was computed, however
\* long that took, and whatever the host did in between.
StampsOrderEvents ==
    \A i, j \in DOMAIN stamped :
        stamped[i].at <= stamped[j].at => stamped[i].ts <= stamped[j].ts

\* On a host that was never suspended a timestamp is not early, and late by no
\* more than the rounding of /proc/uptime and the wait inside bootWallTime; how
\* long the record lay in the ring buffer does not matter.
StampAccurate ==
    asleep = 0 /\ uptime.value >= 0 =>
        \A i \in DOMAIN stamped :
            LET late == stamped[i].ts - stamped[i].at
            IN  0 <= late /\ late < Grain + (uptime.used - uptime.read)

-------------------------------------------------------------------------------
(* Two statements that the code does not meet; see the README.               *)

\* Events reach HandleRaw, and the audit log, in the order of their timestamps.
StampsInOrder ==
    \A i, j \in DOMAIN stamped : i < j => stamped[i].ts <= stamped[j].ts

\* events.go on the anchor: "Good to well under a second of accuracy", which is
\* Grain here; the wait is left aside.
SubSecond ==
    uptime.value >= 0 /\ uptime.used = uptime.read =>
        \A i \in DOMAIN stamped : stamped[i].ts - stamped[i].at \in 0 .. Grain - 1
===============================================================================
