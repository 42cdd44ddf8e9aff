-------------------------------- MODULE Sensor --------------------------------
(***************************************************************************)
(* From execve to HandleRaw: the eBPF program on every CPU                  *)
(* (cyber-patrol-ebpf), the loader that attaches it, the pinned ring buffer *)
(* EVENTS, the broker's reader (ingest) and the decoding of a record        *)
(* (events.go).                                                             *)
(*                                                                          *)
(* An execve is known by its number, in the order of reservation.  A string *)
(* of the i-th execve is a run of the character i, so a record shows whose  *)
(* bytes it holds; 0 is NUL.  In a call, a string is given by its length, or*)
(* by why it cannot be had.                                                 *)
(***************************************************************************)
EXTENDS Layout, Integers, Sequences, FiniteSetsExt

CONSTANTS
    CPUs,
    Calls,        \* the execve calls: [name |-> string, argv |-> strings]
    Slots,        \* records that fit in the ring buffer
    MaxFilename,  \* size of ExecEvent.filename
    MaxArgs,      \* entries of ExecEvent.args
    MaxArgLen,    \* size of each
    MaxExecs      \* bound: execve calls the program observes

Unreadable == -1    \* the pointer is there, the string behind it faults
NoPointer  == -2    \* the pointer itself cannot be read

ASSUME SensorAssumption ==
    /\ Slots \in Nat \ {0}
    /\ MaxFilename \in Nat \ {0}
    /\ MaxArgs \in Nat \ {0}
    /\ MaxArgLen \in Nat \ {0}
    /\ MaxExecs \in Nat \ {0}
    /\ \A c \in Calls : c.name \in Int /\ c.argv \in Seq(Int)

Ids == 1 .. MaxExecs

VARIABLES
    loader,    \* the loader: absent, loaded (the map is pinned), or attached
    pinned,    \* the map is pinned on bpffs
    call,      \* call[i]: the i-th execve observed
    running,   \* running[c]: the execve whose program runs on CPU c, 0 if none
    filled,    \* CPUs whose program has written its record
    ring,      \* the ring buffer from consumer to producer position
    mem,       \* mem[s]: the bytes of slot s, kept when the slot is recycled
    reader,    \* the broker's reader is open
    inhand,    \* records Read has returned and HandleRaw has not yet seen
    handled,   \* history: execves HandleRaw has seen
    dropped,   \* history: execves for which the ring buffer had no room
    mislaid    \* history: execves read by a broker that then crashed

vars == <<loader, pinned, call, running, filled, ring, mem, reader, inhand,
          handled, dropped, mislaid>>

\* The longest prefix of s all of whose elements are in S, as its length.
Leading(s, S) == Max({n \in 0 .. Len(s) : \A i \in 1 .. n : s[i] \in S})

Least(a, b) == IF a < b THEN a ELSE b

-------------------------------------------------------------------------------
(* The record *)

\* ExecEvent, zeroed.
Blank ==
    LET zeros(n) == [i \in 1 .. n |-> 0]
    IN  [filename |-> zeros(MaxFilename), filename_len |-> 0,
         args |-> [i \in 1 .. MaxArgs |-> zeros(MaxArgLen)], arg_lens |-> zeros(MaxArgs),
         argc |-> 0, truncated |-> 0]

\* Mutant: the reserved memory is used as it was left.
NotZeroed(m) == m

\* write_bytes(ptr, 0, 1).
Zeroed(m) == Blank

\* bpf_probe_read_user_str_bytes: what fits, and a NUL; on a fault, all zeros.
StrBytes(buf, n, i) ==
    LET k == Least(n, Len(buf) - 1)
    IN  [j \in DOMAIN buf |->
            IF n = Unreadable \/ j = k + 1 THEN 0 ELSE IF j <= k THEN i ELSE buf[j]]

\* How many arguments the loop over argv records: it stops at MaxArgs, at the
\* end, and at the first one it cannot read.
ArgCount(argv) == Least(MaxArgs, Leading(argv, Nat))

\* The body of try_sys_enter_execve between reserve and submit, for the i-th
\* execve c, in memory that holds m.
Capture(m, c, i) ==
    LET z == Zeroed(m)
        argc == ArgCount(c.argv)
        fails == argc < Least(MaxArgs, Len(c.argv)) /\ c.argv[argc + 1] = Unreadable
    IN  [filename     |-> IF c.name = NoPointer THEN z.filename
                          ELSE StrBytes(z.filename, c.name, i),
         filename_len |-> IF c.name < 0 THEN z.filename_len
                          ELSE Least(c.name, MaxFilename - 1),
         args         |-> [a \in 1 .. MaxArgs |->
                              IF a <= argc \/ (fails /\ a = argc + 1)
                              THEN StrBytes(z.args[a], c.argv[a], i)
                              ELSE z.args[a]],
         arg_lens     |-> [a \in 1 .. MaxArgs |->
                              IF a <= argc THEN Least(c.argv[a], MaxArgLen - 1)
                              ELSE z.arg_lens[a]],
         argc         |-> argc,
         truncated    |-> IF c.name < 0 \/ fails THEN 1 ELSE 0]

\* The NUL-terminated prefix of the first n bytes of b, n clipped to b.
cStringN(b, n) ==
    LET head == SubSeq(b, 1, Least(n, Len(b)))
    IN  SubSeq(head, 1, Leading(head, Ids))

Decode(raw) ==
    LET argc == Least(raw.argc, MaxArgs)
    IN  [Filename  |-> cStringN(raw.filename, raw.filename_len),
         Args      |-> [a \in 1 .. argc |-> cStringN(raw.args[a], raw.arg_lens[a])],
         Truncated |-> raw.truncated # 0]

-------------------------------------------------------------------------------
Init ==
    /\ loader = "absent"
    /\ pinned = FALSE
    /\ call = <<>>
    /\ running = [c \in CPUs |-> 0]
    /\ filled = {}
    /\ ring = <<>>
    /\ mem = [s \in 1 .. Slots |-> Blank]
    /\ reader = FALSE
    /\ inhand = {}
    /\ handled = {}
    /\ dropped = {}
    /\ mislaid = {}

program == <<call, running, filled, ring, mem, dropped>>
broker == <<reader, inhand, handled, mislaid>>

\* EbpfLoader.load pins EVENTS, or takes over the pinned one as it is.
Load ==
    /\ loader = "absent"
    /\ loader' = "loaded"
    /\ pinned' = TRUE
    /\ UNCHANGED <<program, broker>>

Attach ==
    /\ loader = "loaded"
    /\ loader' = "attached"
    /\ UNCHANGED <<pinned, program, broker>>

\* A failed load or attach, Ctrl+C, or any other end of the loader.  The program
\* is detached; one that is running finishes.
LoaderEnds ==
    /\ loader # "absent"
    /\ loader' = "absent"
    /\ UNCHANGED <<pinned, program, broker>>

-------------------------------------------------------------------------------
\* Mutant: one record more than there is memory for.
RoomForOneMore == Len(ring) <= Slots

HasRoom == Len(ring) < Slots

\* The slot at the producer position.  Dropped calls take none.
NextSlot(i) == ((i - 1 - Cardinality(dropped)) % Slots) + 1

\* The tracepoint fires for a call x on CPU c: reserve, or drop the event.
Enter(c, x) ==
    LET i == Len(call) + 1
    IN  /\ loader = "attached"
        /\ running[c] = 0
        /\ i \in Ids
        /\ call' = Append(call, x)
        /\ IF HasRoom
           THEN /\ ring' = Append(ring, [id |-> i, slot |-> NextSlot(i), busy |-> TRUE])
                /\ running' = [running EXCEPT ![c] = i]
                /\ UNCHANGED dropped
           ELSE /\ dropped' = dropped \cup {i}
                /\ UNCHANGED <<ring, running>>
        /\ UNCHANGED <<loader, pinned, filled, mem, broker>>

\* The program on CPU c writes its record.
Fill(c) ==
    LET i == running[c]
    IN  /\ i # 0
        /\ c \notin filled
        /\ filled' = filled \cup {c}
        /\ \E e \in {ring[k] : k \in DOMAIN ring} :
              /\ e.id = i
              /\ mem' = [mem EXCEPT ![e.slot] = Capture(@, call[i], i)]
        /\ UNCHANGED <<loader, pinned, call, running, ring, dropped, broker>>

\* Mutant: a fault ends the program, and the reservation is kept.
SubmitUnlessFault(c) ==
    /\ running' = [running EXCEPT ![c] = 0]
    /\ ring' = [k \in DOMAIN ring |->
          IF ring[k].id = running[c] /\ mem[ring[k].slot].truncated = 0
          THEN [ring[k] EXCEPT !.busy = FALSE] ELSE ring[k]]

\* entry.submit, on every path: the record becomes visible.
Submit(c) ==
    /\ running' = [running EXCEPT ![c] = 0]
    /\ ring' = [k \in DOMAIN ring |->
          IF ring[k].id = running[c] THEN [ring[k] EXCEPT !.busy = FALSE] ELSE ring[k]]

Leave(c) ==
    /\ c \in filled
    /\ filled' = filled \ {c}
    /\ Submit(c)
    /\ UNCHANGED <<loader, pinned, call, mem, dropped, broker>>

-------------------------------------------------------------------------------
\* ingest.Open, once the map is pinned.
Open ==
    /\ pinned
    /\ ~reader
    /\ reader' = TRUE
    /\ UNCHANGED <<loader, pinned, program, inhand, handled, mislaid>>

\* Mutant: each record is handled by a goroutine of its own.
AnyTime == TRUE

\* Run is one loop: it reads again when the handler has returned.
HandlerIdle == inhand = {}

\* Read takes the oldest record, if it is submitted, and frees its slot.
Read ==
    /\ reader
    /\ HandlerIdle
    /\ ring # <<>>
    /\ ~Head(ring).busy
    /\ inhand' = inhand \cup {[id |-> Head(ring).id, raw |-> mem[Head(ring).slot]]}
    /\ ring' = Tail(ring)
    /\ UNCHANGED <<loader, pinned, call, running, filled, mem, dropped, reader, handled, mislaid>>

\* The handler: Decode, and on to the rest of HandleRaw.
Handle(r) ==
    /\ r \in inhand
    /\ inhand' = inhand \ {r}
    /\ handled' = handled \cup {r.id}
    /\ UNCHANGED <<loader, pinned, program, reader, mislaid>>

\* Mutant: Close does not wait for the handler.
CloseAtOnce ==
    /\ reader
    /\ reader' = FALSE
    /\ inhand' = {}
    /\ UNCHANGED <<loader, pinned, program, handled, mislaid>>

\* The context is cancelled, Read fails, and Run returns; a record that was in
\* hand has been handled before.  The consumer position stays in the map.
Close ==
    /\ reader
    /\ inhand = {}
    /\ reader' = FALSE
    /\ UNCHANGED <<loader, pinned, program, inhand, handled, mislaid>>

\* The broker dies.
Crash ==
    /\ reader
    /\ reader' = FALSE
    /\ mislaid' = mislaid \cup {r.id : r \in inhand}
    /\ inhand' = {}
    /\ UNCHANGED <<loader, pinned, program, handled>>

Next ==
    \/ Load \/ Attach \/ LoaderEnds
    \/ \E c \in CPUs, x \in Calls : Enter(c, x)
    \/ \E c \in CPUs : Fill(c) \/ Leave(c)
    \/ Open \/ Read \/ Close \/ Crash
    \/ \E r \in inhand : Handle(r)

\* A program that has started runs to its end; an open reader reads and handles.
Fairness ==
    /\ \A c \in CPUs : WF_vars(Fill(c)) /\ WF_vars(Leave(c))
    /\ WF_vars(Read)
    /\ WF_vars(\E r \in inhand : Handle(r))

Spec == Init /\ [][Next]_vars /\ Fairness

-------------------------------------------------------------------------------
(* Properties *)

ExecEvents ==
    [filename : [1 .. MaxFilename -> 0 .. MaxExecs], filename_len : 0 .. MaxFilename - 1,
     args : [1 .. MaxArgs -> [1 .. MaxArgLen -> 0 .. MaxExecs]],
     arg_lens : [1 .. MaxArgs -> 0 .. MaxArgLen - 1],
     argc : 0 .. MaxArgs, truncated : {0, 1}]

TypeOK ==
    /\ loader \in {"absent", "loaded", "attached"}
    /\ pinned \in BOOLEAN
    /\ call \in Seq(Calls) /\ Len(call) <= MaxExecs
    /\ running \in [CPUs -> 0 .. Len(call)]
    /\ filled \subseteq CPUs
    /\ ring \in Seq([id : Ids, slot : 1 .. Slots, busy : BOOLEAN]) /\ Len(ring) <= Slots
    /\ mem \in [1 .. Slots -> ExecEvents]
    /\ reader \in BOOLEAN
    /\ inhand \subseteq [id : Ids, raw : ExecEvents]
    /\ handled \subseteq Ids
    /\ dropped \subseteq Ids
    /\ mislaid \subseteq Ids

\* What the i-th execve passed as a string of length n, cut to fit in size bytes
\* with its NUL.
Passed(i, n, size) == [j \in 1 .. Least(n, size - 1) |-> i]

\* A string of n characters did not come through whole.
Incomplete(n, size) == n < 0 \/ n >= size

\* The program met a string of c that it could not read.
Faulted(c) ==
    \/ c.name < 0
    \/ \E a \in 1 .. Least(MaxArgs, Len(c.argv)) :
          c.argv[a] = Unreadable /\ \A b \in 1 .. a - 1 : c.argv[b] >= 0

\* What the broker decodes from a record is what that execve passed, cut to the
\* limits of lib.rs: no bytes of another execve whose slot was recycled and no
\* half-written record.  The truncated flag (lib.rs: "truncated or could not be
\* fully read") is set when a string could not be read, and only when one was
\* cut or could not be read.
RecordIsFaithful ==
    \A r \in inhand :
        LET c == call[r.id]
            e == Decode(r.raw)
        IN  /\ e.Filename = Passed(r.id, c.name, MaxFilename)
            /\ e.Args = [a \in 1 .. ArgCount(c.argv) |-> Passed(r.id, c.argv[a], MaxArgLen)]
            /\ Faulted(c) => e.Truncated
            /\ e.Truncated => \/ Incomplete(c.name, MaxFilename)
                              \/ \E a \in DOMAIN c.argv : Incomplete(c.argv[a], MaxArgLen)

\* A record in hand has every field, the abstracted ones too, where Decode reads
\* it, with its width, and is not too short for it.  (Of this, the assertion in
\* lib.rs covers the size, which a change of order may leave as it is.)
ReadWhereWritten ==
    \A r \in inhand : Reads = Writes /\ DOMAIN r.raw \subseteq {w.name : w \in Writes} /\ SizeOf >= EventSize

\* Every observed execve is in exactly one place: the ring buffer, the reader's
\* hand, HandleRaw's past, the drops, or what a crash took; a restart of the
\* broker or of the loader neither loses nor repeats a record.
EachExecInOnePlace ==
    LET Places == <<{ring[k].id : k \in DOMAIN ring}, {r.id : r \in inhand},
                    handled, dropped, mislaid>>
    IN  /\ \A i \in 1 .. Len(call) : Cardinality({p \in DOMAIN Places : i \in Places[p]}) = 1
        /\ \A j, k \in DOMAIN ring : j < k => ring[j].id < ring[k].id

\* HandleRaw sees records in the order of their reservation, whichever CPU
\* submits first and however often the broker restarts.
InOrder == [][\A i \in handled' \ handled : \A j \in handled : j < i]_vars

\* A record that is not submitted has a program that will submit it, and every
\* program has its record, which is no other's: neither the end of the loader nor
\* of the broker, nor a string that faults, leaves a reservation to nobody, behind
\* which the reader would wait for good.
ReservationsAreHeld ==
    /\ {ring[k].id : k \in {j \in DOMAIN ring : ring[j].busy}} = {running[c] : c \in CPUs} \ {0}
    /\ \A c, d \in CPUs : running[c] = running[d] /\ running[c] # 0 => c = d

\* While the reader stays open every reserved record reaches HandleRaw: none
\* stays reserved for ever and blocks those behind it.
Delivered ==
    \A i \in Ids : (\E k \in DOMAIN ring : ring[k].id = i) ~> (i \in handled \/ ~reader)

\* lib.rs on truncated: "bit 0 set if `filename` and/or any `args` entry was
\* truncated or could not be fully read from user memory."
TruncationFlagged ==
    \A r \in inhand :
        LET c == call[r.id]
            e == Decode(r.raw)
        IN  (\/ Incomplete(c.name, MaxFilename)
             \/ \E a \in DOMAIN e.Args : Incomplete(c.argv[a], MaxArgLen)) => e.Truncated
===============================================================================
