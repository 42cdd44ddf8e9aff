--------------------------------- MODULE Layout ---------------------------------
(***************************************************************************)
(* The bytes of a record: ExecEvent of cyber-patrol-common as repr(C) lays  *)
(* it out, and the offsets events.go reads it with.  The compiler asserts   *)
(* the size only.                                                           *)
(***************************************************************************)
EXTENDS Integers, Sequences

TASK_COMM_LEN == 16
MAX_FILENAME_LEN == 256
MAX_ARGS == 6
MAX_ARG_LEN == 32

Field(name, bytes, unit) == [name |-> name, bytes |-> bytes, align |-> unit]

Header == <<
    Field("timestamp_ns", 8, 8), Field("pid", 4, 4), Field("tid", 4, 4), Field("uid", 4, 4),
    Field("gid", 4, 4), Field("comm", TASK_COMM_LEN, 1), Field("filename", MAX_FILENAME_LEN, 1)>>
Trailer == <<Field("argc", 1, 1), Field("truncated", 1, 1)>>

\* Mutant: the length of the path is behind the arguments; the size is the same.
ExecEventReordered == Header \o <<
    Field("args", MAX_ARGS * MAX_ARG_LEN, 1), Field("filename_len", 2, 2),
    Field("arg_lens", MAX_ARGS * 2, 2)>> \o Trailer

ExecEvent == Header \o <<
    Field("filename_len", 2, 2), Field("args", MAX_ARGS * MAX_ARG_LEN, 1),
    Field("arg_lens", MAX_ARGS * 2, 2)>> \o Trailer

\* repr(C): every field at the next multiple of its alignment, and at the end a
\* multiple of the greatest.
AlignUp(n, a) == ((n + a - 1) \div a) * a
Offset ==
    LET start[i \in DOMAIN ExecEvent] ==
            IF i = 1 THEN 0
            ELSE AlignUp(start[i - 1] + ExecEvent[i - 1].bytes, ExecEvent[i].align)
    IN  start
SizeOf == AlignUp(Offset[Len(ExecEvent)] + ExecEvent[Len(ExecEvent)].bytes, 8)

\* events.go: what Decode reads, from where.  It finds the i-th argument and its
\* length at multiples of MaxArgLen and of 2.
EventSize == 504
Reads == {
    [name |-> "timestamp_ns", from |-> 0,   bytes |-> 8],
    [name |-> "pid",          from |-> 8,   bytes |-> 4],
    [name |-> "tid",          from |-> 12,  bytes |-> 4],
    [name |-> "uid",          from |-> 16,  bytes |-> 4],
    [name |-> "gid",          from |-> 20,  bytes |-> 4],
    [name |-> "comm",         from |-> 24,  bytes |-> 16],
    [name |-> "filename",     from |-> 40,  bytes |-> 256],
    [name |-> "filename_len", from |-> 296, bytes |-> 2],
    [name |-> "args",         from |-> 298, bytes |-> 6 * 32],
    [name |-> "arg_lens",     from |-> 490, bytes |-> 6 * 2],
    [name |-> "argc",         from |-> 502, bytes |-> 1],
    [name |-> "truncated",    from |-> 503, bytes |-> 1] }

\* What the program wrote, in the same form.
Writes ==
    {[name |-> ExecEvent[i].name, from |-> Offset[i], bytes |-> ExecEvent[i].bytes] :
        i \in DOMAIN ExecEvent}
===============================================================================
