------------------------------ MODULE AppendLog ------------------------------
(***************************************************************************)
(* The JSON-lines log of broker/internal/pipeline/appendlog.go, which backs *)
(* both the audit log and the overflow queue.                               *)
(*                                                                          *)
(* A log is a record: "file" is the sequence of records in the file at its  *)
(* path (an absent file is an empty one), and "ok" says whether the handle, *)
(* the buffered writer and the encoder still work.  Every method runs under *)
(* the log's mutex, so each is one relation between the log before and the  *)
(* log after.                                                               *)
(*                                                                          *)
(* An I/O error is sticky: bufio.Writer and json.Encoder refuse every later *)
(* write once one has failed, and rotate gives up before it would replace   *)
(* them, so ok is FALSE until the process starts again.                     *)
(***************************************************************************)
EXTENDS Sequences

CONSTANTS
    Torn,     \* the partial record a short write leaves behind
    Faults    \* the failures the environment may inject

\* "append"   an overflow write fails before any byte of the record is in the file
\* "torn"     a write fails after some of them are (a full disk)
\* "read"     a read of the rotated file fails before its end
\* "rename"   rotate fails while the file is still at its path
\* "reopen"   rotate fails after the file was renamed away
\* "open"     the rotated file cannot be opened for reading
\* "audit"    an audit write fails
\* "crash"    the process dies at any point (panic, SIGKILL, OOM)
\* "nosensor" the map is never pinned and openWithRetry gives up
FaultKinds ==
    {"append", "torn", "read", "rename", "reopen", "open", "audit", "crash", "nosensor"}

ASSUME FaultsAssumption == Faults \subseteq FaultKinds

\* Mutant: the file is opened with O_TRUNC.
newAppendLogTruncates(contents) == [file |-> SubSeq(contents, 1, 0), ok |-> TRUE]

\* newAppendLog on a path that has contents: the file is opened for append.
newAppendLog(contents) == [file |-> contents, ok |-> TRUE]

\* Append that returns nil: the record was flushed to the file.
AppendOK(log, r, logp) ==
    /\ log.ok
    /\ logp = [file |-> Append(log.file, r), ok |-> TRUE]

\* What a failed write of r leaves in the file: nothing new, a partial record,
\* or all of r but the newline, which a decoder reads as the record it is.
Debris(file, r) ==
    {file : f \in Faults \cap {"append"}} \cup
    {Append(file, x) : x \in {y \in {Torn, r} : "torn" \in Faults}}

\* Append that returns an error: this write failed, or an earlier one did.
AppendErr(log, r, logp) ==
    IF log.ok
    THEN \E d \in Debris(log.file, r) : logp = [file |-> d, ok |-> FALSE]
    ELSE logp = log

\* Mutant: the file is copied aside, not renamed.
RotateCopies(log, logp) ==
    /\ log.ok
    /\ logp = newAppendLog(log.file)

\* rotate that returns the rotated path: the caller finds in ".replay" what
\* the file held, in place of what was there, and the log is a fresh file.
RotateOK(log, logp) ==
    /\ log.ok
    /\ logp = newAppendLog(<<>>)

\* rotate that returns an error after closing its handle.  On a log that has
\* already failed it returns before it changes anything, which is a stutter.
\* rest and restp are the ".replay" file before and after.
RotateErr(log, logp, rest, restp) ==
    /\ log.ok
    /\ \/ /\ "rename" \in Faults
          /\ logp = [log EXCEPT !.ok = FALSE]
          /\ restp = rest
       \/ /\ "reopen" \in Faults
          /\ logp = [file |-> <<>>, ok |-> FALSE]
          /\ restp = log.file
==============================================================================
