-------------------------------- MODULE Respond --------------------------------
(***************************************************************************)
(* The response to one kill verdict: hunter.KillProcess of the broker       *)
(* (respond.go), and kill_pid of the hunter (responder.py) with its         *)
(* privileged helper (kill_pid.sh), all acting on the same pid at once.     *)
(*                                                                          *)
(* Only the verdict's pid matters, so the process table is one slot.        *)
(* Processes are numbered in the order in which they get the pid; process 1 *)
(* is the one the sensor saw entering execve, when its comm was Observed.   *)
(* Its own execve, its exit and the reuse of its pid go on meanwhile.       *)
(***************************************************************************)
EXTENDS Integers

CONSTANTS
    Pid,            \* the verdict's pid
    Comms,          \* process names
    Observed,       \* the name in the event
    Brokers,        \* calls of KillProcess
    Hunters,        \* calls of kill_pid: one per request the hunter handles
    Privileged,     \* the calls, of either, that may signal the process directly
    MaxProcesses    \* bound: processes that get the pid

ASSUME RespondAssumption ==
    /\ Pid \in Nat
    /\ Observed \in Comms
    /\ Brokers \cap Hunters = {}
    /\ Privileged \subseteq Brokers \cup Hunters
    /\ MaxProcesses \in Nat \ {0}

Responders == Brokers \cup Hunters
Processes == 1 .. MaxProcesses

VARIABLES
    occupant,   \* the process that has the pid, 0 if none
    born,       \* how many processes have had it
    comm,       \* its name, as /proc/<pid>/comm shows it
    step,       \* step[r]: where responder r is
    saw,        \* saw[r]: the process whose name r last looked at, 0 if none
    victim,     \* victim[r]: the process r sent SIGKILL to, 0 if none
    namesakes   \* history: processes that have had the observed name

kernel == <<occupant, born, comm, namesakes>>
vars == <<kernel, step, saw, victim>>

Init ==
    /\ occupant = 1
    /\ born = 1
    /\ comm = Observed
    /\ step = [r \in Responders |-> "start"]
    /\ saw = [r \in Responders |-> 0]
    /\ victim = [r \in Responders |-> 0]
    /\ namesakes = {1}

-------------------------------------------------------------------------------
(* The kernel *)

Killed == {victim[r] : r \in Responders}

Renamed(p, n) ==
    /\ comm' = n
    /\ namesakes' = IF n = Observed THEN namesakes \cup {p} ELSE namesakes

\* An execve returns: the process has the new image's name from now on.
Exec ==
    /\ occupant \notin Killed \cup {0}
    /\ \E n \in Comms : Renamed(occupant, n)
    /\ UNCHANGED <<occupant, born, step, saw, victim>>

\* The process ends, by itself or of a SIGKILL, and its parent has reaped it.
Exit ==
    /\ occupant # 0
    /\ occupant' = 0
    /\ UNCHANGED <<born, comm, namesakes, step, saw, victim>>

\* The pid is given to a new process.
Reuse ==
    /\ occupant = 0
    /\ born < MaxProcesses
    /\ born' = born + 1
    /\ occupant' = born + 1
    /\ \E n \in Comms : Renamed(born + 1, n)
    /\ UNCHANGED <<step, saw, victim>>

-------------------------------------------------------------------------------
Goes(r, s) == step' = [step EXCEPT ![r] = s]

\* Mutant: the name is not compared.
NameIgnored == TRUE

NameMatches == comm = Observed

\* Reading /proc/<pid>/comm and comparing: done in one go by KillProcess and by
\* the helper.  absent is what a missing process means to the caller.
CheckComm(r, absent, checked) ==
    /\ saw' = [saw EXCEPT ![r] = occupant]
    /\ Goes(r, IF Pid <= 1 THEN "refused"
               ELSE IF occupant = 0 THEN absent
               ELSE IF NameMatches THEN checked ELSE "mismatch")
    /\ UNCHANGED <<kernel, victim>>

\* kill(2) hits whichever process has the pid now; if there is none it fails,
\* which the caller reports as absent.
Signal(r, absent) ==
    /\ victim' = [victim EXCEPT ![r] = occupant]
    /\ Goes(r, IF occupant = 0 THEN absent ELSE "ok")
    /\ UNCHANGED <<kernel, saw>>

\* kill(2) from the caller itself, which goes to denied on an EPERM.
OwnSignal(r, denied) ==
    IF r \in Privileged \/ occupant = 0
    THEN Signal(r, "gone")
    ELSE Goes(r, denied) /\ UNCHANGED <<kernel, saw, victim>>

\* KillProcess: check, then signal, and return any error.
KillProcess(r) ==
    \/ step[r] = "start" /\ CheckComm(r, "gone", "checked")
    \/ step[r] = "checked" /\ OwnSignal(r, "refused")

\* kill_pid opens the file; FileNotFoundError means there is nothing to kill.
Open(r) ==
    /\ step[r] = "start"
    /\ saw' = [saw EXCEPT ![r] = occupant]
    /\ Goes(r, IF occupant = 0 THEN "gone" ELSE "opened")
    /\ UNCHANGED <<kernel, victim>>

\* kill_pid reads it.  If the process has gone since, read fails with ESRCH,
\* a ProcessLookupError that nothing here handles.
Read(r) ==
    /\ step[r] = "opened"
    /\ Goes(r, IF occupant # saw[r] THEN "raised"
               ELSE IF NameMatches THEN "checked" ELSE "mismatch")
    /\ UNCHANGED <<kernel, saw, victim>>

\* kill_pid signals, or turns to the helper on a PermissionError.
DirectSignal(r) ==
    /\ step[r] = "checked"
    /\ OwnSignal(r, "helper")

Helping == {"helper", "helperFound", "helperChecked"}

\* sudo cannot run the helper, or takes more than its five seconds, which is an
\* ordinary failure; any other exception of subprocess.run is not caught.
HelperUnavailable(r) ==
    /\ step[r] \in Helping
    /\ \E s \in {"refused", "raised"} : Goes(r, s)
    /\ UNCHANGED <<kernel, saw, victim>>

\* kill_pid.sh looks for the file, and exits 0 when it is not there.
HelperTest(r) ==
    /\ step[r] = "helper"
    /\ Goes(r, IF Pid <= 1 THEN "refused" ELSE IF occupant = 0 THEN "ok" ELSE "helperFound")
    /\ UNCHANGED <<kernel, saw, victim>>

\* Mutant: on a mismatch there is nothing to do, so the helper exits 0.
HelperReadForgiving(r) ==
    /\ step[r] = "helperFound"
    /\ saw' = [saw EXCEPT ![r] = occupant]
    /\ Goes(r, IF occupant = 0 THEN "refused" ELSE IF NameMatches THEN "helperChecked" ELSE "ok")
    /\ UNCHANGED <<kernel, victim>>

\* It reads the name; when that fails, it ends (set -e) with an error.
HelperRead(r) ==
    /\ step[r] = "helperFound"
    /\ CheckComm(r, "refused", "helperChecked")

\* It signals; when that fails, it ends with an error too.
HelperSignal(r) ==
    /\ step[r] = "helperChecked"
    /\ Signal(r, "refused")

kill_pid(r) ==
    \/ Open(r) \/ Read(r) \/ DirectSignal(r)
    \/ HelperTest(r) \/ HelperRead(r) \/ HelperSignal(r) \/ HelperUnavailable(r)

Next ==
    \/ Exec \/ Exit \/ Reuse
    \/ \E r \in Brokers : KillProcess(r)
    \/ \E r \in Hunters : kill_pid(r)

Spec == Init /\ [][Next]_vars

-------------------------------------------------------------------------------
(* Properties *)

TypeOK ==
    /\ born \in Processes
    /\ occupant \in {0, born}
    /\ comm \in Comms
    /\ step \in [Responders -> {"start", "opened", "checked"} \cup Helping \cup
                               {"ok", "gone", "mismatch", "refused", "raised"}]
    /\ \A r \in Brokers \cup Privileged : step[r] \notin Helping
    /\ saw \in [Responders -> 0 .. born]
    /\ victim \in [Responders -> 0 .. born]
    /\ namesakes \subseteq 1 .. born

\* A process that never had the observed name is killed only if it took over
\* the pid between the responder's last check and its signal: the re-check
\* leaves no other way to hit a stranger, however many responders run.
StrangersSpared ==
    \A r \in Responders : victim[r] \notin namesakes \cup {0} => victim[r] # saw[r]

\* When a responder reports a kill (by the helper's exit status too, which is 0
\* also when nothing was signalled) or that there is nothing to kill, the process
\* the sensor saw has given up the pid, or has this responder's SIGKILL: neither a
\* missing privilege nor a changed name nor a process that exits between two looks
\* is taken for one of these, and reuse of the pid does not change it.
DoneMeansDead ==
    \A r \in Responders : step[r] \in {"ok", "gone"} => occupant # 1 \/ victim[r] = 1

\* respond.go on a mismatch: "refusing to kill ... likely PID reuse", so the
\* process that is spared is another one than the sensor saw.
MismatchMeansReuse == \A r \in Responders : step[r] = "mismatch" => saw[r] # 1

-------------------------------------------------------------------------------
(* Further statements of the repository that the code does not meet; see the *)
(* README.                                                                   *)

\* responder.py: "Returns True if a kill was actually delivered."
KillDelivered == \A r \in Responders : step[r] = "ok" => victim[r] # 0

\* responder.py: "Both implementations are idempotent against an already-exited
\* process", so an exit between two looks at the process is never an error of
\* kill_pid.
ExitIsHandled == [][\A r \in Responders : step[r] = "opened" => step'[r] # "raised"]_vars
===============================================================================
