--------------------------------- MODULE Triage ---------------------------------
(***************************************************************************)
(* broker/internal/triage/triage.go on the events of one process that       *)
(* executes one program after the other.                                    *)
(*                                                                          *)
(* Paths and names are sequences of characters, as far as they matter: the  *)
(* separator, the dot, and letters.  The tables of the source are           *)
(* constants.  An event has the name the process had when it entered        *)
(* execve, which the kernel cut to TaskCommLen - 1 characters; its path fits *)
(* in the record (Sensor has paths that do not).                            *)
(***************************************************************************)
EXTENDS Integers, SequencesExt

CONSTANTS
    Paths,                \* what may be executed
    Names,                \* what a process may call itself
    interpreterBinaries,  \* base names
    suspiciousDirs,       \* paths that end in a separator
    Chmod,                \* the base name of chmod
    TaskCommLen

ASSUME TriageAssumption ==
    /\ TaskCommLen \in Nat \ {0, 1}
    /\ Paths \subseteq Seq(STRING)
    /\ \A d \in suspiciousDirs : Last(d) = "/"

VARIABLES
    image,   \* the program the process runs, as it was executed
    comm,    \* its name
    own,     \* the name is the one the kernel gave it for that program
    event    \* the last event: path, name and arguments

vars == <<image, comm, own, event>>

\* The positions of the separators, and the parts between them.
Separators(p) == {i \in DOMAIN p : p[i] = "/"}
Parts(p) ==
    LET cuts == Separators(p) \cup {0, Len(p) + 1}
    IN  {SubSeq(p, c[1] + 1, c[2] - 1) :
            c \in {d \in cuts \X cuts : d[1] < d[2] /\ \A k \in cuts : k <= d[1] \/ k >= d[2]}}

baseName(p) == SubSeq(p, Max(Separators(p) \cup {0}) + 1, Len(p))

\* Mutant: only the program's own name is looked at.
isHiddenName(p) == baseName(p) # <<>> /\ Head(baseName(p)) = "."

isHiddenPath(p) ==
    \E part \in Parts(p) \ {<<>>, <<".">>, <<".", ".">>} : Head(part) = "."

\* Mutant: the whole names are compared.
isDifferent(base, c) == base # <<>> /\ c # <<>> /\ base # c

\* Mutant: the last of the common characters is left out.
isMasqueradingButLast(base, c) ==
    LET n == Min({Len(base), Len(c)}) - 1
    IN  base # <<>> /\ c # <<>> /\ SubSeq(base, 1, n) # SubSeq(c, 1, n)

isMasquerading(base, c) ==
    LET n == Min({Len(base), Len(c)})
    IN  base # <<>> /\ c # <<>> /\ SubSeq(base, 1, n) # SubSeq(c, 1, n)

\* x: some argument contains "+x".
IsSuspicious(p, c, x) ==
    LET base == baseName(p)
    IN  \/ base \in interpreterBinaries
        \/ \E d \in suspiciousDirs : IsPrefix(d, p)
        \/ base = Chmod /\ x
        \/ isHiddenPath(p)
        \/ isMasquerading(base, c)

-------------------------------------------------------------------------------
\* The name the kernel gives a process that executes p.
CommOf(p) == SubSeq(baseName(p), 1, Min({Len(baseName(p)), TaskCommLen - 1}))

NoEvent == [path |-> <<>>, comm |-> <<>>, exec |-> FALSE, of |-> <<>>, own |-> FALSE]

Init ==
    /\ image \in {p \in Paths : baseName(p) # <<>>}
    /\ comm = CommOf(image)
    /\ own = TRUE
    /\ event = NoEvent

\* execve: the event is taken on entry, with the old name, whether or not the
\* call will succeed; of and own are history.
Exec(p, x) ==
    /\ event' = [path |-> p, comm |-> comm, exec |-> x, of |-> image, own |-> own]
    /\ \/ /\ baseName(p) # <<>>
          /\ image' = p
          /\ comm' = CommOf(p)
          /\ own' = TRUE
       \/ UNCHANGED <<image, comm, own>>

\* prctl(PR_SET_NAME).
Rename(n) ==
    /\ comm' = n
    /\ own' = FALSE
    /\ UNCHANGED <<image, event>>

Next ==
    \/ \E p \in Paths, x \in BOOLEAN : Exec(p, x)
    \/ \E n \in Names : Rename(n)

Spec == Init /\ [][Next]_vars

-------------------------------------------------------------------------------
(* Properties *)

\* "to avoid false positives from that truncation alone": a process that executes
\* a program of the same name as its own, and has not renamed itself, is never
\* taken to be masquerading, however long the name is.
ReexecNotFlagged ==
    event.own /\ baseName(event.path) = baseName(event.of) =>
        ~isMasquerading(baseName(event.path), event.comm)

\* What triage keeps from the hunter: of a process with its own name, only the
\* execution of a program of the same name as far as the kernel shows it, or of
\* one whose name continues it, or of a directory.
DroppedIsNamesake ==
    event.own /\ ~IsSuspicious(event.path, event.comm, event.exec) =>
        LET old == CommOf(event.of)
            new == baseName(event.path)
        IN  new = <<>> \/ IsPrefix(old, new) \/ IsPrefix(new, old)

\* A component that starts with a dot and is not all of "." or "..", by position.
HiddenAt(p, i) ==
    LET ends(k) == k \notin DOMAIN p \/ p[k] = "/"
    IN  /\ p[i] = "." /\ ends(i - 1)
        /\ ~ends(i + 1)
        /\ p[i + 1] = "." => ~ends(i + 2)

\* isHiddenPath finds exactly the hidden components, wherever they stand in the
\* path and however many separators and dots surround them.
HiddenFound ==
    isHiddenPath(event.path) <=> \E i \in DOMAIN event.path : HiddenAt(event.path, i)
===============================================================================
