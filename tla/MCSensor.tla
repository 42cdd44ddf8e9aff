------------------------------- MODULE MCSensor -------------------------------
(* Model-checking instances of Sensor. *)
EXTENDS Sensor

\* A short call; one that exceeds every limit; one whose second argument faults;
\* one whose path does; and one whose pointers cannot be read.
MCCalls == {
    [name |-> 1,          argv |-> <<1>>],
    [name |-> 4,          argv |-> <<2, 3, 1>>],
    [name |-> 1,          argv |-> <<1, Unreadable>>],
    [name |-> Unreadable, argv |-> <<>>],
    [name |-> NoPointer,  argv |-> <<NoPointer, 1>>] }
===============================================================================
