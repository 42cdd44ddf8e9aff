------------------------------- MODULE MCTriage -------------------------------
(* Model-checking instance of Triage. *)
EXTENDS Triage

\* Every path of up to three characters, and longer ones with names that agree as
\* far as the kernel keeps them, and not beyond.
MCPaths ==
    (UNION {[1 .. n -> {"/", ".", "a"}] : n \in 1 .. 3}) \cup
    {<<"a", "a", "b">>, <<"/", "a", "b", "a">>, <<"b">>, <<"/", "t", "/", "a">>,
     <<"/", ".", "b", "/", "a">>, <<"/", ".", ".", "/", ".", "b", "/">>}
MCNames == {<<>>, <<"b">>, <<"a", "b">>}
MCInterpreters == {<<"b">>}
MCDirs == {<<"/", "t", "/">>}
MCChmod == <<"a", "b", "a">>
===============================================================================
