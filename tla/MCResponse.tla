------------------------------ MODULE MCResponse ------------------------------
(* Model-checking instance of Response. *)
EXTENDS Response

Tool(s, x, c) ==
    [kind |-> "tool", severity |-> s, action |-> x, technique |-> "unlisted", confidence |-> c,
     complete |-> TRUE]

\* Each way to miss the boundary, the boundary itself, and no verdict at all.
MCReplies == {
    Tool("critical", "kill", Floor),
    Tool("critical", "kill", Floor - 1),
    Tool("high",     "kill", Top),
    Tool("critical", "kill", Top + 1),
    Tool("critical", "alert", Top),
    [Tool("critical", "kill", Top) EXCEPT !.complete = FALSE],
    [kind |-> "apierror"],
    [kind |-> "exception"] }
===============================================================================
