------------------------------ MODULE MCPipeline ------------------------------
(* Model-checking instances of Pipeline. *)
EXTENDS Pipeline, TLC

\* Workers are interchangeable, and so are events that no constant tells apart.
Symmetry ==
    Permutations(Workers) \cup
    UNION {Permutations(S) : S \in {Suspicious \ (Short \cup Kill), (Suspicious \cap Kill) \ Short} \ {{}}}
===============================================================================
