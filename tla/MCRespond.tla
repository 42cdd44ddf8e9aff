------------------------------- MODULE MCRespond -------------------------------
(* Model-checking instances of Respond. *)
EXTENDS Respond
===============================================================================
