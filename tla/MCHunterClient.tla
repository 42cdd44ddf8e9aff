---------------------------- MODULE MCHunterClient ----------------------------
(* Model-checking instance of HunterClient. *)
EXTENDS HunterClient
===============================================================================
