----------------------------- MODULE MCWallClock -----------------------------
(* Model-checking instance of WallClock. *)
EXTENDS WallClock
===============================================================================
