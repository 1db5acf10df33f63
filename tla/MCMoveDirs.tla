------------------------------ MODULE MCMoveDirs ------------------------------
(* Moves of one file on a small instance. *)
EXTENDS MoveDirs
=============================================================================
