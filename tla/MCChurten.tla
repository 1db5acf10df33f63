------------------------------ MODULE MCChurten ------------------------------
(* Churten and its followers on a small instance. *)
EXTENDS Churten, TLC

Symmetry == Permutations(Job)
=============================================================================
