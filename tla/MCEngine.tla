------------------------------- MODULE MCEngine -------------------------------
(***************************************************************************)
(* Instances of Engine for TLC.                                            *)
(***************************************************************************)
EXTENDS Engine, TLC

\* Back off once, then give up.
MCDelay == <<1, 0>>

\* Back off longer after each failure, then give up.
MCGrowingDelay == <<1, 2, 0>>

Symmetry == Permutations(Path) \cup Permutations(Writer)

=============================================================================
