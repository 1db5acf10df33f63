-------------------------------- MODULE MCSync --------------------------------
(***************************************************************************)
(* Instances of Sync for TLC.                                              *)
(***************************************************************************)
EXTENDS Sync, TLC

Symmetry == Permutations(Path) \cup Permutations(Hash) \cup Permutations(Peer)

\* A bound: after a drop and a broken connection nothing more is looked at.
DropOrDisconnect == drops = 0 \/ disconnects = 0

=============================================================================
