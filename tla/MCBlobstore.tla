----------------------------- MODULE MCBlobstore ------------------------------
(***************************************************************************)
(* Instances of Blobstore for TLC.                                         *)
(***************************************************************************)
EXTENDS Blobstore, TLC

Symmetry == Permutations(Path) \cup Permutations(Hash) \cup Permutations(File)

=============================================================================
