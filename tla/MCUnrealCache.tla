---------------------------- MODULE MCUnrealCache -----------------------------
(***************************************************************************)
(* An instance of ArenaJobs and UnrealCache for TLC.                       *)
(***************************************************************************)
EXTENDS ArenaJobs

CONSTANTS a1, a2

\* A file or directory, a file in it and another file.
MCPath == {<<"d">>, <<"d", "f">>, <<"g">>}

\* One arena is in the directory of the other's name.
MCArenaPath == a1 :> <<"x">> @@ a2 :> <<"x", "y">>

Bounds(arenas, files, u, m, r, l, j) ==
  [arenas |-> arenas, files |-> files, updates |-> u, marks |-> m, restarts |-> r,
   listings |-> l, jobs |-> j]

\* Many updates; arenas that come and go; a listing among updates; a job
\* among updates and marks.
MCBudget ==
  LET nested == {<<"d">>, <<"d", "f">>}
  IN {Bounds({a1, a2}, nested, 4, 0, 0, 0, 0), Bounds({a1, a2}, Path, 2, 0, 2, 0, 0),
      Bounds({a1}, Path, 3, 0, 0, 1, 0), Bounds({a1}, nested, 2, 2, 0, 0, 1)}

Symmetry == Permutations(Peer) \cup Permutations(Hash)

=============================================================================
