---------------------------- MODULE Notifications -----------------------------
(***************************************************************************)
(* What peers tell one another about the files of an arena                 *)
(* (realize-storage/src/arena/notifier.rs, Notification).                  *)
(*                                                                         *)
(* A version of a file is its content hash; its size and modification time *)
(* come with it.  Paths are flat: directories, and the errors for a path   *)
(* that is a directory on one peer and a file on another, are left out.    *)
(***************************************************************************)
EXTENDS Naturals, Sequences, FiniteSets

CONSTANTS
  Peer,        \* peers that publish their index
  Path,        \* paths of the arena
  Hash,        \* content hashes
  None,        \* no file
  MaxHistory,  \* bound on the length of a history
  MaxUuid      \* bound on the identities an index takes when it is rebuilt

ASSUME NoneAssumption == None \notin Hash /\ None \notin Path
ASSUME PathAssumption == IsFiniteSet(Path)
ASSUME HistoryAssumption == MaxHistory \in Nat /\ MaxUuid \in Nat \ {0}

\* Kinds of notifications: those that make a version known, those that take
\* one away, and the others.
Given == {"Add", "Replace", "Catchup"}
Taken == {"Remove", "Drop"}
Kind == Given \cup Taken \cup {"CatchupStart", "CatchupComplete", "Connected"}

\* A notification; a field its kind does not have is None or 0.
Notification ==
  {n \in [kind : Kind, path : Path \cup {None}, hash : Hash \cup {None},
          old : Hash \cup {None}, index : 0..MaxHistory, uuid : 0..MaxUuid] :
     /\ n.kind \in Given \cup Taken => n.path \in Path
     /\ n.kind \in Given => n.hash \in Hash
     /\ n.kind \in Taken \cup {"Replace"} => n.old \in Hash}

\* A notification about a file, and one about the subscription.
About(kind, path, hash, old, index) ==
  [kind |-> kind, path |-> path, hash |-> hash, old |-> old, index |-> index, uuid |-> 0]
Signal(kind, index, uuid) ==
  [kind |-> kind, path |-> None, hash |-> None, old |-> None, index |-> index, uuid |-> uuid]

=============================================================================
