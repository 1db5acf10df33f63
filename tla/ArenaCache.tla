------------------------------ MODULE ArenaCache ------------------------------
(***************************************************************************)
(* The cache of an arena (realize-storage/src/arena/arena_cache.rs): which *)
(* peer has which version of each file, and the version shown to users,    *)
(* kept up to date by the notifications of the peers.                      *)
(*                                                                         *)
(* The code keys files by inode and never uses an inode twice; here a path *)
(* stands for its current inode.                                           *)
(***************************************************************************)
EXTENDS Notifications

VARIABLES
  entry,    \* CACHE_FILE_TABLE: path -> peer -> hash, or None
  default,  \* CACHE_FILE_TABLE, empty peer name: path -> hash, or None
  dir,      \* CACHE_DIRECTORY_TABLE: paths with a directory entry
  marked,   \* CACHE_PENDING_CATCHUP_TABLE: pairs <<peer, path>>
  seen,     \* CACHE_NOTIFICATION_TABLE: last index seen, 0 when absent
  known     \* CACHE_PEER_TABLE: identity of the peer's index, 0 when absent

cacheVars == <<entry, default, dir, marked, seen, known>>

CacheTypeOK ==
  /\ entry \in [Path -> [Peer -> Hash \cup {None}]]
  /\ default \in [Path -> Hash \cup {None}]
  /\ dir \in SUBSET Path
  /\ marked \in SUBSET (Peer \X Path)
  /\ seen \in [Peer -> 0..MaxHistory]
  /\ known \in [Peer -> 0..MaxUuid]

CacheInit ==
  /\ entry = [p \in Path |-> [q \in Peer |-> None]]
  /\ default = [p \in Path |-> None]
  /\ dir = {}
  /\ marked = {}
  /\ seen = [q \in Peer |-> 0]
  /\ known = [q \in Peer |-> 0]

-----------------------------------------------------------------------------

\* do_update_last_seen_notification
UpdateLastSeen(q, n) == seen' = [seen EXCEPT ![q] = n.index]

\* do_write_file_entry
WriteFileEntry(q, p, h) == entry' = [entry EXCEPT ![p][q] = h]

\* do_write_default_file_entry, only where there is none for kept paths.
WriteDefaultIfNone(p, h) ==
  default' = [default EXCEPT ![p] = IF @ = None THEN h ELSE @]

\* Notification::Add: a version the peer is already known to have stays.
Add(q, n) ==
  /\ UpdateLastSeen(q, n)
  /\ dir' = dir \cup {n.path}
  /\ IF entry[n.path][q] = None
     THEN WriteFileEntry(q, n.path, n.hash) /\ WriteDefaultIfNone(n.path, n.hash)
     ELSE UNCHANGED <<entry, default>>
  /\ UNCHANGED <<marked, known>>

\* The version shown to users after a Replace.
SameDefault(n) == default[n.path]                                \* mutant
ReplacedDefault(n) == IF default[n.path] = n.old THEN n.hash ELSE default[n.path]

\* Notification::Replace: taken if it replaces the version shown to users or
\* the version the peer is known to have.
Replace(q, n) ==
  /\ UpdateLastSeen(q, n)
  /\ dir' = dir \cup {n.path}
  /\ IF n.old \in {default[n.path], entry[n.path][q]}
     THEN WriteFileEntry(q, n.path, n.hash)
     ELSE UNCHANGED entry
  /\ default' = [default EXCEPT ![n.path] = ReplacedDefault(n)]
  /\ UNCHANGED <<marked, known>>

\* What other peers have of p.
OtherVersions(q, p) == {entry[p][r] : r \in Peer \ {q}} \ {None}

\* mutant: the version shown stays whoever has it
KeepDefault(q, p) == {default[p]}

\* What do_rm_file_entry may leave as the version shown: the same if another
\* peer has it, else the most recent one (of any peer: times are left out).
NextDefaults(q, p) ==
  LET others == OtherVersions(q, p)
  IN IF others = {} THEN {None}
     ELSE IF default[p] \in others THEN {default[p]}
     ELSE others

\* Files that nobody has once q has them no more.
LastVersion(q, ps) == {p \in ps : OtherVersions(q, p) = {}}

\* do_rm_file_entry for each of the paths ps, which the peer has an entry
\* for; the last entry of a file takes its directory entry with it.
RmFileEntries(q, ps) ==
  /\ entry' = [p \in Path |-> IF p \in ps THEN [entry[p] EXCEPT ![q] = None] ELSE entry[p]]
  /\ default' \in {d \in [Path -> Hash \cup {None}] :
                     \A p \in Path : IF p \in ps THEN d[p] \in NextDefaults(q, p)
                                                 ELSE d[p] = default[p]}
  /\ dir' = dir \ LastVersion(q, ps)

\* The file a Remove or Drop notification takes away, if any.
Unlinked(q, n) == {p \in {n.path} : entry[p][q] = n.old}

\* Notification::Remove and Drop, through do_unlink.
Unlink(q, n) ==
  /\ UpdateLastSeen(q, n)
  /\ RmFileEntries(q, Unlinked(q, n))
  /\ marked' = {m \in marked : m[2] \notin LastVersion(q, Unlinked(q, n))}
  /\ UNCHANGED known

\* Notification::CatchupStart, do_mark_peer_files
CatchupStart(q) ==
  /\ marked' = marked \cup {<<q, p>> : p \in {r \in Path : entry[r][q] # None}}
  /\ UNCHANGED <<entry, default, dir, seen, known>>

\* Notification::Catchup: the reported version overwrites the peer's, but not
\* the one shown to users.
Catchup(q, n) ==
  /\ dir' = dir \cup {n.path}
  /\ marked' = marked \ {<<q, n.path>>}
  /\ WriteFileEntry(q, n.path, n.hash)
  /\ WriteDefaultIfNone(n.path, n.hash)
  /\ UNCHANGED <<seen, known>>

\* Files of q that are still marked, and that do_delete_marked_files removes.
NoMarkedFile(q) == {}                                            \* mutant
MarkedFiles(q) == {p \in Path : <<q, p>> \in marked /\ entry[p][q] # None}

\* Notification::CatchupComplete
CatchupComplete(q, n) ==
  /\ UpdateLastSeen(q, n)
  /\ RmFileEntries(q, MarkedFiles(q))
  /\ marked' = {m \in marked : m[1] # q /\ m[2] \notin LastVersion(q, MarkedFiles(q))}
  /\ UNCHANGED known

\* Another identity makes the last index seen meaningless.
AlwaysSeen(q, n) == seen[q]                                      \* mutant
StillSeen(q, n) == IF known[q] = n.uuid THEN seen[q] ELSE 0

\* Notification::Connected
Connected(q, n) ==
  /\ known' = [known EXCEPT ![q] = n.uuid]
  /\ seen' = [seen EXCEPT ![q] = StillSeen(q, n)]
  /\ UNCHANGED <<entry, default, dir, marked>>

\* do_unlink fails with NotFound for a path without a directory entry; the
\* transaction is then dropped.
Fails(n) == n.kind \in Taken /\ n.path \notin dir

\* ArenaCache::update
Update(q, n) ==
  \/ n.kind = "Add" /\ Add(q, n)
  \/ n.kind = "Replace" /\ Replace(q, n)
  \/ n.kind \in Taken /\ n.path \in dir /\ Unlink(q, n)
  \/ n.kind = "CatchupStart" /\ CatchupStart(q)
  \/ n.kind = "Catchup" /\ Catchup(q, n)
  \/ n.kind = "CatchupComplete" /\ CatchupComplete(q, n)
  \/ n.kind = "Connected" /\ Connected(q, n)
  \/ Fails(n) /\ UNCHANGED cacheVars

-----------------------------------------------------------------------------

\* Users see a file exactly when some peer has a version of it, and a file
\* they can see has a directory entry: no entry of a file is ever orphaned.
VisibleIffHeld ==
  \A p \in Path :
    /\ default[p] # None <=> \E q \in Peer : entry[p][q] # None
    /\ default[p] # None => p \in dir

\* do_file_availability: the peers to download the version shown from.
FileAvailability(p) == {q \in Peer : entry[p][q] = default[p]}

\* The version shown to users is one that some peer still has, so that it can
\* be downloaded (do_file_availability).
DefaultAvailable == \A p \in Path : default[p] # None => FileAvailability(p) # {}

=============================================================================
