------------------------------- MODULE Watcher --------------------------------
(***************************************************************************)
(* The watcher of an arena (realize-storage/src/arena/watcher.rs, hasher.rs)*)
(* and the part of the index that follows the local files (index.rs).      *)
(*                                                                         *)
(* The user changes the tree; notify posts events, one loop handles them   *)
(* in order, hashes are computed by independent tasks, and a second loop   *)
(* adds their results to the index.  At startup two catch-up tasks compare *)
(* the index with the tree.  A peer's notifications may delete a file.     *)
(*                                                                         *)
(* A file is its content, its stamp (size and modification time, assumed   *)
(* to differ after every write) and whether it can be read.  All paths are *)
(* in one directory, Dir, that the user may move out of the arena and back.*)
(* Symbolic and hard links are left out.                                   *)
(***************************************************************************)
EXTENDS Naturals, Sequences, FiniteSets

CONSTANTS
  Path,       \* files
  Dir,        \* the directory that holds them
  Excludable, \* files a configuration may exclude from the index
  Content,    \* hashes of contents that are not empty
  Empty,      \* hash::empty()
  Garbled,    \* hash of a file that was written to while it was read
  None,       \* no value
  MaxOps,     \* bound on operations of the user
  MaxStarts,  \* bound on starts of the process
  MaxUpdates  \* bound on notifications from peers that apply

ASSUME BoundsAssumption == MaxOps \in Nat /\ MaxStarts \in Nat /\ MaxUpdates \in Nat

Hash == Content \cup {Empty, Garbled}

ASSUME NoneAssumption == None \notin Hash

File == [hash : Content \cup {Empty}, stamp : 1..MaxOps, readable : BOOLEAN]
\* IndexedFileTableEntry
Entry == [hash : Hash, stamp : 1..MaxOps, outdated : Hash \cup {None}]

Event == [kind : {"Remove", "Folder", "Create", "Name", "Metadata", "Data"}, path : Path \cup {Dir}]

VARIABLES
  tree,       \* files of the arena: path -> file, or None
  aside,      \* files of Dir while it is moved out of the arena
  away,       \* whether Dir is moved out
  ops,        \* operations of the user so far; also the last stamp given
  up,         \* whether the process runs
  starts,     \* times it was started
  exclude,    \* RealWatcherWorker::exclude
  index,      \* INDEX_FILE_TABLE: path -> entry, or None
  queue,      \* events between notify or catch-up and event_loop
  walking,    \* files dir_created_or_modified has yet to visit
  seen,       \* the metadata file_created_or_modified was called with
  requested,  \* paths whose hash was requested
  hashing,    \* files that are open and being hashed
  adding,     \* a result hashed_loop has checked and is about to add
  stale,      \* entries catchup_removed_or_modified has yet to look at
  removed,    \* the Remove event it is about to send
  unwalked,   \* paths catchup_added has yet to look at
  doomed,     \* a file a remote Remove has checked and is about to delete
  updates,    \* notifications that applied so far
  replaced,   \* pairs of hashes of the Replace notifications, per path
  raced,      \* paths whose last change met one of the two races below
  wrong       \* files deleted by a remote Remove that was not about them

userVars == <<tree, aside, away, ops>>
configVars == <<up, starts, exclude>>
eventVars == <<queue, walking, seen>>
hashVars == <<requested, hashing, adding>>
catchupVars == <<stale, removed, unwalked>>
remoteVars == <<doomed, updates, replaced, wrong>>
vars == <<userVars, configVars, index, eventVars, hashVars, catchupVars, remoteVars, raced>>

TypeOK ==
  /\ tree \in [Path -> File \cup {None}]
  /\ aside \in [Path -> File \cup {None}]
  /\ away \in BOOLEAN
  /\ ops \in 0..MaxOps
  /\ up \in BOOLEAN
  /\ starts \in 0..MaxStarts
  /\ exclude \subseteq Excludable
  /\ index \in [Path -> Entry \cup {None}]
  /\ queue \in Seq(Event)
  /\ walking \subseteq Path
  /\ seen \in [path : Path, file : File] \cup {None}
  /\ requested \subseteq Path
  /\ hashing \subseteq [path : Path, stamp : 1..MaxOps, hash : Hash]
  /\ adding \in [path : Path, stamp : 1..MaxOps, hash : Hash] \cup {None}
  /\ stale \in [Path -> Entry \cup {None}]
  /\ removed \in Path \cup {None}
  /\ unwalked \subseteq Path
  /\ doomed \in [path : Path, old : Hash, entry : Entry] \cup {None}
  /\ updates \in 0..MaxUpdates
  /\ replaced \in [Path -> SUBSET (Hash \X Hash)]
  /\ raced \subseteq Path
  /\ wrong \subseteq Path \X Hash

NoFiles == [p \in Path |-> None]

Init ==
  /\ tree = NoFiles /\ aside = NoFiles /\ away = FALSE /\ ops = 0
  /\ up = FALSE /\ starts = 0 /\ exclude = {}
  /\ index = NoFiles
  /\ queue = <<>> /\ walking = {} /\ seen = None
  /\ requested = {} /\ hashing = {} /\ adding = None
  /\ stale = NoFiles /\ removed = None /\ unwalked = {}
  /\ doomed = None /\ updates = 0 /\ replaced = [p \in Path |-> {}] /\ wrong = {}
  /\ raced = {}

-----------------------------------------------------------------------------
(* The user.  Every operation is reported by an event while the watcher runs. *)

\* The callback given to notify: the event waits for event_loop.
Post(events) == queue' = IF up THEN queue \o events ELSE queue

Ev(kind, path) == [kind |-> kind, path |-> path]

\* An operation that changes files ps and is reported by events.
Operate(ps, events) ==
  /\ ops < MaxOps
  /\ ops' = ops + 1
  /\ Post(events)
  /\ raced' = raced \ ps
  /\ UNCHANGED <<configVars, index, walking, seen, requested, adding, catchupVars, remoteVars>>

CreateFile(p) ==
  /\ ~away /\ tree[p] = None
  /\ tree' = [tree EXCEPT ![p] = [hash |-> Empty, stamp |-> ops + 1, readable |-> TRUE]]
  /\ Operate({p}, <<Ev("Create", p)>>)
  /\ UNCHANGED <<aside, away, hashing>>

\* A write in place; a task that is reading the file sees some of it.
WriteFile(p, h) ==
  /\ tree[p] # None
  /\ tree[p].readable
  /\ tree' = [tree EXCEPT ![p].hash = h, ![p].stamp = ops + 1]
  /\ hashing' = {IF t.path = p THEN [t EXCEPT !.hash = Garbled] ELSE t : t \in hashing}
  /\ Operate({p}, <<Ev("Data", p)>>)
  /\ UNCHANGED <<aside, away>>

DeleteFile(p) ==
  /\ tree[p] # None
  /\ tree' = [tree EXCEPT ![p] = None]
  /\ Operate({p}, <<Ev("Remove", p)>>)
  /\ UNCHANGED <<aside, away, hashing>>

\* A file is moved in, over the one at p if there is one, or out.
MoveFileIn(p, h) ==
  /\ ~away
  /\ tree' = [tree EXCEPT ![p] = [hash |-> h, stamp |-> ops + 1, readable |-> TRUE]]
  /\ Operate({p}, <<Ev("Name", p)>>)
  /\ UNCHANGED <<aside, away, hashing>>

MoveFileOut(p) ==
  /\ tree[p] # None
  /\ tree' = [tree EXCEPT ![p] = None]
  /\ Operate({p}, <<Ev("Name", p)>>)
  /\ UNCHANGED <<aside, away, hashing>>

Chmod(p) ==
  /\ tree[p] # None
  /\ tree' = [tree EXCEPT ![p].readable = ~@]
  /\ Operate({p}, <<Ev("Metadata", p)>>)
  /\ UNCHANGED <<aside, away, hashing>>

MoveDir ==
  /\ tree' = aside /\ aside' = tree /\ away' = ~away
  /\ \E kind \in (IF away THEN {"Name", "Folder"} ELSE {"Name", "Remove"}) :
       Operate({p \in Path : tree[p] # aside[p]}, <<Ev(kind, Dir)>>)
  /\ UNCHANGED hashing

User ==
  \/ \E p \in Path : CreateFile(p) \/ DeleteFile(p) \/ MoveFileOut(p) \/ Chmod(p)
  \/ \E p \in Path, h \in Content : MoveFileIn(p, h)
  \/ \E p \in Path, h \in Content \cup {Empty} : WriteFile(p, h)
  \/ MoveDir

-----------------------------------------------------------------------------
(* Operations of the index that the watcher calls, each one transaction. *)

\* has_matching_file
HasFile(ix, p, f) == ix[p] # None    \* mutant
HasMatchingFile(ix, p, f) == ix[p] # None /\ ix[p].stamp = f.stamp

\* add_file; the file is not known to be outdated any more.
AddOutdated(ix, p, stamp, hash) ==    \* mutant
  [ix EXCEPT ![p] = [hash |-> hash, stamp |-> stamp, outdated |-> IF ix[p] = None THEN None ELSE ix[p].outdated]]
AddFile(ix, p, stamp, hash) == [ix EXCEPT ![p] = [hash |-> hash, stamp |-> stamp, outdated |-> None]]

\* remove_file_or_dir: the files at or under path.
RemoveFileOrDir(ix, path) == [p \in Path |-> IF path \in {p, Dir} THEN None ELSE ix[p]]

\* replaces: old is the indexed version or the one known to have replaced it.
Replaces(e, old) == e.hash = old \/ e.outdated = old

\* file_matches_index
FileMatchesIndex(e, p) == tree[p] # None /\ tree[p].stamp = e.stamp

-----------------------------------------------------------------------------
(* Start and catch-up. *)

\* RealWatcher::spawn: the tree is watched from here on, then the catch-up
\* tasks start, one on a snapshot of the index and one on the tree.
Start ==
  /\ ~up /\ starts < MaxStarts
  /\ up' = TRUE /\ starts' = starts + 1
  /\ exclude' \in SUBSET Excludable
  /\ stale' = index /\ removed' = None /\ unwalked' = Path
  /\ UNCHANGED <<userVars, index, eventVars, hashVars, remoteVars>>
  /\ raced' = {}

\* RealWatcher::shutdown, or the end of the process: all but the tables is lost.
Stop ==
  /\ up
  /\ up' = FALSE
  /\ queue' = <<>> /\ walking' = {} /\ seen' = None
  /\ requested' = {} /\ hashing' = {} /\ adding' = None
  /\ stale' = NoFiles /\ removed' = None /\ unwalked' = {}
  /\ doomed' = None
  /\ UNCHANGED <<userVars, starts, exclude, index, updates, replaced, wrong, raced>>

\* catchup_removed_or_modified looks at the file of an entry; an event that
\* reports it as removed is sent by the next step.
CatchupEntry(p) ==
  /\ up /\ stale[p] # None /\ removed = None
  /\ stale' = [stale EXCEPT ![p] = None]
  /\ IF p \in exclude \/ tree[p] = None \/ ~tree[p].readable
       THEN removed' = p /\ UNCHANGED queue
       ELSE /\ queue' = IF tree[p].stamp # stale[p].stamp THEN Append(queue, Ev("Data", p)) ELSE queue
            /\ UNCHANGED removed
  /\ UNCHANGED <<userVars, configVars, index, walking, seen, hashVars, unwalked, remoteVars, raced>>

\* The first race: the user may have created the file since it was looked at,
\* and the event of that may be ahead of this one.
SendRemoved ==
  /\ removed # None
  /\ queue' = Append(queue, Ev("Remove", removed))
  /\ removed' = None
  /\ raced' = IF tree[removed] # None THEN raced \cup {removed} ELSE raced
  /\ UNCHANGED <<userVars, configVars, index, walking, seen, hashVars, stale, unwalked, remoteVars>>

\* catchup_added reaches path p of the tree.
CatchupAdded(p) ==
  /\ up /\ p \in unwalked
  /\ unwalked' = unwalked \ {p}
  /\ queue' = IF tree[p] # None /\ index[p] = None /\ p \notin exclude
                THEN Append(queue, Ev("Data", p)) ELSE queue
  /\ UNCHANGED <<userVars, configVars, index, walking, seen, hashVars, stale, removed, remoteVars, raced>>

-----------------------------------------------------------------------------
(* event_loop *)

Exists(path) == IF path = Dir THEN ~away ELSE tree[path] # None

\* handle_event calls file_or_dir_removed.
IsRemoval(e) ==
  \/ e.kind = "Remove"
  \/ e.kind \in {"Name", "Metadata"} /\ ~Exists(e.path)
  \/ e.kind = "Metadata" /\ e.path # Dir /\ Exists(e.path) /\ ~tree[e.path].readable

\* handle_event calls file_created_or_modified, or dir_created_or_modified.
IsChange(e) ==
  /\ Exists(e.path) /\ ~IsRemoval(e)
  /\ e.kind = "Create" => tree[e.path].hash = Empty

\* event_loop takes an event and handle_event looks at the tree.
HandleEvent ==
  /\ queue # <<>> /\ walking = {} /\ seen = None
  /\ LET e == Head(queue) IN
       /\ index' = IF IsRemoval(e) THEN RemoveFileOrDir(index, e.path) ELSE index
       /\ walking' = IF IsChange(e) /\ e.path = Dir THEN Path ELSE {}
       /\ seen' = IF IsChange(e) /\ e.path # Dir THEN [path |-> e.path, file |-> tree[e.path]] ELSE None
  /\ queue' = Tail(queue)
  /\ UNCHANGED <<userVars, configVars, hashVars, catchupVars, remoteVars, raced>>

\* dir_created_or_modified reaches path p of the directory.
WalkDir(p) ==
  /\ p \in walking /\ seen = None
  /\ walking' = walking \ {p}
  /\ seen' = IF tree[p] # None THEN [path |-> p, file |-> tree[p]] ELSE None
  /\ UNCHANGED <<userVars, configVars, index, queue, hashVars, catchupVars, remoteVars, raced>>

\* file_created_or_modified
FileCreatedOrModified ==
  /\ seen # None
  /\ LET p == seen.path
         f == seen.file
         skip == tree[p] = None \/ p \in exclude \/ HasMatchingFile(index, p, f)
     IN /\ index' = IF ~skip /\ f.hash = Empty THEN AddFile(index, p, f.stamp, Empty) ELSE index
        /\ requested' = IF ~skip /\ f.hash # Empty THEN requested \cup {p} ELSE requested
  /\ seen' = None
  /\ UNCHANGED <<userVars, configVars, queue, walking, hashing, adding, catchupVars, remoteVars, raced>>

-----------------------------------------------------------------------------
(* Hasher and hashed_loop *)

\* do_hash opens the file and takes its metadata; without a file it fails.
OpenToHash(p) ==
  /\ p \in requested
  /\ requested' = requested \ {p}
  /\ hashing' = IF tree[p] # None /\ tree[p].readable
                  THEN hashing \cup {[path |-> p, stamp |-> tree[p].stamp, hash |-> tree[p].hash]}
                  ELSE hashing
  /\ UNCHANGED <<userVars, configVars, index, eventVars, adding, catchupVars, remoteVars, raced>>

\* The result's metadata is still the file's.
StillCurrent(t) == tree[t.path] # None /\ tree[t.path].stamp = t.stamp

\* A task is done and hashed_loop receives and checks its result.
StampHashed(t) ==    \* mutant
  /\ t \in hashing /\ adding = None
  /\ hashing' = hashing \ {t}
  /\ adding' = IF tree[t.path] # None THEN [t EXCEPT !.stamp = tree[t.path].stamp] ELSE None
  /\ UNCHANGED <<userVars, configVars, index, eventVars, requested, catchupVars, remoteVars, raced>>
CheckHashed(t) ==
  /\ t \in hashing /\ adding = None
  /\ hashing' = hashing \ {t}
  /\ adding' = IF StillCurrent(t) THEN t ELSE None
  /\ UNCHANGED <<userVars, configVars, index, eventVars, requested, catchupVars, remoteVars, raced>>

\* hashed_loop calls add_file.  The second race: event_loop may have handled
\* in between that the file was removed, became unreadable or was emptied,
\* the changes it deals with by itself, without a hash.
AddHashed ==
  /\ adding # None
  /\ index' = AddFile(index, adding.path, adding.stamp, adding.hash)
  /\ raced' = LET f == tree[adding.path] IN
                IF f = None \/ ~f.readable \/ f.hash = Empty THEN raced \cup {adding.path} ELSE raced
  /\ adding' = None
  /\ UNCHANGED <<userVars, configVars, eventVars, requested, hashing, catchupVars, remoteVars>>

-----------------------------------------------------------------------------
(* RealIndexBlocking::update: changes of a peer.  A notification about a    *)
(* version that is not the indexed one does nothing.                       *)

\* A Replace of the indexed version is remembered.
UpdateReplace(p, old, new) ==
  /\ up /\ updates < MaxUpdates /\ updates' = updates + 1
  /\ index[p] # None /\ Replaces(index[p], old)
  /\ index' = [index EXCEPT ![p].outdated = new]
  /\ replaced' = [replaced EXCEPT ![p] = @ \cup {<<old, new>>}]
  /\ UNCHANGED <<userVars, configVars, eventVars, hashVars, catchupVars, doomed, wrong, raced>>

\* A Remove reads the entry and compares it with the file.
UpdateRemove(p, old) ==
  /\ up /\ updates < MaxUpdates /\ updates' = updates + 1
  /\ doomed = None
  /\ index[p] # None /\ Replaces(index[p], old) /\ FileMatchesIndex(index[p], p)
  /\ doomed' = [path |-> p, old |-> old, entry |-> index[p]]
  /\ UNCHANGED <<userVars, configVars, index, eventVars, hashVars, catchupVars, replaced, wrong, raced>>

\* old is h, or a version that replaced it in any number of steps of R, the
\* Replace notifications received for a path.
Closed(R, S) == \A g, h \in Hash : <<g, h>> \in R /\ g \in S => h \in S
Replaced(R, h, old) == \A S \in SUBSET Hash : h \in S /\ Closed(R, S) => old \in S

\* It then deletes whatever is there: a save since the comparison is lost too.
DeleteDoomed ==
  /\ doomed # None
  /\ LET p == doomed.path
         f == tree[p]
     IN /\ tree' = [tree EXCEPT ![p] = None]
        /\ queue' = IF f # None THEN Append(queue, Ev("Remove", p)) ELSE queue
        /\ wrong' = IF f # None /\ f.stamp = doomed.entry.stamp /\ ~Replaced(replaced[p], f.hash, doomed.old)
                      THEN wrong \cup {<<p, f.hash>>} ELSE wrong
  /\ doomed' = None
  /\ UNCHANGED <<aside, away, ops, configVars, index, walking, seen, hashVars, catchupVars,
                 updates, replaced, raced>>

-----------------------------------------------------------------------------

Worker ==
  \/ HandleEvent \/ FileCreatedOrModified \/ AddHashed \/ SendRemoved \/ DeleteDoomed
  \/ \E p \in Path : CatchupEntry(p) \/ CatchupAdded(p) \/ WalkDir(p) \/ OpenToHash(p)
  \/ \E t \in hashing : CheckHashed(t)

Remote ==
  \E p \in Path, old \in Content \cup {Empty} :
    \/ UpdateRemove(p, old)
    \/ \E new \in Content \ {old} : UpdateReplace(p, old, new)

Next == User \/ Start \/ Stop \/ Worker \/ Remote

\* The tasks of the watcher run on a multi-threaded runtime; a loop that has
\* work goes on.  The user, peers and restarts owe nothing.
Fairness == WF_vars(Worker)

Spec == Init /\ [][Next]_vars /\ Fairness
-----------------------------------------------------------------------------

\* An indexed file that still has the recorded size and time has the recorded
\* hash: the metadata is taken before the hash (do_hash) and compared again
\* after it (hashed_loop).  Everything that trusts file_matches_index (remote
\* reads, unrealize, remote removals) rests on it.
IndexedHashRight ==
  /\ TypeOK
  /\ \A p \in Path :
       index[p] # None /\ FileMatchesIndex(index[p], p) => index[p].hash = tree[p].hash

\* A notification of a peer only deletes a file whose content is the version
\* the peer removed or one replaced by it, as far as it was still the file
\* that was compared with the index (RealIndexBlocking::update).
RemovesOnlyReplaced == wrong = {}

\* Path p is indexed as it is on disk.  An empty file that cannot be read is
\* indexed or not, depending on the event it was found by.
Agrees(p) ==
  LET f == tree[p]
      kept == f # None /\ p \notin exclude
  IN \/ kept /\ (f.readable \/ f.hash = Empty) /\ HasMatchingFile(index, p, f) /\ index[p].hash = f.hash
     \/ (kept => ~f.readable) /\ index[p] = None

\* Once the user leaves the tree alone and the process keeps running, the
\* index ends up the same as the tree (watcher.rs), save for the paths that
\* met one of the two races: whatever order hashes, catch-up and events had.
IndexCatchesUp == <>[](up => \A p \in Path \ raced : Agrees(p))
-----------------------------------------------------------------------------
(* The parts of the inductive invariant behind the two safety properties. *)

\* The files of Dir are in one place at a time.
FilesInOnePlace == IF away THEN tree = NoFiles ELSE aside = NoFiles

\* The metadata and hash of a version, wherever they are noted down: the stamp
\* was given already, and a file of that stamp has that hash.
NotedAt(now, files, v) ==
  /\ v.stamp <= now
  /\ \A f \in files : f # None /\ f.stamp = v.stamp => f.hash = v.hash
Noted(p, v) == NotedAt(ops, {tree[p], aside[p]}, v)

\* An index entry is a noted version, and the version it is outdated by is one
\* that replaced it.
EntryRight(p, e) ==
  /\ Noted(p, e)
  /\ e.outdated # None => Replaced(replaced[p], e.hash, e.outdated)

VersionsRight ==
  /\ \A p \in Path : tree[p] # None => tree[p].stamp <= ops
  /\ \A p \in Path : aside[p] # None => aside[p].stamp <= ops
  /\ \A p \in Path : index[p] # None => EntryRight(p, index[p])
  /\ \A t \in hashing : Noted(t.path, t)
  /\ adding # None => Noted(adding.path, adding)
  /\ seen # None => Noted(seen.path, seen.file)

RemovalRight ==
  doomed # None => /\ EntryRight(doomed.path, doomed.entry)
                   /\ Replaces(doomed.entry, doomed.old)

WatcherInv ==
  TypeOK /\ FilesInOnePlace /\ VersionsRight /\ RemovalRight /\ RemovesOnlyReplaced
=============================================================================
