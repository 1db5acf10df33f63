------------------------------ MODULE Blobstore -------------------------------
(***************************************************************************)
(* Where the data of cached files is kept (realize-storage/src/arena):     *)
(* the blob table and the files behind it (blob.rs, arena_cache.rs), the   *)
(* jobs that download and verify a blob (realize-core, consensus/jobs.rs), *)
(* and the moves between the cache and the real tree (arena.rs).           *)
(*                                                                         *)
(* A write transaction that changes the file system does so before it      *)
(* commits; a crash in between loses the transaction and not the change.   *)
(*                                                                         *)
(* A path stands for an inode of the cache, which is never used twice.  A  *)
(* file is a number of parts, the same for all versions, and a part holds  *)
(* the data of a version or nothing (zeros).                               *)
(***************************************************************************)
EXTENDS Naturals, FiniteSets

CONSTANTS
  Path,        \* files of the arena
  Hash,        \* versions of a file: content hashes
  None,        \* no version, no file, no data
  Parts,       \* number of parts of a file
  File,        \* files on disk
  Task,        \* tasks that run jobs
  MaxBlob,     \* bound on blob ids
  MaxChanges,  \* bound on changes of the versions and of the real files
  MaxCrashes   \* bound on crashes

ASSUME NoneAssumption == None \notin Hash /\ None \notin File
ASSUME BoundsAssumption ==
  /\ Parts \in Nat \ {0}
  /\ MaxBlob \in Nat
  /\ MaxChanges \in Nat
  /\ MaxCrashes \in Nat

VARIABLES
  db,        \* the committed tables
  txn,       \* the tables as the write transaction leaves them; db if there is none
  content,   \* what each file on disk holds
  blobFile,  \* the file in the blob directory for each id, or None
  realFile,  \* the file in the real tree for each path, or None
  same,      \* paths whose real file has the indexed size and time
  task,      \* local state of the tasks
  changes,   \* changes so far, for the bound only
  crashes,   \* crashes so far, for the bound only
  harm       \* history: "crash" if one came between a file system change and its
             \* commit, "emptied" if open_file emptied the file of a blob that
             \* was there

disk == <<content, blobFile, realFile, same>>
bounds == <<changes, crashes, harm>>
vars == <<db, txn, disk, task, bounds>>

Part == 1..Parts
BlobId == 1..MaxBlob
Data == [Part -> Hash \cup {None}]
DataOf(h) == [i \in Part |-> h]
Empty == DataOf(None)

\* BLOB_TABLE entries: the parts written and the verified hash.
NoBlob == [used |-> 0, written |-> {}, verified |-> None]
NewBlob == [used |-> 1, written |-> {}, verified |-> None]
Blob == [used : {0, 1}, written : SUBSET Part, verified : Hash \cup {None}]

\* The tables: the default entry's version and blob id (0 for none) of each
\* path, the blobs, and the hashes of the index.
Tables ==
  [version : [Path -> Hash \cup {None}], blobOf : [Path -> 0..MaxBlob],
   blob : [BlobId -> Blob], indexed : [Path -> Hash \cup {None}]]
TablesOf(version, blobOf, blob, indexed) ==
  [version |-> version, blobOf |-> blobOf, blob |-> blob, indexed |-> indexed]

\* A task runs a download job for version hash of path.  It holds a Blob:
\* id, version, file, avail (available_ranges) and pending (pending_ranges).
NoTask == [pc |-> "idle", mode |-> "download", path |-> None, hash |-> None, id |-> 0,
           version |-> None, file |-> None, avail |-> {}, pending |-> {}, todo |-> {}]
PC == {"idle", "entry", "open", "create", "commit", "write", "update", "salvage",
       "hash", "repair", "rehash", "mark", "verified"}
TaskState ==
  [pc : PC, mode : {"download", "verify"}, path : Path \cup {None},
   hash : Hash \cup {None}, id : 0..MaxBlob, version : Hash \cup {None},
   file : File \cup {None}, avail : SUBSET Part, pending : SUBSET Part, todo : SUBSET Part]

TypeOK ==
  /\ db \in Tables
  /\ txn \in Tables
  /\ content \in [File -> Data]
  /\ blobFile \in [BlobId -> File \cup {None}]
  /\ realFile \in [Path -> File \cup {None}]
  /\ same \in SUBSET Path
  /\ task \in [Task -> TaskState]
  /\ changes \in 0..MaxChanges
  /\ crashes \in 0..MaxCrashes
  /\ harm \in SUBSET {"crash", "emptied"}

\* An arena whose files are known and not yet downloaded.
Init ==
  /\ \E v \in [Path -> Hash] :
       db = TablesOf(v, [p \in Path |-> 0], [b \in BlobId |-> NoBlob], [p \in Path |-> None])
  /\ txn = db
  /\ content = [f \in File |-> Empty]
  /\ blobFile = [b \in BlobId |-> None]
  /\ realFile = [p \in Path |-> None]
  /\ same = {}
  /\ task = [t \in Task |-> NoTask]
  /\ changes = 0
  /\ crashes = 0
  /\ harm = {}

-----------------------------------------------------------------------------
(* Transactions *)

\* redb runs one write transaction at a time.
Idle == txn = db

\* A write transaction that leaves the file system alone.
Write(d) == Idle /\ db' = d /\ txn' = d

\* A write transaction up to its commit: the file system has changed.
Begin(d) == Idle /\ txn' = d /\ UNCHANGED db

Commit ==
  /\ ~Idle
  /\ db' = txn
  /\ UNCHANGED <<txn, disk, task, bounds>>

\* The process dies and comes back.
Crash ==
  /\ crashes < MaxCrashes
  /\ crashes' = crashes + 1
  /\ harm' = IF Idle THEN harm ELSE harm \cup {"crash"}
  /\ txn' = db
  /\ task' = [t \in Task |-> NoTask]
  /\ UNCHANGED <<db, disk, changes>>

\* A file that is in no directory and that no task has open.
Unused(f) ==
  /\ \A b \in BlobId : blobFile[b] # f
  /\ \A p \in Path : realFile[p] # f
  /\ \A t \in Task : task[t].file # f

-----------------------------------------------------------------------------
(* Blobs *)

\* do_create_blob_entry: the id after the last one of the table.
NextId(b) ==
  LET above == {c \in BlobId : \A d \in BlobId : db.blob[d].used = 1 => d < c}
  IN b \in above /\ \A c \in above : b <= c

\* The blob an operation on p works on: the one it has, or a new one.
BlobFor(p, b) == IF db.blobOf[p] # 0 THEN b = db.blobOf[p] ELSE NextId(b)
EntryFor(p) == IF db.blobOf[p] # 0 THEN db.blob[db.blobOf[p]] ELSE NewBlob

\* mutant: the entry of the blob stays
WithoutFile(p) == db.blob

\* The blob table without the blob of p.
WithoutBlob(p) ==
  [b \in BlobId |-> IF b = db.blobOf[p] THEN NoBlob ELSE db.blob[b]]

FullyWritten(p) == db.blobOf[p] # 0 /\ db.blob[db.blobOf[p]].written = Part

\* local_availability is LocalAvailability::Verified.
Verified(p) ==
  /\ db.version[p] # None
  /\ FullyWritten(p)
  /\ db.blob[db.blobOf[p]].verified = db.version[p]

\* do_write_default_file_entry with another version and, with no version,
\* do_rm_file_entry for the last peer: the blob goes, its file first.
ChangeVersion(p, v) ==
  LET b == db.blobOf[p]
      d == TablesOf([db.version EXCEPT ![p] = v], [db.blobOf EXCEPT ![p] = 0],
                    WithoutBlob(p), db.indexed)
  IN /\ changes < MaxChanges
     /\ db.version[p] \notin {None, v}
     /\ IF b = 0
        THEN Write(d) /\ UNCHANGED blobFile
        ELSE Begin(d) /\ blobFile' = [blobFile EXCEPT ![b] = None]
     /\ changes' = changes + 1
     /\ UNCHANGED <<content, realFile, same, task, crashes, harm>>

-----------------------------------------------------------------------------
(* Moves between the cache and the real tree *)

\* mutant: the blob need not be verified
RealizeAnyway(p) ==
  LET b == db.blobOf[p]
  IN /\ b # 0
     /\ db.version[p] # None
     /\ \/ db.indexed[p] = None /\ realFile[p] = None
        \/ db.indexed[p] # None /\ p \in same
     /\ blobFile[b] # None
     /\ realFile' = [realFile EXCEPT ![p] = blobFile[b]]
     /\ blobFile' = [blobFile EXCEPT ![b] = None]
     /\ same' = same \ {p}
     /\ Begin(TablesOf(db.version, [db.blobOf EXCEPT ![p] = 0], WithoutBlob(p), db.indexed))
     /\ UNCHANGED <<content, task, bounds>>

\* realize: a verified blob becomes the real file, if that is missing or as
\* indexed.  The index follows when the watcher sees the file.
Realize(p) ==
  LET b == db.blobOf[p]
  IN /\ b # 0
     /\ db.version[p] # None
     /\ db.blob[b].verified = db.version[p]
     /\ \/ db.indexed[p] = None /\ realFile[p] = None
        \/ db.indexed[p] # None /\ p \in same
     /\ blobFile[b] # None
     /\ realFile' = [realFile EXCEPT ![p] = blobFile[b]]
     /\ blobFile' = [blobFile EXCEPT ![b] = None]
     /\ same' = same \ {p}
     /\ Begin(TablesOf(db.version, [db.blobOf EXCEPT ![p] = 0], WithoutBlob(p), db.indexed))
     /\ UNCHANGED <<content, task, bounds>>

\* unrealize: the real file becomes the blob of the version it is indexed
\* as, whether that is verified or not.
Unrealize(p) ==
  /\ db.version[p] # None
  /\ db.indexed[p] = db.version[p]
  /\ p \in same
  /\ \E b \in BlobId :
       /\ BlobFor(p, b)
       /\ blobFile' = [blobFile EXCEPT ![b] = realFile[p]]
       /\ Begin(TablesOf(db.version, [db.blobOf EXCEPT ![p] = b],
                         [db.blob EXCEPT ![b] = [used |-> 1, written |-> Part,
                                                 verified |-> EntryFor(p).verified]],
                         [db.indexed EXCEPT ![p] = None]))
  /\ realFile' = [realFile EXCEPT ![p] = None]
  /\ same' = same \ {p}
  /\ UNCHANGED <<content, task, bounds>>

\* The user saves a version of a file in the real tree, or deletes it.
SaveFile(p, v) ==
  /\ changes < MaxChanges
  /\ changes' = changes + 1
  /\ \/ /\ v # None
        /\ \E f \in File :
             /\ Unused(f)
             /\ content' = [content EXCEPT ![f] = DataOf(v)]
             /\ realFile' = [realFile EXCEPT ![p] = f]
     \/ /\ v = None
        /\ realFile[p] # None
        /\ realFile' = [realFile EXCEPT ![p] = None]
        /\ UNCHANGED content
  /\ same' = same \ {p}
  /\ UNCHANGED <<db, txn, blobFile, task, crashes, harm>>

\* The watcher brings the index up to date with the real tree.
IndexFile(p) ==
  /\ \/ /\ realFile[p] # None
        /\ p \notin same
        /\ \E h \in Hash : /\ content[realFile[p]] = DataOf(h)
                           /\ Write([db EXCEPT !.indexed = [db.indexed EXCEPT ![p] = h]])
        /\ same' = same \cup {p}
     \/ /\ realFile[p] = None
        /\ db.indexed[p] # None
        /\ Write([db EXCEPT !.indexed = [db.indexed EXCEPT ![p] = None]])
        /\ UNCHANGED same
  /\ UNCHANGED <<content, blobFile, realFile, task, bounds>>

-----------------------------------------------------------------------------
(* Download jobs *)

Goto(t, st) == task' = [task EXCEPT ![t] = st]

\* The job ends; its Blob is dropped.
Stop(t) == Goto(t, NoTask)

\* jobs::download looks at what is there.
StartJob(t, p, h) ==
  /\ task[t].pc = "idle"
  /\ db.version[p] # None
  /\ ~Verified(p)
  /\ Goto(t, [NoTask EXCEPT !.pc = "entry", !.path = p, !.hash = h,
                            !.mode = IF FullyWritten(p) THEN "verify" ELSE "download"])
  /\ UNCHANGED <<db, txn, disk, bounds>>

\* open_file: the read transaction.
ReadEntry(t) ==
  LET st == task[t]
      p == st.path
      b == db.blobOf[p]
  IN /\ st.pc = "entry"
     /\ \/ db.version[p] = None /\ Stop(t)
        \/ /\ db.version[p] # None
           /\ b # 0
           /\ Goto(t, [st EXCEPT !.pc = "open", !.id = b, !.version = db.version[p],
                                 !.avail = db.blob[b].written])
        \/ /\ db.version[p] # None
           /\ b = 0
           /\ Goto(t, [st EXCEPT !.pc = "create"])
     /\ UNCHANGED <<db, txn, disk, bounds>>

\* What a job does with the Blob st it has opened: a job for another version
\* than the Blob's is abandoned.
OpenedPastEnd(st) ==                       \* mutant: one part too many is asked for
  IF st.version # st.hash THEN NoTask
  ELSE [st EXCEPT !.pc = IF st.mode = "download" THEN "write" ELSE "hash",
                  !.todo = 1..(Parts + 1) \ st.avail]
OpenedAnyway(st) ==                        \* mutant: whatever the version of the Blob
  [st EXCEPT !.pc = IF st.mode = "download" THEN "write" ELSE "hash",
             !.todo = Part \ st.avail]
Opened(st) ==
  IF st.version # st.hash THEN NoTask
  ELSE [st EXCEPT !.pc = IF st.mode = "download" THEN "write" ELSE "hash",
                  !.todo = Part \ st.avail]

\* open_blob_file for an existing blob; a missing file is created.
OpenBlobFile(t) ==
  LET st == task[t]
  IN /\ st.pc = "open"
     /\ \/ /\ blobFile[st.id] # None
           /\ Goto(t, Opened([st EXCEPT !.file = blobFile[st.id]]))
           /\ UNCHANGED <<content, blobFile>>
        \/ /\ blobFile[st.id] = None
           /\ \E f \in File :
                /\ Unused(f)
                /\ content' = [content EXCEPT ![f] = Empty]
                /\ blobFile' = [blobFile EXCEPT ![st.id] = f]
                /\ Goto(t, Opened([st EXCEPT !.file = f]))
     /\ UNCHANGED <<db, txn, realFile, same, bounds>>

\* open_file: the write transaction, which reads the entry again.  The file
\* is created or, if it exists, emptied.
CreateBlob(t) ==
  LET st == task[t]
      p == st.path
  IN /\ st.pc = "create"
     /\ \/ /\ db.version[p] = None
           /\ Idle
           /\ Stop(t)
           /\ UNCHANGED <<db, txn, content, blobFile, harm>>
        \/ /\ db.version[p] # None
           /\ harm' = IF db.blobOf[p] = 0 THEN harm ELSE harm \cup {"emptied"}
           /\ \E b \in BlobId, f \in File :
                /\ BlobFor(p, b)
                /\ IF blobFile[b] = None THEN Unused(f) ELSE f = blobFile[b]
                /\ content' = [content EXCEPT ![f] = Empty]
                /\ blobFile' = [blobFile EXCEPT ![b] = f]
                /\ Begin(TablesOf(db.version, [db.blobOf EXCEPT ![p] = b],
                                  [db.blob EXCEPT ![b] = EntryFor(p)], db.indexed))
                /\ Goto(t, [st EXCEPT !.pc = "commit", !.id = b, !.file = f,
                              !.version = db.version[p], !.avail = EntryFor(p).written])
     /\ UNCHANGED <<realFile, same, changes, crashes>>

\* open_file returns once its transaction is committed.
BlobCreated(t) ==
  /\ task[t].pc = "commit"
  /\ Idle
  /\ Goto(t, Opened(task[t]))
  /\ UNCHANGED <<db, txn, disk, bounds>>

\* Blob::poll_write of the next part; what a peer sends may be of any version.
WritePart(t, i, h) ==
  LET st == task[t]
  IN /\ i \in st.todo
     /\ \A j \in st.todo : i <= j
     /\ content' = [content EXCEPT ![st.file] = [content[st.file] EXCEPT ![i] = h]]
     /\ Goto(t, [st EXCEPT !.todo = st.todo \ {i}, !.avail = st.avail \cup {i},
                           !.pending = st.pending \cup {i}])
     /\ UNCHANGED <<db, txn, blobFile, realFile, same, bounds>>

\* write_to_blob and the repair in verify.
WriteToBlob(t) ==
  /\ task[t].pc \in {"write", "repair"}
  /\ \E i \in Part, h \in Hash : WritePart(t, i, h)

\* write_to_blob ends, or fails halfway.
WriteEnds(t) ==
  LET st == task[t]
  IN /\ st.pc = "write"
     /\ \/ st.todo = {} /\ Goto(t, [st EXCEPT !.pc = "update"])
        \/ st.todo # {} /\ Goto(t, [st EXCEPT !.pc = "salvage"])
     /\ UNCHANGED <<db, txn, disk, bounds>>

\* mutant: all of the file counts as written
ExtendToEnd(st) ==
  Write([db EXCEPT !.blob = [db.blob EXCEPT ![st.id] =
           [used |-> 1, written |-> Part, verified |-> db.blob[st.id].verified]]])

\* extend_local_availability
ExtendAvailability(st) ==
  Write([db EXCEPT !.blob = [db.blob EXCEPT ![st.id] =
           [used |-> 1, written |-> db.blob[st.id].written \cup st.pending,
            verified |-> db.blob[st.id].verified]]])

\* Blob::update_db, then st: fails if the blob is no longer in the table.
UpdateDb(t, st) ==
  \/ task[t].pending = {} /\ Goto(t, st) /\ UNCHANGED <<db, txn>>
  \/ /\ task[t].pending # {}
     /\ db.blob[task[t].id].used = 1
     /\ ExtendAvailability(task[t])
     /\ Goto(t, st)
  \/ /\ task[t].pending # {}
     /\ db.blob[task[t].id].used = 0
     /\ Idle
     /\ Stop(t)
     /\ UNCHANGED <<db, txn>>

\* The end of download: verify opens the file anew.
UpdateAfterWrite(t) ==
  LET st == task[t]
  IN /\ \/ /\ st.pc = "update"
           /\ UpdateDb(t, [NoTask EXCEPT !.pc = "entry", !.mode = "verify",
                                         !.path = st.path, !.hash = st.hash])
        \/ /\ st.pc = "salvage"
           /\ UpdateDb(t, NoTask)
     /\ UNCHANGED <<disk, bounds>>

\* verify: compute_hash, which fails if a part is missing.  A wrong hash leads
\* to a repair, once.
ComputeHash(t) ==
  LET st == task[t]
  IN /\ st.pc \in {"hash", "rehash"}
     /\ \/ st.avail # Part /\ Stop(t)
        \/ /\ st.avail = Part
           /\ content[st.file] = DataOf(st.hash)
           /\ Goto(t, [st EXCEPT !.pc = "mark"])
        \/ /\ st.avail = Part
           /\ content[st.file] # DataOf(st.hash)
           /\ \/ st.pc = "hash" /\ Goto(t, [st EXCEPT !.pc = "repair", !.todo = Part])
              \/ Stop(t)
     /\ UNCHANGED <<db, txn, disk, bounds>>

\* The repair ends, or fails halfway.
RepairEnds(t) ==
  LET st == task[t]
  IN /\ st.pc = "repair"
     /\ \/ st.todo = {} /\ Goto(t, [st EXCEPT !.pc = "rehash"])
        \/ st.todo # {} /\ Stop(t)
     /\ UNCHANGED <<db, txn, disk, bounds>>

\* mark_verified: update_db ...
UpdateBeforeMark(t) ==
  /\ task[t].pc = "mark"
  /\ UpdateDb(t, [task[t] EXCEPT !.pc = "verified", !.pending = {}])
  /\ UNCHANGED <<disk, bounds>>

\* ... then set_content_hash, which fails if the blob is gone.
SetContentHash(t) ==
  LET st == task[t]
  IN /\ st.pc = "verified"
     /\ \/ /\ db.blob[st.id].used = 1
           /\ Write([db EXCEPT !.blob = [db.blob EXCEPT ![st.id] =
                      [used |-> 1, written |-> db.blob[st.id].written,
                       verified |-> st.version]]])
        \/ /\ db.blob[st.id].used = 0
           /\ Idle
           /\ UNCHANGED <<db, txn>>
     /\ Stop(t)
     /\ UNCHANGED <<disk, bounds>>

Job(t) ==
  \/ \E p \in Path, h \in Hash : StartJob(t, p, h)
  \/ ReadEntry(t)
  \/ OpenBlobFile(t)
  \/ CreateBlob(t)
  \/ BlobCreated(t)
  \/ WriteToBlob(t)
  \/ WriteEnds(t)
  \/ UpdateAfterWrite(t)
  \/ ComputeHash(t)
  \/ RepairEnds(t)
  \/ UpdateBeforeMark(t)
  \/ SetContentHash(t)

Next ==
  \/ \E p \in Path, v \in Hash \cup {None} : ChangeVersion(p, v) \/ SaveFile(p, v)
  \/ \E p \in Path : Realize(p) \/ Unrealize(p) \/ IndexFile(p)
  \/ \E t \in Task : Job(t)
  \/ Commit
  \/ Crash

Spec == Init /\ [][Next]_vars

-----------------------------------------------------------------------------
(* Properties *)

\* Files and blobs stay matched, before and after each commit: the blob of a
\* file is in the table, no two files share one, and no blob is left without
\* a file (do_write_default_file_entry, move_blob_if_matches, move_into_blob,
\* create_blob each change both tables).
Owned(d) ==
  /\ \A p \in Path : d.blobOf[p] # 0 => d.blob[d.blobOf[p]].used = 1
  /\ \A p, q \in Path : d.blobOf[p] = d.blobOf[q] /\ d.blobOf[p] # 0 => p = q
  /\ \A b \in BlobId : d.blob[b].used = 1 => \E p \in Path : d.blobOf[p] = b
BlobsOwned == Owned(db) /\ Owned(txn)

\* What a blob records as written is in its file: "Attempts to read outside of
\* available range will result in an I/O error" (Blob), and others succeed.
AvailableWritten ==
  Idle => \A b \in BlobId : \A i \in db.blob[b].written :
            blobFile[b] # None /\ content[blobFile[b]][i] # None

\* Apart from a crash between a file system change and its commit, and from
\* an open_file that empties a file, nothing takes data from a blob: not the
\* moves, not a change of version, not a crash at any other time.
AvailableUnlessHarmed == harm = {} => AvailableWritten

\* A verified blob holds the version it is verified for, although peers may
\* send data of another version and versions change during the download
\* (jobs::download, jobs::verify).
VerifiedUnlessHarmed ==
  Idle /\ harm = {} =>
    \A p \in Path : Verified(p) => /\ blobFile[db.blobOf[p]] # None
                                   /\ content[blobFile[db.blobOf[p]]] = DataOf(db.version[p])

\* The real tree never gets a file that is not a version as a whole, although
\* realize moves files that tasks may have open.
RealFilesWhole ==
  harm = {} => \A p \in Path : realFile[p] # None =>
                 \E h \in Hash : content[realFile[p]] = DataOf(h)

-----------------------------------------------------------------------------
(* The inductive invariant behind AvailableUnlessHarmed,                   *)
(* VerifiedUnlessHarmed and RealFilesWhole: what holds, with one task, as  *)
(* long as nothing did harm.  Files on disk are those of the transaction.  *)

\* The blob of p is marked as verified for the version p has.
Claims(d, p) ==
  /\ d.blobOf[p] # 0
  /\ d.version[p] # None
  /\ d.blob[d.blobOf[p]].verified = d.version[p]

\* What a transaction may do to a blob: it verifies none, and what was written
\* stays so unless the blob goes.
TxnModest ==
  /\ \A p \in Path : Claims(txn, p) => Claims(db, p) /\ txn.blobOf[p] = db.blobOf[p]
  /\ \A p \in Path : Claims(db, p) => db.blob[db.blobOf[p]].written = Part
  /\ \A b \in BlobId : db.blob[b].used = 1 /\ txn.blob[b].used = 1
                       => db.blob[b].written \subseteq txn.blob[b].written

\* A file is in one place.
FilesApart ==
  /\ \A b, c \in BlobId : blobFile[b] = blobFile[c] /\ blobFile[b] # None => b = c
  /\ \A p, q \in Path : realFile[p] = realFile[q] /\ realFile[p] # None => p = q
  /\ \A b \in BlobId, p \in Path : blobFile[b] = realFile[p] => blobFile[b] = None

\* Blobs hold what the tables say.
BlobsStored ==
  /\ \A b \in BlobId : \A i \in txn.blob[b].written :
       blobFile[b] # None /\ content[blobFile[b]][i] # None
  /\ \A p \in Path : Claims(txn, p) => /\ blobFile[txn.blobOf[p]] # None
                                       /\ content[blobFile[txn.blobOf[p]]] = DataOf(txn.version[p])

\* So do real files whose size and time are as indexed; the others are whole.
RealStored ==
  /\ \A p \in same : /\ realFile[p] # None
                      /\ db.indexed[p] = txn.indexed[p]
                      /\ txn.indexed[p] \in Hash
                      /\ content[realFile[p]] = DataOf(txn.indexed[p])
  /\ \A p \in Path : realFile[p] # None => \E h \in Hash : content[realFile[p]] = DataOf(h)

\* The blob b is as unrealize leaves it: its file is a real file of the
\* version it is for.
FromReal(b) ==
  /\ txn.blob[b].written = Part
  /\ blobFile[b] # None
  /\ \A q \in Path : txn.blobOf[q] = b => content[blobFile[b]] = DataOf(txn.version[q])

\* A job works on a blob that is not verified, be it by now that of another
\* file, and knows no more parts than are written.
HandleStale(st) ==
  /\ st.pc # "idle" => ~Claims(db, st.path) /\ ~Claims(txn, st.path)
  /\ st.pc \notin {"idle", "entry", "create"} =>
       /\ \A q \in Path : /\ db.blobOf[q] = st.id => ~Claims(db, q)
                          /\ txn.blobOf[q] = st.id => ~Claims(txn, q)
       /\ txn.blob[st.id].used = 1 => st.avail \subseteq txn.blob[st.id].written \cup st.pending

\* The file a job has open is that of its blob or nobody's, and if the blob has
\* another file it needs nothing from the job.
FileOpen(st) ==
  /\ st.file # None
  /\ \A p \in Path : realFile[p] # st.file
  /\ \A c \in BlobId : blobFile[c] = st.file => c = st.id
  /\ txn.blob[st.id].used = 1 => blobFile[st.id] = st.file \/ FromReal(st.id)
  /\ \A i \in st.pending : content[st.file][i] # None
HandleOpen(st) ==
  /\ st.pc \in {"idle", "entry", "create", "open"} => st.file = None
  /\ st.pc \in {"idle", "entry", "create", "open", "commit"} => st.pending = {}
  /\ st.pc \notin {"idle", "entry", "create", "open"} => FileOpen(st)

\* What a job has found out about the file it has open.
HandleRight(st) ==
  /\ st.pc \notin {"idle", "entry", "create", "open", "commit"} => st.version = st.hash
  /\ st.pc \in {"mark", "verified"} => st.avail = Part /\ content[st.file] = DataOf(st.hash)
  /\ st.pc = "verified" => st.pending = {}

HandleSound(st) == HandleStale(st) /\ HandleOpen(st) /\ HandleRight(st)

DataSound ==
  /\ TxnModest
  /\ FilesApart
  /\ BlobsStored
  /\ RealStored
  /\ \A t \in Task : HandleSound(task[t])

DataInv == harm = {} => DataSound

=============================================================================
