--------------------------- MODULE BlobstoreProofs ----------------------------
(***************************************************************************)
(* Proofs about Blobstore: types, and that files and blobs stay matched    *)
(* through every transaction, stale handle and crash.                      *)
(***************************************************************************)
EXTENDS Blobstore, TLAPS

USE NoneAssumption, BoundsAssumption DEF Part, BlobId

\* A task that runs a job has a path and, once it knows its blob, the id.
Ready(st) ==
  /\ st.pc # "idle" => st.path \in Path
  /\ st.pc \notin {"idle", "entry", "create"} => st.id \in BlobId
TasksReady == \A t \in Task : Ready(task[t])

BlobInv == TypeOK /\ TasksReady /\ BlobsOwned

-----------------------------------------------------------------------------
(* Tables *)

\* What a table record is made of.
LEMMA TablesFields ==
  ASSUME NEW d \in Tables
  PROVE  /\ d.version \in [Path -> Hash \cup {None}]
         /\ d.blobOf \in [Path -> 0..MaxBlob]
         /\ d.blob \in [BlobId -> Blob]
         /\ d.indexed \in [Path -> Hash \cup {None}]
  BY DEF Tables

\* What it is made of when it is made of given tables.
LEMMA TablesMade ==
  ASSUME NEW version \in [Path -> Hash \cup {None}], NEW blobOf \in [Path -> 0..MaxBlob],
         NEW blob \in [BlobId -> Blob], NEW indexed \in [Path -> Hash \cup {None}]
  PROVE  /\ TablesOf(version, blobOf, blob, indexed) \in Tables
         /\ TablesOf(version, blobOf, blob, indexed).blobOf = blobOf
         /\ TablesOf(version, blobOf, blob, indexed).blob = blob
  BY DEF Tables, TablesOf

\* Entries of the blob table.
LEMMA BlobTypes == NoBlob \in Blob /\ NewBlob \in Blob /\ NewBlob.used = 1 /\ NoBlob.used = 0
  BY DEF NoBlob, NewBlob, Blob

\* A file loses its blob, be its version changed or not.
LEMMA BlobRemoved ==
  ASSUME db \in Tables, Owned(db), NEW p \in Path,
         NEW d \in Tables, d.blobOf = [db.blobOf EXCEPT ![p] = 0], d.blob = WithoutBlob(p)
  PROVE  Owned(d)
<1>1. /\ db.blobOf \in [Path -> 0..MaxBlob] /\ db.blob \in [BlobId -> Blob]
      /\ \A q \in Path : d.blobOf[q] = IF q = p THEN 0 ELSE db.blobOf[q]
      /\ \A b \in BlobId : d.blob[b] = IF b = db.blobOf[p] THEN NoBlob ELSE db.blob[b]
  BY TablesFields DEF WithoutBlob
<1>2. ASSUME NEW q \in Path, d.blobOf[q] # 0 PROVE d.blob[d.blobOf[q]].used = 1
  <2>1. q # p /\ d.blobOf[q] = db.blobOf[q] /\ db.blobOf[q] \in BlobId
    BY <1>1, <1>2
  <2>2. db.blobOf[q] # db.blobOf[p] /\ db.blob[db.blobOf[q]].used = 1
    BY <1>2, <2>1 DEF Owned
  <2>3. QED
    BY <1>1, <2>1, <2>2
<1>3. ASSUME NEW q \in Path, NEW r \in Path, d.blobOf[q] = d.blobOf[r], d.blobOf[q] # 0
      PROVE  q = r
  BY <1>1, <1>3 DEF Owned
<1>4. ASSUME NEW b \in BlobId, d.blob[b].used = 1 PROVE \E q \in Path : d.blobOf[q] = b
  <2>1. b # db.blobOf[p] /\ db.blob[b].used = 1
    BY <1>1, <1>4, BlobTypes
  <2>2. PICK q \in Path : db.blobOf[q] = b
    BY <2>1 DEF Owned
  <2>3. QED
    BY <1>1, <2>1, <2>2
<1>5. QED
  BY <1>2, <1>3, <1>4 DEF Owned

\* A file gets the blob b, its own or a new one.
LEMMA BlobGiven ==
  ASSUME db \in Tables, Owned(db), NEW p \in Path, NEW b \in BlobId, BlobFor(p, b),
         NEW e \in Blob, e.used = 1,
         NEW d \in Tables, d.blobOf = [db.blobOf EXCEPT ![p] = b],
         d.blob = [db.blob EXCEPT ![b] = e]
  PROVE  Owned(d)
<1>1. /\ db.blobOf \in [Path -> 0..MaxBlob] /\ db.blob \in [BlobId -> Blob]
      /\ \A q \in Path : d.blobOf[q] = IF q = p THEN b ELSE db.blobOf[q]
      /\ \A c \in BlobId : d.blob[c] = IF c = b THEN e ELSE db.blob[c]
  BY TablesFields
<1>2. ASSUME NEW q \in Path, q # p PROVE db.blobOf[q] # b
  <2>1. CASE db.blobOf[p] # 0
    BY <1>1, <1>2, <2>1 DEF BlobFor, Owned
  <2>2. CASE db.blobOf[p] = 0
    <3>1. NextId(b)
      BY <2>2 DEF BlobFor
    <3>2. \A c \in BlobId : db.blob[c].used = 1 => c < b
      BY <3>1 DEF NextId
    <3>3. db.blob[b].used # 1
      BY <3>2
    <3>4. QED
      BY <1>2, <3>3 DEF Owned
  <2>3. QED
    BY <2>1, <2>2
<1>3. ASSUME NEW q \in Path, d.blobOf[q] # 0 PROVE d.blob[d.blobOf[q]].used = 1
  <2>1. CASE q = p
    BY <1>1, <2>1
  <2>2. CASE q # p
    <3>1. d.blobOf[q] = db.blobOf[q] /\ db.blobOf[q] \in BlobId /\ db.blobOf[q] # b
      BY <1>1, <1>2, <1>3, <2>2
    <3>2. db.blob[db.blobOf[q]].used = 1
      BY <1>3, <3>1 DEF Owned
    <3>3. QED
      BY <1>1, <3>1, <3>2
  <2>3. QED
    BY <2>1, <2>2
<1>4. ASSUME NEW q \in Path, NEW r \in Path, d.blobOf[q] = d.blobOf[r], d.blobOf[q] # 0
      PROVE  q = r
  BY <1>1, <1>2, <1>4 DEF Owned
<1>5. ASSUME NEW c \in BlobId, d.blob[c].used = 1 PROVE \E q \in Path : d.blobOf[q] = c
  <2>1. CASE c = b
    BY <1>1, <2>1
  <2>2. CASE c # b
    <3>1. db.blob[c].used = 1
      BY <1>1, <1>5, <2>2
    <3>2. PICK q \in Path : db.blobOf[q] = c
      BY <3>1 DEF Owned
    <3>3. db.blobOf[p] # c
      BY <2>2 DEF BlobFor
    <3>4. QED
      BY <1>1, <3>2, <3>3
  <2>3. QED
    BY <2>1, <2>2
<1>6. QED
  BY <1>3, <1>4, <1>5 DEF Owned

\* The entry of a blob changes, and its presence does not.
LEMMA BlobUpdated ==
  ASSUME db \in Tables, Owned(db), NEW b, NEW e \in Blob, e.used = 1,
         b \in BlobId => db.blob[b].used = 1,
         NEW d \in Tables, d.blobOf = db.blobOf, d.blob = [db.blob EXCEPT ![b] = e]
  PROVE  Owned(d)
<1>1. /\ db.blobOf \in [Path -> 0..MaxBlob] /\ db.blob \in [BlobId -> Blob]
      /\ \A c \in BlobId : d.blob[c] = IF c = b THEN e ELSE db.blob[c]
  BY TablesFields
<1>2. \A c \in BlobId : d.blob[c].used = db.blob[c].used
  BY <1>1
<1>3. \A q \in Path : db.blobOf[q] # 0 => db.blobOf[q] \in BlobId
  BY <1>1
<1>4. QED
  BY <1>2, <1>3 DEF Owned

-----------------------------------------------------------------------------
(* Tables and tasks after a step *)

\* A write transaction that leaves blobs owned, committed or not.
LEMMA Written ==
  ASSUME db \in Tables, Owned(db), NEW d \in Tables, Owned(d), Write(d) \/ Begin(d)
  PROVE  db' \in Tables /\ txn' \in Tables /\ BlobsOwned'
<1>1. CASE Write(d)
  BY <1>1 DEF Write, BlobsOwned, Owned
<1>2. CASE Begin(d)
  BY <1>2 DEF Begin, BlobsOwned, Owned
<1>3. QED
  BY <1>1, <1>2

\* A write transaction that gives a file its blob.
LEMMA BlobBegun ==
  ASSUME db \in Tables, Owned(db), NEW p \in Path, NEW b \in BlobId, BlobFor(p, b),
         NEW e \in Blob, e.used = 1, NEW indexed \in [Path -> Hash \cup {None}],
         Begin(TablesOf(db.version, [db.blobOf EXCEPT ![p] = b], [db.blob EXCEPT ![b] = e],
                        indexed))
  PROVE  db' \in Tables /\ txn' \in Tables /\ BlobsOwned'
<1> DEFINE blobOf == [db.blobOf EXCEPT ![p] = b]
           blob == [db.blob EXCEPT ![b] = e]
           d == TablesOf(db.version, blobOf, blob, indexed)
<1>1. /\ db.version \in [Path -> Hash \cup {None}]
      /\ blobOf \in [Path -> 0..MaxBlob]
      /\ blob \in [BlobId -> Blob]
  BY TablesFields
<1>2. d \in Tables /\ d.blobOf = blobOf /\ d.blob = blob
  <2> HIDE DEF blobOf, blob
  <2>1. QED
    BY <1>1 DEF Tables, TablesOf
<1>3. Begin(d)
  OBVIOUS
<1> HIDE DEF d
<1>4. Owned(d)
  BY <1>2, BlobGiven
<1>5. QED
  BY <1>2, <1>3, <1>4, Written

\* A step that leaves the tables alone.
LEMMA Unwritten ==
  ASSUME BlobInv, UNCHANGED <<db, txn>>
  PROVE  db' \in Tables /\ txn' \in Tables /\ BlobsOwned'
  BY DEF BlobInv, TypeOK, BlobsOwned, Owned

\* A task without a job.
LEMMA NoTaskReady == NoTask \in TaskState /\ Ready(NoTask) /\ NoTask.pc = "idle"
  BY DEF Ready, NoTask, TaskState, PC

\* A task moves on.
LEMMA Moved ==
  ASSUME BlobInv, NEW t \in Task, NEW st \in TaskState, Ready(st), Goto(t, st)
  PROVE  task' \in [Task -> TaskState] /\ TasksReady'
  BY DEF BlobInv, TypeOK, TasksReady, Goto, Ready

\* The other tasks' steps leave it alone.
LEMMA Unmoved ==
  ASSUME BlobInv, UNCHANGED task
  PROVE  task' \in [Task -> TaskState] /\ TasksReady'
  BY DEF BlobInv, TypeOK, TasksReady

\* What is left of the invariant.
LEMMA Assembled ==
  ASSUME db' \in Tables, txn' \in Tables, BlobsOwned', task' \in [Task -> TaskState], TasksReady',
         content' \in [File -> Data], blobFile' \in [BlobId -> File \cup {None}],
         realFile' \in [Path -> File \cup {None}], same' \in SUBSET Path,
         changes' \in 0..MaxChanges, crashes' \in 0..MaxCrashes,
         harm' \in SUBSET {"crash", "emptied"}
  PROVE  BlobInv'
  BY DEF BlobInv, TypeOK

-----------------------------------------------------------------------------
(* Steps that are not a task's *)

\* A new version of a file, or none.
LEMMA ChangeVersionStep ==
  ASSUME BlobInv, NEW p \in Path, NEW v \in Hash \cup {None}, ChangeVersion(p, v)
  PROVE  BlobInv'
<1> DEFINE d == TablesOf([db.version EXCEPT ![p] = v], [db.blobOf EXCEPT ![p] = 0],
                         WithoutBlob(p), db.indexed)
<1>1. db \in Tables /\ Owned(db)
  BY DEF BlobInv, TypeOK, BlobsOwned
<1>2. WithoutBlob(p) \in [BlobId -> Blob]
  BY <1>1, TablesFields, BlobTypes DEF WithoutBlob
<1>3. d \in Tables /\ d.blobOf = [db.blobOf EXCEPT ![p] = 0] /\ d.blob = WithoutBlob(p)
  <2>1. [db.version EXCEPT ![p] = v] \in [Path -> Hash \cup {None}]
        /\ [db.blobOf EXCEPT ![p] = 0] \in [Path -> 0..MaxBlob]
        /\ db.indexed \in [Path -> Hash \cup {None}]
    BY <1>1, TablesFields
  <2>2. QED
    BY <1>1, <1>2, <2>1, TablesMade
<1>4. Write(d) \/ Begin(d)
  BY DEF ChangeVersion
<1> HIDE DEF d
<1>5. db' \in Tables /\ txn' \in Tables /\ BlobsOwned'
  BY <1>1, <1>3, <1>4, BlobRemoved, Written
<1>6. blobFile' \in [BlobId -> File \cup {None}] /\ changes' \in 0..MaxChanges
  <2>1. changes \in 0..MaxChanges /\ changes < MaxChanges /\ changes' = changes + 1
    BY DEF ChangeVersion, BlobInv, TypeOK
  <2>2. blobFile' = blobFile \/ blobFile' = [blobFile EXCEPT ![db.blobOf[p]] = None]
    BY DEF ChangeVersion
  <2>3. blobFile \in [BlobId -> File \cup {None}]
    BY DEF BlobInv, TypeOK
  <2>4. blobFile' \in [BlobId -> File \cup {None}]
    BY <2>2, <2>3
  <2>5. changes' \in 0..MaxChanges
    BY <2>1
  <2>6. QED
    BY <2>4, <2>5
<1>7. UNCHANGED <<content, realFile, same, task, crashes, harm>>
  BY DEF ChangeVersion
<1>8. QED
  BY <1>5, <1>6, <1>7, Unmoved, Assembled DEF BlobInv, TypeOK

\* A blob becomes a real file.
LEMMA RealizeStep == ASSUME BlobInv, NEW p \in Path, Realize(p) PROVE BlobInv'
<1> DEFINE d == TablesOf(db.version, [db.blobOf EXCEPT ![p] = 0], WithoutBlob(p), db.indexed)
<1>1. db \in Tables /\ Owned(db)
  BY DEF BlobInv, TypeOK, BlobsOwned
<1>2. WithoutBlob(p) \in [BlobId -> Blob]
  BY <1>1, TablesFields, BlobTypes DEF WithoutBlob
<1>3. d \in Tables /\ d.blobOf = [db.blobOf EXCEPT ![p] = 0] /\ d.blob = WithoutBlob(p)
  <2>1. [db.blobOf EXCEPT ![p] = 0] \in [Path -> 0..MaxBlob]
        /\ db.indexed \in [Path -> Hash \cup {None}]
        /\ db.version \in [Path -> Hash \cup {None}]
    BY <1>1, TablesFields
  <2>2. QED
    BY <1>1, <1>2, <2>1, TablesMade
<1>4. Begin(d)
  BY DEF Realize
<1> HIDE DEF d
<1>5. db' \in Tables /\ txn' \in Tables /\ BlobsOwned'
  BY <1>1, <1>3, <1>4, BlobRemoved, Written
<1>6. db.blobOf[p] \in BlobId
  BY <1>1, TablesFields DEF Realize
<1>7. /\ blobFile' \in [BlobId -> File \cup {None}]
      /\ realFile' \in [Path -> File \cup {None}]
      /\ same' \in SUBSET Path
  BY <1>6 DEF Realize, BlobInv, TypeOK
<1>8. UNCHANGED <<content, task, changes, crashes, harm>>
  BY DEF Realize, bounds
<1>9. QED
  BY <1>5, <1>7, <1>8, Unmoved, Assembled DEF BlobInv, TypeOK

\* The entry an operation starts from is that of a blob in use.
LEMMA EntryForUsed ==
  ASSUME db \in Tables, Owned(db), NEW p \in Path
  PROVE  EntryFor(p) \in Blob /\ EntryFor(p).used = 1
<1>1. CASE db.blobOf[p] = 0
  BY <1>1, BlobTypes DEF EntryFor
<1>2. CASE db.blobOf[p] # 0
  <2>1. db.blobOf[p] \in BlobId /\ db.blob \in [BlobId -> Blob]
    BY <1>2, TablesFields
  <2>2. QED
    BY <1>2, <2>1 DEF EntryFor, Owned
<1>3. QED
  BY <1>1, <1>2

\* A real file becomes a blob.
LEMMA UnrealizeStep == ASSUME BlobInv, NEW p \in Path, Unrealize(p) PROVE BlobInv'
<1> DEFINE e == [used |-> 1, written |-> Part, verified |-> EntryFor(p).verified]
           indexed == [db.indexed EXCEPT ![p] = None]
<1>1. db \in Tables /\ Owned(db)
  BY DEF BlobInv, TypeOK, BlobsOwned
<1>2. PICK b \in BlobId :
        /\ BlobFor(p, b)
        /\ blobFile' = [blobFile EXCEPT ![b] = realFile[p]]
        /\ Begin(TablesOf(db.version, [db.blobOf EXCEPT ![p] = b],
                          [db.blob EXCEPT ![b] = e], indexed))
  BY DEF Unrealize
<1>3. e \in Blob /\ e.used = 1
  BY <1>1, EntryForUsed DEF Blob
<1>4. indexed \in [Path -> Hash \cup {None}]
  BY <1>1, TablesFields
<1> HIDE DEF e, indexed
<1>5. db' \in Tables /\ txn' \in Tables /\ BlobsOwned'
  BY <1>1, <1>2, <1>3, <1>4, BlobBegun
<1>6. /\ blobFile' \in [BlobId -> File \cup {None}]
      /\ realFile' \in [Path -> File \cup {None}]
      /\ same' \in SUBSET Path
  BY <1>2 DEF Unrealize, BlobInv, TypeOK
<1>7. UNCHANGED <<content, task, changes, crashes, harm>>
  BY DEF Unrealize, bounds
<1>8. QED
  BY <1>5, <1>6, <1>7, Unmoved, Assembled DEF BlobInv, TypeOK

\* Data of one version throughout.
LEMMA DataType == Empty \in Data /\ \A h \in Hash \cup {None} : DataOf(h) \in Data
  BY DEF Empty, Data, DataOf

\* The user's changes of the real tree.
LEMMA SaveFileStep ==
  ASSUME BlobInv, NEW p \in Path, NEW v \in Hash \cup {None}, SaveFile(p, v)
  PROVE  BlobInv'
<1>1. content' \in [File -> Data] /\ realFile' \in [Path -> File \cup {None}]
  BY DataType DEF SaveFile, BlobInv, TypeOK
<1>2. changes' \in 0..MaxChanges /\ same' \in SUBSET Path
  BY DEF SaveFile, BlobInv, TypeOK
<1>3. UNCHANGED <<db, txn, blobFile, task, crashes, harm>>
  BY DEF SaveFile
<1>4. QED
  BY <1>1, <1>2, <1>3, Unwritten, Unmoved, Assembled DEF BlobInv, TypeOK

\* The watcher's changes of the index.
LEMMA IndexFileStep == ASSUME BlobInv, NEW p \in Path, IndexFile(p) PROVE BlobInv'
<1> DEFINE d(h) == [db EXCEPT !.indexed = [db.indexed EXCEPT ![p] = h]]
<1>1. db \in Tables /\ Owned(db)
  BY DEF BlobInv, TypeOK, BlobsOwned
<1>2. PICK h \in Hash \cup {None} : Write(d(h))
  BY DEF IndexFile
<1>3. d(h) \in Tables /\ d(h).blobOf = db.blobOf /\ d(h).blob = db.blob
  BY <1>1 DEF Tables
<1>4. Owned(d(h))
  BY <1>1, <1>3 DEF Owned
<1> HIDE DEF d
<1>5. db' \in Tables /\ txn' \in Tables /\ BlobsOwned'
  BY <1>1, <1>2, <1>3, <1>4, Written
<1>6. same' \in SUBSET Path
  BY DEF IndexFile, BlobInv, TypeOK
<1>7. UNCHANGED <<content, blobFile, realFile, task, changes, crashes, harm>>
  BY DEF IndexFile, bounds
<1>8. QED
  BY <1>5, <1>6, <1>7, Unmoved, Assembled DEF BlobInv, TypeOK

\* A commit makes the tables of the transaction the committed ones.
LEMMA CommitStep == ASSUME BlobInv, Commit PROVE BlobInv'
<1>1. db' \in Tables /\ txn' \in Tables /\ BlobsOwned'
  BY DEF BlobInv, TypeOK, BlobsOwned, Owned, Commit
<1>2. QED
  BY <1>1, Unmoved, Assembled DEF Commit, BlobInv, TypeOK, disk, bounds

\* A crash forgets the transaction and the tasks.
LEMMA CrashStep == ASSUME BlobInv, Crash PROVE BlobInv'
<1>1. db' \in Tables /\ txn' \in Tables /\ BlobsOwned'
  BY DEF BlobInv, TypeOK, BlobsOwned, Owned, Crash
<1>2. task' \in [Task -> TaskState] /\ TasksReady'
  BY NoTaskReady DEF Crash, TasksReady
<1>3. crashes' \in 0..MaxCrashes /\ harm' \in SUBSET {"crash", "emptied"}
  BY DEF Crash, BlobInv, TypeOK
<1>4. QED
  BY <1>1, <1>2, <1>3, Assembled DEF Crash, BlobInv, TypeOK, disk

-----------------------------------------------------------------------------
(* Steps of a task *)

\* What a job does with a Blob it has opened.
LEMMA OpenedReady ==
  ASSUME NEW st \in TaskState, Ready(st), st.pc # "idle", st.id \in BlobId
  PROVE  Opened(st) \in TaskState /\ Ready(Opened(st))
<1>1. CASE st.version # st.hash
  BY <1>1, NoTaskReady DEF Opened
<1>2. CASE st.version = st.hash
  BY <1>2 DEF Opened, TaskState, Ready, PC
<1>3. QED
  BY <1>1, <1>2

\* A task's state is in order when a step begins.
LEMMA TaskReady ==
  ASSUME BlobInv, NEW t \in Task
  PROVE  task[t] \in TaskState /\ Ready(task[t])
  BY DEF BlobInv, TypeOK, TasksReady

\* A step that only moves a task.
LEMMA OnlyMoved ==
  ASSUME BlobInv, NEW t \in Task, NEW st \in TaskState, Ready(st), Goto(t, st),
         UNCHANGED <<db, txn, disk, bounds>>
  PROVE  BlobInv'
<1>1. task' \in [Task -> TaskState] /\ TasksReady'
  BY Moved
<1>2. QED
  BY <1>1, Unwritten, Assembled DEF BlobInv, TypeOK, disk, bounds

\* A job starts.
LEMMA StartJobStep ==
  ASSUME BlobInv, NEW t \in Task, NEW p \in Path, NEW h \in Hash, StartJob(t, p, h)
  PROVE  BlobInv'
<1> DEFINE mode == IF FullyWritten(p) THEN "verify" ELSE "download"
           st == [NoTask EXCEPT !.pc = "entry", !.path = p, !.hash = h, !.mode = mode]
<1>1. st \in TaskState /\ Ready(st)
  <2>1. mode \in {"download", "verify"}
    OBVIOUS
  <2> HIDE DEF mode
  <2>2. QED
    BY <2>1, NoTaskReady DEF TaskState, Ready, PC
<1>2. Goto(t, st) /\ UNCHANGED <<db, txn, disk, bounds>>
  BY DEF StartJob
<1> HIDE DEF st
<1>3. QED
  BY <1>1, <1>2, OnlyMoved

\* A job reads the entry of its file.
LEMMA ReadEntryStep == ASSUME BlobInv, NEW t \in Task, ReadEntry(t) PROVE BlobInv'
<1> DEFINE st == task[t]
           b == db.blobOf[st.path]
           opening == [st EXCEPT !.pc = "open", !.id = b, !.version = db.version[st.path],
                                 !.avail = db.blob[b].written]
           creating == [st EXCEPT !.pc = "create"]
<1>1. st \in TaskState /\ Ready(st) /\ st.pc = "entry" /\ st.path \in Path
  BY TaskReady DEF ReadEntry, Ready
<1>2. /\ db.blobOf \in [Path -> 0..MaxBlob] /\ db.version \in [Path -> Hash \cup {None}]
      /\ db.blob \in [BlobId -> Blob]
  BY TablesFields DEF BlobInv, TypeOK
<1>3. b # 0 => b \in BlobId /\ db.blob[b].written \in SUBSET Part
  BY <1>1, <1>2 DEF Blob
<1>4. db.version[st.path] \in Hash \cup {None}
  BY <1>1, <1>2
<1>5. creating \in TaskState /\ Ready(creating)
  <2> HIDE DEF st
  <2>1. QED
    BY <1>1 DEF TaskState, Ready, PC
<1>6. ASSUME b # 0 PROVE opening \in TaskState /\ Ready(opening)
  <2> DEFINE v == db.version[st.path]
             w == db.blob[b].written
  <2>1. b \in BlobId /\ v \in Hash \cup {None} /\ w \in SUBSET Part
    BY <1>3, <1>4, <1>6
  <2> HIDE DEF st, b, v, w
  <2>2. [st EXCEPT !.pc = "open", !.id = b, !.version = v, !.avail = w] \in TaskState
    <3>1. "open" \in PC /\ b \in 0..MaxBlob
      BY <2>1 DEF PC
    <3>2. QED
      BY <1>1, <2>1, <3>1 DEF TaskState
  <2>3. Ready([st EXCEPT !.pc = "open", !.id = b, !.version = v, !.avail = w])
    BY <1>1, <2>1 DEF TaskState, Ready
  <2>4. QED
    BY <2>2, <2>3 DEF v, w
<1>7. UNCHANGED <<db, txn, disk, bounds>>
  BY DEF ReadEntry
<1>8. \/ Goto(t, NoTask)
      \/ b # 0 /\ Goto(t, opening)
      \/ Goto(t, creating)
  BY DEF ReadEntry, Stop
<1> HIDE DEF opening, creating
<1>9. QED
  BY <1>5, <1>6, <1>7, <1>8, NoTaskReady, OnlyMoved

\* A job opens the file of its blob.
LEMMA OpenBlobFileStep == ASSUME BlobInv, NEW t \in Task, OpenBlobFile(t) PROVE BlobInv'
<1> DEFINE st == task[t]
<1>1. st \in TaskState /\ Ready(st) /\ st.pc = "open" /\ st.id \in BlobId
  BY TaskReady DEF OpenBlobFile, Ready
<1>2. PICK f \in File : /\ Goto(t, Opened([st EXCEPT !.file = f]))
                        /\ \/ UNCHANGED <<content, blobFile>>
                           \/ /\ content' = [content EXCEPT ![f] = Empty]
                              /\ blobFile' = [blobFile EXCEPT ![st.id] = f]
  BY <1>1 DEF OpenBlobFile, BlobInv, TypeOK
<1>3. Opened([st EXCEPT !.file = f]) \in TaskState /\ Ready(Opened([st EXCEPT !.file = f]))
  <2> HIDE DEF st
  <2>1. /\ [st EXCEPT !.file = f] \in TaskState
        /\ [st EXCEPT !.file = f].pc = "open"
        /\ [st EXCEPT !.file = f].id \in BlobId
    BY <1>1 DEF TaskState
  <2>2. Ready([st EXCEPT !.file = f])
    BY <1>1 DEF TaskState, Ready
  <2>3. QED
    BY <2>1, <2>2, OpenedReady
<1>4. task' \in [Task -> TaskState] /\ TasksReady'
  BY <1>2, <1>3, Moved
<1>5. content' \in [File -> Data] /\ blobFile' \in [BlobId -> File \cup {None}]
  BY <1>2, DataType DEF BlobInv, TypeOK
<1>6. UNCHANGED <<db, txn, realFile, same, changes, crashes, harm>>
  BY DEF OpenBlobFile, bounds
<1>7. QED
  BY <1>4, <1>5, <1>6, Unwritten, Assembled DEF BlobInv, TypeOK

\* A job creates its blob.
LEMMA CreateBlobStep == ASSUME BlobInv, NEW t \in Task, CreateBlob(t) PROVE BlobInv'
<1> DEFINE st == task[t]
           p == st.path
<1>1. st \in TaskState /\ Ready(st) /\ st.pc = "create" /\ p \in Path
  BY TaskReady DEF CreateBlob, Ready
<1>2. UNCHANGED <<realFile, same, changes, crashes>> /\ harm' \in SUBSET {"crash", "emptied"}
  BY DEF CreateBlob, BlobInv, TypeOK
<1>3. CASE db.version[p] = None
  <2>1. Goto(t, NoTask) /\ UNCHANGED <<db, txn, content, blobFile>>
    BY <1>3 DEF CreateBlob, Stop
  <2>2. QED
    BY <1>2, <2>1, NoTaskReady, Moved, Unwritten, Assembled DEF BlobInv, TypeOK
<1>4. CASE db.version[p] # None
  <2>1. db \in Tables /\ Owned(db) /\ EntryFor(p) \in Blob /\ EntryFor(p).used = 1
    BY <1>1, EntryForUsed DEF BlobInv, TypeOK, BlobsOwned
  <2> DEFINE v == db.version[p]
             w == EntryFor(p).written
  <2>2. v \in Hash \cup {None} /\ w \in SUBSET Part /\ db.indexed \in [Path -> Hash \cup {None}]
    BY <1>1, <2>1, TablesFields DEF Blob
  <2>3. PICK b \in BlobId, f \in File :
          /\ BlobFor(p, b)
          /\ content' = [content EXCEPT ![f] = Empty]
          /\ blobFile' = [blobFile EXCEPT ![b] = f]
          /\ Begin(TablesOf(db.version, [db.blobOf EXCEPT ![p] = b],
                            [db.blob EXCEPT ![b] = EntryFor(p)], db.indexed))
          /\ Goto(t, [st EXCEPT !.pc = "commit", !.id = b, !.file = f,
                                !.version = v, !.avail = w])
    BY <1>4 DEF CreateBlob
  <2>4. db' \in Tables /\ txn' \in Tables /\ BlobsOwned'
    BY <1>1, <2>1, <2>2, <2>3, BlobBegun
  <2>5. content' \in [File -> Data] /\ blobFile' \in [BlobId -> File \cup {None}]
    BY <2>3, DataType DEF BlobInv, TypeOK
  <2> DEFINE next == [st EXCEPT !.pc = "commit", !.id = b, !.file = f, !.version = v, !.avail = w]
  <2>6. next \in TaskState /\ Ready(next)
    <3> HIDE DEF st, v, w
    <3>1. "commit" \in PC /\ b \in 0..MaxBlob /\ st.path \in Path
      BY <1>1 DEF PC
    <3>2. next \in TaskState
      BY <1>1, <2>2, <3>1 DEF TaskState
    <3>3. Ready(next)
      BY <1>1, <3>1 DEF TaskState, Ready
    <3>4. QED
      BY <3>2, <3>3
  <2>7. Goto(t, next)
    BY <2>3
  <2> HIDE DEF next
  <2>8. task' \in [Task -> TaskState] /\ TasksReady'
    BY <2>6, <2>7, Moved
  <2>9. QED
    BY <1>2, <2>4, <2>5, <2>8, Assembled DEF BlobInv, TypeOK
<1>5. QED
  BY <1>3, <1>4

\* The blob is there; the job goes on.
LEMMA BlobCreatedStep == ASSUME BlobInv, NEW t \in Task, BlobCreated(t) PROVE BlobInv'
<1>1. task[t] \in TaskState /\ Ready(task[t]) /\ task[t].pc = "commit" /\ task[t].id \in BlobId
  BY TaskReady DEF BlobCreated, Ready
<1>2. Opened(task[t]) \in TaskState /\ Ready(Opened(task[t]))
  BY <1>1, OpenedReady
<1>3. Goto(t, Opened(task[t])) /\ UNCHANGED <<db, txn, disk, bounds>>
  BY DEF BlobCreated
<1>4. QED
  BY <1>2, <1>3, OnlyMoved

\* A task with a blob moves to a step of the same job.
LEMMA Advanced ==
  ASSUME NEW st \in TaskState, Ready(st), st.path \in Path, st.id \in BlobId,
         NEW pc \in PC, NEW todo \in SUBSET Part
  PROVE  /\ [st EXCEPT !.pc = pc] \in TaskState
         /\ Ready([st EXCEPT !.pc = pc])
         /\ [st EXCEPT !.pc = pc, !.todo = todo] \in TaskState
         /\ Ready([st EXCEPT !.pc = pc, !.todo = todo])
  BY DEF TaskState, Ready

\* A part is written.
LEMMA WriteToBlobStep == ASSUME BlobInv, NEW t \in Task, WriteToBlob(t) PROVE BlobInv'
<1> DEFINE st == task[t]
<1>1. st \in TaskState /\ Ready(st) /\ st.path \in Path /\ st.id \in BlobId
  BY TaskReady DEF WriteToBlob, Ready
<1>2. PICK i \in Part, h \in Hash : WritePart(t, i, h)
  BY DEF WriteToBlob
<1> DEFINE next == [st EXCEPT !.todo = st.todo \ {i}, !.avail = st.avail \cup {i},
                              !.pending = st.pending \cup {i}]
<1>3. next \in TaskState /\ Ready(next)
  <2> HIDE DEF st
  <2>1. QED
    BY <1>1 DEF TaskState, Ready
<1>4. Goto(t, next)
  BY <1>2 DEF WritePart
<1> HIDE DEF next
<1>5. task' \in [Task -> TaskState] /\ TasksReady'
  BY <1>3, <1>4, Moved
<1>6. content' \in [File -> Data]
  <2>1. content \in [File -> Data]
        /\ content' = [content EXCEPT ![st.file] = [content[st.file] EXCEPT ![i] = h]]
    BY <1>2 DEF WritePart, BlobInv, TypeOK
  <2>2. st.file \in File => [content[st.file] EXCEPT ![i] = h] \in Data
    BY <2>1 DEF Data
  <2>3. QED
    BY <2>1, <2>2
<1>7. UNCHANGED <<db, txn, blobFile, realFile, same, changes, crashes, harm>>
  BY <1>2 DEF WritePart, bounds
<1>8. QED
  BY <1>5, <1>6, <1>7, Unwritten, Assembled DEF BlobInv, TypeOK

\* The writes end.
LEMMA WriteEndsStep == ASSUME BlobInv, NEW t \in Task, WriteEnds(t) PROVE BlobInv'
<1>1. task[t] \in TaskState /\ Ready(task[t]) /\ task[t].path \in Path /\ task[t].id \in BlobId
  BY TaskReady DEF WriteEnds, Ready
<1>2. PICK pc \in PC : Goto(t, [task[t] EXCEPT !.pc = pc])
  BY DEF WriteEnds, PC
<1>3. UNCHANGED <<db, txn, disk, bounds>>
  BY DEF WriteEnds
<1>4. QED
  BY <1>1, <1>2, <1>3, Advanced, OnlyMoved

\* The content is compared with the hash.
LEMMA ComputeHashStep == ASSUME BlobInv, NEW t \in Task, ComputeHash(t) PROVE BlobInv'
<1>1. task[t] \in TaskState /\ Ready(task[t]) /\ task[t].path \in Path /\ task[t].id \in BlobId
  BY TaskReady DEF ComputeHash, Ready
<1>2. "mark" \in PC /\ "repair" \in PC /\ Part \in SUBSET Part
  BY DEF PC
<1>3. \/ Goto(t, NoTask)
      \/ Goto(t, [task[t] EXCEPT !.pc = "mark"])
      \/ Goto(t, [task[t] EXCEPT !.pc = "repair", !.todo = Part])
  BY DEF ComputeHash, Stop
<1>4. UNCHANGED <<db, txn, disk, bounds>>
  BY DEF ComputeHash
<1>5. CASE Goto(t, NoTask)
  BY <1>4, <1>5, NoTaskReady, OnlyMoved
<1>6. CASE Goto(t, [task[t] EXCEPT !.pc = "mark"])
  BY <1>1, <1>2, <1>4, <1>6, Advanced, OnlyMoved
<1>7. CASE Goto(t, [task[t] EXCEPT !.pc = "repair", !.todo = Part])
  BY <1>1, <1>2, <1>4, <1>7, Advanced, OnlyMoved
<1>8. QED
  BY <1>3, <1>5, <1>6, <1>7

\* The repair ends.
LEMMA RepairEndsStep == ASSUME BlobInv, NEW t \in Task, RepairEnds(t) PROVE BlobInv'
<1>1. task[t] \in TaskState /\ Ready(task[t]) /\ task[t].path \in Path /\ task[t].id \in BlobId
  BY TaskReady DEF RepairEnds, Ready
<1>2. "rehash" \in PC
  BY DEF PC
<1>3. Goto(t, NoTask) \/ Goto(t, [task[t] EXCEPT !.pc = "rehash"])
  BY DEF RepairEnds, Stop
<1>4. UNCHANGED <<db, txn, disk, bounds>>
  BY DEF RepairEnds
<1>5. QED
  BY <1>1, <1>2, <1>3, <1>4, NoTaskReady, Advanced, OnlyMoved

\* The entry of a blob that is there is written.
LEMMA EntryWritten ==
  ASSUME BlobInv, NEW b \in BlobId, db.blob[b].used = 1, NEW e \in Blob, e.used = 1,
         Write([db EXCEPT !.blob = [db.blob EXCEPT ![b] = e]])
  PROVE  db' \in Tables /\ txn' \in Tables /\ BlobsOwned'
<1> DEFINE blob == [db.blob EXCEPT ![b] = e]
           d == [db EXCEPT !.blob = blob]
<1>1. db \in Tables /\ Owned(db)
  BY DEF BlobInv, TypeOK, BlobsOwned
<1>2. blob \in [BlobId -> Blob]
  BY <1>1, TablesFields
<1>3. d \in Tables /\ d.blobOf = db.blobOf /\ d.blob = blob
  <2> HIDE DEF blob
  <2>1. QED
    BY <1>1, <1>2 DEF Tables
<1>4. Write(d)
  OBVIOUS
<1> HIDE DEF d
<1>5. Owned(d)
  BY <1>1, <1>3, BlobUpdated
<1>6. QED
  BY <1>1, <1>3, <1>4, <1>5, Written

\* update_db, whatever the job does next.
LEMMA UpdateDbStep ==
  ASSUME BlobInv, NEW t \in Task, task[t].id \in BlobId, NEW st \in TaskState, Ready(st),
         UpdateDb(t, st), UNCHANGED <<disk, bounds>>
  PROVE  BlobInv'
<1>1. CASE Goto(t, st) /\ UNCHANGED <<db, txn>>
  BY <1>1, OnlyMoved
<1>2. CASE Goto(t, NoTask) /\ UNCHANGED <<db, txn>>
  BY <1>2, NoTaskReady, OnlyMoved
<1>3. CASE /\ db.blob[task[t].id].used = 1
           /\ ExtendAvailability(task[t])
           /\ Goto(t, st)
  <2> DEFINE b == task[t].id
             e == [used |-> 1, written |-> db.blob[b].written \cup task[t].pending,
                   verified |-> db.blob[b].verified]
  <2>1. db.blob[b] \in Blob /\ task[t].pending \in SUBSET Part
    BY TablesFields, TaskReady DEF BlobInv, TypeOK, TaskState
  <2>2. e \in Blob /\ e.used = 1
    BY <2>1 DEF Blob
  <2>3. Write([db EXCEPT !.blob = [db.blob EXCEPT ![b] = e]])
    BY <1>3 DEF ExtendAvailability
  <2> HIDE DEF e
  <2>4. db' \in Tables /\ txn' \in Tables /\ BlobsOwned'
    BY <1>3, <2>2, <2>3, EntryWritten
  <2>5. task' \in [Task -> TaskState] /\ TasksReady'
    BY <1>3, Moved
  <2>6. QED
    BY <2>4, <2>5, Assembled DEF BlobInv, TypeOK, disk, bounds
<1>4. QED
  BY <1>1, <1>2, <1>3 DEF UpdateDb, Stop

\* The database learns what a download wrote.
LEMMA UpdateAfterWriteStep == ASSUME BlobInv, NEW t \in Task, UpdateAfterWrite(t) PROVE BlobInv'
<1> DEFINE st == task[t]
           next == [NoTask EXCEPT !.pc = "entry", !.mode = "verify",
                                  !.path = st.path, !.hash = st.hash]
<1>1. st \in TaskState /\ Ready(st) /\ st.path \in Path /\ st.id \in BlobId
  BY TaskReady DEF UpdateAfterWrite, Ready
<1>2. next \in TaskState /\ Ready(next)
  <2> DEFINE p == st.path
             h == st.hash
  <2>1. p \in Path /\ h \in Hash \cup {None} /\ "entry" \in PC
    BY <1>1 DEF TaskState, PC
  <2> HIDE DEF p, h
  <2>2. LET n == [NoTask EXCEPT !.pc = "entry", !.mode = "verify", !.path = p, !.hash = h]
        IN n \in TaskState /\ Ready(n)
    BY <2>1, NoTaskReady DEF TaskState, Ready
  <2>3. QED
    BY <2>2 DEF p, h
<1>3. UpdateDb(t, next) \/ UpdateDb(t, NoTask)
  BY DEF UpdateAfterWrite
<1>4. UNCHANGED <<disk, bounds>>
  BY DEF UpdateAfterWrite
<1> HIDE DEF next
<1>5. QED
  BY <1>1, <1>2, <1>3, <1>4, NoTaskReady, UpdateDbStep

\* The database learns what a repair wrote.
LEMMA UpdateBeforeMarkStep == ASSUME BlobInv, NEW t \in Task, UpdateBeforeMark(t) PROVE BlobInv'
<1> DEFINE st == task[t]
           next == [st EXCEPT !.pc = "verified", !.pending = {}]
<1>1. st \in TaskState /\ Ready(st) /\ st.path \in Path /\ st.id \in BlobId
  BY TaskReady DEF UpdateBeforeMark, Ready
<1>2. next \in TaskState /\ Ready(next)
  <2> HIDE DEF st
  <2>1. "verified" \in PC
    BY DEF PC
  <2>2. QED
    BY <1>1, <2>1 DEF TaskState, Ready
<1>3. UpdateDb(t, next) /\ UNCHANGED <<disk, bounds>>
  BY DEF UpdateBeforeMark
<1> HIDE DEF next
<1>4. QED
  BY <1>1, <1>2, <1>3, UpdateDbStep

\* The blob is marked verified.
LEMMA SetContentHashStep == ASSUME BlobInv, NEW t \in Task, SetContentHash(t) PROVE BlobInv'
<1> DEFINE b == task[t].id
           e == [used |-> 1, written |-> db.blob[b].written, verified |-> task[t].version]
<1>1. task[t] \in TaskState /\ b \in BlobId
  BY TaskReady DEF SetContentHash, Ready
<1>2. Goto(t, NoTask) /\ UNCHANGED <<disk, bounds>>
  BY DEF SetContentHash, Stop
<1>3. CASE UNCHANGED <<db, txn>>
  BY <1>2, <1>3, NoTaskReady, OnlyMoved
<1>4. CASE db.blob[b].used = 1 /\ Write([db EXCEPT !.blob = [db.blob EXCEPT ![b] = e]])
  <2>1. e \in Blob /\ e.used = 1
    BY <1>1, TablesFields DEF BlobInv, TypeOK, Blob, TaskState
  <2> HIDE DEF e
  <2>2. db' \in Tables /\ txn' \in Tables /\ BlobsOwned'
    BY <1>1, <1>4, <2>1, EntryWritten
  <2>3. task' \in [Task -> TaskState] /\ TasksReady'
    BY <1>2, NoTaskReady, Moved
  <2>4. QED
    BY <1>2, <2>2, <2>3, Assembled DEF BlobInv, TypeOK, disk, bounds
<1>5. QED
  BY <1>3, <1>4 DEF SetContentHash

-----------------------------------------------------------------------------
(* Theorems *)

LEMMA BlobInvInit == Init => BlobInv
<1> SUFFICES ASSUME Init PROVE BlobInv
  OBVIOUS
<1>1. PICK v \in [Path -> Hash] :
        db = TablesOf(v, [p \in Path |-> 0], [b \in BlobId |-> NoBlob], [p \in Path |-> None])
  BY DEF Init
<1>2. db \in Tables /\ db.blobOf = [p \in Path |-> 0] /\ db.blob = [b \in BlobId |-> NoBlob]
  BY <1>1, BlobTypes DEF Tables, TablesOf
<1>3. Owned(db)
  BY <1>2, BlobTypes DEF Owned
<1>4. task \in [Task -> TaskState] /\ TasksReady
  BY NoTaskReady DEF Init, TasksReady
<1>5. QED
  BY <1>2, <1>3, <1>4, DataType DEF Init, BlobInv, TypeOK, BlobsOwned

LEMMA BlobInvStep == BlobInv /\ [Next]_vars => BlobInv'
<1> SUFFICES ASSUME BlobInv, [Next]_vars PROVE BlobInv'
  OBVIOUS
<1>1. CASE UNCHANGED vars
  BY <1>1, Unwritten, Unmoved, Assembled DEF vars, disk, bounds, BlobInv, TypeOK
<1>2. ASSUME NEW p \in Path, NEW v \in Hash \cup {None}, ChangeVersion(p, v) \/ SaveFile(p, v)
      PROVE  BlobInv'
  BY <1>2, ChangeVersionStep, SaveFileStep
<1>3. ASSUME NEW p \in Path, Realize(p) \/ Unrealize(p) \/ IndexFile(p) PROVE BlobInv'
  BY <1>3, RealizeStep, UnrealizeStep, IndexFileStep
<1>4. ASSUME NEW t \in Task, Job(t) PROVE BlobInv'
  BY <1>4, StartJobStep, ReadEntryStep, OpenBlobFileStep, CreateBlobStep, BlobCreatedStep,
     WriteToBlobStep, WriteEndsStep, UpdateAfterWriteStep, ComputeHashStep, RepairEndsStep,
     UpdateBeforeMarkStep, SetContentHashStep DEF Job
<1>5. CASE Commit
  BY <1>5, CommitStep
<1>6. CASE Crash
  BY <1>6, CrashStep
<1>7. QED
  BY <1>1, <1>2, <1>3, <1>4, <1>5, <1>6 DEF Next

\* Tables, files and tasks keep their types through every job, move and crash.
THEOREM BlobstoreTypeCorrect == Spec => []TypeOK
<1>1. BlobInv => TypeOK
  BY DEF BlobInv
<1>2. QED
  BY <1>1, BlobInvInit, BlobInvStep, PTL DEF Spec

\* Files and blobs stay matched, in the committed tables and in those a
\* transaction is about to commit, for any number of files, blobs, tasks and
\* crashes: a stale handle never brings back the entry of a deleted blob, and
\* two files never get the same blob although ids are used again.
THEOREM BlobsStayOwned == Spec => []BlobsOwned
<1>1. BlobInv => BlobsOwned
  BY DEF BlobInv
<1>2. QED
  BY <1>1, BlobInvInit, BlobInvStep, PTL DEF Spec

-----------------------------------------------------------------------------
(* What the blobs and the real files hold, with one task.                  *)

\* Jobs run one at a time.  With two, one may hold the id of a blob that was
\* removed and whose id the other's blob was given.
OneTask == \E t : Task = {t}

\* The task has moved to st.
LEMMA SoundTask ==
  ASSUME OneTask, BlobInv, NEW t \in Task, NEW st, Goto(t, st), HandleSound(st)'
  PROVE  \A u \in Task : HandleSound(task[u])'
<1>1. \A u \in Task : u = t
  BY DEF OneTask
<1>2. task'[t] = st
  BY DEF Goto, BlobInv, TypeOK
<1>3. QED
  BY <1>1, <1>2 DEF HandleSound, HandleStale, HandleOpen, FileOpen, HandleRight

\* A task without a job has nothing to be wrong about.
LEMMA SoundNoTask == HandleSound(NoTask)'
<1>1. NoTask.pc = "idle" /\ NoTask.file = None /\ NoTask.pending = {}
  BY DEF NoTask
<1>2. QED
  BY <1>1 DEF HandleSound, HandleStale, HandleOpen, HandleRight

\* A step that leaves the tables and the disk alone.
LEMMA SoundKept ==
  ASSUME DataSound, UNCHANGED <<db, txn, disk>>
  PROVE  /\ TxnModest' /\ FilesApart' /\ BlobsStored' /\ RealStored'
         /\ \A st : HandleSound(st) => HandleSound(st)'
<1>1. UNCHANGED <<db, txn, content, blobFile, realFile, same>>
  BY DEF disk
<1>2. TxnModest'
  BY <1>1 DEF DataSound, TxnModest, Claims
<1>3. FilesApart'
  BY <1>1 DEF DataSound, FilesApart
<1>4. BlobsStored'
  BY <1>1 DEF DataSound, BlobsStored, Claims
<1>5. RealStored'
  BY <1>1 DEF DataSound, RealStored
<1>6. ASSUME NEW st, HandleSound(st) PROVE HandleSound(st)'
  <2>1. HandleStale(st)'
    BY <1>1, <1>6 DEF HandleSound, HandleStale, Claims
  <2>2. HandleOpen(st)'
    BY <1>1, <1>6 DEF HandleSound, HandleOpen, FileOpen, FromReal
  <2>3. HandleRight(st)'
    BY <1>1, <1>6 DEF HandleSound, HandleRight
  <2>4. QED
    BY <2>1, <2>2, <2>3 DEF HandleSound
<1>7. QED
  BY <1>2, <1>3, <1>4, <1>5, <1>6

\* A step of the task that does.
LEMMA SoundOnlyMoved ==
  ASSUME OneTask, BlobInv, DataSound, NEW t \in Task, NEW st, Goto(t, st), HandleSound(st),
         UNCHANGED <<db, txn, disk>>
  PROVE  DataSound'
<1>1. HandleSound(st)'
  BY SoundKept
<1>2. \A u \in Task : HandleSound(task[u])'
  BY <1>1, SoundTask
<1>3. QED
  BY <1>2, SoundKept DEF DataSound

\* A step of the task that ends its job.
LEMMA SoundStop ==
  ASSUME OneTask, BlobInv, DataSound, NEW t \in Task, Goto(t, NoTask), UNCHANGED <<db, txn, disk>>
  PROVE  DataSound'
<1>1. \A u \in Task : HandleSound(task[u])'
  BY SoundNoTask, SoundTask
<1>2. QED
  BY <1>1, SoundKept DEF DataSound

LEMMA SoundStartJob ==
  ASSUME OneTask, BlobInv, DataSound, NEW t \in Task, NEW p \in Path, NEW h \in Hash,
         StartJob(t, p, h)
  PROVE  DataSound'
<1> DEFINE mode == IF FullyWritten(p) THEN "verify" ELSE "download"
           st == [NoTask EXCEPT !.pc = "entry", !.path = p, !.hash = h, !.mode = mode]
<1>1. Goto(t, st) /\ UNCHANGED <<db, txn, disk>> /\ ~Verified(p)
  BY DEF StartJob
<1>2. st.pc = "entry" /\ st.path = p /\ st.file = None /\ st.pending = {}
  <2> HIDE DEF mode
  <2>1. QED
    BY DEF NoTask
<1>3. ~Claims(db, p)
  BY <1>1 DEF DataSound, TxnModest, Verified, FullyWritten, Claims
<1>4. ~Claims(txn, p)
  BY <1>3 DEF DataSound, TxnModest
<1> HIDE DEF st
<1>5. HandleSound(st)
  BY <1>2, <1>3, <1>4 DEF HandleSound, HandleStale, HandleOpen, HandleRight
<1>6. QED
  BY <1>1, <1>5, SoundOnlyMoved

LEMMA SoundReadEntry ==
  ASSUME OneTask, BlobInv, DataSound, NEW t \in Task, ReadEntry(t)
  PROVE  DataSound'
<1> DEFINE st == task[t]
           p == st.path
           b == db.blobOf[p]
           v == db.version[p]
           w == db.blob[b].written
           opening == [st EXCEPT !.pc = "open", !.id = b, !.version = v, !.avail = w]
           creating == [st EXCEPT !.pc = "create"]
<1>1. st \in TaskState /\ st.pc = "entry" /\ p \in Path /\ HandleSound(st)
  BY TaskReady DEF ReadEntry, Ready, DataSound
<1>2. UNCHANGED <<db, txn, disk>>
  BY DEF ReadEntry
<1>3. Goto(t, NoTask) \/ (b # 0 /\ Goto(t, opening)) \/ Goto(t, creating)
  BY DEF ReadEntry, Stop
<1>4. ~Claims(db, p) /\ ~Claims(txn, p) /\ st.file = None /\ st.pending = {}
  BY <1>1 DEF HandleSound, HandleStale, HandleOpen
<1>5. CASE Goto(t, NoTask)
  BY <1>2, <1>5, SoundStop
<1>6. CASE Goto(t, creating)
  <2>1. /\ creating.pc = "create" /\ creating.path = p /\ creating.file = None
        /\ creating.pending = {}
    <3> HIDE DEF st
    <3>1. QED
      BY <1>1, <1>4 DEF TaskState, p
  <2> HIDE DEF creating
  <2>2. HandleSound(creating)
    BY <1>4, <2>1 DEF HandleSound, HandleStale, HandleOpen, HandleRight
  <2>3. QED
    BY <1>2, <1>6, <2>2, SoundOnlyMoved
<1>7. CASE b # 0 /\ Goto(t, opening)
  <2>1. /\ opening.pc = "open" /\ opening.path = p /\ opening.file = None /\ opening.pending = {}
        /\ opening.id = b /\ opening.avail = w
    <3> HIDE DEF st, b, v, w
    <3>1. QED
      BY <1>1, <1>4 DEF TaskState, p
  <2>2. b \in BlobId /\ Owned(db) /\ Owned(txn)
    BY <1>1, <1>7, TablesFields DEF BlobInv, TypeOK, BlobsOwned
  <2>3. ASSUME NEW q \in Path
        PROVE  (db.blobOf[q] = b => ~Claims(db, q)) /\ (txn.blobOf[q] = b => ~Claims(txn, q))
    <3>1. db.blobOf[q] = b => q = p
      BY <1>1, <1>7, <2>2 DEF Owned
    <3>2. Claims(txn, q) => Claims(db, q) /\ txn.blobOf[q] = db.blobOf[q]
      BY DEF DataSound, TxnModest
    <3>3. QED
      BY <1>4, <3>1, <3>2
  <2>4. txn.blob[b].used = 1 => w \subseteq txn.blob[b].written
    <3>1. db.blob[b].used = 1
      BY <1>1, <1>7, <2>2 DEF Owned
    <3>2. QED
      BY <2>2, <3>1 DEF DataSound, TxnModest
  <2> HIDE DEF opening, b, w, p
  <2>5. HandleStale(opening)
    BY <1>4, <2>1, <2>3, <2>4 DEF HandleStale
  <2>6. HandleOpen(opening) /\ HandleRight(opening)
    BY <2>1 DEF HandleOpen, HandleRight
  <2>7. HandleSound(opening)
    BY <2>5, <2>6 DEF HandleSound
  <2>8. QED
    BY <1>2, <1>7, <2>7, SoundOnlyMoved
<1>8. QED
  BY <1>3, <1>5, <1>6, <1>7

\* Data of the file a job has just opened.
LEMMA SoundOpened ==
  ASSUME NEW st \in TaskState, st.pc \in {"open", "commit"}, HandleStale(st)', FileOpen(st)',
         st.pending = {}
  PROVE  HandleSound(Opened(st))'
<1>1. CASE st.version # st.hash
  BY <1>1, SoundNoTask DEF Opened
<1>2. CASE st.version = st.hash
  <2> DEFINE pc == IF st.mode = "download" THEN "write" ELSE "hash"
             todo == Part \ st.avail
             next == [st EXCEPT !.pc = pc, !.todo = todo]
  <2>1. pc \in {"write", "hash"} /\ Opened(st) = next
    BY <1>2 DEF Opened
  <2> HIDE DEF pc, todo
  <2>2. /\ next.pc = pc /\ next.path = st.path /\ next.hash = st.hash /\ next.id = st.id
        /\ next.version = st.version /\ next.file = st.file /\ next.avail = st.avail
        /\ next.pending = st.pending
    BY DEF TaskState
  <2> HIDE DEF next
  <2>3. HandleStale(next)'
    BY <2>1, <2>2 DEF HandleStale
  <2>4. HandleOpen(next)'
    BY <2>1, <2>2 DEF HandleOpen, FileOpen
  <2>5. HandleRight(next)'
    BY <1>2, <2>1, <2>2 DEF HandleRight
  <2>6. QED
    BY <2>1, <2>3, <2>4, <2>5 DEF HandleSound
<1>3. QED
  BY <1>1, <1>2

LEMMA SoundBlobCreated ==
  ASSUME OneTask, BlobInv, DataSound, NEW t \in Task, BlobCreated(t)
  PROVE  DataSound'
<1>0. PICK st : st = task[t]
  OBVIOUS
<1>1. st \in TaskState /\ st.pc = "commit" /\ HandleSound(st)
  BY <1>0, TaskReady DEF BlobCreated, DataSound
<1>2. Goto(t, Opened(st)) /\ UNCHANGED <<db, txn, disk>>
  BY <1>0 DEF BlobCreated
<1>3. HandleSound(st)'
  BY <1>1, <1>2, SoundKept
<1>4. HandleStale(st)' /\ FileOpen(st)' /\ st.pending = {}
  <2>1. HandleOpen(st) /\ HandleOpen(st)' /\ HandleStale(st)'
    BY <1>1, <1>3 DEF HandleSound
  <2>2. QED
    BY <1>1, <2>1 DEF HandleOpen
<1>5. HandleSound(Opened(st))'
  BY <1>1, <1>4, SoundOpened
<1>6. \A u \in Task : HandleSound(task[u])'
  BY <1>2, <1>5, SoundTask
<1>7. QED
  BY <1>2, <1>6, SoundKept DEF DataSound

\* A job with an open file goes on to pc, and knows what it has to know there.
LEMMA SoundAdvanced ==
  ASSUME NEW st \in TaskState, HandleSound(st),
         st.pc \notin {"idle", "entry", "create", "open", "commit"},
         NEW pc \in {"update", "salvage", "mark", "repair", "rehash"}, NEW todo,
         pc = "mark" => st.avail = Part /\ content[st.file] = DataOf(st.hash)
  PROVE  HandleSound([st EXCEPT !.pc = pc]) /\ HandleSound([st EXCEPT !.pc = pc, !.todo = todo])
<1>1. ASSUME NEW next, next.pc = pc, next.path = st.path, next.hash = st.hash, next.id = st.id,
             next.version = st.version, next.file = st.file, next.avail = st.avail,
             next.pending = st.pending
      PROVE  HandleSound(next)
  <2>1. HandleStale(next)
    BY <1>1 DEF HandleSound, HandleStale
  <2>2. HandleOpen(next)
    BY <1>1 DEF HandleSound, HandleOpen, FileOpen
  <2>3. HandleRight(next)
    BY <1>1 DEF HandleSound, HandleRight
  <2>4. QED
    BY <2>1, <2>2, <2>3 DEF HandleSound
<1>2. HandleSound([st EXCEPT !.pc = pc])
  BY <1>1 DEF TaskState
<1>3. HandleSound([st EXCEPT !.pc = pc, !.todo = todo])
  BY <1>1 DEF TaskState
<1>4. QED
  BY <1>2, <1>3

LEMMA SoundJobGoesOn ==
  ASSUME OneTask, BlobInv, DataSound, NEW t \in Task,
         WriteEnds(t) \/ ComputeHash(t) \/ RepairEnds(t)
  PROVE  DataSound'
<1> DEFINE st == task[t]
<1>1. /\ st \in TaskState /\ HandleSound(st)
      /\ st.pc \notin {"idle", "entry", "create", "open", "commit"}
  BY TaskReady DEF WriteEnds, ComputeHash, RepairEnds, DataSound
<1>2. UNCHANGED <<db, txn, disk>>
  BY DEF WriteEnds, ComputeHash, RepairEnds
<1>3. \/ Goto(t, NoTask)
      \/ \E pc \in {"update", "salvage", "mark", "repair", "rehash"} :
           /\ pc = "mark" => st.avail = Part /\ content[st.file] = DataOf(st.hash)
           /\ \/ Goto(t, [st EXCEPT !.pc = pc])
              \/ Goto(t, [st EXCEPT !.pc = pc, !.todo = Part])
  BY DEF WriteEnds, ComputeHash, RepairEnds, Stop
<1> HIDE DEF st
<1>4. CASE Goto(t, NoTask)
  BY <1>2, <1>4, SoundStop
<1>5. ASSUME NEW pc \in {"update", "salvage", "mark", "repair", "rehash"},
             pc = "mark" => st.avail = Part /\ content[st.file] = DataOf(st.hash),
             \/ Goto(t, [st EXCEPT !.pc = pc])
             \/ Goto(t, [st EXCEPT !.pc = pc, !.todo = Part])
      PROVE  DataSound'
  BY <1>1, <1>2, <1>5, SoundAdvanced, SoundOnlyMoved
<1>6. QED
  BY <1>3, <1>4, <1>5

\* The entry of the blob of a job changes: no more is claimed than before, or
\* the file was found to hold the version.
LEMMA SoundEntryWritten ==
  ASSUME BlobInv, BlobInv', DataSound, NEW b \in BlobId, NEW e \in Blob, e.used = 1,
         db.blob[b].used = 1, db.blob[b].written \subseteq e.written,
         Write([db EXCEPT !.blob = [db.blob EXCEPT ![b] = e]]), UNCHANGED disk,
         \A i \in e.written : blobFile[b] # None /\ content[blobFile[b]][i] # None,
         \A p \in Path : db.blobOf[p] = b /\ e.verified = db.version[p] /\ db.version[p] # None =>
           /\ e.written = Part /\ blobFile[b] # None
           /\ content[blobFile[b]] = DataOf(db.version[p])
  PROVE  /\ TxnModest' /\ FilesApart' /\ BlobsStored' /\ RealStored'
         /\ txn = db /\ txn' = db'
         /\ db'.blobOf = db.blobOf /\ db'.version = db.version /\ db'.indexed = db.indexed
         /\ \A c \in BlobId : db'.blob[c] = IF c = b THEN e ELSE db.blob[c]
<1> DEFINE blob == [db.blob EXCEPT ![b] = e]
<1>1. db \in Tables /\ UNCHANGED <<content, blobFile, realFile, same>>
  BY DEF BlobInv, TypeOK, disk
<1>2. blob \in [BlobId -> Blob] /\ \A c \in BlobId : blob[c] = IF c = b THEN e ELSE db.blob[c]
  BY <1>1, TablesFields
<1>3. db' = [db EXCEPT !.blob = blob] /\ txn' = db' /\ txn = db
  BY DEF Write, Idle
<1> HIDE DEF blob
<1>4. /\ db'.blobOf = db.blobOf /\ db'.version = db.version /\ db'.indexed = db.indexed
      /\ db'.blob = blob
  BY <1>1, <1>3 DEF Tables
<1>5. ASSUME NEW p \in Path, Claims(db', p)
      PROVE  \/ Claims(db, p) /\ db.blobOf[p] # b
             \/ /\ db.blobOf[p] = b /\ e.written = Part /\ blobFile[b] # None
                /\ content[blobFile[b]] = DataOf(db.version[p])
  <2>1. db.blobOf[p] \in BlobId
    BY <1>1, <1>4, <1>5, TablesFields DEF Claims
  <2>2. QED
    BY <1>2, <1>4, <1>5, <2>1 DEF Claims
<1>6. \A p \in Path : Claims(db', p) => db.blobOf[p] \in BlobId
  BY <1>1, <1>4, TablesFields DEF Claims
<1>7. TxnModest'
  <2>1. \A p \in Path : Claims(db', p) => db'.blob[db'.blobOf[p]].written = Part
    BY <1>2, <1>4, <1>5, <1>6 DEF DataSound, TxnModest
  <2>2. QED
    BY <1>3, <2>1 DEF TxnModest
<1>8. FilesApart'
  BY <1>1 DEF DataSound, FilesApart
<1>9. BlobsStored'
  <2>1. \A c \in BlobId : \A i \in txn'.blob[c].written :
          blobFile'[c] # None /\ content'[blobFile'[c]][i] # None
    BY <1>1, <1>2, <1>3, <1>4 DEF DataSound, BlobsStored
  <2>2. ASSUME NEW p \in Path, Claims(txn', p)
        PROVE  /\ blobFile'[txn'.blobOf[p]] # None
               /\ content'[blobFile'[txn'.blobOf[p]]] = DataOf(txn'.version[p])
    BY <1>1, <1>3, <1>4, <1>5, <2>2 DEF DataSound, BlobsStored
  <2>3. QED
    BY <2>1, <2>2 DEF BlobsStored
<1>10. RealStored'
  BY <1>1, <1>3, <1>4 DEF DataSound, RealStored
<1>11. QED
  BY <1>2, <1>3, <1>4, <1>7, <1>8, <1>9, <1>10

\* What a job does after update_db: it ends, opens the file anew, or goes on to
\* mark the blob as verified.
AfterUpdate(st, next) ==
  \/ next = NoTask
  \/ next.pc = "entry" /\ next.path = st.path /\ next.file = None /\ next.pending = {}
  \/ /\ st.pc = "mark" /\ next.pc = "verified" /\ next.path = st.path /\ next.hash = st.hash
     /\ next.id = st.id /\ next.version = st.version /\ next.file = st.file
     /\ next.avail = st.avail /\ next.pending = {}

LEMMA SoundUpdateDb ==
  ASSUME OneTask, BlobInv, BlobInv', DataSound, NEW t \in Task, NEW st, st = task[t],
         st.pc \in {"update", "salvage", "mark"}, NEW next, AfterUpdate(st, next),
         UpdateDb(t, next), UNCHANGED disk
  PROVE  DataSound'
<1>1. /\ st \in TaskState /\ HandleSound(st) /\ st.id \in BlobId /\ st.pending \in SUBSET Part
  BY TaskReady DEF Ready, DataSound, TaskState
<1>2. HandleStale(st) /\ FileOpen(st) /\ HandleRight(st)
  BY <1>1 DEF HandleSound, HandleOpen
<1>3. CASE Goto(t, NoTask) /\ UNCHANGED <<db, txn>>
  BY <1>3, SoundStop
<1>4. CASE st.pending = {} /\ Goto(t, next) /\ UNCHANGED <<db, txn>>
  <2>1. CASE next = NoTask
    BY <1>3, <1>4, <2>1
  <2>2. CASE next.pc = "entry" /\ next.path = st.path /\ next.file = None /\ next.pending = {}
    <3>1. HandleSound(next)
      BY <1>2, <2>2 DEF HandleSound, HandleStale, HandleOpen, HandleRight
    <3>2. QED
      BY <1>4, <3>1, SoundOnlyMoved
  <2>3. CASE /\ st.pc = "mark" /\ next.pc = "verified" /\ next.path = st.path
             /\ next.hash = st.hash /\ next.id = st.id /\ next.version = st.version
             /\ next.file = st.file /\ next.avail = st.avail /\ next.pending = {}
    <3>1. HandleStale(next)
      BY <1>2, <1>4, <2>3 DEF HandleStale
    <3>2. HandleOpen(next)
      BY <1>2, <1>4, <2>3 DEF HandleOpen, FileOpen
    <3>3. HandleRight(next)
      BY <1>2, <2>3 DEF HandleRight
    <3>4. HandleSound(next)
      BY <3>1, <3>2, <3>3 DEF HandleSound
    <3>5. QED
      BY <1>4, <3>4, SoundOnlyMoved
  <2>4. QED
    BY <2>1, <2>2, <2>3 DEF AfterUpdate
<1>5. CASE db.blob[st.id].used = 1 /\ ExtendAvailability(st) /\ Goto(t, next)
  <2>1. PICK b : b = st.id
    OBVIOUS
  <2>2. PICK e : e = [used |-> 1, written |-> db.blob[b].written \cup st.pending,
                      verified |-> db.blob[b].verified]
    OBVIOUS
  <2>3. db.blob[b] \in Blob /\ b \in BlobId
    BY <1>1, <2>1, TablesFields DEF BlobInv, TypeOK
  <2>4. /\ e \in Blob /\ e.used = 1 /\ e.verified = db.blob[b].verified
        /\ e.written = db.blob[b].written \cup st.pending
    BY <1>1, <2>2, <2>3 DEF Blob
  <2>5. Write([db EXCEPT !.blob = [db.blob EXCEPT ![b] = e]]) /\ txn = db
    BY <1>5, <2>1, <2>2 DEF ExtendAvailability, Write, Idle
  <2>6. ASSUME NEW i \in e.written PROVE blobFile[b] # None /\ content[blobFile[b]][i] # None
    <3>1. CASE i \in db.blob[b].written
      BY <2>3, <2>5, <3>1 DEF DataSound, BlobsStored
    <3>2. CASE i \in st.pending /\ i \notin db.blob[b].written
      <4>1. blobFile[b] = st.file
        BY <1>1, <1>2, <1>5, <2>1, <2>5, <3>2 DEF FileOpen, FromReal
      <4>2. QED
        BY <1>2, <3>2, <4>1 DEF FileOpen
    <3>3. QED
      BY <2>4, <2>6, <3>1, <3>2
  <2>7. ASSUME NEW p \in Path, db.blobOf[p] = b, e.verified = db.version[p], db.version[p] # None
        PROVE  FALSE
    <3>1. Claims(db, p)
      BY <2>3, <2>4, <2>7 DEF Claims
    <3>2. QED
      BY <1>2, <2>1, <2>7, <3>1 DEF HandleStale
  <2>8. /\ TxnModest' /\ FilesApart' /\ BlobsStored' /\ RealStored' /\ txn' = db'
        /\ db'.blobOf = db.blobOf /\ db'.version = db.version
        /\ \A c \in BlobId : db'.blob[c] = IF c = b THEN e ELSE db.blob[c]
    BY <1>5, <2>1, <2>3, <2>4, <2>5, <2>6, <2>7, SoundEntryWritten, SMTT(30)
  <2>9. \A p \in Path : Claims(db', p) => Claims(db, p)
    <3>1. \A p \in Path : db.blobOf[p] # 0 => db.blobOf[p] \in BlobId
      BY TablesFields DEF BlobInv, TypeOK
    <3>2. QED
      BY <2>4, <2>8, <3>1 DEF Claims
  <2>10. HandleSound(next)'
    <3>1. CASE next = NoTask
      BY <3>1, SoundNoTask
    <3>2. CASE next.pc = "entry" /\ next.path = st.path /\ next.file = None /\ next.pending = {}
      <4>1. ~Claims(db', st.path)
        <5>1. st.path \in Path /\ ~Claims(db, st.path)
          BY <1>1, <1>2, TaskReady DEF Ready, HandleStale
        <5>2. QED
          BY <2>9, <5>1
      <4>2. QED
        BY <2>8, <3>2, <4>1 DEF HandleSound, HandleStale, HandleOpen, HandleRight
    <3>3. CASE /\ st.pc = "mark" /\ next.pc = "verified" /\ next.path = st.path
               /\ next.hash = st.hash /\ next.id = st.id /\ next.version = st.version
               /\ next.file = st.file /\ next.avail = st.avail /\ next.pending = {}
      <4>1. HandleStale(next)'
        <5>1. st.path \in Path /\ ~Claims(db', st.path)
          BY <1>1, <1>2, <2>9, TaskReady DEF Ready, HandleStale
        <5>2. \A q \in Path : db'.blobOf[q] = b => ~Claims(db', q)
          BY <1>2, <2>1, <2>8, <2>9 DEF HandleStale
        <5>3. st.avail \subseteq db'.blob[b].written
          BY <1>2, <1>5, <2>1, <2>3, <2>4, <2>5, <2>8 DEF HandleStale
        <5>4. QED
          BY <2>1, <2>8, <3>3, <5>1, <5>2, <5>3 DEF HandleStale
      <4>2. FileOpen(next)'
        <5>1. UNCHANGED <<content, blobFile, realFile>>
          BY DEF disk
        <5>2. blobFile[b] = st.file \/ FromReal(b)
          BY <1>2, <1>5, <2>1, <2>5 DEF FileOpen
        <5>3. FromReal(b) => FromReal(b)'
          BY <1>1, <2>3, <2>4, <2>5, <2>8, <5>1 DEF FromReal
        <5>4. QED
          BY <1>2, <2>1, <3>3, <5>1, <5>2, <5>3 DEF FileOpen
      <4>3. HandleRight(next)'
        BY <1>2, <3>3 DEF HandleRight, disk
      <4>4. QED
        BY <3>3, <4>1, <4>2, <4>3 DEF HandleSound, HandleOpen
    <3>4. QED
      BY <3>1, <3>2, <3>3 DEF AfterUpdate
  <2>11. \A u \in Task : HandleSound(task[u])'
    BY <1>5, <2>10, SoundTask
  <2>12. QED
    BY <2>8, <2>11 DEF DataSound
<1>6. QED
  BY <1>3, <1>4, <1>5 DEF UpdateDb, Stop

LEMMA SoundUpdateAfterWrite ==
  ASSUME OneTask, BlobInv, BlobInv', DataSound, NEW t \in Task, UpdateAfterWrite(t)
  PROVE  DataSound'
<1>1. PICK st : st = task[t]
  OBVIOUS
<1>2. PICK next : next = [NoTask EXCEPT !.pc = "entry", !.mode = "verify",
                                        !.path = st.path, !.hash = st.hash]
  OBVIOUS
<1>3. next.pc = "entry" /\ next.path = st.path /\ next.file = None /\ next.pending = {}
  <2>1. PICK p, h : p = st.path /\ h = st.hash
    OBVIOUS
  <2>2. next = [NoTask EXCEPT !.pc = "entry", !.mode = "verify", !.path = p, !.hash = h]
    BY <1>2, <2>1
  <2>3. QED
    BY <2>1, <2>2 DEF NoTask
<1>4. AfterUpdate(st, next) /\ AfterUpdate(st, NoTask)
  BY <1>3 DEF AfterUpdate
<1>5. /\ UpdateDb(t, next) \/ UpdateDb(t, NoTask)
      /\ st.pc \in {"update", "salvage", "mark"} /\ UNCHANGED disk
  BY <1>1, <1>2 DEF UpdateAfterWrite
<1>6. QED
  BY <1>1, <1>4, <1>5, SoundUpdateDb

LEMMA SoundUpdateBeforeMark ==
  ASSUME OneTask, BlobInv, BlobInv', DataSound, NEW t \in Task, UpdateBeforeMark(t)
  PROVE  DataSound'
<1>1. PICK st : st = task[t]
  OBVIOUS
<1>2. PICK next : next = [st EXCEPT !.pc = "verified", !.pending = {}]
  OBVIOUS
<1>3. UpdateDb(t, next) /\ st.pc = "mark" /\ UNCHANGED disk /\ st \in TaskState
  BY <1>1, <1>2, TaskReady DEF UpdateBeforeMark
<1>4. /\ next.pc = "verified" /\ next.path = st.path /\ next.hash = st.hash
      /\ next.id = st.id /\ next.version = st.version /\ next.file = st.file
      /\ next.avail = st.avail /\ next.pending = {}
  BY <1>2, <1>3 DEF TaskState
<1>5. AfterUpdate(st, next)
  BY <1>3, <1>4 DEF AfterUpdate
<1>6. QED
  BY <1>1, <1>3, <1>5, SoundUpdateDb

\* The blob is marked as verified: it holds the version, in the file the job has
\* checked or in the real file that took its place.
LEMMA SoundSetContentHash ==
  ASSUME OneTask, BlobInv, BlobInv', DataSound, NEW t \in Task, SetContentHash(t)
  PROVE  DataSound'
<1>1. PICK st : st = task[t]
  OBVIOUS
<1>2. /\ st \in TaskState /\ HandleSound(st) /\ st.id \in BlobId /\ st.pc = "verified"
  BY <1>1, TaskReady DEF Ready, DataSound, SetContentHash
<1>3. HandleStale(st) /\ FileOpen(st) /\ HandleRight(st)
  BY <1>2 DEF HandleSound, HandleOpen
<1>4. Goto(t, NoTask) /\ UNCHANGED disk
  BY DEF SetContentHash, Stop
<1>5. CASE UNCHANGED <<db, txn>>
  BY <1>4, <1>5, SoundStop
<1>6. CASE /\ db.blob[st.id].used = 1
           /\ Write([db EXCEPT !.blob = [db.blob EXCEPT ![st.id] =
                [used |-> 1, written |-> db.blob[st.id].written, verified |-> st.version]]])
  <2>1. PICK b : b = st.id
    OBVIOUS
  <2>2. PICK e : e = [used |-> 1, written |-> db.blob[b].written, verified |-> st.version]
    OBVIOUS
  <2>3. db.blob[b] \in Blob /\ b \in BlobId /\ st.version \in Hash \cup {None}
    BY <1>2, <2>1, TablesFields DEF BlobInv, TypeOK, TaskState
  <2>4. /\ e \in Blob /\ e.used = 1 /\ e.verified = st.version
        /\ e.written = db.blob[b].written
    BY <2>2, <2>3 DEF Blob
  <2>5. Write([db EXCEPT !.blob = [db.blob EXCEPT ![b] = e]]) /\ txn = db
    BY <1>6, <2>1, <2>2 DEF Write, Idle
  <2>6. \A i \in e.written : blobFile[b] # None /\ content[blobFile[b]][i] # None
    BY <2>3, <2>4, <2>5 DEF DataSound, BlobsStored
  <2>7. e.written = Part
    <3>1. st.avail = Part /\ st.pending = {}
      BY <1>2, <1>3 DEF HandleRight
    <3>2. Part \subseteq db.blob[b].written
      BY <1>2, <1>3, <1>6, <2>1, <2>5, <3>1 DEF HandleStale
    <3>3. QED
      BY <2>3, <2>4, <3>2 DEF Blob
  <2>8. ASSUME NEW p \in Path, db.blobOf[p] = b, e.verified = db.version[p]
        PROVE  blobFile[b] # None /\ content[blobFile[b]] = DataOf(db.version[p])
    <3>1. CASE blobFile[b] = st.file
      BY <1>2, <1>3, <2>4, <2>8, <3>1 DEF HandleRight, FileOpen
    <3>2. CASE FromReal(b)
      BY <2>5, <2>8, <3>2 DEF FromReal
    <3>3. QED
      BY <1>3, <1>6, <2>1, <2>5, <3>1, <3>2 DEF FileOpen
  <2>9. TxnModest' /\ FilesApart' /\ BlobsStored' /\ RealStored'
    <3>1. db.blob[b].used = 1 /\ db.blob[b].written \subseteq e.written
      BY <1>6, <2>1, <2>4
    <3>2. \A p \in Path : db.blobOf[p] = b /\ e.verified = db.version[p] /\ db.version[p] # None =>
            /\ e.written = Part /\ blobFile[b] # None
            /\ content[blobFile[b]] = DataOf(db.version[p])
      BY <2>7, <2>8
    <3>3. QED
      BY <1>4, <2>3, <2>4, <2>5, <2>6, <3>1, <3>2, SoundEntryWritten
  <2>10. \A u \in Task : HandleSound(task[u])'
    BY <1>4, SoundNoTask, SoundTask
  <2>11. QED
    BY <2>9, <2>10 DEF DataSound
<1>7. QED
  BY <1>1, <1>5, <1>6 DEF SetContentHash

\* A part is written to the file the job has open, which no verified blob and no
\* real file is in.
LEMMA SoundWriteToBlob ==
  ASSUME OneTask, BlobInv, DataSound, NEW t \in Task, WriteToBlob(t)
  PROVE  DataSound'
<1>1. PICK st : st = task[t]
  OBVIOUS
<1>2. PICK i \in Part, h \in Hash : WritePart(t, i, h)
  BY DEF WriteToBlob
<1>3. PICK next : next = [st EXCEPT !.todo = st.todo \ {i}, !.avail = st.avail \cup {i},
                                    !.pending = st.pending \cup {i}]
  OBVIOUS
<1>4. st \in TaskState /\ HandleSound(st) /\ st.pc \in {"write", "repair"}
  BY <1>1, TaskReady DEF WriteToBlob, DataSound
<1>5. HandleStale(st) /\ FileOpen(st) /\ HandleRight(st)
  BY <1>4 DEF HandleSound, HandleOpen
<1>6. PICK f : f = st.file
  OBVIOUS
<1>7. f \in File /\ content \in [File -> Data] /\ h # None
  BY <1>4, <1>5, <1>6 DEF TaskState, FileOpen, BlobInv, TypeOK
<1>8. /\ Goto(t, next) /\ UNCHANGED <<db, txn, blobFile, realFile, same>>
      /\ content' = [content EXCEPT ![f] = [content[f] EXCEPT ![i] = h]]
  BY <1>1, <1>2, <1>3, <1>6 DEF WritePart
<1>9. /\ \A g \in File \ {f} : content'[g] = content[g]
      /\ \A j \in Part : content'[f][j] = IF j = i THEN h ELSE content[f][j]
  BY <1>7, <1>8 DEF Data
<1>10. /\ next.pc = st.pc /\ next.path = st.path /\ next.hash = st.hash
       /\ next.id = st.id /\ next.version = st.version /\ next.file = st.file
       /\ next.avail = st.avail \cup {i} /\ next.pending = st.pending \cup {i}
  BY <1>3, <1>4 DEF TaskState
<1>11. /\ \A p \in Path : realFile[p] \in File \cup {None} /\ realFile[p] # f
       /\ \A c \in BlobId : blobFile[c] \in File \cup {None} /\ (blobFile[c] = f => c = st.id)
  BY <1>5, <1>6 DEF FileOpen, BlobInv, TypeOK
<1>12. TxnModest' /\ FilesApart'
  BY <1>8 DEF DataSound, TxnModest, Claims, FilesApart
<1>13. BlobsStored'
  <2>1. ASSUME NEW b \in BlobId, NEW j \in txn.blob[b].written
        PROVE  blobFile[b] # None /\ content'[blobFile[b]][j] # None
    <3>1. blobFile[b] # None /\ content[blobFile[b]][j] # None /\ j \in Part
      BY TablesFields DEF DataSound, BlobsStored, BlobInv, TypeOK, Blob
    <3>2. QED
      BY <1>7, <1>9, <1>11, <3>1
  <2>2. ASSUME NEW p \in Path, Claims(txn, p)
        PROVE  /\ blobFile[txn.blobOf[p]] # None
               /\ content'[blobFile[txn.blobOf[p]]] = DataOf(txn.version[p])
    <3>1. txn.blobOf[p] # st.id /\ txn.blobOf[p] \in BlobId
      BY <1>4, <1>5, <2>2, TablesFields DEF HandleStale, Claims, BlobInv, TypeOK
    <3>2. blobFile[txn.blobOf[p]] \in File \ {f}
      BY <1>11, <2>2, <3>1 DEF DataSound, BlobsStored
    <3>3. QED
      BY <1>9, <2>2, <3>2 DEF DataSound, BlobsStored
  <2>3. QED
    BY <1>8, <2>1, <2>2 DEF BlobsStored, Claims
<1>14. RealStored'
  BY <1>8, <1>9, <1>11 DEF DataSound, RealStored, BlobInv, TypeOK
<1>15. HandleSound(next)'
  <2>1. HandleStale(next)'
    BY <1>5, <1>8, <1>10 DEF HandleStale, Claims
  <2>2. FileOpen(next)'
    <3>1. \A j \in st.pending \cup {i} : content'[f][j] # None
      BY <1>4, <1>5, <1>6, <1>7, <1>9 DEF FileOpen, TaskState
    <3>2. FromReal(st.id) /\ blobFile[st.id] # f => FromReal(st.id)'
      <4>1. st.id \in BlobId
        BY <1>1, <1>4, TaskReady DEF Ready
      <4>2. QED
        BY <1>8, <1>9, <1>11, <4>1 DEF FromReal
    <3>3. QED
      BY <1>5, <1>6, <1>8, <1>10, <3>1, <3>2 DEF FileOpen
  <2>3. HandleRight(next)'
    BY <1>4, <1>5, <1>10 DEF HandleRight
  <2>4. QED
    BY <1>4, <1>10, <2>1, <2>2, <2>3 DEF HandleSound, HandleOpen
<1>16. \A u \in Task : HandleSound(task[u])'
  BY <1>8, <1>15, SoundTask
<1>17. QED
  BY <1>12, <1>13, <1>14, <1>16 DEF DataSound

LEMMA SoundOpenBlobFile ==
  ASSUME OneTask, BlobInv, DataSound, NEW t \in Task, OpenBlobFile(t)
  PROVE  DataSound'
<1>1. PICK st : st = task[t]
  OBVIOUS
<1>2. st \in TaskState /\ HandleSound(st) /\ st.pc = "open" /\ st.id \in BlobId
  BY <1>1, TaskReady DEF OpenBlobFile, DataSound, Ready
<1>3. HandleStale(st) /\ st.pending = {} /\ UNCHANGED <<db, txn, realFile, same>>
  BY <1>2 DEF HandleSound, HandleOpen, OpenBlobFile
<1>4. PICK b : b = st.id
  OBVIOUS
<1>5. PICK f \in File :
        /\ Goto(t, Opened([st EXCEPT !.file = f]))
        /\ \/ UNCHANGED <<content, blobFile>> /\ blobFile[b] = f
           \/ /\ blobFile[b] = None /\ Unused(f)
              /\ content' = [content EXCEPT ![f] = Empty]
              /\ blobFile' = [blobFile EXCEPT ![b] = f]
  BY <1>1, <1>2, <1>4 DEF OpenBlobFile, BlobInv, TypeOK
<1>6. /\ content \in [File -> Data] /\ blobFile \in [BlobId -> File \cup {None}]
      /\ realFile \in [Path -> File \cup {None}] /\ same \in SUBSET Path
  BY DEF BlobInv, TypeOK
<1>7. /\ \A g \in File \ {f} : content'[g] = content[g]
      /\ \A c \in BlobId : blobFile'[c] = IF c = b THEN f ELSE blobFile[c]
      /\ \A c \in BlobId \ {b} : blobFile[c] # f
      /\ \A p \in Path : realFile[p] # f
      /\ blobFile[b] # None => content' = content /\ blobFile[b] = f
  BY <1>2, <1>4, <1>5, <1>6 DEF Unused, DataSound, FilesApart
<1>8. TxnModest'
  BY <1>3 DEF DataSound, TxnModest, Claims
<1>9. FilesApart'
  BY <1>2, <1>3, <1>4, <1>7 DEF DataSound, FilesApart
<1>10. BlobsStored'
  <2>1. ASSUME NEW c \in BlobId, NEW j \in txn.blob[c].written
        PROVE  blobFile'[c] # None /\ content'[blobFile'[c]][j] # None
    BY <1>6, <1>7 DEF DataSound, BlobsStored
  <2>2. ASSUME NEW p \in Path, Claims(txn, p)
        PROVE  /\ blobFile'[txn.blobOf[p]] # None
               /\ content'[blobFile'[txn.blobOf[p]]] = DataOf(txn.version[p])
    <3>1. txn.blobOf[p] # b /\ txn.blobOf[p] \in BlobId
      <4>1. txn.blobOf[p] # b
        BY <1>2, <1>3, <1>4, <2>2 DEF HandleStale
      <4>2. txn.blobOf[p] \in BlobId
        BY <2>2, TablesFields DEF Claims, BlobInv, TypeOK
      <4>3. QED
        BY <4>1, <4>2
    <3>2. blobFile[txn.blobOf[p]] \in File \ {f}
      BY <1>6, <1>7, <2>2, <3>1 DEF DataSound, BlobsStored
    <3>3. QED
      BY <1>7, <2>2, <3>1, <3>2 DEF DataSound, BlobsStored
  <2>3. QED
    BY <1>3, <2>1, <2>2 DEF BlobsStored, Claims
<1>11. RealStored'
  BY <1>3, <1>6, <1>7 DEF DataSound, RealStored
<1>12. PICK open : open = [st EXCEPT !.file = f]
  OBVIOUS
<1>13. /\ open \in TaskState /\ open.pc = "open" /\ open.path = st.path /\ open.id = b
       /\ open.file = f /\ open.avail = st.avail /\ open.pending = {}
  BY <1>2, <1>3, <1>4, <1>12 DEF TaskState
<1>14. HandleStale(open)'
  BY <1>2, <1>3, <1>4, <1>13 DEF HandleStale, Claims
<1>15. FileOpen(open)'
  <2>1. f # None /\ blobFile'[b] = f
    BY <1>2, <1>4, <1>7
  <2>2. QED
    BY <1>3, <1>7, <1>13, <2>1 DEF FileOpen
<1>16. HandleSound(Opened(open))'
  BY <1>13, <1>14, <1>15, SoundOpened
<1>17. \A u \in Task : HandleSound(task[u])'
  BY <1>5, <1>12, <1>16, SoundTask
<1>18. QED
  BY <1>8, <1>9, <1>10, <1>11, <1>17 DEF DataSound

\* The blob a path is given belongs to no other path, and a new one to none.
LEMMA BlobForOwn ==
  ASSUME db \in Tables, Owned(db), NEW p \in Path, NEW b \in BlobId, BlobFor(p, b)
  PROVE  /\ \A q \in Path \ {p} : db.blobOf[q] # b
         /\ db.blobOf[p] = 0 => db.blob[b].used # 1 /\ \A q \in Path : db.blobOf[q] # b
<1>1. CASE db.blobOf[p] # 0
  BY <1>1 DEF BlobFor, Owned
<1>2. CASE db.blobOf[p] = 0
  <2>1. NextId(b)
    BY <1>2 DEF BlobFor
  <2>2. \A c \in BlobId : db.blob[c].used = 1 => c < b
    BY <2>1 DEF NextId
  <2>3. db.blob[b].used # 1
    BY <2>2
  <2>4. QED
    BY <2>3 DEF Owned
<1>3. QED
  BY <1>1, <1>2

\* What the tables are after a transaction that gives p the blob b.
LEMMA BlobGivenFields ==
  ASSUME db \in Tables, NEW p \in Path, NEW b \in BlobId, NEW e \in Blob,
         NEW indexed \in [Path -> Hash \cup {None}],
         Begin(TablesOf(db.version, [db.blobOf EXCEPT ![p] = b], [db.blob EXCEPT ![b] = e],
                        indexed))
  PROVE  /\ txn = db /\ db' = db
         /\ txn'.version = db.version /\ txn'.indexed = indexed
         /\ \A q \in Path : txn'.blobOf[q] = IF q = p THEN b ELSE db.blobOf[q]
         /\ \A c \in BlobId : txn'.blob[c] = IF c = b THEN e ELSE db.blob[c]
<1>1. PICK blobOf, blob : blobOf = [db.blobOf EXCEPT ![p] = b] /\ blob = [db.blob EXCEPT ![b] = e]
  OBVIOUS
<1>2. txn = db /\ db' = db /\ txn' = TablesOf(db.version, blobOf, blob, indexed)
  BY <1>1 DEF Begin, Idle
<1>3. /\ txn'.version = db.version /\ txn'.indexed = indexed
      /\ txn'.blobOf = blobOf /\ txn'.blob = blob
  BY <1>2 DEF TablesOf
<1>4. QED
  BY <1>1, <1>2, <1>3, TablesFields

LEMMA SoundCreateBlob ==
  ASSUME OneTask, BlobInv, DataSound, NEW t \in Task, CreateBlob(t), harm = {}, harm' = {}
  PROVE  DataSound'
<1>1. PICK st : st = task[t]
  OBVIOUS
<1>2. PICK p : p = st.path
  OBVIOUS
<1>3. st \in TaskState /\ HandleSound(st) /\ st.pc = "create" /\ p \in Path
  BY <1>1, <1>2, TaskReady DEF CreateBlob, DataSound, Ready
<1>4. /\ ~Claims(db, p) /\ ~Claims(txn, p) /\ st.pending = {}
      /\ UNCHANGED <<realFile, same>>
  BY <1>2, <1>3 DEF HandleSound, HandleStale, HandleOpen, CreateBlob
<1>5. CASE db.version[p] = None
  <2>1. Goto(t, NoTask) /\ UNCHANGED <<db, txn, disk>>
    BY <1>1, <1>2, <1>5 DEF CreateBlob, Stop, disk
  <2>2. QED
    BY <2>1, SoundStop
<1>6. CASE db.version[p] # None
  <2>1. db.blobOf[p] = 0 /\ EntryFor(p) = NewBlob
    BY <1>1, <1>2, <1>6 DEF CreateBlob, EntryFor
  <2>2. PICK v : v = db.version[p]
    OBVIOUS
  <2>3. PICK b \in BlobId, f \in File :
          /\ BlobFor(p, b)
          /\ IF blobFile[b] = None THEN Unused(f) ELSE f = blobFile[b]
          /\ content' = [content EXCEPT ![f] = Empty]
          /\ blobFile' = [blobFile EXCEPT ![b] = f]
          /\ Begin(TablesOf(db.version, [db.blobOf EXCEPT ![p] = b],
                            [db.blob EXCEPT ![b] = NewBlob], db.indexed))
          /\ Goto(t, [st EXCEPT !.pc = "commit", !.id = b, !.file = f,
                                !.version = v, !.avail = NewBlob.written])
    BY <1>1, <1>2, <1>6, <2>1, <2>2, ZenonT(40) DEF CreateBlob
  <2>4. /\ db \in Tables /\ Owned(db) /\ db.indexed \in [Path -> Hash \cup {None}]
        /\ content \in [File -> Data] /\ blobFile \in [BlobId -> File \cup {None}]
        /\ realFile \in [Path -> File \cup {None}] /\ same \in SUBSET Path
    BY TablesFields DEF BlobInv, TypeOK, BlobsOwned
  <2>5. /\ txn = db /\ db' = db
        /\ txn'.version = db.version /\ txn'.indexed = db.indexed
        /\ \A q \in Path : txn'.blobOf[q] = IF q = p THEN b ELSE db.blobOf[q]
        /\ \A c \in BlobId : txn'.blob[c] = IF c = b THEN NewBlob ELSE db.blob[c]
    BY <1>3, <2>3, <2>4, BlobTypes, BlobGivenFields, SMTT(30)
  <2>6. db.blob[b].used # 1 /\ \A q \in Path : db.blobOf[q] # b
    BY <1>3, <2>1, <2>3, <2>4, BlobForOwn
  <2>7. NewBlob.used = 1 /\ NewBlob.written = {} /\ NewBlob.verified = None
    BY DEF NewBlob
  <2>8. /\ \A g \in File \ {f} : content'[g] = content[g]
        /\ \A c \in BlobId : blobFile'[c] = IF c = b THEN f ELSE blobFile[c]
        /\ \A c \in BlobId \ {b} : blobFile[c] # f
        /\ \A q \in Path : realFile[q] # f
    BY <2>3, <2>4 DEF Unused, DataSound, FilesApart
  <2>9. ASSUME NEW q \in Path, Claims(txn', q)
        PROVE  /\ Claims(db, q) /\ txn'.blobOf[q] = db.blobOf[q] /\ txn'.version[q] = db.version[q]
               /\ db.blobOf[q] \in BlobId \ {b}
    <3>1. q # p
      BY <1>6, <2>5, <2>7, <2>9 DEF Claims
    <3>2. txn'.blobOf[q] = db.blobOf[q] /\ db.blobOf[q] \in BlobId \ {b}
      BY <2>4, <2>5, <2>6, <2>9, <3>1, TablesFields DEF Claims
    <3>3. QED
      BY <2>5, <2>9, <3>2 DEF Claims
  <2>10. TxnModest'
    <3>1. \A c \in BlobId : db.blob[c].used = 1 /\ txn'.blob[c].used = 1
                              => db.blob[c].written \subseteq txn'.blob[c].written
      BY <2>5, <2>6
    <3>2. QED
      BY <2>5, <2>9, <3>1 DEF DataSound, TxnModest
  <2>11. FilesApart'
    BY <1>4, <2>8 DEF DataSound, FilesApart
  <2>12. BlobsStored'
    <3>1. ASSUME NEW c \in BlobId, NEW j \in txn'.blob[c].written
          PROVE  blobFile'[c] # None /\ content'[blobFile'[c]][j] # None
      <4>1. c # b /\ j \in txn.blob[c].written
        BY <2>5, <2>7, <3>1
      <4>2. QED
        BY <2>4, <2>8, <4>1 DEF DataSound, BlobsStored
    <3>2. ASSUME NEW q \in Path, Claims(txn', q)
          PROVE  /\ blobFile'[txn'.blobOf[q]] # None
                 /\ content'[blobFile'[txn'.blobOf[q]]] = DataOf(txn'.version[q])
      <4>1. PICK c \in BlobId \ {b} : c = db.blobOf[q]
        BY <2>9, <3>2
      <4>2. blobFile[c] # None /\ content[blobFile[c]] = DataOf(db.version[q])
        BY <2>5, <2>9, <3>2, <4>1 DEF DataSound, BlobsStored
      <4>3. blobFile'[c] = blobFile[c] /\ content'[blobFile[c]] = content[blobFile[c]]
        BY <2>4, <2>8, <4>1, <4>2
      <4>4. QED
        BY <2>9, <3>2, <4>1, <4>2, <4>3
    <3>3. QED
      BY <3>1, <3>2 DEF BlobsStored
  <2>13. RealStored'
    BY <1>4, <2>4, <2>5, <2>8 DEF DataSound, RealStored
  <2>14. PICK next : next = [st EXCEPT !.pc = "commit", !.id = b, !.file = f,
                                       !.version = v, !.avail = NewBlob.written]
    OBVIOUS
  <2>15. /\ next.pc = "commit" /\ next.path = p /\ next.id = b /\ next.file = f
         /\ next.avail = {} /\ next.pending = {}
    BY <1>2, <1>3, <1>4, <2>7, <2>14 DEF TaskState
  <2>16. HandleSound(next)'
    <3>1. HandleStale(next)'
      <4>1. ~Claims(db', p) /\ ~Claims(txn', p)
        BY <1>3, <1>4, <2>5, <2>9
      <4>2. \A q \in Path : (db'.blobOf[q] = b => ~Claims(db', q))
                            /\ (txn'.blobOf[q] = b => ~Claims(txn', q))
        BY <2>5, <2>6, <2>9
      <4>3. QED
        BY <2>15, <4>1, <4>2 DEF HandleStale
    <3>2. FileOpen(next)'
      BY <1>4, <2>8, <2>15 DEF FileOpen
    <3>3. QED
      BY <2>15, <3>1, <3>2 DEF HandleSound, HandleOpen, HandleRight
  <2>17. \A u \in Task : HandleSound(task[u])'
    BY <2>3, <2>14, <2>16, SoundTask
  <2>18. QED
    BY <2>10, <2>11, <2>12, <2>13, <2>17 DEF DataSound
<1>7. QED
  BY <1>5, <1>6

\* The tasks stay where they are.
LEMMA SoundTasksStay ==
  ASSUME BlobInv, DataSound, UNCHANGED task,
         \A st \in TaskState : Ready(st) /\ HandleSound(st) => HandleSound(st)'
  PROVE  \A u \in Task : HandleSound(task[u])'
<1>1. ASSUME NEW u \in Task PROVE HandleSound(task[u])'
  <2>1. PICK st : st = task[u]
    OBVIOUS
  <2>2. HandleSound(st)' /\ task'[u] = st
    BY <2>1, TaskReady DEF DataSound
  <2>3. QED
    BY <2>2 DEF HandleSound, HandleStale, HandleOpen, FileOpen, HandleRight
<1>2. QED
  BY <1>1

\* The user saves or deletes a file: its data is in a file of its own.
LEMMA SoundSaveFile ==
  ASSUME BlobInv, DataSound, NEW p \in Path, NEW v \in Hash \cup {None}, SaveFile(p, v)
  PROVE  DataSound'
<1>1. /\ content \in [File -> Data] /\ blobFile \in [BlobId -> File \cup {None}]
      /\ realFile \in [Path -> File \cup {None}] /\ same \in SUBSET Path
  BY DEF BlobInv, TypeOK
<1>2. UNCHANGED <<db, txn, blobFile, task>> /\ same' = same \ {p}
  BY DEF SaveFile
<1>3. PICK f \in File \cup {None} :
        /\ f # None => Unused(f) /\ v \in Hash /\ content'[f] = DataOf(v)
        /\ \A g \in File \ {f} : content'[g] = content[g]
        /\ \A q \in Path : realFile'[q] = IF q = p THEN f ELSE realFile[q]
  <2>1. CASE v = None
    <3>1. content' = content /\ realFile' = [realFile EXCEPT ![p] = None]
      BY <2>1 DEF SaveFile
    <3>2. QED
      BY <1>1, <3>1
  <2>2. CASE v # None
    <3>1. PICK f \in File : /\ Unused(f)
                            /\ content' = [content EXCEPT ![f] = DataOf(v)]
                            /\ realFile' = [realFile EXCEPT ![p] = f]
      BY <2>2 DEF SaveFile
    <3>2. QED
      BY <1>1, <2>2, <3>1
  <2>3. QED
    BY <2>1, <2>2
<1>4. f # None => /\ \A c \in BlobId : blobFile[c] # f
                  /\ \A q \in Path : realFile[q] # f
                  /\ \A u \in Task : task[u].file # f
  BY <1>3 DEF Unused
<1>5. TxnModest'
  BY <1>2 DEF DataSound, TxnModest, Claims
<1>6. FilesApart'
  BY <1>2, <1>3, <1>4 DEF DataSound, FilesApart
<1>7. \A c \in BlobId : blobFile[c] # None => content'[blobFile[c]] = content[blobFile[c]]
  BY <1>1, <1>3, <1>4
<1>8. BlobsStored'
  <2>1. \A q \in Path : Claims(txn, q) => txn.blobOf[q] \in BlobId
    BY TablesFields DEF Claims, BlobInv, TypeOK
  <2>2. \A q \in Path : Claims(txn, q) => /\ blobFile[txn.blobOf[q]] # None
                                          /\ content'[blobFile[txn.blobOf[q]]] = DataOf(txn.version[q])
    BY <1>7, <2>1 DEF DataSound, BlobsStored
  <2>3. \A b \in BlobId : \A i \in txn.blob[b].written :
          blobFile[b] # None /\ content'[blobFile[b]][i] # None
    BY <1>7 DEF DataSound, BlobsStored
  <2>4. QED
    BY <1>2, <2>2, <2>3 DEF BlobsStored, Claims
<1>9. RealStored'
  <2>1. \A q \in Path \ {p} : realFile[q] # None => content'[realFile[q]] = content[realFile[q]]
    BY <1>1, <1>3, <1>4
  <2>2. \A q \in same' : q \in same /\ q \in Path \ {p}
    BY <1>1, <1>2
  <2>3. ASSUME NEW q \in Path, realFile'[q] # None PROVE \E h \in Hash : content'[realFile'[q]] = DataOf(h)
    BY <1>3, <2>1, <2>3 DEF DataSound, RealStored
  <2>4. QED
    BY <1>2, <1>3, <2>1, <2>2, <2>3 DEF DataSound, RealStored
<1>10. ASSUME NEW u \in Task PROVE HandleSound(task[u])'
  <2>1. PICK st : st = task[u]
    OBVIOUS
  <2>2. st \in TaskState /\ Ready(st) /\ HandleSound(st)
    BY <2>1, TaskReady DEF DataSound
  <2>3. HandleStale(st)'
    BY <1>2, <2>2 DEF HandleSound, HandleStale, Claims
  <2>4. st.file # None => content'[st.file] = content[st.file]
    BY <1>3, <1>4, <2>1, <2>2 DEF TaskState
  <2>5. HandleOpen(st)'
    <3>1. SUFFICES ASSUME st.pc \notin {"idle", "entry", "create", "open"} PROVE FileOpen(st)'
      BY <2>2 DEF HandleSound, HandleOpen
    <3>2. FileOpen(st) /\ st.id \in BlobId
      BY <2>2, <3>1 DEF HandleSound, HandleOpen, Ready
    <3>3. \A q \in Path : realFile'[q] # st.file
      BY <1>3, <1>4, <2>1, <3>2 DEF FileOpen
    <3>4. FromReal(st.id) => FromReal(st.id)'
      BY <1>2, <1>7, <3>2 DEF FromReal
    <3>5. QED
      BY <1>2, <2>4, <3>2, <3>3, <3>4 DEF FileOpen
  <2>6. HandleRight(st)'
    BY <2>2, <2>4 DEF HandleSound, HandleRight, HandleOpen, FileOpen
  <2>7. HandleSound(st)' /\ task'[u] = st
    BY <1>2, <2>1, <2>3, <2>5, <2>6 DEF HandleSound
  <2>8. QED
    BY <2>7 DEF HandleSound, HandleStale, HandleOpen, FileOpen, HandleRight
<1>11. QED
  BY <1>5, <1>6, <1>8, <1>9, <1>10 DEF DataSound

\* The index learns what the real file holds.
LEMMA SoundIndexFile ==
  ASSUME BlobInv, DataSound, NEW p \in Path, IndexFile(p)
  PROVE  DataSound'
<1>1. UNCHANGED <<content, blobFile, realFile, task>>
  BY DEF IndexFile
<1>2. PICK h \in Hash \cup {None} :
        /\ Write([db EXCEPT !.indexed = [db.indexed EXCEPT ![p] = h]])
        /\ \/ /\ same' = same \cup {p} /\ realFile[p] # None /\ h \in Hash
              /\ content[realFile[p]] = DataOf(h)
           \/ same' = same /\ realFile[p] = None
  BY DEF IndexFile
<1>3. PICK indexed : indexed = [db.indexed EXCEPT ![p] = h]
  OBVIOUS
<1>4. db \in Tables /\ txn = db /\ txn' = db' /\ db' = [db EXCEPT !.indexed = indexed]
  BY <1>2, <1>3 DEF BlobInv, TypeOK, Write, Idle
<1>5. /\ db'.version = db.version /\ db'.blobOf = db.blobOf /\ db'.blob = db.blob
      /\ db'.indexed = indexed
  BY <1>4 DEF Tables
<1>6. \A q \in Path : indexed[q] = IF q = p THEN h ELSE db.indexed[q]
  BY <1>3, <1>4, TablesFields
<1>7. \A q \in Path : Claims(db', q) <=> Claims(db, q)
  BY <1>5 DEF Claims
<1>8. TxnModest' /\ FilesApart'
  BY <1>1, <1>4, <1>5, <1>7 DEF DataSound, TxnModest, FilesApart
<1>9. BlobsStored'
  BY <1>1, <1>4, <1>5, <1>7 DEF DataSound, BlobsStored
<1>10. RealStored'
  <2>1. same \in SUBSET Path
    BY DEF BlobInv, TypeOK
  <2>2. QED
    BY <1>1, <1>2, <1>4, <1>5, <1>6, <2>1 DEF DataSound, RealStored
<1>11. ASSUME NEW st \in TaskState, Ready(st), HandleSound(st) PROVE HandleSound(st)'
  <2>1. HandleStale(st)'
    BY <1>4, <1>5, <1>7, <1>11 DEF HandleSound, HandleStale, Ready
  <2>2. HandleOpen(st)'
    BY <1>1, <1>4, <1>5, <1>11 DEF HandleSound, HandleOpen, FileOpen, FromReal
  <2>3. HandleRight(st)'
    BY <1>1, <1>11 DEF HandleSound, HandleRight
  <2>4. QED
    BY <2>1, <2>2, <2>3 DEF HandleSound
<1>12. QED
  BY <1>1, <1>8, <1>9, <1>10, <1>11, SoundTasksStay DEF DataSound

\* The blob of p goes, and its file leaves the blob directory.
LEMMA SoundBlobLost ==
  ASSUME BlobInv, DataSound, NEW p \in Path, NEW b, b = db.blobOf[p],
         NEW version, \A q \in Path \ {p} : version[q] = db.version[q],
         LET d == TablesOf(version, [db.blobOf EXCEPT ![p] = 0], WithoutBlob(p), db.indexed)
         IN  Write(d) \/ Begin(d),
         \A c \in BlobId : blobFile'[c] = IF c = b THEN None ELSE blobFile[c],
         UNCHANGED <<content, task>>,
         \A q \in Path, u \in Task :
           task[u].file # None /\ FileOpen(task[u]) => realFile'[q] # task[u].file
  PROVE  /\ TxnModest' /\ BlobsStored' /\ \A u \in Task : HandleSound(task[u])'
         /\ txn = db /\ db'.indexed = db.indexed /\ txn'.indexed = db.indexed
<1>1. PICK blobOf : blobOf = [db.blobOf EXCEPT ![p] = 0]
  OBVIOUS
<1>2. PICK blob : blob = WithoutBlob(p)
  OBVIOUS
<1>3. /\ txn = db /\ txn' = TablesOf(version, blobOf, blob, db.indexed) /\ db' \in {db, txn'}
  BY <1>1, <1>2 DEF Write, Begin, Idle
<1>4. /\ txn'.version = version /\ txn'.indexed = db.indexed
      /\ txn'.blobOf = blobOf /\ txn'.blob = blob
  BY <1>3 DEF TablesOf
<1>5. /\ \A q \in Path : txn'.blobOf[q] = IF q = p THEN 0 ELSE db.blobOf[q]
      /\ \A c \in BlobId : txn'.blob[c] = IF c = b THEN NoBlob ELSE db.blob[c]
      /\ \A q \in Path : db.blobOf[q] \in 0..MaxBlob
      /\ db \in Tables /\ Owned(db) /\ b \in 0..MaxBlob
  BY <1>1, <1>2, <1>4, TablesFields DEF WithoutBlob, BlobInv, TypeOK, BlobsOwned
<1>6. NoBlob.used = 0 /\ NoBlob.written = {}
  BY DEF NoBlob
<1>7. ASSUME NEW q \in Path, Claims(txn', q)
      PROVE  /\ q # p /\ Claims(db, q) /\ txn'.blobOf[q] = db.blobOf[q]
             /\ txn'.version[q] = db.version[q] /\ db.blobOf[q] \in BlobId \ {b}
  <2>1. q # p /\ txn'.blobOf[q] = db.blobOf[q] /\ txn'.version[q] = db.version[q]
    BY <1>4, <1>5, <1>7 DEF Claims
  <2>2. db.blobOf[q] \in BlobId /\ db.blobOf[q] # b
    BY <1>5, <1>7, <2>1 DEF Claims, Owned
  <2>3. QED
    BY <1>5, <1>7, <2>1, <2>2 DEF Claims
<1>8. \A q \in Path : Claims(db', q) => Claims(db, q) /\ db'.blobOf[q] = db.blobOf[q]
  BY <1>3, <1>7
<1>9. TxnModest'
  <2>1. CASE db' = db
    <3>1. \A c \in BlobId : db.blob[c].used = 1 /\ txn'.blob[c].used = 1
                              => db.blob[c].written \subseteq txn'.blob[c].written
      BY <1>5, <1>6
    <3>2. QED
      BY <1>7, <2>1, <3>1 DEF DataSound, TxnModest
  <2>2. CASE db' = txn'
    <3>1. \A q \in Path : Claims(txn', q) => txn'.blob[txn'.blobOf[q]].written = Part
      BY <1>5, <1>7 DEF DataSound, TxnModest
    <3>2. QED
      BY <2>2, <3>1 DEF TxnModest
  <2>3. QED
    BY <1>3, <2>1, <2>2
<1>10. BlobsStored'
  <2>1. ASSUME NEW c \in BlobId, NEW j \in txn'.blob[c].written
        PROVE  blobFile'[c] # None /\ content'[blobFile'[c]][j] # None
    <3>1. c # b /\ j \in txn.blob[c].written
      BY <1>3, <1>5, <1>6, <2>1
    <3>2. QED
      BY <3>1 DEF DataSound, BlobsStored
  <2>2. ASSUME NEW q \in Path, Claims(txn', q)
        PROVE  /\ blobFile'[txn'.blobOf[q]] # None
               /\ content'[blobFile'[txn'.blobOf[q]]] = DataOf(txn'.version[q])
    BY <1>3, <1>7, <2>2 DEF DataSound, BlobsStored
  <2>3. QED
    BY <2>1, <2>2 DEF BlobsStored
<1>11. ASSUME NEW u \in Task PROVE HandleSound(task[u])'
  <2>1. PICK st : st = task[u]
    OBVIOUS
  <2>2. st \in TaskState /\ Ready(st) /\ HandleSound(st)
    BY <2>1, TaskReady DEF DataSound
  <2>3. HandleStale(st)'
    <3>1. st.pc # "idle" => ~Claims(db', st.path) /\ ~Claims(txn', st.path)
      BY <1>7, <1>8, <2>2 DEF HandleSound, HandleStale, Ready
    <3>2. ASSUME st.pc \notin {"idle", "entry", "create"}
          PROVE  /\ \A q \in Path : /\ db'.blobOf[q] = st.id => ~Claims(db', q)
                                    /\ txn'.blobOf[q] = st.id => ~Claims(txn', q)
                 /\ txn'.blob[st.id].used = 1
                      => st.avail \subseteq txn'.blob[st.id].written \cup st.pending
      <4>1. \A q \in Path : db.blobOf[q] = st.id => ~Claims(db, q)
        BY <2>2, <3>2 DEF HandleSound, HandleStale
      <4>2. st.id \in BlobId
        BY <2>2, <3>2 DEF Ready
      <4>3. txn'.blob[st.id].used = 1
              => st.avail \subseteq txn'.blob[st.id].written \cup st.pending
        BY <1>3, <1>5, <1>6, <2>2, <3>2, <4>2 DEF HandleSound, HandleStale
      <4>4. QED
        BY <1>7, <1>8, <4>1, <4>3
    <3>3. QED
      BY <3>1, <3>2 DEF HandleStale
  <2>4. HandleOpen(st)'
    <3>1. SUFFICES ASSUME st.pc \notin {"idle", "entry", "create", "open"} PROVE FileOpen(st)'
      BY <2>2 DEF HandleSound, HandleOpen
    <3>2. FileOpen(st) /\ st.id \in BlobId /\ st.file # None
      BY <2>2, <3>1 DEF HandleSound, HandleOpen, Ready, FileOpen
    <3>3. \A q \in Path : realFile'[q] # st.file
      BY <2>1, <3>2
    <3>4. \A c \in BlobId : blobFile'[c] = st.file => c = st.id
      BY <3>2 DEF FileOpen
    <3>5. txn'.blob[st.id].used = 1 => blobFile'[st.id] = st.file \/ FromReal(st.id)'
      <4>1. SUFFICES ASSUME txn'.blob[st.id].used = 1
                     PROVE  blobFile'[st.id] = st.file \/ FromReal(st.id)'
        OBVIOUS
      <4>2. /\ st.id # b /\ txn'.blob[st.id] = txn.blob[st.id]
            /\ blobFile'[st.id] = blobFile[st.id] /\ txn.blob[st.id].used = 1
        BY <1>3, <1>5, <1>6, <3>2, <4>1
      <4>3. \A q \in Path : txn'.blobOf[q] = st.id
              => q # p /\ txn.blobOf[q] = st.id /\ txn'.version[q] = txn.version[q]
        BY <1>3, <1>4, <1>5, <3>2
      <4>4. FromReal(st.id) => FromReal(st.id)'
        BY <4>2, <4>3 DEF FromReal
      <4>5. QED
        BY <3>2, <4>2, <4>4 DEF FileOpen
    <3>6. QED
      BY <3>2, <3>3, <3>4, <3>5 DEF FileOpen
  <2>5. HandleRight(st)'
    BY <2>2 DEF HandleSound, HandleRight
  <2>6. HandleSound(st)' /\ task'[u] = st
    BY <2>1, <2>3, <2>4, <2>5 DEF HandleSound
  <2>7. QED
    BY <2>6 DEF HandleSound, HandleStale, HandleOpen, FileOpen, HandleRight
<1>12. QED
  BY <1>3, <1>4, <1>9, <1>10, <1>11

LEMMA SoundChangeVersion ==
  ASSUME BlobInv, DataSound, NEW p \in Path, NEW v \in Hash \cup {None}, ChangeVersion(p, v)
  PROVE  DataSound'
<1>0. PICK version : version = [db.version EXCEPT ![p] = v]
  OBVIOUS
<1>1. PICK b : b = db.blobOf[p]
  OBVIOUS
<1>2. UNCHANGED <<content, realFile, same, task>>
  BY DEF ChangeVersion
<1>3. b \in 0..MaxBlob /\ \A q \in Path \ {p} : version[q] = db.version[q]
  BY <1>0, <1>1, TablesFields DEF BlobInv, TypeOK
<1>4. \A c \in BlobId : blobFile'[c] = IF c = b THEN None ELSE blobFile[c]
  <2>1. blobFile \in [BlobId -> File \cup {None}]
    BY DEF BlobInv, TypeOK
  <2>2. CASE b = 0
    BY <1>1, <2>2 DEF ChangeVersion
  <2>3. CASE b # 0
    <3>1. blobFile' = [blobFile EXCEPT ![b] = None]
      BY <1>1, <2>3 DEF ChangeVersion
    <3>2. QED
      BY <2>1, <3>1
  <2>4. QED
    BY <2>2, <2>3
<1>5. LET d == TablesOf(version, [db.blobOf EXCEPT ![p] = 0], WithoutBlob(p), db.indexed)
      IN  Write(d) \/ Begin(d)
  BY <1>0 DEF ChangeVersion
<1>6. \A q \in Path, u \in Task :
        task[u].file # None /\ FileOpen(task[u]) => realFile'[q] # task[u].file
  BY <1>2 DEF FileOpen
<1>7. /\ TxnModest' /\ BlobsStored' /\ \A u \in Task : HandleSound(task[u])'
      /\ txn = db /\ db'.indexed = db.indexed /\ txn'.indexed = db.indexed
  BY <1>1, <1>2, <1>3, <1>4, <1>5, <1>6, SoundBlobLost
<1>8. FilesApart'
  BY <1>2, <1>4 DEF DataSound, FilesApart
<1>9. RealStored'
  BY <1>2, <1>7 DEF DataSound, RealStored
<1>10. QED
  BY <1>7, <1>8, <1>9 DEF DataSound

\* The file of a verified blob becomes the real file: it is of one version, and
\* no job has it open.
LEMMA SoundRealize ==
  ASSUME BlobInv, DataSound, NEW p \in Path, Realize(p)
  PROVE  DataSound'
<1>1. PICK b, version : b = db.blobOf[p] /\ version = db.version
  OBVIOUS
<1>2. /\ UNCHANGED <<content, task>> /\ same' = same \ {p} /\ blobFile[b] # None
      /\ realFile' = [realFile EXCEPT ![p] = blobFile[b]]
      /\ blobFile' = [blobFile EXCEPT ![b] = None]
      /\ Begin(TablesOf(version, [db.blobOf EXCEPT ![p] = 0], WithoutBlob(p), db.indexed))
  BY <1>1 DEF Realize
<1>3. /\ b \in BlobId /\ txn = db /\ db.version[p] \in Hash
      /\ realFile \in [Path -> File \cup {None}] /\ blobFile \in [BlobId -> File \cup {None}]
      /\ same \in SUBSET Path
  BY <1>1, TablesFields DEF Realize, BlobInv, TypeOK, Begin, Idle
<1>4. Claims(db, p) /\ content[blobFile[b]] = DataOf(db.version[p])
  BY <1>1, <1>3 DEF Realize, Claims, DataSound, BlobsStored
<1>5. /\ \A c \in BlobId : blobFile'[c] = IF c = b THEN None ELSE blobFile[c]
      /\ \A q \in Path : realFile'[q] = IF q = p THEN blobFile[b] ELSE realFile[q]
  BY <1>2, <1>3
<1>6. ASSUME NEW q \in Path, NEW u \in Task, task[u].file # None, FileOpen(task[u])
      PROVE  realFile'[q] # task[u].file
  <2>1. HandleStale(task[u]) /\ task[u].pc \notin {"idle", "entry", "create"}
    BY <1>6 DEF DataSound, HandleSound, HandleOpen
  <2>2. task[u].id # b
    BY <1>1, <1>4, <2>1 DEF HandleStale
  <2>3. blobFile[b] # task[u].file
    BY <1>3, <1>6, <2>2 DEF FileOpen
  <2>4. QED
    BY <1>5, <1>6, <2>3 DEF FileOpen
<1>7. /\ TxnModest' /\ BlobsStored' /\ \A u \in Task : HandleSound(task[u])'
      /\ db'.indexed = db.indexed /\ txn'.indexed = db.indexed
  BY <1>1, <1>2, <1>5, <1>6, SoundBlobLost
<1>8. FilesApart'
  BY <1>2, <1>3, <1>5 DEF DataSound, FilesApart
<1>9. RealStored'
  BY <1>2, <1>3, <1>4, <1>5, <1>7 DEF DataSound, RealStored
<1>10. QED
  BY <1>7, <1>8, <1>9 DEF DataSound

\* A real file that is as indexed becomes the file of the blob: it holds the
\* version the blob is for, whatever a job does with the file the blob had.
LEMMA SoundUnrealize ==
  ASSUME BlobInv, DataSound, NEW p \in Path, Unrealize(p)
  PROVE  DataSound'
<1>1. PICK e : e = [used |-> 1, written |-> Part, verified |-> EntryFor(p).verified]
  OBVIOUS
<1>2. PICK indexed : indexed = [db.indexed EXCEPT ![p] = None]
  OBVIOUS
<1>3. /\ db \in Tables /\ Owned(db) /\ txn = db /\ blobFile \in [BlobId -> File \cup {None}]
      /\ realFile \in [Path -> File \cup {None}] /\ same \in SUBSET Path
  BY DEF BlobInv, TypeOK, BlobsOwned, Unrealize, Begin, Idle
<1>4. PICK b \in BlobId :
        /\ BlobFor(p, b)
        /\ blobFile' = [blobFile EXCEPT ![b] = realFile[p]]
        /\ Begin(TablesOf(db.version, [db.blobOf EXCEPT ![p] = b],
                          [db.blob EXCEPT ![b] = e], indexed))
  BY <1>1, <1>2 DEF Unrealize
<1>5. /\ UNCHANGED <<content, task>> /\ same' = same \ {p} /\ p \in same
      /\ realFile' = [realFile EXCEPT ![p] = None]
      /\ db.version[p] # None /\ db.indexed[p] = db.version[p]
  BY DEF Unrealize
<1>6. /\ e \in Blob /\ e.used = 1 /\ e.written = Part /\ e.verified = EntryFor(p).verified
  BY <1>1, <1>3, EntryForUsed DEF Blob
<1>7. /\ indexed \in [Path -> Hash \cup {None}]
      /\ \A q \in Path \ {p} : indexed[q] = db.indexed[q]
  BY <1>2, <1>3, TablesFields
<1>8. /\ db' = db /\ txn'.version = db.version /\ txn'.indexed = indexed
      /\ \A q \in Path : txn'.blobOf[q] = IF q = p THEN b ELSE db.blobOf[q]
      /\ \A c \in BlobId : txn'.blob[c] = IF c = b THEN e ELSE db.blob[c]
  BY <1>3, <1>4, <1>6, <1>7, BlobGivenFields, SMTT(30)
<1>9. \A q \in Path \ {p} : db.blobOf[q] # b
  BY <1>3, <1>4, BlobForOwn
<1>10. PICK f \in File : f = realFile[p]
  BY <1>3, <1>5 DEF DataSound, RealStored
<1>11. db.version[p] \in Hash /\ content[f] = DataOf(db.version[p])
  BY <1>3, <1>5, <1>10 DEF DataSound, RealStored
<1>12. /\ \A c \in BlobId : blobFile'[c] = IF c = b THEN f ELSE blobFile[c]
       /\ \A q \in Path : realFile'[q] = IF q = p THEN None ELSE realFile[q]
       /\ \A c \in BlobId : blobFile[c] # f
       /\ \A q \in Path \ {p} : realFile[q] # f
  BY <1>3, <1>4, <1>5, <1>10 DEF DataSound, FilesApart
<1>13. ASSUME NEW q \in Path, Claims(txn', q)
       PROVE  Claims(db, q) /\ txn'.blobOf[q] = db.blobOf[q]
  <2>1. CASE q = p
    <3>1. e.verified = db.version[p]
      BY <1>8, <1>13, <2>1 DEF Claims
    <3>2. db.blobOf[p] # 0
      BY <1>5, <1>6, <3>1 DEF EntryFor, NewBlob
    <3>3. b = db.blobOf[p] /\ EntryFor(p) = db.blob[b]
      BY <1>4, <3>2 DEF BlobFor, EntryFor
    <3>4. QED
      BY <1>5, <1>6, <1>8, <2>1, <3>1, <3>2, <3>3 DEF Claims
  <2>2. CASE q # p
    <3>1. txn'.blobOf[q] = db.blobOf[q] /\ db.blobOf[q] \in BlobId \ {b}
      BY <1>3, <1>8, <1>9, <1>13, <2>2, TablesFields DEF Claims
    <3>2. QED
      BY <1>8, <1>13, <3>1 DEF Claims
  <2>3. QED
    BY <2>1, <2>2
<1>14. TxnModest'
  <2>1. ASSUME NEW c \in BlobId, db.blob[c].used = 1, txn'.blob[c].used = 1
        PROVE  db.blob[c].written \subseteq txn'.blob[c].written
    BY <1>3, <1>6, <1>8, TablesFields DEF Blob
  <2>2. QED
    BY <1>8, <1>13, <2>1 DEF DataSound, TxnModest
<1>15. FilesApart'
  BY <1>10, <1>12 DEF DataSound, FilesApart
<1>16. BlobsStored'
  <2>1. ASSUME NEW c \in BlobId, NEW j \in txn'.blob[c].written
        PROVE  blobFile'[c] # None /\ content'[blobFile'[c]][j] # None
    <3>1. CASE c = b
      <4>1. j \in Part /\ DataOf(db.version[p])[j] = db.version[p]
        BY <1>6, <1>8, <2>1, <3>1 DEF DataOf
      <4>2. QED
        BY <1>5, <1>10, <1>11, <1>12, <3>1, <4>1
    <3>2. CASE c # b
      BY <1>3, <1>5, <1>8, <1>12, <2>1, <3>2 DEF DataSound, BlobsStored
    <3>3. QED
      BY <3>1, <3>2
  <2>2. ASSUME NEW q \in Path, Claims(txn', q)
        PROVE  /\ blobFile'[txn'.blobOf[q]] # None
               /\ content'[blobFile'[txn'.blobOf[q]]] = DataOf(txn'.version[q])
    <3>1. CASE q = p
      BY <1>5, <1>8, <1>11, <1>12, <3>1
    <3>2. CASE q # p
      <4>1. db.blobOf[q] \in BlobId \ {b} /\ txn'.blobOf[q] = db.blobOf[q] /\ Claims(db, q)
        BY <1>3, <1>9, <1>13, <2>2, <3>2, TablesFields DEF Claims
      <4>2. QED
        BY <1>3, <1>5, <1>8, <1>12, <4>1 DEF DataSound, BlobsStored
    <3>3. QED
      BY <3>1, <3>2
  <2>3. QED
    BY <2>1, <2>2 DEF BlobsStored
<1>17. RealStored'
  <2>1. \A q \in same' : q \in same /\ q \in Path \ {p}
    BY <1>3, <1>5
  <2>2. \A q \in same' : /\ realFile'[q] # None /\ db'.indexed[q] = txn'.indexed[q]
                         /\ txn'.indexed[q] \in Hash
                         /\ content'[realFile'[q]] = DataOf(txn'.indexed[q])
    BY <1>3, <1>5, <1>7, <1>8, <1>12, <2>1 DEF DataSound, RealStored
  <2>3. \A q \in Path : realFile'[q] # None => \E h \in Hash : content'[realFile'[q]] = DataOf(h)
    BY <1>5, <1>12 DEF DataSound, RealStored
  <2>4. QED
    BY <2>2, <2>3 DEF RealStored
<1>18. ASSUME NEW st \in TaskState, Ready(st), HandleSound(st) PROVE HandleSound(st)'
  <2>1. HandleStale(st)'
    <3>1. st.pc # "idle" => ~Claims(db', st.path) /\ ~Claims(txn', st.path)
      BY <1>8, <1>13, <1>18 DEF HandleSound, HandleStale, Ready
    <3>2. ASSUME st.pc \notin {"idle", "entry", "create"}
          PROVE  /\ \A q \in Path : /\ db'.blobOf[q] = st.id => ~Claims(db', q)
                                    /\ txn'.blobOf[q] = st.id => ~Claims(txn', q)
                 /\ txn'.blob[st.id].used = 1
                      => st.avail \subseteq txn'.blob[st.id].written \cup st.pending
      <4>1. \A q \in Path : db.blobOf[q] = st.id => ~Claims(db, q)
        BY <1>18, <3>2 DEF HandleSound, HandleStale
      <4>2. st.id \in BlobId /\ st.avail \subseteq Part
        BY <1>18, <3>2 DEF Ready, TaskState
      <4>3. txn'.blob[st.id].used = 1
              => st.avail \subseteq txn'.blob[st.id].written \cup st.pending
        BY <1>3, <1>6, <1>8, <1>18, <3>2, <4>2 DEF HandleSound, HandleStale
      <4>4. QED
        BY <1>8, <1>13, <4>1, <4>3
    <3>3. QED
      BY <3>1, <3>2 DEF HandleStale
  <2>2. HandleOpen(st)'
    <3>1. SUFFICES ASSUME st.pc \notin {"idle", "entry", "create", "open"} PROVE FileOpen(st)'
      BY <1>18 DEF HandleSound, HandleOpen
    <3>2. FileOpen(st) /\ st.id \in BlobId /\ st.file # None
      BY <1>18, <3>1 DEF HandleSound, HandleOpen, Ready, FileOpen
    <3>3. st.file # f /\ \A q \in Path : realFile'[q] # st.file
      BY <1>10, <1>12, <3>2 DEF FileOpen
    <3>4. \A c \in BlobId : blobFile'[c] = st.file => c = st.id
      BY <1>12, <3>2, <3>3 DEF FileOpen
    <3>5. txn'.blob[st.id].used = 1 => blobFile'[st.id] = st.file \/ FromReal(st.id)'
      <4>1. CASE st.id = b
        <5>1. \A q \in Path : txn'.blobOf[q] = b => q = p
          BY <1>8, <1>9
        <5>2. FromReal(b)'
          BY <1>5, <1>6, <1>8, <1>10, <1>11, <1>12, <5>1 DEF FromReal
        <5>3. QED
          BY <4>1, <5>2
      <4>2. CASE st.id # b
        <5>1. txn'.blob[st.id] = txn.blob[st.id] /\ blobFile'[st.id] = blobFile[st.id]
          BY <1>3, <1>8, <1>12, <3>2, <4>2
        <5>2. \A q \in Path : txn'.blobOf[q] = st.id => txn.blobOf[q] = st.id
          BY <1>3, <1>8, <4>2
        <5>3. FromReal(st.id) => FromReal(st.id)'
          BY <1>3, <1>5, <1>8, <5>1, <5>2 DEF FromReal
        <5>4. QED
          BY <3>2, <5>1, <5>3 DEF FileOpen
      <4>3. QED
        BY <4>1, <4>2
    <3>6. QED
      BY <1>5, <3>2, <3>3, <3>4, <3>5 DEF FileOpen
  <2>3. HandleRight(st)'
    BY <1>5, <1>18 DEF HandleSound, HandleRight
  <2>4. QED
    BY <2>1, <2>2, <2>3 DEF HandleSound
<1>19. QED
  BY <1>5, <1>14, <1>15, <1>16, <1>17, <1>18, SoundTasksStay DEF DataSound

LEMMA SoundCommit == ASSUME BlobInv, DataSound, Commit PROVE DataSound'
<1>1. db' = txn /\ UNCHANGED <<txn, content, blobFile, realFile, same, task>>
  BY DEF Commit, disk
<1>2. TxnModest'
  <2>1. ASSUME NEW p \in Path, Claims(txn, p) PROVE txn.blob[txn.blobOf[p]].written = Part
    <3>1. PICK b \in BlobId : b = txn.blobOf[p]
      BY <2>1, TablesFields DEF Claims, BlobInv, TypeOK
    <3>2. Claims(db, p) /\ db.blobOf[p] = b /\ db.blob[b].written = Part
      BY <2>1, <3>1 DEF DataSound, TxnModest
    <3>3. db.blob[b].used = 1 /\ txn.blob[b].used = 1
      BY <3>1, <3>2 DEF BlobInv, BlobsOwned, Owned
    <3>4. Part \subseteq txn.blob[b].written
      BY <3>2, <3>3 DEF DataSound, TxnModest
    <3>5. txn.blob[b] \in Blob
      BY TablesFields DEF BlobInv, TypeOK
    <3>6. txn.blob[b].written \subseteq Part
      BY <3>5 DEF Blob
    <3>7. QED
      BY <3>1, <3>4, <3>6
  <2>2. QED
    BY <1>1, <2>1 DEF TxnModest, Claims
<1>3. FilesApart' /\ BlobsStored' /\ RealStored'
  BY <1>1 DEF DataSound, FilesApart, BlobsStored, Claims, RealStored
<1>4. ASSUME NEW st \in TaskState, Ready(st), HandleSound(st) PROVE HandleSound(st)'
  <2>1. HandleStale(st)'
    BY <1>1, <1>4 DEF HandleSound, HandleStale, Claims
  <2>2. HandleOpen(st)' /\ HandleRight(st)'
    BY <1>1, <1>4 DEF HandleSound, HandleOpen, FileOpen, FromReal, HandleRight
  <2>3. QED
    BY <2>1, <2>2 DEF HandleSound
<1>5. QED
  BY <1>1, <1>2, <1>3, <1>4, SoundTasksStay DEF DataSound

\* A crash with no transaction under way.
LEMMA SoundCrash == ASSUME BlobInv, DataSound, Crash, harm' = {} PROVE DataSound'
<1>1. UNCHANGED <<db, txn, disk>> /\ \A u \in Task : task'[u] = NoTask
  BY DEF Crash, Idle
<1>2. \A u \in Task : HandleSound(task[u])'
  BY <1>1, SoundNoTask DEF HandleSound, HandleStale, HandleOpen, FileOpen, HandleRight
<1>3. QED
  BY <1>1, <1>2, SoundKept DEF DataSound

LEMMA DataInit == Init => DataInv
<1> SUFFICES ASSUME Init PROVE DataSound
  BY DEF DataInv
<1>1. PICK v \in [Path -> Hash] :
        db = TablesOf(v, [p \in Path |-> 0], [b \in BlobId |-> NoBlob], [p \in Path |-> None])
  BY DEF Init
<1>2. /\ db.blobOf = [p \in Path |-> 0] /\ db.blob = [b \in BlobId |-> NoBlob] /\ txn = db
      /\ same = {} /\ blobFile = [b \in BlobId |-> None] /\ realFile = [p \in Path |-> None]
  BY <1>1 DEF TablesOf, Init
<1>3. NoBlob.used = 0 /\ NoBlob.written = {}
  BY DEF NoBlob
<1>4. TxnModest /\ FilesApart /\ BlobsStored /\ RealStored
  BY <1>2, <1>3 DEF TxnModest, Claims, FilesApart, BlobsStored, RealStored
<1>5. NoTask.pc = "idle" /\ NoTask.file = None /\ NoTask.pending = {}
  BY DEF NoTask
<1>6. \A u \in Task : HandleSound(task[u])
  BY <1>5 DEF Init, HandleSound, HandleStale, HandleOpen, HandleRight
<1>7. QED
  BY <1>4, <1>6 DEF DataSound

LEMMA DataStep ==
  ASSUME OneTask
  PROVE  BlobInv /\ DataInv /\ [Next]_vars => DataInv'
<1> SUFFICES ASSUME BlobInv, DataInv, [Next]_vars, harm' = {} PROVE DataSound'
  BY DEF DataInv
<1>1. harm = {}
  <2>1. harm \subseteq harm'
    BY ZenonT(40) DEF Next, vars, bounds, disk, ChangeVersion, SaveFile, Realize, Unrealize, IndexFile, Job,
           StartJob, ReadEntry, OpenBlobFile, CreateBlob, BlobCreated, WriteToBlob, WritePart,
           WriteEnds, UpdateAfterWrite, ComputeHash, RepairEnds, UpdateBeforeMark, SetContentHash,
           Commit, Crash
  <2>2. QED
    BY <2>1
<1>2. DataSound /\ BlobInv'
  BY <1>1, BlobInvStep DEF DataInv
<1>3. CASE UNCHANGED vars
  <2>1. UNCHANGED <<db, txn, disk, task>>
    BY <1>3 DEF vars
  <2>2. \A u \in Task : HandleSound(task[u])'
    BY <1>2, <2>1, SoundKept, SoundTasksStay
  <2>3. QED
    BY <1>2, <2>1, <2>2, SoundKept DEF DataSound
<1>4. ASSUME NEW p \in Path, NEW v \in Hash \cup {None}, ChangeVersion(p, v) \/ SaveFile(p, v)
      PROVE  DataSound'
  BY <1>2, <1>4, SoundChangeVersion, SoundSaveFile
<1>5. ASSUME NEW p \in Path, Realize(p) \/ Unrealize(p) \/ IndexFile(p) PROVE DataSound'
  BY <1>2, <1>5, SoundRealize, SoundUnrealize, SoundIndexFile
<1>6. ASSUME NEW t \in Task, Job(t) PROVE DataSound'
  BY <1>1, <1>2, <1>6, SoundStartJob, SoundReadEntry, SoundOpenBlobFile, SoundCreateBlob,
     SoundBlobCreated, SoundWriteToBlob, SoundJobGoesOn, SoundUpdateAfterWrite,
     SoundUpdateBeforeMark, SoundSetContentHash DEF Job
<1>7. CASE Commit
  BY <1>2, <1>7, SoundCommit
<1>8. CASE Crash
  BY <1>2, <1>8, SoundCrash
<1>9. QED
  BY <1>3, <1>4, <1>5, <1>6, <1>7, <1>8 DEF Next

\* With one task, and unless a crash or open_file did harm, the inductive
\* invariant holds: tables, files and the task's handle agree.
THEOREM DataInvCorrect ==
  ASSUME OneTask
  PROVE  Spec => []DataInv
<1>1. BlobInv /\ DataInv /\ [Next]_vars => DataInv'
  BY DataStep
<1>2. QED
  BY <1>1, DataInit, BlobInvInit, BlobInvStep, PTL DEF Spec

\* With one task, nothing takes data from a blob but a crash between a file
\* system change and its commit, and an open_file that empties a file: what
\* blobs record as written is in their files after every change of version,
\* realize, unrealize, download and update_db through a stale handle.
THEOREM AvailableCorrect ==
  ASSUME OneTask
  PROVE  Spec => []AvailableUnlessHarmed
<1>1. DataInv => AvailableUnlessHarmed
  BY DEF DataInv, DataSound, BlobsStored, AvailableUnlessHarmed, AvailableWritten, Idle
<1>2. QED
  BY <1>1, DataInvCorrect, PTL

\* With one task, a verified blob holds the version it is verified for, although
\* its file may have been replaced by unrealize since the job opened it, and its
\* id may have gone to another file since (jobs::verify, set_content_hash).
THEOREM VerifiedCorrect ==
  ASSUME OneTask
  PROVE  Spec => []VerifiedUnlessHarmed
<1>1. DataInv => VerifiedUnlessHarmed
  BY DEF DataInv, DataSound, BlobsStored, VerifiedUnlessHarmed, Verified, FullyWritten, Claims, Idle
<1>2. QED
  BY <1>1, DataInvCorrect, PTL

\* With one task, the real tree never gets a file that is not of one version as
\* a whole: realize moves no file that a job still writes to.
THEOREM RealFilesWholeCorrect ==
  ASSUME OneTask
  PROVE  Spec => []RealFilesWhole
<1>1. DataInv => RealFilesWhole
  BY DEF DataInv, DataSound, RealStored, RealFilesWhole
<1>2. QED
  BY <1>1, DataInvCorrect, PTL
=============================================================================
