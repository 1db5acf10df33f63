----------------------------- MODULE WatcherProofs -----------------------------
(***************************************************************************)
(* Proofs about Watcher, for any paths, contents and bounds.               *)
(***************************************************************************)
EXTENDS Watcher, TLAPS

USE BoundsAssumption, NoneAssumption

-----------------------------------------------------------------------------
(* Type correctness. *)

\* Events that are posted are events.
LEMMA PostType ==
  ASSUME TypeOK, NEW kind \in {"Remove", "Folder", "Create", "Name", "Metadata", "Data"},
         NEW path \in Path \cup {Dir}
  PROVE  /\ Ev(kind, path) \in Event
         /\ Append(queue, Ev(kind, path)) \in Seq(Event)
         /\ Post(<<Ev(kind, path)>>) => queue' \in Seq(Event)
<1>1. Ev(kind, path) \in Event
  BY DEF Ev, Event
<1>2. queue \in Seq(Event)
  BY DEF TypeOK
<1> HIDE DEF Event
<1>3. Append(queue, Ev(kind, path)) \in Seq(Event)
  BY <1>1, <1>2
<1>4. queue \o <<Ev(kind, path)>> \in Seq(Event)
  BY <1>1, <1>2
<1>5. QED
  BY <1>1, <1>2, <1>3, <1>4 DEF Post

\* An operation of the user keeps the types of all but the tree.
LEMMA OperateType ==
  ASSUME TypeOK, NEW ps, NEW kind \in {"Remove", "Folder", "Create", "Name", "Metadata", "Data"},
         NEW path \in Path \cup {Dir}, Operate(ps, <<Ev(kind, path)>>),
         tree' \in [Path -> File \cup {None}], aside' \in [Path -> File \cup {None}],
         away' \in BOOLEAN, hashing' \subseteq [path : Path, stamp : 1..MaxOps, hash : Hash]
  PROVE  TypeOK'
<1>1. queue' \in Seq(Event)
  BY PostType DEF Operate
<1>2. ops' \in 0..MaxOps
  BY DEF Operate, TypeOK
<1>3. raced' \subseteq Path
  BY DEF Operate, TypeOK
<1>4. QED
  BY <1>1, <1>2, <1>3 DEF Operate, TypeOK, configVars, catchupVars, remoteVars

\* The files a user makes are files.
LEMMA FileTypes ==
  ASSUME TypeOK, ops < MaxOps
  PROVE  /\ \A h \in Content \cup {Empty}, r \in BOOLEAN :
              [hash |-> h, stamp |-> ops + 1, readable |-> r] \in File
         /\ \A f \in File, h \in Content \cup {Empty} :
              [f EXCEPT !.hash = h, !.stamp = ops + 1] \in File
         /\ \A f \in File : [f EXCEPT !.readable = ~@] \in File
<1>1. ops + 1 \in 1..MaxOps
  BY DEF TypeOK
<1>2. QED
  BY <1>1 DEF File

LEMMA UserType == ASSUME TypeOK, User PROVE TypeOK'
<1>0. /\ tree \in [Path -> File \cup {None}] /\ aside \in [Path -> File \cup {None}]
      /\ away \in BOOLEAN /\ hashing \subseteq [path : Path, stamp : 1..MaxOps, hash : Hash]
  BY DEF TypeOK
<1>1. ASSUME NEW p \in Path, CreateFile(p) PROVE TypeOK'
  <2>1. tree' \in [Path -> File \cup {None}]
    BY <1>0, <1>1, FileTypes DEF CreateFile, Operate
  <2>2. QED
    BY <1>0, <1>1, <2>1, OperateType DEF CreateFile
<1>2. ASSUME NEW p \in Path, DeleteFile(p) PROVE TypeOK'
  BY <1>0, <1>2, OperateType DEF DeleteFile
<1>3. ASSUME NEW p \in Path, MoveFileOut(p) PROVE TypeOK'
  BY <1>0, <1>3, OperateType DEF MoveFileOut
<1>4. ASSUME NEW p \in Path, Chmod(p) PROVE TypeOK'
  <2>1. tree[p] \in File /\ ops < MaxOps
    BY <1>0, <1>4 DEF Chmod, Operate
  <2>2. tree' = [tree EXCEPT ![p] = [tree[p] EXCEPT !.readable = ~@]]
    BY <1>4 DEF Chmod
  <2>3. tree' \in [Path -> File \cup {None}]
    BY <1>0, <2>1, <2>2, FileTypes
  <2>4. QED
    BY <1>0, <1>4, <2>3, OperateType DEF Chmod
<1>5. ASSUME NEW p \in Path, NEW h \in Content, MoveFileIn(p, h) PROVE TypeOK'
  <2>1. tree' \in [Path -> File \cup {None}]
    BY <1>0, <1>5, FileTypes DEF MoveFileIn, Operate
  <2>2. QED
    BY <1>0, <1>5, <2>1, OperateType DEF MoveFileIn
<1>6. ASSUME NEW p \in Path, NEW h \in Content \cup {Empty}, WriteFile(p, h) PROVE TypeOK'
  <2>1. tree[p] \in File /\ ops < MaxOps
    BY <1>0, <1>6 DEF WriteFile, Operate
  <2>2. tree' = [tree EXCEPT ![p] = [tree[p] EXCEPT !.hash = h, !.stamp = ops + 1]]
    BY <1>0, <1>6 DEF WriteFile
  <2>3. tree' \in [Path -> File \cup {None}]
    BY <1>0, <2>1, <2>2, FileTypes
  <2>4. hashing' \subseteq [path : Path, stamp : 1..MaxOps, hash : Hash]
    BY <1>0, <1>6 DEF WriteFile, Hash
  <2>5. QED
    BY <1>0, <1>6, <2>3, <2>4, OperateType DEF WriteFile
<1>7. CASE MoveDir
  <2>1. PICK kind \in {"Name", "Folder", "Remove"} :
          Operate({p \in Path : tree[p] # aside[p]}, <<Ev(kind, Dir)>>)
    BY <1>7 DEF MoveDir
  <2>2. QED
    BY <1>0, <1>7, <2>1, OperateType DEF MoveDir
<1>8. QED
  BY <1>1, <1>2, <1>3, <1>4, <1>5, <1>6, <1>7 DEF User

\* Index entries the watcher writes are entries.
LEMMA IndexTypes ==
  ASSUME TypeOK, NEW p \in Path
  PROVE  /\ \A path : RemoveFileOrDir(index, path) \in [Path -> Entry \cup {None}]
         /\ \A stamp \in 1..MaxOps, hash \in Hash :
              AddFile(index, p, stamp, hash) \in [Path -> Entry \cup {None}]
  BY DEF TypeOK, RemoveFileOrDir, AddFile, Entry

LEMMA WorkerType == ASSUME TypeOK, Worker PROVE TypeOK'
<1>0. /\ tree \in [Path -> File \cup {None}]
      /\ index \in [Path -> Entry \cup {None}]
      /\ queue \in Seq(Event)
      /\ stale \in [Path -> Entry \cup {None}]
  BY DEF TypeOK
<1>1. CASE HandleEvent
  <2> DEFINE e == Head(queue)
  <2>1. e \in Event /\ queue' \in Seq(Event)
    <3>1. queue # <<>> /\ queue' = Tail(queue)
      BY <1>1 DEF HandleEvent
    <3>2. QED
      BY <1>0, <3>1
  <2>2. e.path \in Path \cup {Dir}
    BY <2>1 DEF Event
  <2>3. index' \in [Path -> Entry \cup {None}]
    <3>1. index' = RemoveFileOrDir(index, e.path) \/ index' = index
      BY <1>1 DEF HandleEvent
    <3>2. RemoveFileOrDir(index, e.path) \in [Path -> Entry \cup {None}]
      BY <1>0 DEF RemoveFileOrDir
    <3>3. QED
      BY <1>0, <3>1, <3>2
  <2>4. walking' \subseteq Path
    BY <1>1 DEF HandleEvent
  <2>5. seen' \in [path : Path, file : File] \cup {None}
    <3>1. CASE IsChange(e) /\ e.path # Dir
      <4>1. e.path \in Path /\ tree[e.path] \in File
        BY <1>0, <2>2, <3>1 DEF IsChange, Exists
      <4>2. seen' = [path |-> e.path, file |-> tree[e.path]]
        BY <1>1, <3>1 DEF HandleEvent
      <4>3. QED
        BY <4>1, <4>2
    <3>2. CASE ~(IsChange(e) /\ e.path # Dir)
      BY <1>1, <3>2 DEF HandleEvent
    <3>3. QED
      BY <3>1, <3>2
  <2>6. QED
    BY <1>1, <2>1, <2>3, <2>4, <2>5
       DEF HandleEvent, TypeOK, userVars, configVars, hashVars, catchupVars, remoteVars
<1>2. CASE FileCreatedOrModified
  <2>1. seen \in [path : Path, file : File]
    BY <1>2 DEF FileCreatedOrModified, TypeOK
  <2>2. seen.path \in Path /\ seen.file.stamp \in 1..MaxOps
    BY <2>1 DEF File
  <2>3. index' \in [Path -> Entry \cup {None}]
    <3>1. index' = AddFile(index, seen.path, seen.file.stamp, Empty) \/ index' = index
      BY <1>2 DEF FileCreatedOrModified
    <3>2. QED
      BY <1>0, <2>2, <3>1, IndexTypes DEF Hash
  <2>4. requested' \subseteq Path
    BY <1>2, <2>2 DEF FileCreatedOrModified, TypeOK
  <2>5. QED
    BY <1>2, <2>3, <2>4
       DEF FileCreatedOrModified, TypeOK, userVars, configVars, catchupVars, remoteVars
<1>3. CASE AddHashed
  <2>1. adding \in [path : Path, stamp : 1..MaxOps, hash : Hash]
    BY <1>3 DEF AddHashed, TypeOK
  <2>2. index' \in [Path -> Entry \cup {None}] /\ raced' \subseteq Path
    BY <1>3, <2>1, IndexTypes DEF AddHashed, TypeOK
  <2>3. QED
    BY <1>3, <2>2 DEF AddHashed, TypeOK, userVars, configVars, eventVars, catchupVars, remoteVars
<1>4. CASE SendRemoved
  <2>1. removed \in Path
    BY <1>4 DEF SendRemoved, TypeOK
  <2>2. queue' \in Seq(Event) /\ raced' \subseteq Path
    BY <1>4, <2>1, PostType DEF SendRemoved, TypeOK
  <2>3. QED
    BY <1>4, <2>2 DEF SendRemoved, TypeOK, userVars, configVars, hashVars, remoteVars
<1>5. CASE DeleteDoomed
  <2>1. doomed \in [path : Path, old : Hash, entry : Entry]
    BY <1>5 DEF DeleteDoomed, TypeOK
  <2>2. tree' \in [Path -> File \cup {None}]
    BY <1>0, <1>5 DEF DeleteDoomed
  <2>3. queue' \in Seq(Event)
    BY <1>0, <1>5, <2>1, PostType DEF DeleteDoomed
  <2>4. wrong' \subseteq Path \X Hash
    <3>1. wrong' = wrong \/ (tree[doomed.path] # None
                             /\ wrong' = wrong \cup {<<doomed.path, tree[doomed.path].hash>>})
      BY <1>5 DEF DeleteDoomed
    <3>2. tree[doomed.path] # None => tree[doomed.path].hash \in Hash
      BY <1>0, <2>1 DEF File, Hash
    <3>3. QED
      BY <2>1, <3>1, <3>2 DEF TypeOK
  <2>5. QED
    BY <1>5, <2>2, <2>3, <2>4 DEF DeleteDoomed, TypeOK, configVars, hashVars, catchupVars
<1>6. ASSUME NEW p \in Path, CatchupEntry(p) PROVE TypeOK'
  <2>1. queue' \in Seq(Event)
    BY <1>0, <1>6, PostType DEF CatchupEntry
  <2>2. stale' \in [Path -> Entry \cup {None}] /\ removed' \in Path \cup {None}
    BY <1>0, <1>6 DEF CatchupEntry, TypeOK
  <2>3. QED
    BY <1>6, <2>1, <2>2 DEF CatchupEntry, TypeOK, userVars, configVars, hashVars, remoteVars
<1>7. ASSUME NEW p \in Path, CatchupAdded(p) PROVE TypeOK'
  <2>1. queue' \in Seq(Event)
    BY <1>0, <1>7, PostType DEF CatchupAdded
  <2>2. QED
    BY <1>7, <2>1 DEF CatchupAdded, TypeOK, userVars, configVars, hashVars, remoteVars
<1>8. ASSUME NEW p \in Path, WalkDir(p) PROVE TypeOK'
  <2>1. seen' \in [path : Path, file : File] \cup {None}
    BY <1>0, <1>8 DEF WalkDir
  <2>2. QED
    BY <1>8, <2>1 DEF WalkDir, TypeOK, userVars, configVars, hashVars, catchupVars, remoteVars
<1>9. ASSUME NEW p \in Path, OpenToHash(p) PROVE TypeOK'
  <2>1. tree[p] # None => [path |-> p, stamp |-> tree[p].stamp, hash |-> tree[p].hash]
                            \in [path : Path, stamp : 1..MaxOps, hash : Hash]
    BY <1>0 DEF File, Hash
  <2>2. hashing' \subseteq [path : Path, stamp : 1..MaxOps, hash : Hash] /\ requested' \subseteq Path
    BY <1>9, <2>1 DEF OpenToHash, TypeOK
  <2>3. QED
    BY <1>9, <2>2 DEF OpenToHash, TypeOK, userVars, configVars, eventVars, catchupVars, remoteVars
<1>10. ASSUME NEW t \in hashing, CheckHashed(t) PROVE TypeOK'
  BY <1>10 DEF CheckHashed, TypeOK, userVars, configVars, eventVars, catchupVars, remoteVars
<1>11. QED
  BY <1>1, <1>2, <1>3, <1>4, <1>5, <1>6, <1>7, <1>8, <1>9, <1>10 DEF Worker

LEMMA RemoteType == ASSUME TypeOK, Remote PROVE TypeOK'
<1>1. ASSUME NEW p \in Path, NEW old \in Content \cup {Empty}, UpdateRemove(p, old) PROVE TypeOK'
  <2>1. index[p] \in Entry /\ old \in Hash
    BY <1>1 DEF UpdateRemove, TypeOK, Hash
  <2>2. doomed' \in [path : Path, old : Hash, entry : Entry] \cup {None} /\ updates' \in 0..MaxUpdates
    BY <1>1, <2>1 DEF UpdateRemove, TypeOK
  <2>3. QED
    BY <1>1, <2>2 DEF UpdateRemove, TypeOK, userVars, configVars, eventVars, hashVars, catchupVars
<1>2. ASSUME NEW p \in Path, NEW old \in Content \cup {Empty}, NEW new \in Content,
             UpdateReplace(p, old, new)
      PROVE  TypeOK'
  <2>1. index[p] \in Entry /\ old \in Hash /\ new \in Hash
    BY <1>2 DEF UpdateReplace, TypeOK, Hash
  <2>2. index' = [index EXCEPT ![p] = [index[p] EXCEPT !.outdated = new]]
    BY <1>2 DEF UpdateReplace
  <2>3. [index[p] EXCEPT !.outdated = new] \in Entry
    BY <2>1 DEF Entry
  <2>4. index' \in [Path -> Entry \cup {None}]
    BY <2>2, <2>3 DEF TypeOK
  <2>5. replaced' \in [Path -> SUBSET (Hash \X Hash)] /\ updates' \in 0..MaxUpdates
    BY <1>2, <2>1 DEF UpdateReplace, TypeOK
  <2>6. QED
    BY <1>2, <2>4, <2>5 DEF UpdateReplace, TypeOK, userVars, configVars, eventVars, hashVars, catchupVars
<1>3. QED
  BY <1>1, <1>2 DEF Remote

LEMMA TypeStep == ASSUME TypeOK, [Next]_vars PROVE TypeOK'
<1>1. CASE Start
  BY <1>1 DEF Start, TypeOK, userVars, eventVars, hashVars, remoteVars
<1>2. CASE Stop
  <2>1. queue' \in Seq(Event)
    BY <1>2 DEF Stop
  <2>2. stale' \in [Path -> Entry \cup {None}]
    BY <1>2 DEF Stop, NoFiles
  <2>3. QED
    BY <1>2, <2>1, <2>2 DEF Stop, TypeOK, userVars
<1>3. CASE UNCHANGED vars
  BY <1>3 DEF vars, TypeOK, userVars, configVars, eventVars, hashVars, catchupVars, remoteVars
<1>4. QED
  BY <1>1, <1>2, <1>3, UserType, WorkerType, RemoteType DEF Next

-----------------------------------------------------------------------------
(* The versions that are noted down. *)

\* What the watcher knows of versions outlives a change of the tree that only
\* moves files between the tree and aside, deletes files, and gives new
\* stamps to what it writes.
FilesStep ==
  /\ ops' \in Nat /\ ops <= ops'
  /\ \A p \in Path : \A f \in {tree'[p], aside'[p]} :
       f # None => \/ f.stamp > ops
                   \/ \E g \in {tree[p], aside[p]} : g # None /\ g.stamp = f.stamp /\ g.hash = f.hash

LEMMA NotedKept ==
  ASSUME TypeOK, FilesStep, NEW p \in Path, NEW v, v.stamp \in Nat,
         NotedAt(ops, {tree[p], aside[p]}, v)
  PROVE  NotedAt(ops', {tree'[p], aside'[p]}, v)
<1>1. v.stamp <= ops'
  BY DEF NotedAt, FilesStep, TypeOK
<1>2. ASSUME NEW f \in {tree'[p], aside'[p]}, f # None, f.stamp = v.stamp
      PROVE  f.hash = v.hash
  <2>1. CASE f.stamp > ops
    BY <1>2, <2>1 DEF NotedAt, TypeOK
  <2>2. CASE \E g \in {tree[p], aside[p]} : g # None /\ g.stamp = f.stamp /\ g.hash = f.hash
    BY <1>2, <2>2 DEF NotedAt
  <2>3. QED
    BY <1>2, <2>1, <2>2 DEF FilesStep
<1>3. QED
  BY <1>1, <1>2 DEF NotedAt

\* A chain of replacements stays one when replacements are added to it.
LEMMA ReplacedKept ==
  ASSUME NEW R, NEW Q, R \subseteq Q, NEW h, NEW old, Replaced(R, h, old)
  PROVE  Replaced(Q, h, old)
  BY DEF Replaced, Closed

\* It is extended by the replacement of its last version.
LEMMA ReplacedExtends ==
  ASSUME NEW R, NEW h, NEW old \in Hash, NEW new \in Hash, Replaced(R, h, old)
  PROVE  Replaced(R \cup {<<old, new>>}, h, new)
<1>1. SUFFICES ASSUME NEW S \in SUBSET Hash, h \in S, Closed(R \cup {<<old, new>>}, S)
               PROVE  new \in S
  BY DEF Replaced
<1>2. Closed(R, S)
  BY <1>1 DEF Closed
<1>3. old \in S
  BY <1>1, <1>2 DEF Replaced
<1>4. QED
  BY <1>1, <1>3 DEF Closed

LEMMA ReplacedSelf == \A R, h : Replaced(R, h, h)
  BY DEF Replaced

\* What TypeOK says of the stamps that are noted down.
LEMMA StampTypes ==
  ASSUME TypeOK
  PROVE  /\ \A p \in Path : tree[p] # None => tree[p].stamp \in Nat
         /\ \A p \in Path : aside[p] # None => aside[p].stamp \in Nat
         /\ \A p \in Path : index[p] # None => index[p].stamp \in Nat
         /\ \A t \in hashing : t.path \in Path /\ t.stamp \in Nat
         /\ adding # None => adding.path \in Path /\ adding.stamp \in Nat
         /\ seen # None => seen.path \in Path /\ seen.file.stamp \in Nat
         /\ doomed # None => doomed.path \in Path /\ doomed.entry.stamp \in Nat
                            /\ doomed.entry \in Entry /\ doomed.old \in Hash
<1>1. \A f \in File : f.stamp \in Nat
  BY DEF File
<1>2. \A e \in Entry : e.stamp \in Nat
  BY DEF Entry
<1> HIDE DEF File, Entry
<1>3. QED
  BY <1>1, <1>2 DEF TypeOK

\* A step that only changes files keeps all but the tree in order, as long as
\* the tasks that hash files are.
LEMMA FilesKeep ==
  ASSUME WatcherInv, TypeOK', FilesInOnePlace', FilesStep,
         UNCHANGED <<index, seen, adding, replaced>>,
         doomed' = doomed \/ doomed' = None, wrong' = {},
         \A p \in Path : tree'[p] # None => tree'[p].stamp <= ops',
         \A p \in Path : aside'[p] # None => aside'[p].stamp <= ops',
         \A t \in hashing' : NotedAt(ops', {tree'[t.path], aside'[t.path]}, t)
  PROVE  WatcherInv'
<1>0. UNCHANGED <<index, seen, adding, replaced>>
  OBVIOUS
<1>1. TypeOK /\ VersionsRight /\ RemovalRight
  BY DEF WatcherInv
<1>2. ASSUME NEW p \in Path, index'[p] # None PROVE EntryRight(p, index[p])'
  <2>1. index[p] # None /\ index'[p] = index[p] /\ EntryRight(p, index[p])
    BY <1>0, <1>1, <1>2 DEF VersionsRight
  <2>2. NotedAt(ops', {tree'[p], aside'[p]}, index[p])
    BY <1>1, <2>1, NotedKept, StampTypes DEF EntryRight, Noted
  <2>3. QED
    BY <1>0, <2>1, <2>2 DEF EntryRight, Noted
<1>3. ASSUME adding' # None PROVE Noted(adding.path, adding)'
  <2>1. adding # None /\ adding' = adding /\ Noted(adding.path, adding)
    BY <1>0, <1>1, <1>3 DEF VersionsRight
  <2>2. NotedAt(ops', {tree'[adding.path], aside'[adding.path]}, adding)
    BY <1>1, <2>1, NotedKept, StampTypes DEF Noted
  <2>3. QED
    BY <2>1, <2>2 DEF Noted
<1>4. ASSUME seen' # None PROVE Noted(seen.path, seen.file)'
  <2>1. seen # None /\ seen' = seen /\ Noted(seen.path, seen.file)
    BY <1>0, <1>1, <1>4 DEF VersionsRight
  <2>2. NotedAt(ops', {tree'[seen.path], aside'[seen.path]}, seen.file)
    BY <1>1, <2>1, NotedKept, StampTypes DEF Noted
  <2>3. QED
    BY <2>1, <2>2 DEF Noted
<1>5. RemovalRight'
  <2>1. SUFFICES ASSUME doomed' # None
                 PROVE  EntryRight(doomed.path, doomed.entry)' /\ Replaces(doomed.entry, doomed.old)'
    BY DEF RemovalRight
  <2>2. /\ doomed # None /\ doomed' = doomed
        /\ EntryRight(doomed.path, doomed.entry) /\ Replaces(doomed.entry, doomed.old)
    BY <1>1, <2>1 DEF RemovalRight
  <2>3. NotedAt(ops', {tree'[doomed.path], aside'[doomed.path]}, doomed.entry)
    BY <1>1, <2>2, NotedKept, StampTypes DEF EntryRight, Noted
  <2>4. QED
    BY <1>0, <2>2, <2>3 DEF EntryRight, Noted, Replaces
<1>6. VersionsRight'
  BY <1>2, <1>3, <1>4 DEF VersionsRight, Noted
<1>7. QED
  BY <1>5, <1>6 DEF WatcherInv, RemovesOnlyReplaced

\* So does an operation of the user.
LEMMA OperateKeeps ==
  ASSUME WatcherInv, TypeOK', FilesInOnePlace', FilesStep,
         NEW ps, NEW events, Operate(ps, events),
         \A p \in Path : tree'[p] # None => tree'[p].stamp <= ops',
         \A p \in Path : aside'[p] # None => aside'[p].stamp <= ops',
         \A t \in hashing' : NotedAt(ops', {tree'[t.path], aside'[t.path]}, t)
  PROVE  WatcherInv'
<1>1. UNCHANGED <<index, seen, adding, replaced>> /\ doomed' = doomed /\ wrong' = {}
  BY DEF Operate, remoteVars, WatcherInv, RemovesOnlyReplaced
<1>2. QED
  BY <1>1, FilesKeep

\* A change of one file of the tree: what it was before is gone, and what it is
\* now is new, or the same but for its permissions.
LEMMA OneFileStep ==
  ASSUME WatcherInv, TypeOK', NEW p \in Path, NEW f, NEW ps, NEW events, Operate(ps, events),
         tree' = [tree EXCEPT ![p] = f], UNCHANGED <<aside, away>>,
         away => f = None,
         f # None => \/ f.stamp = ops + 1
                     \/ tree[p] # None /\ f.stamp = tree[p].stamp /\ f.hash = tree[p].hash
  PROVE  /\ FilesStep
         /\ FilesInOnePlace'
         /\ \A q \in Path : tree'[q] # None => tree'[q].stamp <= ops'
         /\ \A q \in Path : aside'[q] # None => aside'[q].stamp <= ops'
<1>1. TypeOK /\ VersionsRight /\ FilesInOnePlace /\ ops \in Nat /\ ops' = ops + 1
  BY DEF WatcherInv, Operate, TypeOK
<1>2. tree' = [q \in Path |-> IF q = p THEN f ELSE tree[q]]
  BY <1>1 DEF TypeOK
<1>3. FilesStep
  BY <1>1, <1>2 DEF FilesStep
<1>4. FilesInOnePlace'
  BY <1>1, <1>2 DEF FilesInOnePlace, NoFiles
<1>5. ASSUME NEW q \in Path, tree'[q] # None PROVE tree'[q].stamp <= ops'
  BY <1>1, <1>2, <1>5, StampTypes DEF VersionsRight
<1>6. ASSUME NEW q \in Path, aside'[q] # None PROVE aside'[q].stamp <= ops'
  BY <1>1, <1>6, StampTypes DEF VersionsRight
<1>7. QED
  BY <1>3, <1>4, <1>5, <1>6

\* The tasks that hash files are in order when the step leaves them alone.
LEMMA HashingKept ==
  ASSUME WatcherInv, FilesStep, UNCHANGED hashing
  PROVE  \A t \in hashing' : NotedAt(ops', {tree'[t.path], aside'[t.path]}, t)
<1>1. SUFFICES ASSUME NEW t \in hashing
               PROVE  NotedAt(ops', {tree'[t.path], aside'[t.path]}, t)
  OBVIOUS
<1>2. TypeOK /\ NotedAt(ops, {tree[t.path], aside[t.path]}, t)
  BY DEF WatcherInv, VersionsRight, Noted
<1>3. QED
  BY <1>2, NotedKept, StampTypes

LEMMA UserKeeps == ASSUME WatcherInv, User PROVE WatcherInv'
<1>0. TypeOK /\ FilesInOnePlace /\ TypeOK' /\ ops \in Nat /\ away \in BOOLEAN
      /\ tree \in [Path -> File \cup {None}] /\ aside \in [Path -> File \cup {None}]
  BY UserType DEF WatcherInv, TypeOK
<1>1. ASSUME NEW p \in Path, CreateFile(p) PROVE WatcherInv'
  <2> DEFINE f == [hash |-> Empty, stamp |-> ops + 1, readable |-> TRUE]
             E == <<Ev("Create", p)>>
  <2>1. ~away /\ tree' = [tree EXCEPT ![p] = f] /\ Operate({p}, E) /\ UNCHANGED <<aside, away, hashing>>
    BY <1>1 DEF CreateFile
  <2>2. f.stamp = ops + 1
    OBVIOUS
  <2> HIDE DEF f, E
  <2>3. QED
    BY <1>0, <2>1, <2>2, OneFileStep, HashingKept, OperateKeeps
<1>2. ASSUME NEW p \in Path, DeleteFile(p) PROVE WatcherInv'
  <2> DEFINE E == <<Ev("Remove", p)>>
  <2>1. tree' = [tree EXCEPT ![p] = None] /\ Operate({p}, E) /\ UNCHANGED <<aside, away, hashing>>
    BY <1>2 DEF DeleteFile
  <2> HIDE DEF E
  <2>2. QED
    BY <1>0, <2>1, OneFileStep, HashingKept, OperateKeeps
<1>3. ASSUME NEW p \in Path, MoveFileOut(p) PROVE WatcherInv'
  <2> DEFINE E == <<Ev("Name", p)>>
  <2>1. tree' = [tree EXCEPT ![p] = None] /\ Operate({p}, E) /\ UNCHANGED <<aside, away, hashing>>
    BY <1>3 DEF MoveFileOut
  <2> HIDE DEF E
  <2>2. QED
    BY <1>0, <2>1, OneFileStep, HashingKept, OperateKeeps
<1>4. ASSUME NEW p \in Path, Chmod(p) PROVE WatcherInv'
  <2> DEFINE f == [tree[p] EXCEPT !.readable = ~@]
             E == <<Ev("Metadata", p)>>
  <2>1. /\ tree[p] # None /\ tree' = [tree EXCEPT ![p] = f] /\ Operate({p}, E)
        /\ UNCHANGED <<aside, away, hashing>>
    BY <1>4 DEF Chmod
  <2>2. f.stamp = tree[p].stamp /\ f.hash = tree[p].hash
    BY <1>0, <2>1 DEF File
  <2>3. ~away
    BY <1>0, <2>1 DEF FilesInOnePlace, NoFiles
  <2> HIDE DEF f, E
  <2>4. QED
    BY <1>0, <2>1, <2>2, <2>3, OneFileStep, HashingKept, OperateKeeps
<1>5. ASSUME NEW p \in Path, NEW h \in Content, MoveFileIn(p, h) PROVE WatcherInv'
  <2> DEFINE f == [hash |-> h, stamp |-> ops + 1, readable |-> TRUE]
             E == <<Ev("Name", p)>>
  <2>1. ~away /\ tree' = [tree EXCEPT ![p] = f] /\ Operate({p}, E) /\ UNCHANGED <<aside, away, hashing>>
    BY <1>5 DEF MoveFileIn
  <2>2. f.stamp = ops + 1
    OBVIOUS
  <2> HIDE DEF f, E
  <2>3. QED
    BY <1>0, <2>1, <2>2, OneFileStep, HashingKept, OperateKeeps
<1>6. ASSUME NEW p \in Path, NEW h \in Content \cup {Empty}, WriteFile(p, h) PROVE WatcherInv'
  <2> DEFINE f == [tree[p] EXCEPT !.hash = h, !.stamp = ops + 1]
             E == <<Ev("Data", p)>>
  <2>1. /\ tree[p] # None /\ tree' = [tree EXCEPT ![p] = f] /\ Operate({p}, E)
        /\ UNCHANGED <<aside, away>>
        /\ hashing' = {IF t.path = p THEN [t EXCEPT !.hash = Garbled] ELSE t : t \in hashing}
    BY <1>0, <1>6 DEF WriteFile
  <2>2. f.stamp = ops + 1
    BY <1>0, <2>1 DEF File
  <2>3. ~away /\ aside[p] = None
    BY <1>0, <2>1 DEF FilesInOnePlace, NoFiles
  <2> HIDE DEF f, E
  <2>4. /\ FilesStep /\ FilesInOnePlace'
        /\ \A q \in Path : tree'[q] # None => tree'[q].stamp <= ops'
        /\ \A q \in Path : aside'[q] # None => aside'[q].stamp <= ops'
    BY <1>0, <2>1, <2>2, <2>3, OneFileStep
  <2>5. ASSUME NEW u \in hashing' PROVE NotedAt(ops', {tree'[u.path], aside'[u.path]}, u)
    <3>1. PICK t \in hashing : u = IF t.path = p THEN [t EXCEPT !.hash = Garbled] ELSE t
      BY <2>1
    <3>2. Noted(t.path, t) /\ t \in [path : Path, stamp : 1..MaxOps, hash : Hash]
      BY <1>0 DEF WatcherInv, VersionsRight, TypeOK
    <3>3. CASE t.path = p
      <4>1. u.path = p /\ u.stamp = t.stamp /\ u.stamp \in Nat
        BY <3>1, <3>2, <3>3
      <4>2. u.stamp <= ops /\ ops' = ops + 1
        BY <2>1, <3>2, <4>1 DEF Noted, NotedAt, Operate
      <4>3. tree'[p] = f /\ aside'[p] = None
        BY <1>0, <2>1, <2>3
      <4>4. QED
        BY <1>0, <2>2, <4>1, <4>2, <4>3 DEF NotedAt
    <3>4. CASE t.path # p
      <4>1. u = t /\ t.path \in Path /\ t.stamp \in Nat
        BY <3>1, <3>2, <3>4
      <4>2. NotedAt(ops', {tree'[t.path], aside'[t.path]}, t)
        BY <1>0, <2>4, <3>2, <4>1, NotedKept DEF Noted
      <4>3. QED
        BY <4>1, <4>2
    <3>5. QED
      BY <3>3, <3>4
  <2>6. QED
    BY <1>0, <2>1, <2>4, <2>5, OperateKeeps
<1>7. CASE MoveDir
  <2>1. tree' = aside /\ aside' = tree /\ away' = ~away /\ UNCHANGED hashing
    BY <1>7 DEF MoveDir
  <2>2. PICK ps, E : Operate(ps, E)
    BY <1>7 DEF MoveDir
  <2>3. ops' = ops + 1
    BY <2>2 DEF Operate
  <2>4. FilesInOnePlace'
    BY <1>0, <2>1 DEF FilesInOnePlace
  <2>5. FilesStep
    BY <1>0, <2>1, <2>3 DEF FilesStep
  <2>6. /\ \A q \in Path : tree'[q] # None => tree'[q].stamp <= ops'
        /\ \A q \in Path : aside'[q] # None => aside'[q].stamp <= ops'
    BY <1>0, <2>1, <2>3, StampTypes DEF WatcherInv, VersionsRight
  <2>7. QED
    BY <1>0, <2>1, <2>2, <2>4, <2>5, <2>6, HashingKept, OperateKeeps
<1>8. QED
  BY <1>1, <1>2, <1>3, <1>4, <1>5, <1>6, <1>7 DEF User

\* A step that leaves the files alone keeps the invariant when what it notes
\* down is right.
LEMMA NotesKeep ==
  ASSUME WatcherInv, TypeOK', UNCHANGED <<userVars, replaced, wrong>>,
         \A p \in Path : index'[p] # None => EntryRight(p, index'[p]),
         \A t \in hashing' : Noted(t.path, t),
         adding' # None => Noted(adding'.path, adding'),
         seen' # None => Noted(seen'.path, seen'.file),
         doomed' = doomed \/ doomed' = None
  PROVE  WatcherInv'
<1>1. FilesInOnePlace'
  BY DEF WatcherInv, FilesInOnePlace, userVars
<1>2. VersionsRight'
  BY DEF WatcherInv, VersionsRight, EntryRight, Noted, userVars
<1>3. RemovalRight'
  BY DEF WatcherInv, RemovalRight, EntryRight, Noted, Replaces, userVars
<1>4. QED
  BY <1>1, <1>2, <1>3 DEF WatcherInv, RemovesOnlyReplaced

\* A file of the tree is a noted version of its path.
LEMMA TreeNoted ==
  ASSUME WatcherInv, NEW p \in Path, tree[p] # None
  PROVE  NotedAt(ops, {tree[p], aside[p]}, tree[p])
<1>1. aside[p] = None
  BY DEF WatcherInv, FilesInOnePlace, NoFiles, TypeOK
<1>2. QED
  BY <1>1 DEF WatcherInv, VersionsRight, NotedAt

\* add_file writes an entry that is right when the version is.
LEMMA AddFileRight ==
  ASSUME WatcherInv, NEW p \in Path, NEW stamp, NEW hash, NEW v, v.stamp = stamp, v.hash = hash,
         NotedAt(ops, {tree[p], aside[p]}, v), index' = AddFile(index, p, stamp, hash)
  PROVE  \A q \in Path : index'[q] # None => EntryRight(q, index'[q])
<1> DEFINE e == [hash |-> hash, stamp |-> stamp, outdated |-> None]
<1>1. e.hash = v.hash /\ e.stamp = v.stamp /\ e.outdated = None
  OBVIOUS
<1>2. index' = [index EXCEPT ![p] = e]
  BY DEF AddFile
<1> HIDE DEF e
<1>3. EntryRight(p, e)
  BY <1>1 DEF EntryRight, Noted, NotedAt
<1>4. QED
  BY <1>2, <1>3 DEF WatcherInv, VersionsRight, TypeOK

LEMMA WorkerKeeps == ASSUME WatcherInv, Worker PROVE WatcherInv'
<1>0. TypeOK /\ VersionsRight /\ FilesInOnePlace /\ TypeOK'
  BY WorkerType DEF WatcherInv
<1>a. /\ \A p \in Path : index[p] # None => EntryRight(p, index[p])
      /\ \A t \in hashing : Noted(t.path, t)
      /\ adding # None => Noted(adding.path, adding)
      /\ seen # None => Noted(seen.path, seen.file)
  BY <1>0 DEF VersionsRight
<1>1. CASE HandleEvent
  <2> DEFINE e == Head(queue)
  <2>1. ASSUME NEW p \in Path, index'[p] # None PROVE EntryRight(p, index'[p])
    <3>1. index' = index \/ index' = RemoveFileOrDir(index, e.path)
      BY <1>1 DEF HandleEvent
    <3>2. index'[p] = index[p]
      BY <2>1, <3>1 DEF RemoveFileOrDir
    <3>3. QED
      BY <1>a, <2>1, <3>2
  <2>2. ASSUME seen' # None PROVE Noted(seen'.path, seen'.file)
    <3>1. IsChange(e) /\ e.path # Dir /\ seen' = [path |-> e.path, file |-> tree[e.path]]
      BY <1>1, <2>2 DEF HandleEvent
    <3>2. e \in Event
      BY <1>0, <1>1 DEF HandleEvent, TypeOK
    <3>3. e.path \in Path /\ tree[e.path] # None
      BY <3>1, <3>2 DEF Event, IsChange, Exists
    <3>4. seen'.path = e.path /\ seen'.file = tree[e.path]
      BY <3>1
    <3>5. QED
      BY <3>3, <3>4, TreeNoted DEF Noted
  <2>3. UNCHANGED <<userVars, replaced, wrong, hashing, adding, doomed>>
    BY <1>1 DEF HandleEvent, hashVars, remoteVars
  <2>4. QED
    BY <1>0, <1>a, <2>1, <2>2, <2>3, NotesKeep
<1>2. CASE FileCreatedOrModified
  <2> DEFINE p == seen.path
             f == seen.file
  <2>1. seen # None /\ p \in Path /\ NotedAt(ops, {tree[p], aside[p]}, f)
    BY <1>0, <1>2, <1>a, StampTypes DEF FileCreatedOrModified, Noted
  <2>2. ASSUME index' # index PROVE f.hash = Empty /\ index' = AddFile(index, p, f.stamp, Empty)
    BY <1>2, <2>2 DEF FileCreatedOrModified
  <2>3. \A q \in Path : index'[q] # None => EntryRight(q, index'[q])
    BY <1>a, <2>1, <2>2, AddFileRight
  <2>4. UNCHANGED <<userVars, replaced, wrong, hashing, adding, doomed>> /\ seen' = None
    BY <1>2 DEF FileCreatedOrModified, remoteVars
  <2>5. QED
    BY <1>0, <1>a, <2>3, <2>4, NotesKeep
<1>3. CASE AddHashed
  <2>1. /\ adding.path \in Path /\ NotedAt(ops, {tree[adding.path], aside[adding.path]}, adding)
        /\ index' = AddFile(index, adding.path, adding.stamp, adding.hash)
    BY <1>0, <1>3, <1>a, StampTypes DEF AddHashed, Noted
  <2>2. \A q \in Path : index'[q] # None => EntryRight(q, index'[q])
    BY <2>1, AddFileRight
  <2>3. UNCHANGED <<userVars, replaced, wrong, hashing, seen, doomed>> /\ adding' = None
    BY <1>3 DEF AddHashed, remoteVars, eventVars
  <2>4. QED
    BY <1>0, <1>a, <2>2, <2>3, NotesKeep
<1>4. CASE SendRemoved
  <2>1. UNCHANGED <<userVars, replaced, wrong, index, hashing, adding, seen, doomed>>
    BY <1>4 DEF SendRemoved, remoteVars, hashVars
  <2>2. QED
    BY <1>0, <1>a, <2>1, NotesKeep
<1>5. CASE DeleteDoomed
  <2> DEFINE p == doomed.path
  <2>1. /\ doomed # None /\ p \in Path /\ doomed.entry \in Entry /\ doomed.old \in Hash
        /\ EntryRight(p, doomed.entry) /\ Replaces(doomed.entry, doomed.old)
    BY <1>0, <1>5, StampTypes DEF DeleteDoomed, WatcherInv, RemovalRight
  <2>2. ASSUME tree[p] # None, tree[p].stamp = doomed.entry.stamp
        PROVE  Replaced(replaced[p], tree[p].hash, doomed.old)
    <3>1. tree[p].hash = doomed.entry.hash
      BY <2>1, <2>2 DEF EntryRight, Noted, NotedAt
    <3>2. CASE doomed.entry.hash = doomed.old
      BY <3>1, <3>2, ReplacedSelf
    <3>3. CASE doomed.entry.outdated = doomed.old
      BY <2>1, <3>1, <3>3 DEF EntryRight
    <3>4. QED
      BY <2>1, <3>2, <3>3 DEF Replaces
  <2>3. wrong' = {}
    BY <1>5, <2>2 DEF DeleteDoomed, WatcherInv, RemovesOnlyReplaced
  <2>4. /\ tree' = [tree EXCEPT ![p] = None]
        /\ UNCHANGED <<aside, away, ops, index, seen, adding, replaced, hashing>> /\ doomed' = None
    BY <1>5 DEF DeleteDoomed, hashVars
  <2>5. tree' = [q \in Path |-> IF q = p THEN None ELSE tree[q]]
    BY <1>0, <2>4 DEF TypeOK
  <2>6. FilesInOnePlace'
    BY <1>0, <2>4, <2>5 DEF FilesInOnePlace, NoFiles
  <2>7. FilesStep
    BY <1>0, <2>4, <2>5 DEF FilesStep, TypeOK
  <2>8. /\ \A q \in Path : tree'[q] # None => tree'[q].stamp <= ops'
        /\ \A q \in Path : aside'[q] # None => aside'[q].stamp <= ops'
    BY <1>0, <2>4, <2>5 DEF VersionsRight
  <2>9. QED
    BY <1>0, <2>3, <2>4, <2>6, <2>7, <2>8, HashingKept, FilesKeep
<1>6. ASSUME NEW p \in Path, CatchupEntry(p) PROVE WatcherInv'
  <2>1. UNCHANGED <<userVars, replaced, wrong, index, hashing, adding, seen, doomed>>
    BY <1>6 DEF CatchupEntry, remoteVars, hashVars
  <2>2. QED
    BY <1>0, <1>a, <2>1, NotesKeep
<1>7. ASSUME NEW p \in Path, CatchupAdded(p) PROVE WatcherInv'
  <2>1. UNCHANGED <<userVars, replaced, wrong, index, hashing, adding, seen, doomed>>
    BY <1>7 DEF CatchupAdded, remoteVars, hashVars
  <2>2. QED
    BY <1>0, <1>a, <2>1, NotesKeep
<1>8. ASSUME NEW p \in Path, WalkDir(p) PROVE WatcherInv'
  <2>1. ASSUME seen' # None PROVE Noted(seen'.path, seen'.file)
    <3>1. tree[p] # None /\ seen' = [path |-> p, file |-> tree[p]]
      BY <1>8, <2>1 DEF WalkDir
    <3>2. seen'.path = p /\ seen'.file = tree[p]
      BY <3>1
    <3>3. QED
      BY <3>1, <3>2, TreeNoted DEF Noted
  <2>2. UNCHANGED <<userVars, replaced, wrong, index, hashing, adding, doomed>>
    BY <1>8 DEF WalkDir, remoteVars, hashVars
  <2>3. QED
    BY <1>0, <1>a, <2>1, <2>2, NotesKeep
<1>9. ASSUME NEW p \in Path, OpenToHash(p) PROVE WatcherInv'
  <2> DEFINE t == [path |-> p, stamp |-> tree[p].stamp, hash |-> tree[p].hash]
  <2>1. tree[p] # None => Noted(t.path, t)
    BY TreeNoted DEF Noted, NotedAt
  <2>2. hashing' = hashing \/ (tree[p] # None /\ hashing' = hashing \cup {t})
    BY <1>9 DEF OpenToHash
  <2> HIDE DEF t
  <2>3. \A u \in hashing' : Noted(u.path, u)
    BY <1>a, <2>1, <2>2
  <2>4. UNCHANGED <<userVars, replaced, wrong, index, adding, seen, doomed>>
    BY <1>9 DEF OpenToHash, remoteVars, eventVars
  <2>5. QED
    BY <1>0, <1>a, <2>3, <2>4, NotesKeep
<1>10. ASSUME NEW t \in hashing, CheckHashed(t) PROVE WatcherInv'
  <2>1. adding' \in {t, None} /\ hashing' \subseteq hashing
    BY <1>10 DEF CheckHashed
  <2>2. UNCHANGED <<userVars, replaced, wrong, index, seen, doomed>>
    BY <1>10 DEF CheckHashed, remoteVars, eventVars
  <2>3. QED
    BY <1>0, <1>a, <2>1, <2>2, NotesKeep
<1>11. QED
  BY <1>1, <1>2, <1>3, <1>4, <1>5, <1>6, <1>7, <1>8, <1>9, <1>10 DEF Worker

LEMMA RemoteKeeps == ASSUME WatcherInv, Remote PROVE WatcherInv'
<1>0. TypeOK /\ VersionsRight /\ FilesInOnePlace /\ RemovalRight /\ TypeOK'
  BY RemoteType DEF WatcherInv
<1>1. ASSUME NEW p \in Path, NEW old \in Content \cup {Empty}, UpdateRemove(p, old)
      PROVE  WatcherInv'
  <2>1. /\ index[p] # None /\ Replaces(index[p], old)
        /\ doomed' = [path |-> p, old |-> old, entry |-> index[p]]
        /\ UNCHANGED <<userVars, index, hashing, adding, seen, replaced, wrong>>
    BY <1>1 DEF UpdateRemove, eventVars, hashVars
  <2>2. doomed'.path = p /\ doomed'.old = old /\ doomed'.entry = index[p]
    BY <2>1
  <2>3. EntryRight(p, index[p])
    BY <1>0, <2>1 DEF VersionsRight
  <2>4. RemovalRight'
    BY <2>1, <2>2, <2>3 DEF RemovalRight, EntryRight, Noted, Replaces, userVars
  <2>5. VersionsRight'
    BY <1>0, <2>1 DEF VersionsRight, EntryRight, Noted, userVars
  <2>6. QED
    BY <1>0, <2>1, <2>4, <2>5 DEF WatcherInv, FilesInOnePlace, RemovesOnlyReplaced, userVars
<1>2. ASSUME NEW p \in Path, NEW old \in Content \cup {Empty}, NEW new \in Content,
             UpdateReplace(p, old, new)
      PROVE  WatcherInv'
  <2>1. /\ index[p] # None /\ Replaces(index[p], old)
        /\ index' = [index EXCEPT ![p] = [index[p] EXCEPT !.outdated = new]]
        /\ replaced' = [replaced EXCEPT ![p] = @ \cup {<<old, new>>}]
        /\ UNCHANGED <<userVars, hashing, adding, seen, doomed, wrong>>
    BY <1>2 DEF UpdateReplace, eventVars, hashVars
  <2>2. old \in Hash /\ new \in Hash /\ index[p] \in Entry
    BY <1>0, <2>1 DEF Hash, TypeOK
  <2>3. \A q \in Path : replaced[q] \subseteq replaced'[q]
    BY <1>0, <2>1 DEF TypeOK
  <2>4. replaced'[p] = replaced[p] \cup {<<old, new>>}
    BY <1>0, <2>1 DEF TypeOK
  <2>5. Replaced(replaced[p], index[p].hash, old)
    <3>1. CASE index[p].hash = old
      BY <3>1, ReplacedSelf
    <3>2. CASE index[p].outdated = old
      BY <1>0, <2>1, <2>2, <3>2 DEF VersionsRight, EntryRight
    <3>3. QED
      BY <2>1, <3>1, <3>2 DEF Replaces
  <2>6. /\ index'[p].hash = index[p].hash /\ index'[p].stamp = index[p].stamp
        /\ index'[p].outdated = new
    BY <1>0, <2>1, <2>2 DEF Entry, TypeOK
  <2>7. EntryRight(p, index[p])'
    <3>1. Replaced(replaced'[p], index'[p].hash, new)
      BY <2>2, <2>4, <2>5, <2>6, ReplacedExtends
    <3>2. NotedAt(ops, {tree[p], aside[p]}, index[p])
      BY <1>0, <2>1 DEF VersionsRight, EntryRight, Noted
    <3>3. NotedAt(ops', {tree'[p], aside'[p]}, index'[p])
      BY <2>1, <2>6, <3>2 DEF NotedAt, userVars
    <3>4. QED
      BY <2>6, <3>1, <3>3 DEF EntryRight, Noted
  <2>8. ASSUME NEW q \in Path, q # p, index'[q] # None PROVE EntryRight(q, index[q])'
    <3>1. index'[q] = index[q] /\ EntryRight(q, index[q])
      BY <1>0, <2>1, <2>8 DEF VersionsRight, TypeOK
    <3>2. index[q].outdated # None => Replaced(replaced'[q], index[q].hash, index[q].outdated)
      BY <2>3, <3>1, ReplacedKept DEF EntryRight
    <3>3. QED
      BY <2>1, <3>1, <3>2 DEF EntryRight, Noted, userVars
  <2>9. VersionsRight'
    BY <1>0, <2>1, <2>7, <2>8 DEF VersionsRight, Noted, userVars
  <2>10. RemovalRight'
    <3>1. SUFFICES ASSUME doomed # None
                   PROVE  EntryRight(doomed.path, doomed.entry)' /\ Replaces(doomed.entry, doomed.old)'
      BY <2>1 DEF RemovalRight
    <3>2. /\ EntryRight(doomed.path, doomed.entry) /\ Replaces(doomed.entry, doomed.old)
          /\ doomed.path \in Path
      BY <1>0, <3>1, StampTypes DEF RemovalRight
    <3>3. doomed.entry.outdated # None
            => Replaced(replaced'[doomed.path], doomed.entry.hash, doomed.entry.outdated)
      BY <2>3, <3>2, ReplacedKept DEF EntryRight
    <3>4. QED
      BY <2>1, <3>2, <3>3 DEF EntryRight, Noted, Replaces, userVars
  <2>11. QED
    BY <1>0, <2>1, <2>9, <2>10 DEF WatcherInv, FilesInOnePlace, RemovesOnlyReplaced, userVars
<1>3. QED
  BY <1>1, <1>2 DEF Remote

LEMMA InvInit == Init => WatcherInv
<1>1. SUFFICES ASSUME Init PROVE WatcherInv
  OBVIOUS
<1>2. NoFiles \in [Path -> File \cup {None}] /\ NoFiles \in [Path -> Entry \cup {None}]
  BY DEF NoFiles
<1>3. TypeOK
  <2>1. queue \in Seq(Event)
    BY <1>1 DEF Init
  <2>2. replaced \in [Path -> SUBSET (Hash \X Hash)]
    BY <1>1 DEF Init
  <2>3. ops \in 0..MaxOps /\ starts \in 0..MaxStarts /\ updates \in 0..MaxUpdates
    BY <1>1 DEF Init
  <2>4. QED
    BY <1>1, <1>2, <2>1, <2>2, <2>3 DEF Init, TypeOK
<1>4. QED
  BY <1>1, <1>3 DEF Init, WatcherInv, FilesInOnePlace, VersionsRight, RemovalRight,
                    RemovesOnlyReplaced, NoFiles

LEMMA InvNext == WatcherInv /\ [Next]_vars => WatcherInv'
<1>1. SUFFICES ASSUME WatcherInv, [Next]_vars PROVE WatcherInv'
  OBVIOUS
<1>2. TypeOK /\ VersionsRight /\ TypeOK'
  BY <1>1, TypeStep DEF WatcherInv
<1>3. CASE Start
  <2>1. UNCHANGED <<userVars, replaced, wrong, index, hashing, adding, seen, doomed>>
    BY <1>3 DEF Start, remoteVars, hashVars, eventVars
  <2>2. QED
    BY <1>1, <1>2, <2>1, NotesKeep DEF VersionsRight
<1>4. CASE Stop
  <2>1. UNCHANGED <<userVars, replaced, wrong, index>> /\ hashing' = {} /\ adding' = None
        /\ seen' = None /\ doomed' = None
    BY <1>4 DEF Stop
  <2>2. QED
    BY <1>1, <1>2, <2>1, NotesKeep DEF VersionsRight
<1>5. CASE UNCHANGED vars
  <2>1. UNCHANGED <<userVars, replaced, wrong, index, hashing, adding, seen, doomed>>
    BY <1>5 DEF vars, remoteVars, hashVars, eventVars
  <2>2. QED
    BY <1>1, <1>2, <2>1, NotesKeep DEF VersionsRight
<1>6. QED
  BY <1>1, <1>3, <1>4, <1>5, UserKeeps, WorkerKeeps, RemoteKeeps DEF Next

\* The inductive invariant holds of every reachable state.
THEOREM InvCorrect == Spec => []WatcherInv
<1>1. Init => WatcherInv
  BY InvInit
<1>2. WatcherInv /\ [Next]_vars => WatcherInv'
  BY InvNext
<1>3. QED
  BY <1>1, <1>2, PTL DEF Spec

\* However user, events, hashing tasks, catch-up, restarts and peers interleave:
\* an indexed file with the recorded size and time has the recorded hash
\* (do_hash, hashed_loop, file_matches_index).
THEOREM IndexedHashRightCorrect == Spec => []IndexedHashRight
<1>1. WatcherInv => IndexedHashRight
  <2>1. SUFFICES ASSUME WatcherInv, NEW p \in Path, index[p] # None, tree[p] # None,
                        tree[p].stamp = index[p].stamp
                 PROVE  index[p].hash = tree[p].hash
    BY DEF WatcherInv, IndexedHashRight, FileMatchesIndex
  <2>2. NotedAt(ops, {tree[p], aside[p]}, index[p])
    BY <2>1 DEF WatcherInv, VersionsRight, EntryRight, Noted
  <2>3. QED
    BY <2>1, <2>2 DEF NotedAt
<1>2. QED
  BY <1>1, InvCorrect, PTL

\* For chains of Replace notifications of any length: a Remove of a peer deletes
\* a file that still matches the index only when its version is the one removed
\* or one that it replaced (RealIndexBlocking::update).
THEOREM RemovesOnlyReplacedCorrect == Spec => []RemovesOnlyReplaced
<1>1. WatcherInv => RemovesOnlyReplaced
  BY DEF WatcherInv
<1>2. QED
  BY <1>1, InvCorrect, PTL
=============================================================================
