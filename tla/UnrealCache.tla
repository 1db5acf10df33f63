------------------------------ MODULE UnrealCache -----------------------------
(***************************************************************************)
(* The tree of remote files that is exported to users, inode by inode: the *)
(* allocator of inode ranges (realize-storage/src/global/                  *)
(* inode_allocator.rs), the global directory of arenas (global/cache.rs),  *)
(* the directory and file tables of each arena (arena/arena_cache.rs), the *)
(* marks set on paths (arena/mark.rs) and the listing of a directory by    *)
(* the NFS export (realize-core/src/fs/nfs.rs).                            *)
(*                                                                         *)
(* ArenaCache describes one arena by path.  PathCacheSpec states that the  *)
(* tables of inodes implement it.  The times and sizes of files, the times *)
(* of directories and the blobs, which are Blobstore's, are left out.      *)
(***************************************************************************)
EXTENDS Notifications, SequencesExt

CONSTANTS
  Arena,        \* arenas that may be configured
  ArenaPath,    \* an arena's name, as the path of its root: [Arena -> Seq(names)]
  GlobalRange,  \* inodes taken at a time for the global tree (100)
  ArenaRange,   \* inodes taken at a time for an arena (10000)
  Budget        \* bounds to choose from: which arenas and files, how many updates, ...

ASSUME RangeAssumption == GlobalRange \in Nat \ {0} /\ ArenaRange \in Nat \ {0}
\* A path has names (Path::parse), and two arenas have different ones.
ASSUME NameAssumption ==
  /\ Path \subseteq Seq(STRING) \ {<<>>}
  /\ ArenaPath \in [Arena -> Seq(STRING) \ {<<>>}]
  /\ \A a, b \in Arena : ArenaPath[a] = ArenaPath[b] => a = b
\* Notifications are numbered from 1.
ASSUME IndexAssumption == MaxHistory # 0
ASSUME BudgetAssumption ==
  Budget \subseteq [arenas : SUBSET Arena, files : SUBSET Path, updates : Nat, marks : Nat, restarts : Nat,
             listings : Nat, jobs : Nat]

VARIABLES
  arenaTable,   \* ARENA_TABLE: root inode of an arena, 0 when absent
  ranges,       \* INODE_RANGE_ALLOCATION_TABLE: last inode of a range -> root it is for
  globalRange,  \* CURRENT_INODE_RANGE_TABLE of the global database: <<inode, end>>
  globalDirs,   \* DIRECTORY_TABLE of the global database
  added,        \* arenas of the process's InodeAllocator
  registered,   \* arenas of the process's UnrealCacheBlocking
  range,        \* per arena, CACHE_CURRENT_INODE_RANGE_TABLE: <<inode, end>>
  dirs,         \* per arena, CACHE_DIRECTORY_TABLE: <<inode, name>> -> [inode, kind]
  file,         \* per arena, CACHE_FILE_TABLE: inode -> [path, parent, peer, default]
  pending,      \* per arena, CACHE_PENDING_CATCHUP_TABLE: pairs <<peer, inode>>
  seen,         \* per arena, CACHE_NOTIFICATION_TABLE
  known,        \* per arena, CACHE_PEER_TABLE
  marks,        \* per arena, MARK_TABLE: path or <<>> -> mark, or None
  indexed,      \* per arena, INDEX_FILE_TABLE: path -> [hash, outdated], or None
  updating,     \* a call of Storage::update between its two transactions, or None
  dirtied,      \* pairs <<arena, path>> the last transaction marked dirty
  applied,      \* the notification the last step applied, or None (for PathCacheSpec)
  listing,      \* a listing by a client of the export, or None
  budget        \* what is left of the bound that was chosen

globalVars == <<arenaTable, ranges, globalRange, globalDirs>>
processVars == <<added, registered>>
treeVars == <<range, dirs, file>>
peerVars == <<pending, seen, known>>
vars == <<globalVars, processVars, treeVars, peerVars, marks, indexed, updating, dirtied,
          applied, listing, budget>>

\* InodeAllocator::ROOT_INODE, and no range: both halves are 0.
RootInode == 1
NoRange == <<0, 0>>

Mark == {"Watch", "Keep", "Own"}
DefaultMark == "Watch"

\* Paths a mark may be set on: the root, the files and their directories.
MarkPath == {<<>>} \cup UNION {{SubSeq(p, 1, i) : i \in 1..Len(p)} : p \in Path}

\* A table as a function without any key.
Empty == [k \in {} |-> None]

\* A table with key k inserted or replaced.
Insert(t, k, v) == [x \in DOMAIN t \cup {k} |-> IF x = k THEN v ELSE t[x]]

Init ==
  /\ arenaTable = [a \in Arena |-> 0]
  /\ ranges = Empty
  /\ globalRange = NoRange
  /\ globalDirs = Empty
  /\ added = {}
  /\ registered = {}
  /\ range = [a \in Arena |-> NoRange]
  /\ dirs = [a \in Arena |-> Empty]
  /\ file = [a \in Arena |-> Empty]
  /\ pending = [a \in Arena |-> {}]
  /\ seen = [a \in Arena |-> [q \in Peer |-> 0]]
  /\ known = [a \in Arena |-> [q \in Peer |-> 0]]
  /\ marks = [a \in Arena |-> [p \in MarkPath |-> None]]
  /\ indexed = [a \in Arena |-> [p \in Path |-> None]]
  /\ updating = None
  /\ dirtied = {}
  /\ applied = None
  /\ listing = None
  /\ budget \in Budget

\* Bounds how often something is done.
Spend(what) == budget[what] > 0 /\ budget' = [budget EXCEPT ![what] = @ - 1]

\* A step that marks nothing dirty and applies no notification.
Silent == dirtied' = {} /\ applied' = None

-----------------------------------------------------------------------------
(* Inodes and directories.                                                 *)

\* do_alloc_inode_range: the key of the last inode of the last range.
AfterFirst(t) == IF DOMAIN t = {} THEN 1 ELSE Min(DOMAIN t)     \* mutant
LastEnd(t) == IF DOMAIN t = {} THEN 1 ELSE Max(DOMAIN t)

\* The state an allocation works on: the tree, the directory reached, the
\* current range and the table of ranges, and whom and how much to allocate.
Allocation(tab, cur, root, size) ==
  [tab |-> tab, at |-> root, cur |-> cur, ranges |-> ranges, root |-> root,
   size |-> size, failed |-> FALSE]

\* allocate_global_inode and allocate_arena_inode
GlobalAllocation == Allocation(globalDirs, globalRange, RootInode, GlobalRange)
ArenaAllocation(a) == Allocation(dirs[a], range[a], arenaTable[a], ArenaRange)

\* allocate_inode: the next one of the current range, or the first one of a
\* new range.  The inode is the first half of the range it leaves.
AllocateInode(s) ==
  IF s.cur # NoRange /\ s.cur[1] + 1 < s.cur[2]
  THEN [s EXCEPT !.cur[1] = @ + 1]
  ELSE LET start == LastEnd(s.ranges) + 1
       IN [s EXCEPT !.cur = <<start, start + s.size>>,
                    !.ranges = Insert(@, start + s.size - 1, s.root)]

\* A step of do_mkdirs or the last one of do_create_file: go to the entry of
\* that name, which must be of that kind, or add one (add_dir_entry).
MakeEntry(s, name, kind) ==
  LET key == <<s.at, name>>
  IN CASE s.failed -> s
       [] ~s.failed /\ key \in DOMAIN s.tab ->
            IF s.tab[key].kind = kind THEN [s EXCEPT !.at = s.tab[key].inode]
                                      ELSE [s EXCEPT !.failed = TRUE]
       [] OTHER ->
            LET t == AllocateInode(s)
            IN [t EXCEPT !.tab = Insert(@, key, [inode |-> t.cur[1], kind |-> kind]),
                         !.at = t.cur[1]]

\* do_mkdirs
Mkdirs(s, path) ==
  LET at[i \in 0..Len(path)] == IF i = 0 THEN s ELSE MakeEntry(at[i - 1], path[i], "Dir")
  IN at[Len(path)]

\* do_create_file: the directories of the path, then its file.
CreateFile(a, path) ==
  LET parent == Mkdirs(ArenaAllocation(a), Front(path))
  IN [made |-> MakeEntry(parent, Last(path), "File"), parent |-> parent.at]

\* A step of do_lookup_path: the entry of that name, or the error.
Enter(tab, e, name) ==
  CASE e.kind = "File" -> [e EXCEPT !.kind = "NotADirectory"]
    [] e.kind = "Dir" -> IF <<e.inode, name>> \in DOMAIN tab THEN tab[<<e.inode, name>>]
                         ELSE [e EXCEPT !.kind = "NotFound"]
    [] OTHER -> e

\* do_lookup_path: the entry at the end of the path, or the error.
Walk(tab, root, path) ==
  LET at[i \in 0..Len(path)] ==
        IF i = 0 THEN [inode |-> root, kind |-> "Dir"] ELSE Enter(tab, at[i - 1], path[i])
  IN at[Len(path)]

LookupPath(a, path) == Walk(dirs[a], arenaTable[a], path)

\* do_readdir: the entries of a directory, as pairs <<inode, name>>.
ReadDir(tab, inode) == {<<tab[k].inode, k[2]>> : k \in {x \in DOMAIN tab : x[1] = inode}}

\* InodeAllocator::arena_for_inode: the arena of that root, or of the first
\* range that ends at or after the inode and is for the global tree (None) or
\* for an arena of this process.
ArenaForInode(inode) ==
  LET rootOf(i) == {a \in added : arenaTable[a] = i}
      ends == {e \in DOMAIN ranges :
                 e >= inode /\ (ranges[e] = RootInode \/ rootOf(ranges[e]) # {})}
      owners == IF rootOf(inode) # {} THEN rootOf(inode) ELSE rootOf(ranges[Min(ends)])
  IN IF inode = RootInode \/ (rootOf(inode) = {} /\ ranges[Min(ends)] = RootInode)
     THEN None ELSE CHOOSE a \in owners : TRUE

-----------------------------------------------------------------------------
(* Startup.                                                                *)

\* The process has finished its startup, with every arena it was given.
Serving == added # {} /\ registered = added

\* InodeAllocator::add_arena, for each arena before any is registered: its
\* root is the one of last time or a new global inode.
AddArena(a) ==
  /\ registered = {} /\ a \in budget.arenas \ added
  /\ added' = added \cup {a}
  /\ IF arenaTable[a] # 0
     THEN UNCHANGED <<arenaTable, ranges, globalRange>>
     ELSE LET s == AllocateInode(GlobalAllocation)
          IN /\ arenaTable' = [arenaTable EXCEPT ![a] = s.cur[1]]
             /\ ranges' = s.ranges
             /\ globalRange' = s.cur
  /\ Silent
  /\ UNCHANGED <<globalDirs, registered, treeVars, peerVars, marks, indexed, updating, listing, budget>>

\* check_arena_compatibility: neither name is a directory of the other.
Compatible(a, b) ==
  ~IsStrictPrefix(ArenaPath[a], ArenaPath[b]) /\ ~IsStrictPrefix(ArenaPath[b], ArenaPath[a])

\* mutant: the root is added at the top of the tree
AddsAtTop(a) ==
  /\ globalDirs' = Insert(globalDirs, <<RootInode, Last(ArenaPath[a])>>,
                          [inode |-> arenaTable[a], kind |-> "Dir"])
  /\ UNCHANGED <<ranges, globalRange>>

\* add_arena_root: unless there is something at the arena's path, its root is
\* added to the directory, which is made if needed.
AddArenaRoot(a) ==
  LET path == ArenaPath[a]
      s == Mkdirs(GlobalAllocation, Front(path))
  IN IF Walk(globalDirs, RootInode, path).kind = "Dir"
     THEN UNCHANGED <<ranges, globalRange, globalDirs>>
     ELSE /\ ranges' = s.ranges
          /\ globalRange' = s.cur
          /\ globalDirs' =
               Insert(s.tab, <<s.at, Last(path)>>, [inode |-> arenaTable[a], kind |-> "Dir"])

\* UnrealCacheBlocking::register; an arena that is not compatible with the
\* others ends the startup.
Register(a) ==
  /\ a \in added \ registered
  /\ \A b \in registered : Compatible(a, b)
  /\ AddArenaRoot(a)
  /\ registered' = registered \cup {a}
  /\ Silent
  /\ UNCHANGED <<arenaTable, added, treeVars, peerVars, marks, indexed, updating, listing, budget>>

\* The process ends and starts again, perhaps with other arenas.
Restart ==
  /\ Spend("restarts")
  /\ added' = {}
  /\ registered' = {}
  /\ listing' = None
  /\ Silent
  /\ updating' = None
  /\ UNCHANGED <<globalVars, treeVars, peerVars, marks, indexed>>

-----------------------------------------------------------------------------
(* Notifications.                                                          *)

\* What a peer may send about an arena, in any order.
Incoming ==
  {About(k, p, h, None, 1) : k \in {"Add", "Catchup"}, p \in Path, h \in Hash}
    \cup {About("Replace", p, h[1], h[2], 1) : p \in Path, h \in {x \in Hash \X Hash : x[1] # x[2]}}
    \cup {About("Remove", p, None, h, 1) : p \in Path, h \in Hash}
    \cup {Signal("CatchupStart", 0, 0), Signal("CatchupComplete", 1, 0)}
    \cup {Signal("Connected", 0, u) : u \in 1..MaxUuid}

\* A call of Storage::update is something.
ASSUME UpdateAssumption == None \notin [arena : Arena, peer : Peer, notification : Incoming]

\* The part of it the bound allows.
Sent == {n \in Incoming : n.path \in budget.files \cup {None}}

\* do_update_last_seen_notification
LastSeen(a, q, n) ==
  seen' = IF n.kind = "Catchup" THEN seen ELSE [seen EXCEPT ![a][q] = n.index]

\* The record of a file before anything is known of it.
NewFile(path, parent) ==
  [path |-> path, parent |-> parent, peer |-> [q \in Peer |-> None], default |-> None]

\* The record once q's Add, Replace or Catchup is taken into account.
Taking(f, q, n) ==
  LET given == [f EXCEPT !.peer[q] = n.hash]
  IN CASE n.kind = "Replace" -> IF f.default = n.old THEN [given EXCEPT !.default = n.hash]
                                ELSE IF f.peer[q] = n.old THEN given ELSE f
       [] n.kind = "Add" /\ f.peer[q] # None -> f
       [] OTHER -> [given EXCEPT !.default = IF @ = None THEN n.hash ELSE @]

\* Notification::Add, Replace and Catchup.  A Replace of a version nobody is
\* known to have leaves a directory entry without a file.
Give(a, q, n) ==
  LET c == CreateFile(a, n.path)
      i == c.made.at
      f == IF i \in DOMAIN file[a] THEN file[a][i] ELSE NewFile(n.path, c.parent)
      g == Taking(f, q, n)
  IN /\ ~c.made.failed
     /\ ranges' = c.made.ranges
     /\ range' = [range EXCEPT ![a] = c.made.cur]
     /\ dirs' = [dirs EXCEPT ![a] = c.made.tab]
     /\ file' = IF g.default = None THEN file ELSE [file EXCEPT ![a] = Insert(@, i, g)]
     /\ pending' = IF n.kind = "Catchup" THEN [pending EXCEPT ![a] = @ \ {<<q, i>>}] ELSE pending
     /\ LastSeen(a, q, n)
     /\ dirtied' = IF g.default # f.default THEN {<<a, g.path>>} ELSE {}
     /\ UNCHANGED <<known>>

\* The versions do_rm_file_entry may show once q has none.
NextDefaults(f, q) ==
  LET others == {f.peer[r] : r \in Peer \ {q}} \ {None}
  IN IF others = {} THEN {None} ELSE IF f.default \in others THEN {f.default} ELSE others

KeepsEntries(tab, gone) == tab                                   \* mutant

\* mutant: everything in the file's directory goes
EmptiesDirectory(tab, gone) == RestrictDomain(tab, LAMBDA k : \A g \in gone : k[1] # g[1])

\* The directory table without the entries of the files that are gone, given
\* as <<directory, inode>>: retain_in, in the file's directory, by inode.
WithoutEntries(tab, gone) == RestrictDomain(tab, LAMBDA k : <<k[1], tab[k].inode>> \notin gone)

\* do_rm_file_entry for each of the inodes, which q has a version of.
RmFileEntries(a, q, inodes) ==
  \E d \in [inodes -> Hash \cup {None}] :
    /\ \A i \in inodes : d[i] \in NextDefaults(file[a][i], q)
    /\ LET gone == {i \in inodes : d[i] = None}
       IN /\ file' = [file EXCEPT ![a] =
                        [i \in DOMAIN @ \ gone |->
                           IF i \in inodes THEN [@[i] EXCEPT !.peer[q] = None, !.default = d[i]]
                           ELSE @[i]]]
          /\ dirs' = [dirs EXCEPT ![a] =
                        WithoutEntries(@, {<<file[a][i].parent, i>> : i \in gone})]
    /\ dirtied' = {<<a, file[a][i].path>> : i \in {j \in inodes : d[j] # file[a][j].default}}

\* Notification::Remove and Drop, do_unlink: a path without a file is an error.
Take(a, q, n) ==
  LET e == LookupPath(a, n.path)
  IN /\ e.kind = "File"
     /\ RmFileEntries(a, q, {i \in {e.inode} \cap DOMAIN file[a] : file[a][i].peer[q] = n.old})
     /\ LastSeen(a, q, n)
     /\ UNCHANGED <<ranges, range, pending, known>>

\* Notification::CatchupStart, do_mark_peer_files
CatchupStart(a, q) ==
  /\ pending' = [pending EXCEPT ![a] =
                   @ \cup {<<q, i>> : i \in {j \in DOMAIN file[a] : file[a][j].peer[q] # None}}]
  /\ dirtied' = {}
  /\ UNCHANGED <<ranges, treeVars, seen, known>>

\* Notification::CatchupComplete, do_delete_marked_files
CatchupComplete(a, q, n) ==
  /\ RmFileEntries(a, q, {i \in DOMAIN file[a] :
                             <<q, i>> \in pending[a] /\ file[a][i].peer[q] # None})
  /\ pending' = [pending EXCEPT ![a] = {m \in @ : m[1] # q}]
  /\ LastSeen(a, q, n)
  /\ UNCHANGED <<ranges, range, known>>

\* Notification::Connected
Connected(a, q, n) ==
  /\ known' = [known EXCEPT ![a][q] = n.uuid]
  /\ seen' = [seen EXCEPT ![a][q] = IF known[a][q] = n.uuid THEN @ ELSE 0]
  /\ dirtied' = {}
  /\ UNCHANGED <<ranges, treeVars, pending>>

\* ArenaCache::update
Update(a, q, n) ==
  \/ n.kind \in Given /\ Give(a, q, n)
  \/ n.kind \in Taken /\ Take(a, q, n)
  \/ n.kind = "CatchupStart" /\ CatchupStart(a, q)
  \/ n.kind = "CatchupComplete" /\ CatchupComplete(a, q, n)
  \/ n.kind = "Connected" /\ Connected(a, q, n)

\* An operation of a process that is serving.
Op(a, what) == Serving /\ a \in registered /\ Spend(what)

\* What a listing may still rely on: the entries that were there all along.
StillThere ==
  listing' = IF listing = None THEN None
             ELSE [listing EXCEPT !.stayed =
                     @ \cap ReadDir(dirs'[listing.arena], arenaTable[listing.arena])]

\* RealIndexBlocking::update has something to remember: a peer replaced the
\* local version, or one known to have replaced it.
Outdates(a, n) ==
  /\ n.kind = "Replace" /\ indexed[a][n.path] # None
  /\ n.old \in {indexed[a][n.path].hash, indexed[a][n.path].outdated}

\* The first transaction of Storage::update, on the index.  It marks nothing
\* dirty.
NotifiesIndex(a) ==
  /\ Op(a, "updates") /\ updating = None
  /\ \E q \in Peer, n \in Sent :
       /\ Outdates(a, n)
       /\ indexed' = [indexed EXCEPT ![a][n.path].outdated = n.hash]
       /\ updating' = [arena |-> a, peer |-> q, notification |-> n]
  /\ Silent
  /\ UNCHANGED <<globalVars, processVars, treeVars, peerVars, marks, listing>>

\* The second one, on the cache.
NotifiesCache(a, q, n) ==
  /\ Update(a, q, n)
  /\ applied' = [arena |-> a, peer |-> q, notification |-> n]
  /\ StillThere
  /\ UNCHANGED <<arenaTable, globalRange, globalDirs, processVars, marks, indexed>>

\* Storage::update when there is nothing to do for the index.
Notified(a) ==
  /\ Op(a, "updates")
  /\ \E q \in Peer, n \in Sent : ~Outdates(a, n) /\ NotifiesCache(a, q, n)
  /\ UNCHANGED updating

\* The call goes on, or fails because of what the path is in the cache.
FinishesUpdate(a) ==
  /\ updating # None /\ updating.arena = a
  /\ updating' = None
  /\ \/ NotifiesCache(a, updating.peer, updating.notification)
     \/ /\ CreateFile(a, updating.notification.path).made.failed
        /\ Silent
        /\ UNCHANGED <<globalVars, processVars, treeVars, peerVars, marks, indexed, listing>>
  /\ UNCHANGED budget

\* An update fails or the process dies after a range was allocated: the range
\* is committed in the global database, nothing is in the arena's.
LosesRange(a) ==
  /\ Op(a, "updates")
  /\ \E p \in budget.files :
       LET c == CreateFile(a, p) IN c.made.ranges # ranges /\ ranges' = c.made.ranges
  /\ Silent
  /\ UNCHANGED <<arenaTable, globalRange, globalDirs, processVars, treeVars, peerVars,
                 marks, indexed, updating, listing>>

-----------------------------------------------------------------------------
(* Marks.                                                                  *)

\* do_get_mark: the mark of the path or of the closest directory that has one.
GetMark(ms, p) ==
  LET set == {i \in 0..Len(p) : ms[SubSeq(p, 1, i)] # None}
  IN IF set = {} THEN DefaultMark ELSE ms[SubSeq(p, 1, Max(set))]

\* mutant: mark_dir_dirty without its recursion
JustBelow(tab, inode) == {inode} \cup {e[1] : e \in ReadDir(tab, inode)}

\* The inodes mark_file_dirty and mark_dir_dirty go through.
Below(tab, inode) ==
  LET reach[n \in 0..Cardinality(DOMAIN tab)] ==
        IF n = 0 THEN {inode}
        ELSE reach[n - 1] \cup {tab[k].inode : k \in {x \in DOMAIN tab : x[1] \in reach[n - 1]}}
  IN reach[Cardinality(DOMAIN tab)]

\* PathMarks::mark_dirty: everything at or below p in the index, then in the
\* cache.
MarkDirty(a, p) ==
  LET e == LookupPath(a, p)
      cached == IF e.kind = "NotFound" THEN {} ELSE Below(dirs[a], e.inode) \cap DOMAIN file[a]
  IN {<<a, x>> : x \in {y \in Path : indexed[a][y] # None /\ IsPrefix(p, y)}}
       \cup {<<a, file[a][i].path>> : i \in cached}

\* set_mark_or_root and clear_mark (m = None).  A path below what the cache
\* knows as a file is an error when the mark changes.
SetMark(a, p, m) ==
  LET ms == [marks[a] EXCEPT ![p] = m]
      changes == GetMark(marks[a], p) # GetMark(ms, p)
  IN /\ Op(a, "marks")
     /\ p # <<>> \/ m # None
     /\ marks[a][p] # m
     /\ changes => LookupPath(a, p).kind # "NotADirectory"
     /\ marks' = [marks EXCEPT ![a] = ms]
     /\ dirtied' = IF changes THEN MarkDirty(a, p) ELSE {}
     /\ applied' = None
     /\ UNCHANGED <<globalVars, processVars, treeVars, peerVars, indexed, updating, listing>>

\* The watcher adds a file to the index or removes it.  A file that was only
\* touched is not outdated any more and not marked dirty.
IndexChanges(a, p, entry) ==
  /\ Op(a, "marks")
  /\ p \in budget.files /\ indexed[a][p] # entry
  /\ indexed' = [indexed EXCEPT ![a][p] = entry]
  /\ dirtied' = IF entry # None /\ indexed[a][p] # None /\ indexed[a][p].hash = entry.hash
                 THEN {} ELSE {<<a, p>>}
  /\ applied' = None
  /\ UNCHANGED <<globalVars, processVars, treeVars, peerVars, marks, updating, listing>>

-----------------------------------------------------------------------------
(* A client of the export lists the root of an arena, one entry at a time. *)

\* The client starts: nothing is listed yet.
StartListing(a) ==
  /\ Op(a, "listings") /\ listing = None
  /\ listing' = [arena |-> a, after |-> 0, page |-> None, listed |-> {}, ended |-> FALSE,
                 stayed |-> ReadDir(dirs[a], arenaTable[a])]
  /\ Silent
  /\ UNCHANGED <<globalVars, processVars, treeVars, peerVars, marks, indexed, updating>>

\* mutant: the entries stay in the order of the table
AnyNext(rest) == rest

\* do_readdir sorts by inode and skips those of the pages before.
NextEntries(rest) == {e \in rest : \A x \in rest : e[1] <= x[1]}

\* do_readdir reads the directory; without an entry left, the listing ends.
ReadPage ==
  LET a == listing.arena
      rest == {e \in ReadDir(dirs[a], arenaTable[a]) : e[1] > listing.after}
  IN /\ listing # None /\ listing.page = None /\ ~listing.ended
     /\ listing' \in IF rest = {} THEN {[listing EXCEPT !.ended = TRUE]}
                     ELSE {[listing EXCEPT !.page = e] : e \in NextEntries(rest)}
     /\ Silent
     /\ UNCHANGED <<globalVars, processVars, treeVars, peerVars, marks, indexed, updating, budget>>

\* Its attributes are read later, each in a transaction of its own: a file
\* that is gone, or that never had a version, fails the whole page.
ReadAttributes ==
  LET a == listing.arena
      e == listing.page
      isFile == \A k \in DOMAIN dirs[a] : dirs[a][k].inode = e[1] => dirs[a][k].kind = "File"
  IN /\ listing # None /\ listing.page # None
     /\ listing' = IF isFile /\ e[1] \notin DOMAIN file[a] THEN None
                   ELSE [listing EXCEPT !.page = None, !.after = e[1], !.listed = @ \cup {e}]
     /\ Silent
     /\ UNCHANGED <<globalVars, processVars, treeVars, peerVars, marks, indexed, updating, budget>>

Next ==
  \/ \E a \in Arena : AddArena(a) \/ Register(a) \/ LosesRange(a) \/ StartListing(a)
  \/ \E a \in Arena : NotifiesIndex(a) \/ FinishesUpdate(a) \/ Notified(a)
  \/ \E a \in Arena, p \in MarkPath, m \in Mark \cup {None} : SetMark(a, p, m)
  \/ \E a \in Arena, p \in Path :
       \/ IndexChanges(a, p, None)
       \/ \E h \in Hash : IndexChanges(a, p, [hash |-> h, outdated |-> None])
  \/ Restart
  \/ ReadPage
  \/ ReadAttributes

Spec == Init /\ [][Next]_vars

-----------------------------------------------------------------------------

TypeOK ==
  /\ arenaTable \in [Arena -> Nat]
  /\ DOMAIN ranges \subseteq Nat /\ Range(ranges) \subseteq Nat
  /\ registered \subseteq added /\ added \subseteq Arena
  /\ globalRange \in Nat \X Nat /\ range \in [Arena -> Nat \X Nat]
  /\ \A t \in {globalDirs} \cup Range(dirs) :
       Range(t) \subseteq [inode : Nat, kind : {"Dir", "File"}]
  /\ \A a \in Arena :
       Range(file[a]) \subseteq [path : Path, parent : Nat, default : Hash,
                                 peer : [Peer -> Hash \cup {None}]]
  /\ seen \in [Arena -> [Peer -> 0..MaxHistory]]
  /\ known \in [Arena -> [Peer -> 0..MaxUuid]]
  /\ marks \in [Arena -> [MarkPath -> Mark \cup {None}]]
  /\ indexed \in [Arena -> [Path -> {None} \cup [hash : Hash, outdated : Hash \cup {None}]]]
  /\ updating \in {None} \cup [arena : Arena, peer : Peer, notification : Incoming]
  /\ dirtied \subseteq Arena \X Path

\* Every file with a version is found at its own path, and no inode is in two
\* places: whatever peers add and remove in whatever order, no file is
\* orphaned and no directory entry leads to the versions of another file
\* (do_create_file and do_rm_file_entry keep two tables in step).
TreeSound ==
  /\ TypeOK
  /\ \A a \in Arena :
       /\ \A i \in DOMAIN file[a] :
            LookupPath(a, file[a][i].path) = [inode |-> i, kind |-> "File"]
       /\ \A k, l \in DOMAIN dirs[a] : dirs[a][k].inode = dirs[a][l].inode => k = l

\* An inode of an arena's tree is always led back to that arena, and a global
\* one to the global tree, across restarts, arenas that come and go and ranges
\* lost by failed updates: calls of the export reach the tables that hold the
\* inode (arena_for_inode).
InodesOwned ==
  Serving =>
    /\ \A a \in registered : \A k \in DOMAIN dirs[a] : ArenaForInode(dirs[a][k].inode) = a
    /\ \A k \in DOMAIN globalDirs :
         LET i == globalDirs[k].inode
         IN ArenaForInode(i) = IF \E a \in registered : arenaTable[a] = i
                               THEN CHOOSE a \in registered : arenaTable[a] = i ELSE None

\* Some arena that was ever configured is inside of arena a's directory.
Shadowed(a) ==
  \E b \in Arena : arenaTable[b] # 0 /\ IsStrictPrefix(ArenaPath[a], ArenaPath[b])

\* Every arena being served is in the exported tree, at its own name, unless
\* its name was once the directory of another arena (add_arena_root then
\* leaves what it finds).
ArenaShown ==
  Serving => \A a \in registered :
    ~Shadowed(a) => Walk(globalDirs, RootInode, ArenaPath[a]).inode = arenaTable[a]

\* A listing that comes to its end has shown every entry that was there from
\* its start to its end, although the pages are read in different
\* transactions and files come and go in between (do_readdir's order).
ListedAll ==
  listing # None /\ listing.ended => listing.stayed \subseteq listing.listed

-----------------------------------------------------------------------------
(* The tables implement ArenaCache.                                        *)

\* The file a path leads to, as a set: empty without one that has a version.
FileAt(a, p) ==
  LET e == LookupPath(a, p) IN {i \in {e.inode} \cap DOMAIN file[a] : e.kind = "File"}

\* The version of each peer, the version shown, the paths of files and the
\* catchup's marks, by path.
PathEntry(a) ==
  [p \in Path |-> IF FileAt(a, p) = {} THEN [q \in Peer |-> None]
                  ELSE file[a][CHOOSE i \in FileAt(a, p) : TRUE].peer]
PathDefault(a) ==
  [p \in Path |-> IF FileAt(a, p) = {} THEN None
                  ELSE file[a][CHOOSE i \in FileAt(a, p) : TRUE].default]
PathDir(a) == {p \in Path : LookupPath(a, p).kind = "File"}
PathMarked(a) == {m \in Peer \X Path : \E i \in FileAt(a, m[2]) : <<m[1], i>> \in pending[a]}

PathCache(a) == INSTANCE ArenaCache WITH
  entry <- PathEntry(a), default <- PathDefault(a), dir <- PathDir(a), marked <- PathMarked(a),
  seen <- seen[a],
  known <- known[a]

\* What an arena's cache does with notifications, seen by path, is what
\* ArenaCache says, step by step, although files come and go under new inodes
\* and a catchup's marks are kept by inode (ArenaCache::update).
PathCacheSpec ==
  /\ \A a \in Arena : PathCache(a)!CacheInit
  /\ [][\A a \in Arena :
          \/ UNCHANGED <<arenaTable[a], dirs[a], file[a], pending[a], seen[a], known[a]>>
          \/ \E u \in {applied'} \ {None} :
               u.arena = a /\ PathCache(a)!Update(u.peer, u.notification)
          \/ UNCHANGED <<PathEntry(a), PathDefault(a), PathDir(a), PathMarked(a),
                         seen[a], known[a]>>]_vars

=============================================================================
