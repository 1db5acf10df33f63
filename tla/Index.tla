-------------------------------- MODULE Index ---------------------------------
(***************************************************************************)
(* The index of an arena (realize-storage/src/arena/index.rs) on each peer *)
(* that publishes it: the file table, the history of its changes and the   *)
(* watch channel that announces new history entries.                       *)
(*                                                                         *)
(* An indexed file is its content hash; size and modification time come    *)
(* with it.  The outdated_by field, which a remote Replace sets, is not    *)
(* published and is left out, as is the local file.                        *)
(***************************************************************************)
EXTENDS Notifications

CONSTANTS
  Writer,      \* threads of a peer that run transactions on its index
  MaxDrops     \* bound on files dropped by Storage::unrealize

ASSUME DropsAssumption == MaxDrops \in Nat

VARIABLES
  index,      \* INDEX_FILE_TABLE of each peer: path -> hash, or None
  history,    \* INDEX_HISTORY_TABLE of each peer; entry i is history[q][i]
  watch,      \* value of the watch channel history_tx of each peer
  hook,       \* after-commit callback a writer has yet to run, 0 if none
  signalled,  \* peers whose watch was sent to since its receiver looked
  drops       \* files dropped so far, for the bound only

indexVars == <<index, history, watch, hook, signalled, drops>>

\* HistoryTableEntry; an Add has no old hash.
HistoryEntry ==
  {e \in [kind : {"Add", "Replace", "Remove", "Drop"}, path : Path, old : Hash \cup {None}] :
     e.kind # "Add" => e.old \in Hash}

IndexTypeOK ==
  /\ index \in [Peer -> [Path -> Hash \cup {None}]]
  /\ history \in [Peer -> Seq(HistoryEntry)]
  /\ \A q \in Peer : Len(history[q]) <= MaxHistory
  /\ watch \in [Peer -> 0..MaxHistory]
  /\ hook \in [Peer -> [Writer -> 0..MaxHistory]]
  /\ signalled \in SUBSET Peer
  /\ drops \in 0..MaxDrops

NewIndex == [p \in Path |-> None]

IndexInit ==
  /\ index = [q \in Peer |-> NewIndex]
  /\ history = [q \in Peer |-> <<>>]
  /\ watch = [q \in Peer |-> 0]
  /\ hook = [q \in Peer |-> [w \in Writer |-> 0]]
  /\ signalled = {}
  /\ drops = 0

-----------------------------------------------------------------------------

\* The end of a transaction that adds entries to the history: each entry gets
\* the next index, and the last index is announced once the commit is done.
Record(q, w, entries) ==
  /\ hook[q][w] = 0
  /\ Len(history[q]) + Len(entries) <= MaxHistory
  /\ history' = [history EXCEPT ![q] = @ \o entries]
  /\ hook' = [hook EXCEPT ![q][w] = Len(history[q]) + Len(entries)]
  /\ UNCHANGED <<watch, signalled>>

\* The history entry for a file that gets new content.
AlwaysAdd(q, p) == [kind |-> "Add", path |-> p, old |-> None]    \* mutant
AddedEntry(q, p) ==
  IF index[q][p] = None THEN [kind |-> "Add", path |-> p, old |-> None]
                        ELSE [kind |-> "Replace", path |-> p, old |-> index[q][p]]

\* add_file; the same hash again leaves the history alone.
AddFile(q, w, p, h) ==
  /\ index[q][p] # h
  /\ Record(q, w, <<AddedEntry(q, p)>>)
  /\ index' = [index EXCEPT ![q][p] = h]
  /\ UNCHANGED drops

\* The entries for files that go away in one transaction, in the order s.
RemovedEntries(q, s) ==
  [i \in 1..Len(s) |-> [kind |-> "Remove", path |-> s[i], old |-> index[q][s[i]]]]

\* The sequences that list each element of ps once.
Orderings(ps) ==
  {s \in [1..Cardinality(ps) -> ps] : \A i, j \in DOMAIN s : s[i] = s[j] => i = j}

\* remove_file_or_dir on a path with the indexed files ps at or under it.
RemoveFileOrDir(q, w, ps) ==
  /\ ps # {}
  /\ \A p \in ps : index[q][p] # None
  /\ \E s \in Orderings(ps) : Record(q, w, RemovedEntries(q, s))
  /\ index' = [index EXCEPT ![q] = [p \in Path |-> IF p \in ps THEN None ELSE @[p]]]
  /\ UNCHANGED drops

\* drop_file_if_matches, called by Storage::unrealize for the indexed version.
DropFileIfMatches(q, w, p) ==
  /\ drops < MaxDrops
  /\ index[q][p] # None
  /\ Record(q, w, <<[kind |-> "Drop", path |-> p, old |-> index[q][p]]>>)
  /\ index' = [index EXCEPT ![q][p] = None]
  /\ drops' = drops + 1

\* ArenaWriteTransaction::commit runs the callback after redb's write lock is
\* released: callbacks of two writers may run in any order.
AfterCommit(q, w) ==
  /\ hook[q][w] # 0
  /\ watch' = [watch EXCEPT ![q] = hook[q][w]]
  /\ hook' = [hook EXCEPT ![q][w] = 0]
  /\ signalled' = signalled \cup {q}
  /\ UNCHANGED <<index, history, drops>>

\* RealIndexBlocking::new on an existing database.
ReopenIndex(q) ==
  /\ watch' = [watch EXCEPT ![q] = Len(history[q])]
  /\ hook' = [hook EXCEPT ![q] = [w \in Writer |-> 0]]
  /\ signalled' = signalled \ {q}
  /\ UNCHANGED <<index, history, drops>>

\* RealIndexBlocking::new on a new database, after the old one was lost.
CreateIndex(q) ==
  /\ index' = [index EXCEPT ![q] = NewIndex]
  /\ history' = [history EXCEPT ![q] = <<>>]
  /\ watch' = [watch EXCEPT ![q] = 0]
  /\ hook' = [hook EXCEPT ![q] = [w \in Writer |-> 0]]
  /\ signalled' = signalled \ {q}
  /\ UNCHANGED drops

\* A transaction of peer q on its index.
IndexChange(q) ==
  \E w \in Writer :
    \/ \E p \in Path, h \in Hash : AddFile(q, w, p, h)
    \/ \E ps \in SUBSET Path : RemoveFileOrDir(q, w, ps)
    \/ \E p \in Path : DropFileIfMatches(q, w, p)

-----------------------------------------------------------------------------

\* i and j are consecutive entries of a history about the same path.
Successive(hist, i, j) ==
  /\ i < j
  /\ hist[i].path = hist[j].path
  /\ \A k \in (i + 1)..(j - 1) : hist[k].path # hist[j].path

\* i is the last entry about its path.
IsLatest(hist, i) == \A k \in (i + 1)..Len(hist) : hist[k].path # hist[i].path

Present(kind) == kind \in {"Add", "Replace"}

\* The history hist explains the files ix: the last entry about a path says
\* whether it is indexed and was not recorded for the content it still has,
\* and the entries about a path follow one another as its content did.
Explains(hist, ix) ==
  /\ \A p \in Path : ix[p] # None => \E i \in DOMAIN hist : hist[i].path = p
  /\ \A i \in DOMAIN hist :
       IsLatest(hist, i) => /\ Present(hist[i].kind) <=> ix[hist[i].path] # None
                            /\ hist[i].kind = "Replace" => hist[i].old # ix[hist[i].path]
  /\ \A i, j \in DOMAIN hist :
       Successive(hist, i, j) => /\ Present(hist[i].kind) <=> hist[j].kind # "Add"
                                 /\ hist[i].kind = "Replace" => hist[i].old # hist[j].old

\* The history tells the truth about the index: subscribers rely on it to
\* rebuild the index from the history (add_file, remove_file_or_dir and
\* drop_file_if_matches change both tables in one transaction).
HistoryExplainsIndex == \A q \in Peer : Explains(history[q], index[q])

=============================================================================
