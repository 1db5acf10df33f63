------------------------------ MODULE SyncProofs ------------------------------
(***************************************************************************)
(* Proofs about Sync, for any number of peers, writers, files and versions *)
(* and any bounds: first what the transactions of Index and                *)
(* ArenaCache::update preserve, then what holds along the way from an      *)
(* index to the cache, whatever breaks.                                    *)
(***************************************************************************)
EXTENDS Sync, FiniteSetTheorems, SequenceTheorems, TLAPS

-----------------------------------------------------------------------------
(* Index and ArenaCache.                                                   *)

USE NoneAssumption, HistoryAssumption, DropsAssumption

\* Recording entries keeps the types of the history and of the callbacks.
LEMMA RecordType ==
  ASSUME IndexTypeOK, NEW q \in Peer, NEW w \in Writer,
         NEW entries \in Seq(HistoryEntry), Record(q, w, entries)
  PROVE  /\ history' \in [Peer -> Seq(HistoryEntry)]
         /\ \A r \in Peer : Len(history'[r]) <= MaxHistory
         /\ hook' \in [Peer -> [Writer -> 0..MaxHistory]]
<1>1. /\ history[q] \in Seq(HistoryEntry)
      /\ history[q] \o entries \in Seq(HistoryEntry)
      /\ Len(history[q] \o entries) = Len(history[q]) + Len(entries)
  BY DEF IndexTypeOK
<1>2. history' = [history EXCEPT ![q] = history[q] \o entries]
  BY DEF Record
<1>3. Len(history[q]) + Len(entries) \in 0..MaxHistory
  BY <1>1 DEF Record
<1>4. hook' \in [Peer -> [Writer -> 0..MaxHistory]]
  BY <1>3 DEF Record, IndexTypeOK
<1>5. history \in [Peer -> Seq(HistoryEntry)]
  BY DEF IndexTypeOK
<1>6. history' \in [Peer -> Seq(HistoryEntry)]
  BY <1>1, <1>2, <1>5
<1>7. ASSUME NEW r \in Peer PROVE Len(history'[r]) <= MaxHistory
  <2>1. CASE r = q
    BY <1>1, <1>2, <1>3, <1>5, <2>1
  <2>2. CASE r # q
    BY <1>2, <1>5, <2>2 DEF IndexTypeOK
  <2>3. QED
    BY <2>1, <2>2
<1>8. QED
  BY <1>4, <1>6, <1>7

\* The entry of a file that gets new content is an entry.
LEMMA AddedEntryType ==
  ASSUME IndexTypeOK, NEW q \in Peer, NEW p \in Path
  PROVE  AddedEntry(q, p) \in HistoryEntry
<1>1. index[q][p] \in Hash \cup {None}
  BY DEF IndexTypeOK
<1>2. QED
  BY <1>1 DEF AddedEntry, HistoryEntry

\* An ordering of a set of files lists each of them once.
LEMMA OrderingFacts ==
  ASSUME NEW ps \in SUBSET Path, NEW s \in Orderings(ps)
  PROVE  /\ s \in Seq(ps)
         /\ Len(s) = Cardinality(ps)
         /\ \A i, j \in 1..Len(s) : s[i] = s[j] => i = j
         /\ \A p \in ps : \E i \in 1..Len(s) : s[i] = p
<1>1. IsFiniteSet(ps) /\ Cardinality(ps) \in Nat
  BY PathAssumption, FS_Subset, FS_CardinalityType
<1>2. s \in [1..Cardinality(ps) -> ps] /\ \A i, j \in DOMAIN s : s[i] = s[j] => i = j
  BY DEF Orderings
<1>3. s \in Seq(ps) /\ Len(s) = Cardinality(ps)
  BY <1>1, <1>2
<1>4. Cardinality(1..Cardinality(ps)) = Cardinality(ps)
  BY <1>1, FS_Interval
<1>5. s \in Injection(1..Cardinality(ps), ps)
  BY <1>2 DEF Injection, IsInjective
<1>6. s \in Surjection(1..Cardinality(ps), ps)
  BY <1>1, <1>4, <1>5, FS_Injection
<1>7. \A p \in ps : \E i \in 1..Len(s) : s[i] = p
  BY <1>3, <1>6 DEF Surjection
<1>8. QED
  BY <1>2, <1>3, <1>7

\* The entries of files that go away are entries.
LEMMA RemovedEntriesType ==
  ASSUME IndexTypeOK, NEW q \in Peer, NEW ps \in SUBSET Path,
         \A p \in ps : index[q][p] # None, NEW s \in Orderings(ps)
  PROVE  /\ RemovedEntries(q, s) \in Seq(HistoryEntry)
         /\ DOMAIN RemovedEntries(q, s) = 1..Len(s)
         /\ \A i \in 1..Len(s) :
              RemovedEntries(q, s)[i] = [kind |-> "Remove", path |-> s[i], old |-> index[q][s[i]]]
<1> DEFINE es == RemovedEntries(q, s)
<1>1. Len(s) \in Nat /\ \A i \in 1..Len(s) : s[i] \in ps
  BY OrderingFacts
<1>2. \A p \in ps : index[q][p] \in Hash
  BY DEF IndexTypeOK
<1>3. /\ DOMAIN es = 1..Len(s)
      /\ \A i \in 1..Len(s) : es[i] = [kind |-> "Remove", path |-> s[i], old |-> index[q][s[i]]]
  BY DEF RemovedEntries
<1>4. \A i \in 1..Len(s) : es[i] \in HistoryEntry
  BY <1>1, <1>2, <1>3 DEF HistoryEntry
<1>5. es \in [1..Len(s) -> HistoryEntry]
  BY <1>4 DEF RemovedEntries
<1> HIDE DEF es
<1>6. es \in Seq(HistoryEntry)
  BY <1>1, <1>5
<1>7. QED
  BY <1>3, <1>6 DEF es

\* A transaction on the index appends to the history, and what it announces
\* is the new end of the history.
LEMMA IndexGrows ==
  ASSUME IndexTypeOK, NEW q \in Peer, IndexChange(q)
  PROVE  /\ watch' = watch
         /\ \A r \in Peer : Len(history'[r]) >= Len(history[r])
         /\ \A r \in Peer, w \in Writer : hook'[r][w] \in {hook[r][w], Len(history'[r])}
<1>1. PICK w \in Writer, es \in Seq(HistoryEntry) : Record(q, w, es)
  <2>1. ASSUME NEW w \in Writer, NEW p \in Path, NEW h \in Hash, AddFile(q, w, p, h)
        PROVE  \E es \in Seq(HistoryEntry) : Record(q, w, es)
    <3>1. <<AddedEntry(q, p)>> \in Seq(HistoryEntry)
      BY AddedEntryType
    <3>2. QED
      BY <2>1, <3>1 DEF AddFile
  <2>2. ASSUME NEW w \in Writer, NEW ps \in SUBSET Path, RemoveFileOrDir(q, w, ps)
        PROVE  \E es \in Seq(HistoryEntry) : Record(q, w, es)
    BY <2>2, RemovedEntriesType DEF RemoveFileOrDir
  <2>3. ASSUME NEW w \in Writer, NEW p \in Path, DropFileIfMatches(q, w, p)
        PROVE  \E es \in Seq(HistoryEntry) : Record(q, w, es)
    <3> DEFINE e == [kind |-> "Drop", path |-> p, old |-> index[q][p]]
    <3>1. index[q][p] \in Hash
      BY <2>3 DEF DropFileIfMatches, IndexTypeOK
    <3>2. e \in HistoryEntry
      BY <3>1 DEF HistoryEntry
    <3>3. <<e>> \in Seq(HistoryEntry) /\ Record(q, w, <<e>>)
      BY <2>3, <3>2 DEF DropFileIfMatches
    <3>4. QED
      BY <3>3
  <2>4. QED
    BY <2>1, <2>2, <2>3 DEF IndexChange
<1>2. /\ history[q] \in Seq(HistoryEntry)
      /\ Len(history[q] \o es) = Len(history[q]) + Len(es)
      /\ Len(history[q]) \in Nat /\ Len(es) \in Nat
  BY DEF IndexTypeOK
<1>3. /\ history' = [history EXCEPT ![q] = history[q] \o es]
      /\ hook' = [hook EXCEPT ![q][w] = Len(history[q]) + Len(es)]
      /\ watch' = watch
  BY <1>1 DEF Record
<1>4. ASSUME NEW r \in Peer
      PROVE  /\ Len(history'[r]) >= Len(history[r])
             /\ \A v \in Writer : hook'[r][v] \in {hook[r][v], Len(history'[r])}
  <2>1. CASE r = q
    <3>1. Len(history'[r]) = Len(history[q]) + Len(es)
      BY <1>2, <1>3, <2>1 DEF IndexTypeOK
    <3>2. \A v \in Writer : hook'[r][v] \in {hook[r][v], Len(history[q]) + Len(es)}
      BY <1>3, <2>1 DEF IndexTypeOK
    <3>3. QED
      BY <1>2, <2>1, <3>1, <3>2
  <2>2. CASE r # q
    BY <1>3, <2>2 DEF IndexTypeOK
  <2>3. QED
    BY <2>1, <2>2
<1>5. QED
  BY <1>3, <1>4

\* What it takes for new entries es, at most one per path, to go on explaining
\* an index that changes from ix to nx.
Continues(es, ix, nx) ==
  /\ \A i, j \in DOMAIN es : es[i].path = es[j].path => i = j
  /\ \A p \in Path : nx[p] # ix[p] => \E i \in DOMAIN es : es[i].path = p
  /\ \A i \in DOMAIN es :
       LET p == es[i].path
       IN /\ es[i].kind = "Add" <=> ix[p] = None
          /\ es[i].kind # "Add" => es[i].old = ix[p]
          /\ Present(es[i].kind) <=> nx[p] # None
          /\ es[i].kind = "Replace" => nx[p] # es[i].old

\* A history that explains an index explains the next one once the entries of
\* a transaction are appended.
LEMMA ExplainsConcat ==
  ASSUME NEW hist \in Seq(HistoryEntry), NEW es \in Seq(HistoryEntry),
         NEW ix \in [Path -> Hash \cup {None}], NEW nx \in [Path -> Hash \cup {None}],
         Explains(hist, ix), Continues(es, ix, nx)
  PROVE  Explains(hist \o es, nx)
<1> DEFINE H == hist \o es
           n == Len(hist)
           m == Len(es)
<1>1. /\ n \in Nat /\ m \in Nat /\ Len(H) = n + m
      /\ DOMAIN hist = 1..n /\ DOMAIN es = 1..m /\ DOMAIN H = 1..(n + m)
      /\ \A i \in 1..n : H[i] = hist[i]
      /\ \A i \in (n + 1)..(n + m) : H[i] = es[i - n]
  OBVIOUS
<1>2. /\ \A i \in 1..n : hist[i].path \in Path
      /\ \A i \in 1..m : es[i].path \in Path /\ H[n + i] = es[i]
  BY <1>1 DEF HistoryEntry
<1> HIDE DEF H, n, m
<1>3. ASSUME NEW i \in 1..n, IsLatest(H, i)
      PROVE  IsLatest(hist, i) /\ nx[H[i].path] = ix[H[i].path]
  <2>1. IsLatest(hist, i)
    BY <1>1, <1>3 DEF IsLatest, n
  <2>2. ASSUME NEW k \in 1..m PROVE es[k].path # H[i].path
    <3>1. n + k \in (i + 1)..Len(H)
      BY <1>1
    <3>2. QED
      BY <1>2, <1>3, <3>1 DEF IsLatest
  <2>3. H[i].path \in Path /\ DOMAIN es = 1..m
    BY <1>1, <1>2
  <2>4. nx[H[i].path] = ix[H[i].path]
    BY <2>2, <2>3 DEF Continues
  <2>5. QED
    BY <2>1, <2>4
<1>4. ASSUME NEW p \in Path, nx[p] # None PROVE \E i \in DOMAIN H : H[i].path = p
  <2>1. CASE nx[p] # ix[p]
    <3>1. PICK k \in 1..m : es[k].path = p
      BY <1>1, <2>1 DEF Continues
    <3>2. n + k \in DOMAIN H /\ H[n + k].path = p
      BY <1>1, <1>2, <3>1
    <3>3. QED
      BY <3>2
  <2>2. CASE nx[p] = ix[p]
    <3>1. PICK k \in 1..n : hist[k].path = p
      BY <1>1, <1>4, <2>2 DEF Explains
    <3>2. QED
      BY <1>1, <3>1
  <2>3. QED
    BY <2>1, <2>2
<1>5. ASSUME NEW i \in DOMAIN H, IsLatest(H, i)
      PROVE  /\ Present(H[i].kind) <=> nx[H[i].path] # None
             /\ H[i].kind = "Replace" => H[i].old # nx[H[i].path]
  <2>1. CASE i \in 1..n
    BY <1>1, <1>3, <1>5, <2>1 DEF Explains
  <2>2. CASE i \in (n + 1)..(n + m)
    <3>1. i - n \in DOMAIN es /\ H[i] = es[i - n]
      BY <1>1, <2>2
    <3>2. QED
      BY <3>1 DEF Continues
  <2>3. QED
    BY <1>1, <2>1, <2>2
<1>6. ASSUME NEW i \in DOMAIN H, NEW j \in DOMAIN H, Successive(H, i, j)
      PROVE  /\ Present(H[i].kind) <=> H[j].kind # "Add"
             /\ H[i].kind = "Replace" => H[i].old # H[j].old
  <2>1. CASE j \in 1..n
    <3>1. i \in 1..n /\ Successive(hist, i, j)
      BY <1>1, <1>6, <2>1 DEF Successive
    <3>2. QED
      BY <1>1, <2>1, <3>1 DEF Explains
  <2>2. CASE i \in 1..n /\ j \in (n + 1)..(n + m)
    <3>1. j - n \in DOMAIN es /\ H[j] = es[j - n] /\ H[i] = hist[i] /\ H[i].path = H[j].path
      BY <1>1, <1>6, <2>2 DEF Successive
    <3>2. IsLatest(hist, i)
      <4>1. ASSUME NEW k \in (i + 1)..n PROVE hist[k].path # hist[i].path
        <5>1. k \in (i + 1)..(j - 1) /\ H[k] = hist[k]
          BY <1>1, <2>2
        <5>2. QED
          BY <1>6, <3>1, <5>1 DEF Successive
      <4>2. QED
        BY <4>1 DEF IsLatest, n
    <3>3. /\ Present(hist[i].kind) <=> ix[hist[i].path] # None
          /\ hist[i].kind = "Replace" => hist[i].old # ix[hist[i].path]
      BY <1>1, <2>2, <3>2 DEF Explains
    <3>4. /\ H[j].kind = "Add" <=> ix[H[j].path] = None
          /\ H[j].kind # "Add" => H[j].old = ix[H[j].path]
      BY <3>1 DEF Continues
    <3>5. QED
      BY <3>1, <3>3, <3>4 DEF Present
  <2>3. CASE i \in (n + 1)..(n + m) /\ j \in (n + 1)..(n + m)
    <3>1. /\ i - n \in DOMAIN es /\ j - n \in DOMAIN es
          /\ es[i - n].path = es[j - n].path /\ i < j
      BY <1>1, <1>6, <2>3 DEF Successive
    <3>2. i - n = j - n
      BY <3>1 DEF Continues
    <3>3. QED
      BY <1>1, <2>3, <3>1, <3>2
  <2>4. QED
    BY <1>1, <1>6, <2>1, <2>2, <2>3 DEF Successive
<1>7. QED
  BY <1>4, <1>5, <1>6 DEF Explains, H

-----------------------------------------------------------------------------

\* A transaction that appends es to the history of q and turns its index into
\* nx keeps the types, and the history goes on explaining the index.
LEMMA TransactionStep ==
  ASSUME IndexTypeOK, HistoryExplainsIndex,
         NEW q \in Peer, NEW w \in Writer,
         NEW es \in Seq(HistoryEntry), NEW nx \in [Path -> Hash \cup {None}],
         Record(q, w, es), index' = [index EXCEPT ![q] = nx], drops' \in 0..MaxDrops,
         Continues(es, index[q], nx)
  PROVE  IndexTypeOK' /\ HistoryExplainsIndex'
<1>1. IndexTypeOK'
  <2>1. index' \in [Peer -> [Path -> Hash \cup {None}]]
    BY DEF IndexTypeOK
  <2>2. watch' \in [Peer -> 0..MaxHistory] /\ signalled' \in SUBSET Peer
    BY DEF IndexTypeOK, Record
  <2>3. QED
    BY <2>1, <2>2, RecordType DEF IndexTypeOK
<1>2. ASSUME NEW r \in Peer PROVE Explains(history'[r], index'[r])
  <2>1. history' = [history EXCEPT ![q] = history[q] \o es]
    BY DEF Record
  <2>2. CASE r = q
    <3>1. history'[r] = history[q] \o es /\ index'[r] = nx
      BY <2>1, <2>2 DEF IndexTypeOK
    <3>2. history[q] \in Seq(HistoryEntry) /\ index[q] \in [Path -> Hash \cup {None}]
      BY DEF IndexTypeOK
    <3>3. Explains(history[q], index[q])
      BY DEF HistoryExplainsIndex
    <3>4. Explains(history[q] \o es, nx)
      BY <3>2, <3>3, ExplainsConcat
    <3>5. QED
      BY <3>1, <3>4
  <2>3. CASE r # q
    <3>1. history'[r] = history[r] /\ index'[r] = index[r]
      BY <2>1, <2>3 DEF IndexTypeOK
    <3>2. QED
      BY <3>1 DEF HistoryExplainsIndex
  <2>4. QED
    BY <2>2, <2>3
<1>3. QED
  BY <1>1, <1>2 DEF HistoryExplainsIndex

\* add_file
LEMMA AddFileStep ==
  ASSUME IndexTypeOK, HistoryExplainsIndex,
         NEW q \in Peer, NEW w \in Writer, NEW p \in Path, NEW h \in Hash, AddFile(q, w, p, h)
  PROVE  IndexTypeOK' /\ HistoryExplainsIndex'
<1> DEFINE nx == [index[q] EXCEPT ![p] = h]
           e == AddedEntry(q, p)
<1>1. index[q] \in [Path -> Hash \cup {None}] /\ nx \in [Path -> Hash \cup {None}]
  BY DEF IndexTypeOK
<1>2. index' = [index EXCEPT ![q] = nx]
  BY DEF AddFile
<1>3. e \in HistoryEntry
  BY AddedEntryType
<1>4. /\ e.path = p
      /\ e.kind = "Add" <=> index[q][p] = None
      /\ e.kind # "Add" => e.old = index[q][p] /\ e.kind = "Replace"
      /\ index[q][p] # h
  BY DEF AddedEntry, AddFile
<1> HIDE DEF e
<1>5. Continues(<<e>>, index[q], nx)
  <2>1. DOMAIN <<e>> = {1} /\ <<e>>[1] = e
    OBVIOUS
  <2>2. \A r \in Path : nx[r] # index[q][r] => r = p
    BY <1>1
  <2>3. nx[p] = h
    BY <1>1
  <2>4. QED
    BY <1>4, <2>1, <2>2, <2>3 DEF Continues, Present
<1>6. <<e>> \in Seq(HistoryEntry)
  BY <1>3
<1>7. Record(q, w, <<e>>) /\ drops' = drops
  BY DEF AddFile, e
<1>8. drops' \in 0..MaxDrops
  BY <1>7 DEF IndexTypeOK
<1> HIDE DEF nx
<1>9. QED
  BY <1>1, <1>2, <1>5, <1>6, <1>7, <1>8, TransactionStep

\* remove_file_or_dir
LEMMA RemoveFileOrDirStep ==
  ASSUME IndexTypeOK, HistoryExplainsIndex,
         NEW q \in Peer, NEW w \in Writer, NEW ps \in SUBSET Path, RemoveFileOrDir(q, w, ps)
  PROVE  IndexTypeOK' /\ HistoryExplainsIndex'
<1> DEFINE nx == [p \in Path |-> IF p \in ps THEN None ELSE index[q][p]]
<1>1. index[q] \in [Path -> Hash \cup {None}] /\ nx \in [Path -> Hash \cup {None}]
  BY DEF IndexTypeOK
<1>2. index' = [index EXCEPT ![q] = nx]
  BY DEF RemoveFileOrDir
<1>3. PICK s \in Orderings(ps) : Record(q, w, RemovedEntries(q, s))
  BY DEF RemoveFileOrDir
<1> DEFINE es == RemovedEntries(q, s)
<1>4. /\ Len(s) \in Nat
      /\ \A i \in 1..Len(s) : s[i] \in ps
      /\ \A i, j \in 1..Len(s) : s[i] = s[j] => i = j
      /\ \A p \in ps : \E i \in 1..Len(s) : s[i] = p
  BY OrderingFacts
<1>5. \A p \in ps : index[q][p] \in Hash
  BY <1>1 DEF RemoveFileOrDir
<1>6. /\ es \in Seq(HistoryEntry)
      /\ DOMAIN es = 1..Len(s)
      /\ \A i \in 1..Len(s) : es[i] = [kind |-> "Remove", path |-> s[i], old |-> index[q][s[i]]]
  BY RemovedEntriesType DEF RemoveFileOrDir
<1> HIDE DEF es
<1>7. Continues(es, index[q], nx)
  <2>1. ASSUME NEW i \in DOMAIN es, NEW j \in DOMAIN es, es[i].path = es[j].path PROVE i = j
    <3>1. i \in 1..Len(s) /\ j \in 1..Len(s) /\ es[i].path = s[i] /\ es[j].path = s[j]
      BY <1>6
    <3>2. QED
      BY <1>4, <2>1, <3>1
  <2>2. ASSUME NEW p \in Path, nx[p] # index[q][p] PROVE \E i \in DOMAIN es : es[i].path = p
    <3>1. p \in ps
      BY <1>1, <2>2
    <3>2. QED
      BY <1>4, <1>6, <3>1
  <2>3. ASSUME NEW i \in DOMAIN es
        PROVE  /\ es[i].kind = "Remove"
               /\ index[q][es[i].path] # None
               /\ es[i].old = index[q][es[i].path]
               /\ nx[es[i].path] = None
    <3>1. s[i] \in ps /\ es[i].path = s[i] /\ es[i].kind = "Remove" /\ es[i].old = index[q][s[i]]
      BY <1>4, <1>6
    <3>2. index[q][s[i]] # None
      BY <1>5, <3>1
    <3>3. nx[s[i]] = None
      BY <3>1
    <3>4. QED
      BY <3>1, <3>2, <3>3
  <2>4. QED
    BY <2>1, <2>2, <2>3 DEF Continues, Present
<1>8. drops' \in 0..MaxDrops
  BY DEF RemoveFileOrDir, IndexTypeOK
<1>9. Record(q, w, es)
  BY <1>3 DEF es
<1> HIDE DEF nx
<1>10. QED
  BY <1>1, <1>2, <1>6, <1>7, <1>8, <1>9, TransactionStep

\* drop_file_if_matches
LEMMA DropFileStep ==
  ASSUME IndexTypeOK, HistoryExplainsIndex,
         NEW q \in Peer, NEW w \in Writer, NEW p \in Path, DropFileIfMatches(q, w, p)
  PROVE  IndexTypeOK' /\ HistoryExplainsIndex'
<1> DEFINE nx == [index[q] EXCEPT ![p] = None]
           e == [kind |-> "Drop", path |-> p, old |-> index[q][p]]
<1>1. index[q] \in [Path -> Hash \cup {None}] /\ nx \in [Path -> Hash \cup {None}]
  BY DEF IndexTypeOK
<1>2. index' = [index EXCEPT ![q] = nx]
  BY DEF DropFileIfMatches
<1>3. index[q][p] # None /\ index[q][p] \in Hash
  BY <1>1 DEF DropFileIfMatches
<1>4. e \in HistoryEntry
  BY <1>3 DEF HistoryEntry
<1>5. e.path = p /\ e.kind = "Drop" /\ e.old = index[q][p]
  OBVIOUS
<1>6. Record(q, w, <<e>>)
  BY DEF DropFileIfMatches
<1> HIDE DEF e
<1>7. Continues(<<e>>, index[q], nx)
  <2>1. DOMAIN <<e>> = {1} /\ <<e>>[1] = e
    OBVIOUS
  <2>2. \A r \in Path : nx[r] # index[q][r] => r = p
    BY <1>1
  <2>3. nx[p] = None
    BY <1>1
  <2>4. QED
    BY <1>3, <1>5, <2>1, <2>2, <2>3 DEF Continues, Present
<1>8. drops' \in 0..MaxDrops
  BY DEF DropFileIfMatches, IndexTypeOK
<1>9. <<e>> \in Seq(HistoryEntry)
  BY <1>4
<1> HIDE DEF nx
<1>10. QED
  BY <1>1, <1>2, <1>6, <1>7, <1>8, <1>9, TransactionStep

\* An empty history explains an empty index.
LEMMA EmptyExplains == Explains(<<>>, NewIndex)
  BY DEF Explains, NewIndex

\* A new index (RealIndexBlocking::new on an empty database).
LEMMA IndexInitially == ASSUME IndexInit PROVE IndexTypeOK /\ HistoryExplainsIndex
<1>1. IndexTypeOK
  BY DEF IndexInit, IndexTypeOK, NewIndex
<1>2. HistoryExplainsIndex
  BY EmptyExplains DEF IndexInit, HistoryExplainsIndex
<1>3. QED
  BY <1>1, <1>2

\* Every transaction on an existing index, its callback, and a restart.
LEMMA IndexChangeStep ==
  ASSUME IndexTypeOK, HistoryExplainsIndex, NEW q \in Peer,
         IndexChange(q) \/ (\E w \in Writer : AfterCommit(q, w)) \/ ReopenIndex(q)
  PROVE  IndexTypeOK' /\ HistoryExplainsIndex'
<1>1. CASE IndexChange(q)
  BY <1>1, AddFileStep, RemoveFileOrDirStep, DropFileStep DEF IndexChange
<1>2. ASSUME NEW w \in Writer, AfterCommit(q, w) PROVE IndexTypeOK' /\ HistoryExplainsIndex'
  BY <1>2 DEF AfterCommit, IndexTypeOK, HistoryExplainsIndex
<1>3. CASE ReopenIndex(q)
  BY <1>3 DEF ReopenIndex, IndexTypeOK, HistoryExplainsIndex
<1>4. QED
  BY <1>1, <1>2, <1>3

\* An index that is rebuilt from nothing.
LEMMA CreateIndexStep ==
  ASSUME IndexTypeOK, HistoryExplainsIndex, NEW q \in Peer, CreateIndex(q)
  PROVE  IndexTypeOK' /\ HistoryExplainsIndex'
<1>1. IndexTypeOK'
  BY DEF CreateIndex, IndexTypeOK, NewIndex
<1>2. ASSUME NEW r \in Peer PROVE Explains(history'[r], index'[r])
  <2>1. CASE r = q
    BY <2>1, EmptyExplains DEF CreateIndex, IndexTypeOK
  <2>2. CASE r # q
    BY <2>2 DEF CreateIndex, IndexTypeOK, HistoryExplainsIndex
  <2>3. QED
    BY <2>1, <2>2
<1>3. QED
  BY <1>1, <1>2 DEF HistoryExplainsIndex

\* A transaction without drops: the new entries come after the others, and one
\* of them tells of each file that changes what was there before.
LEMMA IndexTransacts ==
  ASSUME IndexTypeOK, MaxDrops = 0, NEW q \in Peer, IndexChange(q)
  PROVE  \E w \in Writer :
           /\ hook[q][w] = 0
           /\ hook' = [hook EXCEPT ![q][w] = Len(history'[q])]
           /\ watch' = watch /\ signalled' = signalled
           /\ Len(history'[q]) > Len(history[q])
           /\ \A j \in 1..Len(history[q]) : history'[q][j] = history[q][j]
           /\ \A j \in (Len(history[q]) + 1)..Len(history'[q]) :
                /\ history'[q][j].kind # "Drop"
                /\ history'[q][j].kind = "Add" => history'[q][j].old = None
           /\ \A p \in Path :
                \/ index'[q][p] = index[q][p]
                \/ \E j \in (Len(history[q]) + 1)..Len(history'[q]) :
                     history'[q][j].path = p /\ history'[q][j].old = index[q][p]
           /\ \A r \in Peer \ {q} :
                index'[r] = index[r] /\ history'[r] = history[r] /\ hook'[r] = hook[r]
<1> DEFINE Tells(es) ==
             /\ Len(es) > 0
             /\ \A i \in 1..Len(es) : es[i].kind # "Drop" /\ (es[i].kind = "Add" => es[i].old = None)
             /\ \A p \in Path : \/ index'[q][p] = index[q][p]
                                \/ \E i \in 1..Len(es) : es[i].path = p /\ es[i].old = index[q][p]
<1>1. index \in [Peer -> [Path -> Hash \cup {None}]]
  BY DEF IndexTypeOK
<1>2. ASSUME NEW w \in Writer, NEW p \in Path, NEW h \in Hash, AddFile(q, w, p, h)
      PROVE  /\ <<AddedEntry(q, p)>> \in Seq(HistoryEntry) /\ Record(q, w, <<AddedEntry(q, p)>>)
             /\ Tells(<<AddedEntry(q, p)>>)
             /\ \A r \in Peer \ {q} : index'[r] = index[r]
  <2> DEFINE e == AddedEntry(q, p)
  <2>1. e \in HistoryEntry
    BY AddedEntryType
  <2>2. e.path = p /\ e.kind # "Drop" /\ e.old = index[q][p] /\ (e.kind = "Add" => e.old = None)
    BY DEF AddedEntry
  <2> HIDE DEF e
  <2>3. Len(<<e>>) = 1 /\ <<e>>[1] = e
    OBVIOUS
  <2>4. index' = [index EXCEPT ![q][p] = h] /\ Record(q, w, <<e>>)
    BY <1>2 DEF AddFile, e
  <2>5. \A r \in Path : index'[q][r] = index[q][r] \/ r = p
    BY <1>1, <2>4
  <2>6. Tells(<<e>>)
    BY <2>2, <2>3, <2>5
  <2>7. QED
    BY <1>1, <2>1, <2>4, <2>6 DEF e
<1>3. ASSUME NEW w \in Writer, NEW ps \in SUBSET Path, RemoveFileOrDir(q, w, ps)
      PROVE  /\ \E es \in Seq(HistoryEntry) : Record(q, w, es) /\ Tells(es)
             /\ \A r \in Peer \ {q} : index'[r] = index[r]
  <2>1. /\ ps # {} /\ \A p \in ps : index[q][p] # None
        /\ index' = [index EXCEPT ![q] = [p \in Path |-> IF p \in ps THEN None ELSE index[q][p]]]
    BY <1>3 DEF RemoveFileOrDir
  <2>2. PICK s \in Orderings(ps) : Record(q, w, RemovedEntries(q, s))
    BY <1>3 DEF RemoveFileOrDir
  <2> DEFINE es == RemovedEntries(q, s)
  <2>3. /\ es \in Seq(HistoryEntry) /\ DOMAIN es = 1..Len(s)
        /\ \A i \in 1..Len(s) : es[i] = [kind |-> "Remove", path |-> s[i], old |-> index[q][s[i]]]
    BY <2>1, RemovedEntriesType
  <2> HIDE DEF es
  <2>4. Len(s) \in Nat /\ \A p \in ps : \E i \in 1..Len(s) : s[i] = p
    BY OrderingFacts
  <2>5. Len(es) = Len(s)
    BY <2>3, <2>4
  <2>6. Len(es) > 0
    BY <2>1, <2>4, <2>5
  <2>7. \A i \in 1..Len(es) : es[i].kind = "Remove" /\ es[i].path = s[i] /\ es[i].old = index[q][s[i]]
    BY <2>3, <2>5
  <2>8. ASSUME NEW p \in Path
        PROVE  index'[q][p] = index[q][p] \/ \E i \in 1..Len(es) : es[i].path = p /\ es[i].old = index[q][p]
    <3>1. CASE p \in ps
      BY <2>4, <2>5, <2>7, <3>1
    <3>2. CASE p \notin ps
      BY <1>1, <2>1, <3>2
    <3>3. QED
      BY <3>1, <3>2
  <2>9. Tells(es)
    BY <2>6, <2>7, <2>8
  <2>10. QED
    BY <1>1, <2>1, <2>2, <2>3, <2>9 DEF es
<1>4. PICK w \in Writer, es \in Seq(HistoryEntry) :
        Record(q, w, es) /\ Tells(es) /\ \A r \in Peer \ {q} : index'[r] = index[r]
  <2>1. ~\E w \in Writer, p \in Path : DropFileIfMatches(q, w, p)
    BY DEF DropFileIfMatches, IndexTypeOK
  <2> HIDE DEF Tells
  <2>2. QED
    BY <1>2, <1>3, <2>1 DEF IndexChange
<1>5. /\ history \in [Peer -> Seq(HistoryEntry)] /\ history[q] \in Seq(HistoryEntry)
      /\ hook \in [Peer -> [Writer -> 0..MaxHistory]]
      /\ Len(history[q]) \in Nat /\ Len(es) \in Nat
  BY DEF IndexTypeOK
<1> DEFINE H == history[q] \o es
<1>6. /\ Len(H) = Len(history[q]) + Len(es)
      /\ \A j \in 1..Len(history[q]) : H[j] = history[q][j]
      /\ \A j \in 1..Len(es) : H[Len(history[q]) + j] = es[j]
      /\ \A j \in (Len(history[q]) + 1)..Len(H) : H[j] = es[j - Len(history[q])]
  BY <1>5
<1>7. /\ hook[q][w] = 0 /\ history' = [history EXCEPT ![q] = H]
      /\ hook' = [hook EXCEPT ![q][w] = Len(history[q]) + Len(es)]
      /\ watch' = watch /\ signalled' = signalled
  BY <1>4 DEF Record
<1> HIDE DEF H
<1>8. history'[q] = H /\ hook' = [hook EXCEPT ![q][w] = Len(history'[q])]
      /\ \A r \in Peer \ {q} : history'[r] = history[r] /\ hook'[r] = hook[r]
  BY <1>5, <1>6, <1>7
<1>9. ASSUME NEW j \in (Len(history[q]) + 1)..Len(H)
      PROVE  H[j].kind # "Drop" /\ (H[j].kind = "Add" => H[j].old = None)
  <2>1. j - Len(history[q]) \in 1..Len(es)
    BY <1>5, <1>6
  <2>2. QED
    BY <1>4, <1>6, <2>1
<1>10. ASSUME NEW p \in Path, index'[q][p] # index[q][p]
       PROVE  \E j \in (Len(history[q]) + 1)..Len(H) : H[j].path = p /\ H[j].old = index[q][p]
  <2>1. PICK i \in 1..Len(es) : es[i].path = p /\ es[i].old = index[q][p]
    BY <1>4, <1>10
  <2>2. Len(history[q]) + i \in (Len(history[q]) + 1)..Len(H) /\ H[Len(history[q]) + i] = es[i]
    BY <1>5, <1>6
  <2>3. QED
    BY <2>1, <2>2
<1>11. Len(H) > Len(history[q])
  BY <1>4, <1>5, <1>6
<1> HIDE DEF Tells
<1>12. /\ Len(history'[q]) > Len(history[q])
       /\ \A j \in 1..Len(history[q]) : history'[q][j] = history[q][j]
       /\ \A j \in (Len(history[q]) + 1)..Len(history'[q]) :
            /\ history'[q][j].kind # "Drop"
            /\ history'[q][j].kind = "Add" => history'[q][j].old = None
       /\ \A p \in Path :
            \/ index'[q][p] = index[q][p]
            \/ \E j \in (Len(history[q]) + 1)..Len(history'[q]) :
                 history'[q][j].path = p /\ history'[q][j].old = index[q][p]
  BY <1>6, <1>8, <1>9, <1>10, <1>11
<1>13. /\ hook[q][w] = 0 /\ hook' = [hook EXCEPT ![q][w] = Len(history'[q])]
       /\ watch' = watch /\ signalled' = signalled
       /\ \A r \in Peer \ {q} :
            index'[r] = index[r] /\ history'[r] = history[r] /\ hook'[r] = hook[r]
  BY <1>4, <1>7, <1>8
<1>14. QED
  BY <1>12, <1>13, Zenon

-----------------------------------------------------------------------------
(* ArenaCache *)

\* A new cache.
LEMMA CacheInitially == ASSUME CacheInit PROVE CacheTypeOK /\ VisibleIffHeld
  BY DEF CacheInit, CacheTypeOK, VisibleIffHeld

\* The fields a notification has.
LEMMA NotificationFields ==
  ASSUME NEW n \in Notification
  PROVE  /\ n.kind \in Kind
         /\ n.index \in 0..MaxHistory
         /\ n.uuid \in 0..MaxUuid
         /\ n.kind \in Given \cup Taken => n.path \in Path
         /\ n.kind \in Given => n.hash \in Hash
         /\ n.kind \in Taken \cup {"Replace"} => n.old \in Hash
  BY DEF Notification

\* do_rm_file_entry takes away the default version and the directory entry
\* of a file exactly when it takes away the last version of it.
LEMMA RmFileEntriesStep ==
  ASSUME CacheTypeOK, VisibleIffHeld, NEW q \in Peer, NEW ps \in SUBSET Path,
         \A p \in ps : entry[p][q] # None, RmFileEntries(q, ps)
  PROVE  /\ entry' \in [Path -> [Peer -> Hash \cup {None}]]
         /\ default' \in [Path -> Hash \cup {None}]
         /\ dir' \in SUBSET Path
         /\ VisibleIffHeld'
<1>1. /\ entry' \in [Path -> [Peer -> Hash \cup {None}]]
      /\ default' \in [Path -> Hash \cup {None}]
      /\ dir' \in SUBSET Path
  BY DEF RmFileEntries, CacheTypeOK
<1>2. ASSUME NEW p \in Path
      PROVE  /\ default'[p] # None <=> \E r \in Peer : entry'[p][r] # None
             /\ default'[p] # None => p \in dir'
  <2>1. CASE p \notin ps
    BY <2>1 DEF RmFileEntries, LastVersion, VisibleIffHeld
  <2>2. CASE p \in ps
    <3>1. entry'[p] = [entry[p] EXCEPT ![q] = None]
      BY <2>2 DEF RmFileEntries
    <3>2. \A r \in Peer : entry'[p][r] # None <=> r # q /\ entry[p][r] # None
      BY <3>1 DEF CacheTypeOK
    <3>3. (\E r \in Peer : entry'[p][r] # None) <=> OtherVersions(q, p) # {}
      BY <3>2 DEF OtherVersions
    <3>4. default'[p] \in NextDefaults(q, p)
      BY <2>2 DEF RmFileEntries
    <3>5. None \notin OtherVersions(q, p)
      BY DEF OtherVersions
    <3>6. default'[p] # None <=> OtherVersions(q, p) # {}
      BY <3>4, <3>5 DEF NextDefaults
    <3>7. p \in dir
      BY <2>2 DEF VisibleIffHeld
    <3>8. OtherVersions(q, p) # {} => p \in dir'
      BY <3>7 DEF RmFileEntries, LastVersion
    <3>9. QED
      BY <3>3, <3>6, <3>8
  <2>3. QED
    BY <2>1, <2>2
<1>3. QED
  BY <1>1, <1>2 DEF VisibleIffHeld

\* A file for which the peer's version and, if there was none or it was
\* replaced, the version shown are written stays visible.
LEMMA AddStep ==
  ASSUME CacheTypeOK, VisibleIffHeld, NEW q \in Peer, NEW n \in Notification,
         n.kind = "Add", Add(q, n)
  PROVE  CacheTypeOK' /\ VisibleIffHeld'
<1>1. n.path \in Path /\ n.hash \in Hash /\ n.index \in 0..MaxHistory
  BY NotificationFields DEF Given
<1>2. CASE entry[n.path][q] = None
  <2>1. /\ entry' = [entry EXCEPT ![n.path][q] = n.hash]
        /\ default' = [default EXCEPT ![n.path] = IF @ = None THEN n.hash ELSE @]
        /\ dir' = dir \cup {n.path}
    BY <1>2 DEF Add, WriteFileEntry, WriteDefaultIfNone
  <2>2. CacheTypeOK'
    BY <1>1, <2>1 DEF Add, UpdateLastSeen, CacheTypeOK
  <2>3. VisibleIffHeld'
    BY <1>1, <2>1 DEF CacheTypeOK, VisibleIffHeld
  <2>4. QED
    BY <2>2, <2>3
<1>3. CASE entry[n.path][q] # None
  BY <1>1, <1>3 DEF Add, UpdateLastSeen, CacheTypeOK, VisibleIffHeld
<1>4. QED
  BY <1>2, <1>3

\* The same for Replace.
LEMMA ReplaceStep ==
  ASSUME CacheTypeOK, VisibleIffHeld, NEW q \in Peer, NEW n \in Notification,
         n.kind = "Replace", Replace(q, n)
  PROVE  CacheTypeOK' /\ VisibleIffHeld'
<1>1. n.path \in Path /\ n.hash \in Hash /\ n.index \in 0..MaxHistory /\ n.old \in Hash
  BY NotificationFields DEF Given
<1>2. ReplacedDefault(n) \in Hash \cup {None} /\ (ReplacedDefault(n) # None <=> default[n.path] # None)
  BY <1>1 DEF ReplacedDefault, CacheTypeOK
<1>3. default' = [default EXCEPT ![n.path] = ReplacedDefault(n)] /\ dir' = dir \cup {n.path}
  BY DEF Replace
<1>4. CASE n.old \in {default[n.path], entry[n.path][q]}
  <2>1. default[n.path] # None
    BY <1>1, <1>4 DEF VisibleIffHeld, CacheTypeOK
  <2>2. entry' = [entry EXCEPT ![n.path][q] = n.hash]
    BY <1>4 DEF Replace, WriteFileEntry
  <2>3. CacheTypeOK'
    BY <1>1, <1>2, <1>3, <2>2 DEF CacheTypeOK, Replace, UpdateLastSeen
  <2>4. VisibleIffHeld'
    BY <1>1, <1>2, <1>3, <2>1, <2>2 DEF CacheTypeOK, VisibleIffHeld
  <2>5. QED
    BY <2>3, <2>4
<1>5. CASE n.old \notin {default[n.path], entry[n.path][q]}
  <2>1. entry' = entry
    BY <1>5 DEF Replace
  <2>2. CacheTypeOK'
    BY <1>1, <1>2, <1>3, <2>1 DEF CacheTypeOK, Replace, UpdateLastSeen
  <2>3. VisibleIffHeld'
    BY <1>1, <1>2, <1>3, <2>1 DEF CacheTypeOK, VisibleIffHeld
  <2>4. QED
    BY <2>2, <2>3
<1>6. QED
  BY <1>4, <1>5

\* The same for Catchup.
LEMMA CatchupStep ==
  ASSUME CacheTypeOK, VisibleIffHeld, NEW q \in Peer, NEW n \in Notification,
         n.kind = "Catchup", Catchup(q, n)
  PROVE  CacheTypeOK' /\ VisibleIffHeld'
<1>1. n.path \in Path /\ n.hash \in Hash
  BY NotificationFields DEF Given
<1>2. QED
  BY <1>1 DEF Catchup, WriteFileEntry, WriteDefaultIfNone, CacheTypeOK, VisibleIffHeld

\* Whatever the notification, applying it keeps the types of the tables and a
\* file visible exactly as long as a peer has it.
LEMMA UpdateStep ==
  ASSUME CacheTypeOK, VisibleIffHeld, NEW q \in Peer, NEW n \in Notification, Update(q, n)
  PROVE  CacheTypeOK' /\ VisibleIffHeld'
<1>1. n.index \in 0..MaxHistory /\ n.uuid \in 0..MaxUuid
  BY NotificationFields
<1>2. CASE n.kind \in Taken /\ Unlink(q, n)
  <2>1. n.old \in Hash
    BY <1>2, NotificationFields
  <2>2. Unlinked(q, n) \in SUBSET Path /\ \A p \in Unlinked(q, n) : entry[p][q] # None
    BY <1>2, <2>1, NotificationFields DEF Unlinked
  <2>3. RmFileEntries(q, Unlinked(q, n))
    BY <1>2 DEF Unlink
  <2>4. QED
    BY <1>1, <1>2, <2>2, <2>3, RmFileEntriesStep DEF CacheTypeOK, Unlink, UpdateLastSeen
<1>3. CASE CatchupStart(q)
  BY <1>3 DEF CatchupStart, CacheTypeOK, VisibleIffHeld
<1>4. CASE CatchupComplete(q, n)
  <2>1. MarkedFiles(q) \in SUBSET Path /\ \A p \in MarkedFiles(q) : entry[p][q] # None
    BY DEF MarkedFiles
  <2>2. RmFileEntries(q, MarkedFiles(q))
    BY <1>4 DEF CatchupComplete
  <2>3. QED
    BY <1>1, <1>4, <2>1, <2>2, RmFileEntriesStep DEF CacheTypeOK, CatchupComplete, UpdateLastSeen
<1>5. CASE Connected(q, n)
  BY <1>1, <1>5 DEF Connected, StillSeen, CacheTypeOK, VisibleIffHeld
<1>6. CASE UNCHANGED cacheVars
  BY <1>6 DEF cacheVars, CacheTypeOK, VisibleIffHeld
<1>7. QED
  BY <1>2, <1>3, <1>4, <1>5, <1>6, AddStep, ReplaceStep, CatchupStep DEF Update

\* What a notification does to the progress kept for the peers.
LEMMA UpdateProgress ==
  ASSUME CacheTypeOK, NEW q \in Peer, NEW n \in Notification, Update(q, n)
  PROVE  /\ \A r \in Peer \ {q} : seen'[r] = seen[r] /\ known'[r] = known[r]
         /\ n.kind # "Connected" => known'[q] = known[q] /\ seen'[q] \in {seen[q], n.index}
         /\ n.kind = "Connected" => /\ known'[q] = n.uuid
                                    /\ seen'[q] = IF known[q] = n.uuid THEN seen[q] ELSE 0
<1>1. CASE n.kind = "Connected"
  <2>1. Connected(q, n)
    BY <1>1 DEF Update, Taken, Fails
  <2>2. QED
    BY <1>1, <2>1 DEF Connected, StillSeen, CacheTypeOK
<1>2. CASE n.kind # "Connected"
  <2>1. known' = known /\ (seen' = seen \/ seen' = [seen EXCEPT ![q] = n.index])
    BY <1>2 DEF Update, Add, Replace, Unlink, CatchupStart, Catchup, CatchupComplete,
                UpdateLastSeen, cacheVars
  <2>2. QED
    BY <1>2, <2>1 DEF CacheTypeOK
<1>3. QED
  BY <1>1, <1>2

\* What a notification of q does to the versions the peers are known to have:
\* it is about q's, and but for the file it names it only takes some away.
LEMMA UpdateEntries ==
  ASSUME CacheTypeOK, NEW q \in Peer, NEW n \in Notification, Update(q, n),
         NEW p \in Path, NEW r \in Peer
  PROVE  /\ r # q => entry'[p][r] = entry[p][r]
         /\ p # n.path => entry'[p][r] \in {entry[p][r], None}
         /\ n.kind \in {"Connected", "CatchupStart"} => entry' = entry
         /\ n.kind # "CatchupComplete" /\ p # n.path => entry'[p][r] = entry[p][r]
<1>1. CASE entry' = entry
  BY <1>1
<1>2. CASE n.kind \in Given /\ WriteFileEntry(q, n.path, n.hash)
  <2>1. n.path \in Path /\ n.kind \notin {"Connected", "CatchupStart"}
    BY <1>2, NotificationFields DEF Given
  <2>2. entry' = [entry EXCEPT ![n.path][q] = n.hash]
    BY <1>2 DEF WriteFileEntry
  <2>3. QED
    BY <2>1, <2>2 DEF CacheTypeOK
<1>3. ASSUME NEW ps \in SUBSET Path, RmFileEntries(q, ps), n.kind \notin {"Connected", "CatchupStart"},
             n.kind = "CatchupComplete" \/ ps \subseteq {n.path}
      PROVE  /\ r # q => entry'[p][r] = entry[p][r]
             /\ p # n.path => entry'[p][r] \in {entry[p][r], None}
             /\ n.kind \in {"Connected", "CatchupStart"} => entry' = entry
             /\ n.kind # "CatchupComplete" /\ p # n.path => entry'[p][r] = entry[p][r]
  <2>1. entry'[p] = IF p \in ps THEN [entry[p] EXCEPT ![q] = None] ELSE entry[p]
    BY <1>3 DEF RmFileEntries
  <2>2. CASE p \in ps
    BY <1>3, <2>1, <2>2 DEF CacheTypeOK
  <2>3. CASE p \notin ps
    BY <1>3, <2>1, <2>3
  <2>4. QED
    BY <2>2, <2>3
<1>4. CASE n.kind = "Add" /\ Add(q, n)
  BY <1>1, <1>2, <1>4 DEF Add, Given
<1>5. CASE n.kind = "Replace" /\ Replace(q, n)
  BY <1>1, <1>2, <1>5 DEF Replace, Given
<1>6. CASE n.kind \in Taken /\ n.path \in dir /\ Unlink(q, n)
  <2>1. Unlinked(q, n) \in SUBSET Path /\ Unlinked(q, n) \subseteq {n.path}
    BY <1>6 DEF Unlinked, CacheTypeOK
  <2>2. n.kind \notin {"Connected", "CatchupStart"}
    BY <1>6 DEF Taken
  <2>3. QED
    BY <1>3, <1>6, <2>1, <2>2 DEF Unlink
<1>7. CASE n.kind = "CatchupStart" /\ CatchupStart(q)
  BY <1>1, <1>7 DEF CatchupStart
<1>8. CASE n.kind = "Catchup" /\ Catchup(q, n)
  BY <1>2, <1>8 DEF Catchup, Given
<1>9. CASE n.kind = "CatchupComplete" /\ CatchupComplete(q, n)
  <2>1. MarkedFiles(q) \in SUBSET Path
    BY DEF MarkedFiles
  <2>2. QED
    BY <1>3, <1>9, <2>1 DEF CatchupComplete
<1>10. CASE n.kind = "Connected" /\ Connected(q, n)
  BY <1>1, <1>10 DEF Connected
<1>11. CASE UNCHANGED cacheVars
  BY <1>1, <1>11 DEF cacheVars
<1>12. QED
  BY <1>4, <1>5, <1>6, <1>7, <1>8, <1>9, <1>10, <1>11 DEF Update

\* do_rm_file_entry shows a version that another peer has.
LEMMA RmKeepsAvailable ==
  ASSUME CacheTypeOK, DefaultAvailable, NEW q \in Peer, NEW ps \in SUBSET Path, RmFileEntries(q, ps)
  PROVE  DefaultAvailable'
<1>1. SUFFICES ASSUME NEW p \in Path, default'[p] # None
               PROVE  \E r \in Peer : entry'[p][r] = default'[p]
  BY DEF DefaultAvailable, FileAvailability
<1>2. CASE p \notin ps
  <2>1. entry'[p] = entry[p] /\ default'[p] = default[p]
    BY <1>2 DEF RmFileEntries
  <2>2. QED
    BY <1>1, <2>1 DEF DefaultAvailable, FileAvailability
<1>3. CASE p \in ps
  <2>1. entry'[p] = [entry[p] EXCEPT ![q] = None] /\ default'[p] \in NextDefaults(q, p)
    BY <1>3 DEF RmFileEntries
  <2>2. default'[p] \in OtherVersions(q, p)
    BY <1>1, <2>1 DEF NextDefaults
  <2>3. PICK r \in Peer \ {q} : default'[p] = entry[p][r]
    BY <2>2 DEF OtherVersions
  <2>4. QED
    BY <2>1, <2>3 DEF CacheTypeOK
<1>4. QED
  BY <1>2, <1>3

\* A version that is shown stays available, unless a Catchup overwrites what
\* the peer was known to have.
LEMMA UpdateAvailable ==
  ASSUME CacheTypeOK, DefaultAvailable, NEW q \in Peer, NEW n \in Notification, Update(q, n),
         n.kind = "Catchup" => entry[n.path][q] = None
  PROVE  DefaultAvailable'
<1>1. CASE entry' = entry /\ default' = default
  BY <1>1 DEF DefaultAvailable, FileAvailability
<1>2. CASE /\ n.kind \in {"Add", "Catchup"} /\ entry[n.path][q] = None
           /\ WriteFileEntry(q, n.path, n.hash) /\ WriteDefaultIfNone(n.path, n.hash)
  <2>1. n.path \in Path /\ n.hash \in Hash
    BY <1>2, NotificationFields DEF Given
  <2>2. /\ entry' = [entry EXCEPT ![n.path][q] = n.hash]
        /\ default' = [default EXCEPT ![n.path] = IF @ = None THEN n.hash ELSE @]
    BY <1>2 DEF WriteFileEntry, WriteDefaultIfNone
  <2>3. ASSUME NEW p \in Path, default'[p] # None
        PROVE  \E r \in Peer : entry'[p][r] = default'[p]
    <3>1. CASE p = n.path /\ default[p] = None
      BY <2>1, <2>2, <3>1 DEF CacheTypeOK
    <3>2. CASE p # n.path \/ default[p] # None
      <4>1. default'[p] = default[p]
        BY <2>1, <2>2, <3>2 DEF CacheTypeOK
      <4>2. PICK r \in Peer : entry[p][r] = default[p]
        BY <2>3, <4>1 DEF DefaultAvailable, FileAvailability
      <4>3. entry'[p][r] = entry[p][r]
        BY <1>2, <2>1, <2>2, <2>3, <4>1, <4>2 DEF CacheTypeOK
      <4>4. QED
        BY <4>1, <4>2, <4>3
    <3>3. QED
      BY <3>1, <3>2
  <2>4. QED
    BY <2>3 DEF DefaultAvailable, FileAvailability
<1>3. CASE n.kind = "Replace" /\ Replace(q, n)
  <2>1. n.path \in Path /\ n.hash \in Hash /\ n.old \in Hash
    BY <1>3, NotificationFields DEF Given
  <2>2. /\ default' = [default EXCEPT ![n.path] = IF default[n.path] = n.old THEN n.hash ELSE default[n.path]]
        /\ entry' = IF n.old \in {default[n.path], entry[n.path][q]}
                      THEN [entry EXCEPT ![n.path][q] = n.hash] ELSE entry
    BY <1>3 DEF Replace, ReplacedDefault, WriteFileEntry
  <2>3. ASSUME NEW p \in Path, default'[p] # None
        PROVE  \E r \in Peer : entry'[p][r] = default'[p]
    <3>1. CASE p = n.path /\ default[p] = n.old
      BY <2>1, <2>2, <3>1 DEF CacheTypeOK
    <3>2. CASE p # n.path \/ default[p] # n.old
      <4>1. default'[p] = default[p]
        BY <2>1, <2>2, <3>2 DEF CacheTypeOK
      <4>2. PICK r \in Peer : entry[p][r] = default[p]
        BY <2>3, <4>1 DEF DefaultAvailable, FileAvailability
      <4>3. entry'[p][r] = entry[p][r]
        BY <2>1, <2>2, <3>2, <4>2 DEF CacheTypeOK
      <4>4. QED
        BY <4>1, <4>2, <4>3
    <3>3. QED
      BY <3>1, <3>2
  <2>4. QED
    BY <2>3 DEF DefaultAvailable, FileAvailability
<1>4. CASE n.kind \in Taken /\ n.path \in dir /\ Unlink(q, n)
  <2>1. Unlinked(q, n) \in SUBSET Path
    BY <1>4 DEF Unlinked, CacheTypeOK
  <2>2. QED
    BY <1>4, <2>1, RmKeepsAvailable DEF Unlink
<1>5. CASE CatchupComplete(q, n)
  <2>1. MarkedFiles(q) \in SUBSET Path
    BY DEF MarkedFiles
  <2>2. QED
    BY <1>5, <2>1, RmKeepsAvailable DEF CatchupComplete
<1>6. CASE n.kind = "Add" /\ Add(q, n)
  BY <1>1, <1>2, <1>6 DEF Add
<1>7. CASE n.kind = "Catchup" /\ Catchup(q, n)
  BY <1>2, <1>7 DEF Catchup
<1>8. CASE CatchupStart(q) \/ Connected(q, n) \/ UNCHANGED cacheVars
  BY <1>1, <1>8 DEF CatchupStart, Connected, cacheVars
<1>9. QED
  BY <1>3, <1>4, <1>5, <1>6, <1>7, <1>8 DEF Update

\* What a notification of q does to the marks of the other peers: those that go
\* are about files they do not have.
LEMMA UpdateMarks ==
  ASSUME CacheTypeOK, NEW q \in Peer, NEW n \in Notification, Update(q, n),
         NEW r \in Peer \ {q}, NEW p \in Path
  PROVE  /\ <<r, p>> \in marked' => <<r, p>> \in marked
         /\ <<r, p>> \in marked => <<r, p>> \in marked' \/ entry[p][r] = None
<1>1. CASE marked' = marked
  BY <1>1
<1>2. ASSUME NEW ps, \A m \in marked : m \notin marked' => m[1] = q \/ m[2] \in LastVersion(q, ps)
      PROVE  <<r, p>> \in marked => <<r, p>> \in marked' \/ entry[p][r] = None
  <2>1. SUFFICES ASSUME <<r, p>> \in marked, <<r, p>> \notin marked' PROVE entry[p][r] = None
    OBVIOUS
  <2>2. p \in LastVersion(q, ps)
    BY <1>2, <2>1
  <2>3. QED
    BY <2>2 DEF LastVersion, OtherVersions
<1>3. CASE Unlink(q, n)
  <2>1. marked' = {m \in marked : m[2] \notin LastVersion(q, Unlinked(q, n))}
    BY <1>3 DEF Unlink
  <2>2. \A m \in marked : m \notin marked' => m[1] = q \/ m[2] \in LastVersion(q, Unlinked(q, n))
    BY <2>1
  <2>3. QED
    BY <1>2, <2>1, <2>2
<1>4. CASE CatchupComplete(q, n)
  <2>1. marked' = {m \in marked : m[1] # q /\ m[2] \notin LastVersion(q, MarkedFiles(q))}
    BY <1>4 DEF CatchupComplete
  <2>2. \A m \in marked : m \notin marked' => m[1] = q \/ m[2] \in LastVersion(q, MarkedFiles(q))
    BY <2>1
  <2>3. QED
    BY <1>2, <2>1, <2>2
<1>5. CASE CatchupStart(q)
  BY <1>5 DEF CatchupStart
<1>6. CASE Catchup(q, n)
  BY <1>6 DEF Catchup
<1>7. QED
  BY <1>1, <1>3, <1>4, <1>5, <1>6 DEF Update, Add, Replace, Connected, cacheVars

\* What the notifications of a catchup do to the peer's own files and marks.
LEMMA UpdateCatchup ==
  ASSUME CacheTypeOK, NEW q \in Peer, NEW n \in Notification, Update(q, n), NEW p \in Path
  PROVE  /\ n.kind = "Connected" => entry' = entry /\ marked' = marked
         /\ n.kind = "CatchupStart" =>
              /\ entry' = entry /\ seen' = seen
              /\ entry[p][q] # None => <<q, p>> \in marked'
              /\ <<q, p>> \in marked => <<q, p>> \in marked'
         /\ n.kind = "Catchup" =>
              /\ entry'[p][q] = IF p = n.path THEN n.hash ELSE entry[p][q]
              /\ <<q, p>> \in marked' <=> <<q, p>> \in marked /\ p # n.path
              /\ seen' = seen
         /\ n.kind = "CatchupComplete" =>
              entry'[p][q] = IF <<q, p>> \in marked THEN None ELSE entry[p][q]
<1>1. CASE n.kind = "Connected"
  <2>1. Connected(q, n)
    BY <1>1 DEF Update, Taken, Fails
  <2>2. QED
    BY <1>1, <2>1 DEF Connected
<1>2. CASE n.kind = "CatchupStart"
  <2>1. CatchupStart(q)
    BY <1>2 DEF Update, Taken, Fails
  <2>2. QED
    BY <1>2, <2>1 DEF CatchupStart
<1>3. CASE n.kind = "Catchup"
  <2>1. Catchup(q, n) /\ n.path \in Path
    BY <1>3, NotificationFields DEF Update, Taken, Fails, Given
  <2>2. entry' = [entry EXCEPT ![n.path][q] = n.hash]
    BY <2>1 DEF Catchup, WriteFileEntry
  <2>3. entry'[p][q] = IF p = n.path THEN n.hash ELSE entry[p][q]
    BY <2>1, <2>2 DEF CacheTypeOK
  <2>4. marked' = marked \ {<<q, n.path>>} /\ seen' = seen
    BY <2>1 DEF Catchup
  <2>5. QED
    BY <1>3, <2>3, <2>4
<1>4. CASE n.kind = "CatchupComplete"
  <2>1. CatchupComplete(q, n)
    BY <1>4 DEF Update, Taken, Fails
  <2>2. entry'[p] = IF p \in MarkedFiles(q) THEN [entry[p] EXCEPT ![q] = None] ELSE entry[p]
    BY <2>1 DEF CatchupComplete, RmFileEntries
  <2>3. entry'[p][q] = IF p \in MarkedFiles(q) THEN None ELSE entry[p][q]
    BY <2>2 DEF CacheTypeOK
  <2>4. QED
    BY <1>4, <2>3 DEF MarkedFiles
<1>5. QED
  BY <1>1, <1>2, <1>3, <1>4

\* What the notification of a change does to the file it is about: it is taken
\* whenever it replaces the version the peer is known to have.
LEMMA UpdateChange ==
  ASSUME CacheTypeOK, VisibleIffHeld, NEW q \in Peer, NEW n \in Notification, Update(q, n),
         n.kind \in {"Add", "Replace", "Remove"},
         n.kind = "Add" => n.old = None, n.kind = "Remove" => n.hash = None
  PROVE  /\ entry'[n.path][q] \in {entry[n.path][q], n.hash}
         /\ entry[n.path][q] = n.old => entry'[n.path][q] = n.hash
<1>1. n.path \in Path
  BY NotificationFields DEF Given, Taken
<1>2. CASE n.kind = "Add"
  <2>1. Add(q, n)
    BY <1>2 DEF Update, Taken, Fails
  <2>2. QED
    BY <1>1, <1>2, <2>1 DEF Add, WriteFileEntry, CacheTypeOK
<1>3. CASE n.kind = "Replace"
  <2>1. Replace(q, n)
    BY <1>3 DEF Update, Taken, Fails
  <2>2. QED
    BY <1>1, <2>1 DEF Replace, WriteFileEntry, CacheTypeOK
<1>4. CASE n.kind = "Remove" /\ n.path \in dir /\ Unlink(q, n)
  <2>1. entry'[n.path] = IF n.path \in Unlinked(q, n) THEN [entry[n.path] EXCEPT ![q] = None]
                                                     ELSE entry[n.path]
    BY <1>1, <1>4 DEF Unlink, RmFileEntries
  <2>2. n.path \in Unlinked(q, n) <=> entry[n.path][q] = n.old
    BY DEF Unlinked
  <2>3. QED
    BY <1>1, <1>4, <2>1, <2>2 DEF CacheTypeOK
<1>5. CASE n.kind = "Remove" /\ Fails(n) /\ UNCHANGED cacheVars
  <2>1. entry' = entry /\ n.path \notin dir /\ n.old \in Hash
    BY <1>5, NotificationFields DEF cacheVars, Fails, Taken
  <2>2. entry[n.path][q] = None
    BY <1>1, <2>1 DEF VisibleIffHeld
  <2>3. QED
    BY <2>1, <2>2
<1>6. QED
  BY <1>2, <1>3, <1>4, <1>5 DEF Update, Taken

-----------------------------------------------------------------------------
(* From the index to the cache.                                            *)

USE ChannelAssumption, DisconnectsAssumption

\* What is announced is in the history: the watch channel, the callbacks that
\* are to run and the range of entries a notifier works on never point past
\* its end.
WithinHistory ==
  \A q \in Peer :
    /\ watch[q] <= Len(history[q])
    /\ \A w \in Writer : hook[q][w] <= Len(history[q])
    /\ notifier[q].pc \notin {"off", "asked"} => notifier[q].current <= Len(history[q])
    /\ notifier[q].pc = "send" => notifier[q].next >= 1

SyncInv == TypeOK /\ HistoryExplainsIndex /\ VisibleIffHeld /\ WithinHistory

-----------------------------------------------------------------------------
(* Types *)

\* A record with the fields its kind needs is a notification.
LEMMA AboutType ==
  ASSUME NEW k \in Given \cup Taken, NEW p \in Path, NEW h \in Hash \cup {None},
         NEW o \in Hash \cup {None}, NEW i \in 0..MaxHistory,
         k \in Given => h \in Hash,
         k \in Taken \cup {"Replace"} => o \in Hash
  PROVE  /\ About(k, p, h, o, i) \in Notification
         /\ About(k, p, h, o, i).index = i
         /\ About(k, p, h, o, i).kind = k
<1>1. k \in Kind /\ p \in Path \cup {None} /\ 0 \in 0..MaxUuid
  BY DEF Kind
<1>2. QED
  BY <1>1 DEF Notification, About

\* The same without a file.
LEMMA SignalType ==
  ASSUME NEW k \in {"CatchupStart", "CatchupComplete", "Connected"},
         NEW i \in 0..MaxHistory, NEW u \in 0..MaxUuid
  PROVE  /\ Signal(k, i, u) \in Notification
         /\ Signal(k, i, u).index = i
         /\ Signal(k, i, u).kind = k
         /\ Signal(k, i, u).uuid = u
<1>1. k \in Kind /\ k \notin Given \cup Taken /\ k # "Replace"
  BY DEF Kind, Given, Taken
<1>2. QED
  BY <1>1 DEF Notification, Signal

\* What an entry of the history is turned into.
LEMMA NotifyType ==
  ASSUME IndexTypeOK, NEW q \in Peer, NEW i \in 1..Len(history[q])
  PROVE  /\ Notify(q, i) \subseteq Notification
         /\ \A n \in Notify(q, i) : n.index = i /\ n.kind # "Connected"
<1> DEFINE e == history[q][i]
           h == index[q][e.path]
<1>1. history[q] \in Seq(HistoryEntry) /\ Len(history[q]) <= MaxHistory
  BY DEF IndexTypeOK
<1>2. i \in 0..MaxHistory
  BY <1>1
<1>3. e \in HistoryEntry
  BY <1>1
<1>4. /\ e.path \in Path
      /\ e.kind \in {"Add", "Replace", "Remove", "Drop"}
      /\ e.old \in Hash \cup {None}
      /\ e.kind # "Add" => e.old \in Hash
  BY <1>3 DEF HistoryEntry
<1>5. h \in Hash \cup {None}
  BY <1>4 DEF IndexTypeOK
<1>6. ASSUME NEW n \in Notify(q, i)
      PROVE  \/ h \in Hash /\ n = About("Add", e.path, h, e.old, i)
             \/ h \in Hash /\ e.old \in Hash /\ n = About("Replace", e.path, h, e.old, i)
             \/ e.old \in Hash /\ n = About("Remove", e.path, None, e.old, i)
             \/ e.old \in Hash /\ n = About("Drop", e.path, None, e.old, i)
  BY <1>4, <1>5, <1>6 DEF Notify
<1> HIDE DEF e, h
<1>7. {"Add", "Replace"} \subseteq Given /\ {"Remove", "Drop"} \subseteq Taken
      /\ "Add" \notin Taken \cup {"Replace"} /\ {"Remove", "Drop"} \cap Given = {}
  BY DEF Given, Taken
<1>8. ASSUME NEW n \in Notify(q, i)
      PROVE  n \in Notification /\ n.index = i /\ n.kind # "Connected"
  BY <1>2, <1>4, <1>5, <1>6, <1>7, AboutType
<1>9. QED
  BY <1>8

\* What a notification says: the change the history has, and the version the
\* index has by now.
LEMMA NotifySays ==
  ASSUME IndexTypeOK, NEW q \in Peer, NEW i \in 1..Len(history[q])
  PROVE  /\ \A n \in Notify(q, i) : /\ n.path = history[q][i].path
                                    /\ n.old = history[q][i].old
                                    /\ n.hash = index[q][history[q][i].path]
                                    /\ n.kind \in {"Add", "Replace", "Remove", "Drop"}
                                    /\ n.kind = "Drop" => history[q][i].kind = "Drop"
                                    /\ n.kind = "Add" => history[q][i].kind = "Add"
                                    /\ n.kind = "Remove" => n.hash = None
         /\ Notify(q, i) = {} => \/ history[q][i].kind = "Drop"
                                 \/ history[q][i].kind = "Add" /\ index[q][history[q][i].path] = None
<1> DEFINE e == history[q][i]
           h == index[q][e.path]
<1>1. history[q] \in Seq(HistoryEntry)
  BY DEF IndexTypeOK
<1>2. e \in HistoryEntry
  BY <1>1
<1>3. e.kind \in {"Add", "Replace", "Remove", "Drop"}
  BY <1>2 DEF HistoryEntry
<1>4. \A kind, path, hash, old, x :
        /\ About(kind, path, hash, old, x).kind = kind /\ About(kind, path, hash, old, x).path = path
        /\ About(kind, path, hash, old, x).hash = hash /\ About(kind, path, hash, old, x).old = old
  BY DEF About
<1>5. ASSUME NEW n \in Notify(q, i)
      PROVE  \/ e.kind = "Add" /\ n = About("Add", e.path, h, e.old, i)
             \/ n = About("Replace", e.path, h, e.old, i)
             \/ h = None /\ n = About("Remove", e.path, None, e.old, i)
             \/ e.kind = "Drop" /\ h = None /\ n = About("Drop", e.path, None, e.old, i)
  BY <1>3, <1>5 DEF Notify
<1>6. Notify(q, i) = {} => e.kind = "Drop" \/ (e.kind = "Add" /\ h = None)
  BY <1>3 DEF Notify
<1> HIDE DEF e, h
<1>7. ASSUME NEW n \in Notify(q, i)
      PROVE  /\ n.path = e.path /\ n.old = e.old /\ n.hash = h
             /\ n.kind \in {"Add", "Replace", "Remove", "Drop"}
             /\ n.kind = "Drop" => e.kind = "Drop"
             /\ n.kind = "Add" => e.kind = "Add"
             /\ n.kind = "Remove" => n.hash = None
  BY <1>4, <1>5
<1>8. QED
  BY <1>6, <1>7 DEF e, h

\* tx.send keeps the channel within its capacity.
LEMMA SendType ==
  ASSUME TypeOK, NEW q \in Peer, NEW n \in Notification, Send(q, n)
  PROVE  channel' \in [Peer -> Seq(Notification)] /\ \A r \in Peer : Len(channel'[r]) <= ChannelSize
<1>1. /\ channel \in [Peer -> Seq(Notification)]
      /\ channel' = [channel EXCEPT ![q] = Append(channel[q], n)]
      /\ Len(channel[q]) < ChannelSize
      /\ Len(Append(channel[q], n)) = Len(channel[q]) + 1
      /\ Append(channel[q], n) \in Seq(Notification)
  BY DEF TypeOK, Send
<1>2. ASSUME NEW r \in Peer PROVE Len(channel'[r]) <= ChannelSize
  <2>1. CASE r = q
    BY <1>1, <2>1
  <2>2. CASE r # q
    BY <1>1, <2>2 DEF TypeOK
  <2>3. QED
    BY <2>1, <2>2
<1>3. QED
  BY <1>1, <1>2

\* No task.
LEMMA NoNotifierType == NoNotifier \in NotifierState /\ NoNotifier.pc = "off"
  BY DEF NoNotifier, NotifierState

\* What TypeOK says of a notifier's local variables.
LEMMA NotifierFields ==
  ASSUME TypeOK, NEW q \in Peer
  PROVE  /\ notifier[q] \in NotifierState
         /\ notifier[q].pc \in {"off", "asked", "catchup", "files", "send", "wait"}
         /\ notifier[q].lastSeen \in 0..MaxHistory
         /\ notifier[q].identity \in 0..MaxUuid
         /\ notifier[q].current \in 0..MaxHistory
         /\ notifier[q].next \in 0..MaxHistory + 1
         /\ notifier[q].files \subseteq Path \X Hash
  BY DEF TypeOK, NotifierState

-----------------------------------------------------------------------------
(* The invariant *)

\* Steps that leave the tables of an index or of the cache alone.
LEMMA IndexSame ==
  ASSUME IndexTypeOK, HistoryExplainsIndex, UNCHANGED <<index, history, watch, hook, drops>>,
         signalled' \in SUBSET Peer
  PROVE  IndexTypeOK' /\ HistoryExplainsIndex'
  BY DEF IndexTypeOK, HistoryExplainsIndex

\* The same for the cache.
LEMMA CacheSame ==
  ASSUME CacheTypeOK, VisibleIffHeld, UNCHANGED cacheVars
  PROVE  CacheTypeOK' /\ VisibleIffHeld'
  BY DEF CacheTypeOK, VisibleIffHeld, cacheVars

\* A step of a notifier: it moves to the state st and sends at most one
\* notification.
LEMMA NotifierMoves ==
  ASSUME SyncInv, NEW q \in Peer, NEW st \in NotifierState,
         notifier' = [notifier EXCEPT ![q] = st],
         st.pc \notin {"off", "asked"} => st.current <= Len(history[q]),
         st.pc = "send" => st.next >= 1,
         channel' \in [Peer -> Seq(Notification)],
         \A r \in Peer : Len(channel'[r]) <= ChannelSize,
         signalled' \in SUBSET Peer,
         UNCHANGED <<index, history, watch, hook, drops, cacheVars, uuid, batch, leftover,
                     disconnects>>
  PROVE  SyncInv'
<1>1. IndexTypeOK' /\ HistoryExplainsIndex'
  BY IndexSame DEF SyncInv, TypeOK
<1>2. CacheTypeOK' /\ VisibleIffHeld'
  BY CacheSame DEF SyncInv, TypeOK
<1>3. notifier' \in [Peer -> NotifierState]
  BY DEF SyncInv, TypeOK
<1>4. uuid' \in [Peer -> 1..MaxUuid] /\ batch' \in [Peer -> Seq(Notification)]
      /\ leftover' \in [Peer -> Seq(Notification)] /\ disconnects' \in 0..MaxDisconnects
  BY DEF SyncInv, TypeOK
<1>5. TypeOK'
  BY <1>1, <1>2, <1>3, <1>4 DEF TypeOK
<1>6. ASSUME NEW r \in Peer
      PROVE  /\ notifier'[r].pc \notin {"off", "asked"} => notifier'[r].current <= Len(history[r])
             /\ notifier'[r].pc = "send" => notifier'[r].next >= 1
  <2>1. CASE r = q
    BY <2>1 DEF SyncInv, TypeOK
  <2>2. CASE r # q
    BY <2>2 DEF SyncInv, TypeOK, WithinHistory
  <2>3. QED
    BY <2>1, <2>2
<1>7. WithinHistory'
  BY <1>6 DEF SyncInv, WithinHistory
<1>8. QED
  BY <1>1, <1>2, <1>5, <1>7 DEF SyncInv

\* The notifier task.
LEMMA NotifierStep == ASSUME SyncInv, NEW q \in Peer, Notifier(q) PROVE SyncInv'
<1>1. /\ TypeOK /\ IndexTypeOK
      /\ notifier[q] \in NotifierState
      /\ notifier[q].lastSeen \in 0..MaxHistory
      /\ notifier[q].current \in 0..MaxHistory
      /\ notifier[q].next \in 0..MaxHistory + 1
      /\ notifier[q].files \in SUBSET (Path \X Hash)
      /\ watch[q] \in 0..MaxHistory /\ watch[q] <= Len(history[q])
      /\ uuid[q] \in 0..MaxUuid
      /\ signalled \in SUBSET Peer /\ signalled \ {q} \in SUBSET Peer
  <2>1. TypeOK /\ IndexTypeOK
    BY DEF SyncInv, TypeOK
  <2>2. watch[q] \in 0..MaxHistory /\ watch[q] <= Len(history[q])
    BY DEF SyncInv, TypeOK, IndexTypeOK, WithinHistory
  <2>3. uuid[q] \in 0..MaxUuid
    BY DEF SyncInv, TypeOK
  <2>4. signalled \in SUBSET Peer
    BY <2>1 DEF IndexTypeOK
  <2>5. QED
    BY <2>1, <2>2, <2>3, <2>4, NotifierFields
<1>2. /\ channel \in [Peer -> Seq(Notification)]
      /\ \A r \in Peer : Len(channel[r]) <= ChannelSize
  BY DEF SyncInv, TypeOK
<1>3. /\ 0 \in 0..MaxHistory /\ 0 \in 0..MaxUuid
      /\ "Catchup" \in Given \cup Taken /\ "Catchup" \notin Taken \cup {"Replace"}
  BY DEF Given, Taken
<1>4. notifier[q].pc \notin {"off", "asked"} => notifier[q].current <= Len(history[q])
  BY DEF SyncInv, WithinHistory
<1>5. CASE StartNotifier(q)
  <2> DEFINE lastSeen == IF notifier[q].identity = uuid[q] THEN notifier[q].lastSeen ELSE 0
             pc == IF NeedsCatchup(lastSeen, watch[q]) THEN "catchup" ELSE "send"
             st == [notifier[q] EXCEPT !.pc = pc, !.lastSeen = lastSeen,
                      !.current = watch[q], !.next = FirstUnseen(lastSeen)]
  <2>1. lastSeen \in 0..MaxHistory /\ pc \in {"catchup", "send"}
    BY <1>1, <1>3
  <2>2. FirstUnseen(lastSeen) \in 0..MaxHistory + 1 /\ FirstUnseen(lastSeen) >= 1
    BY <2>1 DEF FirstUnseen
  <2>3. notifier' = [notifier EXCEPT ![q] = st]
    BY <1>5 DEF StartNotifier
  <2> HIDE DEF lastSeen, pc
  <2>4. st \in NotifierState /\ st.current = watch[q] /\ st.next = FirstUnseen(lastSeen)
    BY <1>1, <2>1, <2>2 DEF NotifierState
  <2>5. Send(q, Signal("Connected", 0, uuid[q])) /\ signalled' = signalled \ {q}
    BY <1>5 DEF StartNotifier
  <2>6. channel' \in [Peer -> Seq(Notification)] /\ \A r \in Peer : Len(channel'[r]) <= ChannelSize
    BY <1>1, <1>3, <2>5, SendType, SignalType
  <2>7. UNCHANGED <<index, history, watch, hook, drops, cacheVars, uuid, batch, leftover, disconnects>>
    BY <1>5 DEF StartNotifier
  <2> HIDE DEF st
  <2>8. QED
    BY <1>1, <2>2, <2>3, <2>4, <2>5, <2>6, <2>7, NotifierMoves
<1>6. CASE StartCatchup(q)
  <2> DEFINE files == {f \in Path \X Hash : index[q][f[1]] = f[2]}
             st == [notifier[q] EXCEPT !.pc = "files", !.files = files]
  <2>1. files \in SUBSET (Path \X Hash)
    OBVIOUS
  <2>2. notifier' = [notifier EXCEPT ![q] = st] /\ notifier[q].pc = "catchup"
    BY <1>6 DEF StartCatchup
  <2> HIDE DEF files
  <2>3. st \in NotifierState /\ st.pc = "files" /\ st.current = notifier[q].current
    BY <1>1, <2>1 DEF NotifierState
  <2>4. channel' \in [Peer -> Seq(Notification)] /\ \A r \in Peer : Len(channel'[r]) <= ChannelSize
    <3>1. Send(q, Signal("CatchupStart", 0, 0))
      BY <1>6 DEF StartCatchup
    <3>2. QED
      BY <1>1, <1>3, <3>1, SendType, SignalType
  <2>5. UNCHANGED <<indexVars, cacheVars, uuid, batch, leftover, disconnects>>
    BY <1>6 DEF StartCatchup
  <2> HIDE DEF st
  <2>6. QED
    BY <1>1, <1>4, <2>2, <2>3, <2>4, <2>5, NotifierMoves DEF indexVars
<1>7. CASE SendCatchup(q)
  <2>1. PICK f \in notifier[q].files :
          /\ Send(q, About("Catchup", f[1], f[2], None, 0))
          /\ notifier' = [notifier EXCEPT ![q] = [@ EXCEPT !.files = notifier[q].files \ {f}]]
    BY <1>7 DEF SendCatchup
  <2> DEFINE st == [notifier[q] EXCEPT !.files = notifier[q].files \ {f}]
  <2>2. f[1] \in Path /\ f[2] \in Hash /\ notifier[q].files \ {f} \in SUBSET (Path \X Hash)
    BY <1>1, <2>1
  <2>3. notifier' = [notifier EXCEPT ![q] = st] /\ notifier[q].pc = "files"
    BY <1>7, <2>1 DEF SendCatchup
  <2>4. st \in NotifierState /\ st.pc = notifier[q].pc /\ st.current = notifier[q].current
    BY <1>1, <2>2 DEF NotifierState
  <2>5. channel' \in [Peer -> Seq(Notification)] /\ \A r \in Peer : Len(channel'[r]) <= ChannelSize
    BY <1>1, <1>3, <2>1, <2>2, SendType, AboutType
  <2>6. UNCHANGED <<indexVars, cacheVars, uuid, batch, leftover, disconnects>>
    BY <1>7 DEF SendCatchup
  <2> HIDE DEF st
  <2>7. QED
    BY <1>1, <1>4, <2>3, <2>4, <2>5, <2>6, NotifierMoves DEF indexVars
<1>8. CASE EndCatchup(q)
  <2> DEFINE st == [notifier[q] EXCEPT !.pc = "wait", !.lastSeen = notifier[q].current]
  <2>1. notifier' = [notifier EXCEPT ![q] = st] /\ notifier[q].pc = "files"
    BY <1>8 DEF EndCatchup
  <2>2. st \in NotifierState /\ st.pc = "wait" /\ st.current = notifier[q].current
    BY <1>1 DEF NotifierState
  <2>3. channel' \in [Peer -> Seq(Notification)] /\ \A r \in Peer : Len(channel'[r]) <= ChannelSize
    <3>1. Send(q, Signal("CatchupComplete", notifier[q].current, 0))
      BY <1>8 DEF EndCatchup
    <3>2. QED
      BY <1>1, <1>3, <3>1, SendType, SignalType
  <2>4. UNCHANGED <<indexVars, cacheVars, uuid, batch, leftover, disconnects>>
    BY <1>8 DEF EndCatchup
  <2> HIDE DEF st
  <2>5. QED
    BY <1>1, <1>4, <2>1, <2>2, <2>3, <2>4, NotifierMoves DEF indexVars
<1>9. CASE SendNotification(q)
  <2> DEFINE i == notifier[q].next
             st == [notifier[q] EXCEPT !.next = i + 1]
  <2>1. notifier' = [notifier EXCEPT ![q] = st] /\ notifier[q].pc = "send" /\ i <= notifier[q].current
    BY <1>9 DEF SendNotification
  <2>2. i \in 1..Len(history[q]) /\ Len(history[q]) \in Nat
    <3>1. i >= 1 /\ i <= notifier[q].current
      BY <2>1 DEF SyncInv, WithinHistory
    <3>2. notifier[q].current <= Len(history[q])
      BY <1>4, <2>1
    <3>3. Len(history[q]) \in Nat
      BY <1>1 DEF IndexTypeOK
    <3>4. i \in Nat /\ notifier[q].current \in Nat
      BY <1>1
    <3> HIDE DEF i
    <3>5. QED
      BY <3>1, <3>2, <3>3, <3>4
  <2>3. i + 1 \in 0..MaxHistory + 1 /\ i + 1 >= 1
    BY <1>1, <2>2 DEF IndexTypeOK
  <2>4. st \in NotifierState /\ st.pc = notifier[q].pc /\ st.current = notifier[q].current
        /\ st.next = i + 1
    BY <1>1, <2>3 DEF NotifierState
  <2>5. channel' \in [Peer -> Seq(Notification)] /\ \A r \in Peer : Len(channel'[r]) <= ChannelSize
    <3>1. channel' = channel \/ \E n \in Notify(q, i) : Send(q, n)
      BY <1>9 DEF SendNotification
    <3>2. Notify(q, i) \subseteq Notification
      BY <1>1, <2>2, NotifyType
    <3>3. QED
      BY <1>1, <1>2, <3>1, <3>2, SendType
  <2>6. UNCHANGED <<indexVars, cacheVars, uuid, batch, leftover, disconnects>>
    BY <1>9 DEF SendNotification
  <2> HIDE DEF st, i
  <2>7. QED
    BY <1>1, <1>4, <2>1, <2>3, <2>4, <2>5, <2>6, NotifierMoves DEF indexVars
<1>10. CASE NotificationsSent(q)
  <2> DEFINE st == [notifier[q] EXCEPT !.pc = "wait", !.lastSeen = notifier[q].current]
  <2>1. notifier' = [notifier EXCEPT ![q] = st] /\ notifier[q].pc = "send"
    BY <1>10 DEF NotificationsSent
  <2>2. st \in NotifierState /\ st.pc = "wait" /\ st.current = notifier[q].current
    BY <1>1 DEF NotifierState
  <2>3. UNCHANGED <<indexVars, cacheVars, uuid, channel, batch, leftover, disconnects>>
    BY <1>10 DEF NotificationsSent
  <2> HIDE DEF st
  <2>4. QED
    BY <1>1, <1>2, <1>4, <2>1, <2>2, <2>3, NotifierMoves DEF indexVars
<1>11. CASE HistoryChanged(q)
  <2> DEFINE next == FirstUnseen(notifier[q].lastSeen)
             st == [notifier[q] EXCEPT !.pc = "send", !.current = watch[q], !.next = next]
  <2>1. next \in 0..MaxHistory + 1 /\ next >= 1
    BY <1>1, SMTT(30) DEF FirstUnseen
  <2>2. notifier' = [notifier EXCEPT ![q] = st]
    BY <1>11 DEF HistoryChanged
  <2> HIDE DEF next
  <2>3. st \in NotifierState /\ st.pc = "send" /\ st.current = watch[q] /\ st.next = next
    BY <1>1, <2>1 DEF NotifierState
  <2>4. /\ signalled' = signalled \ {q}
        /\ UNCHANGED <<index, history, watch, hook, drops, cacheVars, uuid, channel, batch,
                       leftover, disconnects>>
    BY <1>11 DEF HistoryChanged
  <2> HIDE DEF st
  <2>5. QED
    BY <1>1, <1>2, <2>1, <2>2, <2>3, <2>4, NotifierMoves
<1>12. QED
  BY <1>5, <1>6, <1>7, <1>8, <1>9, <1>10, <1>11 DEF Notifier

\* Steps on the index leave the subscription alone.
LEMMA SubscriptionSame ==
  ASSUME SyncInv, IndexTypeOK', HistoryExplainsIndex', UNCHANGED <<cacheVars, syncVars>>
  PROVE  TypeOK' /\ HistoryExplainsIndex' /\ VisibleIffHeld'
<1>1. CacheTypeOK' /\ VisibleIffHeld'
  BY CacheSame DEF SyncInv, TypeOK
<1>2. QED
  BY <1>1 DEF SyncInv, TypeOK, syncVars

\* A transaction of a peer on its index.
LEMMA ChangeIndexStep == ASSUME SyncInv, NEW q \in Peer, ChangeIndex(q) PROVE SyncInv'
<1>1. IndexTypeOK /\ HistoryExplainsIndex
  BY DEF SyncInv, TypeOK
<1>2. IndexTypeOK' /\ HistoryExplainsIndex'
  BY <1>1, IndexChangeStep DEF ChangeIndex
<1>3. TypeOK' /\ HistoryExplainsIndex' /\ VisibleIffHeld'
  BY <1>2, SubscriptionSame DEF ChangeIndex
<1>4. /\ watch' = watch /\ notifier' = notifier
      /\ \A r \in Peer : Len(history'[r]) >= Len(history[r])
      /\ \A r \in Peer, w \in Writer : hook'[r][w] \in {hook[r][w], Len(history'[r])}
  BY <1>1, IndexGrows DEF ChangeIndex, syncVars
<1>5. \A r \in Peer :
        /\ Len(history[r]) \in Nat /\ Len(history'[r]) \in Nat
        /\ watch[r] \in Nat /\ notifier[r].current \in Nat
        /\ \A w \in Writer : hook[r][w] \in Nat
  <2>1. ASSUME NEW r \in Peer PROVE notifier[r].current \in Nat
    BY NotifierFields DEF SyncInv
  <2>2. QED
    BY <1>1, <1>2, <2>1 DEF IndexTypeOK
<1>6. WithinHistory'
  BY <1>4, <1>5 DEF SyncInv, WithinHistory
<1>7. QED
  BY <1>3, <1>6 DEF SyncInv

\* The callback of a transaction.
LEMMA RunCallbackStep ==
  ASSUME SyncInv, NEW q \in Peer, NEW w \in Writer, RunCallback(q, w) PROVE SyncInv'
<1>1. IndexTypeOK /\ HistoryExplainsIndex
  BY DEF SyncInv, TypeOK
<1>2. IndexTypeOK' /\ HistoryExplainsIndex'
  BY <1>1, IndexChangeStep DEF RunCallback
<1>3. TypeOK' /\ HistoryExplainsIndex' /\ VisibleIffHeld'
  BY <1>2, SubscriptionSame DEF RunCallback
<1>4. /\ watch' = [watch EXCEPT ![q] = hook[q][w]]
      /\ hook' = [hook EXCEPT ![q][w] = 0]
      /\ history' = history /\ notifier' = notifier
  BY DEF RunCallback, AfterCommit, syncVars
<1>5. ASSUME NEW r \in Peer
      PROVE  /\ watch'[r] <= Len(history[r])
             /\ \A v \in Writer : hook'[r][v] <= Len(history[r])
  <2>1. Len(history[r]) \in Nat
    BY <1>1 DEF IndexTypeOK
  <2>2. watch'[r] \in {watch[r], hook[r][w]}
    BY <1>1, <1>4 DEF IndexTypeOK
  <2>3. \A v \in Writer : hook'[r][v] \in {hook[r][v], 0}
    BY <1>1, <1>4 DEF IndexTypeOK
  <2>4. QED
    BY <2>1, <2>2, <2>3 DEF SyncInv, WithinHistory
<1>6. WithinHistory'
  BY <1>4, <1>5 DEF SyncInv, WithinHistory
<1>7. QED
  BY <1>3, <1>6 DEF SyncInv

\* subscribe_self
LEMMA SubscribeStep == ASSUME SyncInv, NEW q \in Peer, Subscribe(q) PROVE SyncInv'
<1> DEFINE st == [NoNotifier EXCEPT !.pc = "asked", !.lastSeen = seen[q], !.identity = known[q]]
<1>1. seen[q] \in 0..MaxHistory /\ known[q] \in 0..MaxUuid
  BY DEF SyncInv, TypeOK, CacheTypeOK
<1>2. NoNotifier \in NotifierState
  BY NoNotifierType
<1>3. notifier' = [notifier EXCEPT ![q] = st]
  BY DEF Subscribe
<1>4. st \in NotifierState /\ st.pc = "asked"
  BY <1>1, <1>2 DEF NotifierState
<1> HIDE DEF st
<1>5. channel' = channel /\ channel \in [Peer -> Seq(Notification)]
      /\ \A r \in Peer : Len(channel[r]) <= ChannelSize
  BY DEF Subscribe, SyncInv, TypeOK
<1>6. signalled' \in SUBSET Peer
      /\ UNCHANGED <<index, history, watch, hook, drops, cacheVars, uuid, batch, leftover, disconnects>>
  BY DEF Subscribe, SyncInv, TypeOK, IndexTypeOK, indexVars
<1>7. QED
  BY <1>3, <1>4, <1>5, <1>6, NotifierMoves

\* Taking the first elements off a sequence of notifications.
LEMMA SplitType ==
  ASSUME NEW s \in Seq(Notification), NEW k \in 0..Len(s)
  PROVE  /\ SubSeq(s, 1, k) \in Seq(Notification) /\ SubSeq(s, k + 1, Len(s)) \in Seq(Notification)
         /\ Len(SubSeq(s, k + 1, Len(s))) = Len(s) - k
  OBVIOUS

\* do_subscribe sends a batch.
LEMMA SendBatchStep == ASSUME SyncInv, NEW q \in Peer, SendBatch(q) PROVE SyncInv'
<1> DEFINE size == IF Len(channel[q]) < BatchMax THEN Len(channel[q]) ELSE BatchMax
           sent == SubSeq(channel[q], 1, size)
           kept == SubSeq(channel[q], size + 1, Len(channel[q]))
<1>1. /\ channel \in [Peer -> Seq(Notification)] /\ batch \in [Peer -> Seq(Notification)]
      /\ \A r \in Peer : Len(channel[r]) <= ChannelSize
  BY DEF SyncInv, TypeOK
<1>2. channel[q] \in Seq(Notification) /\ Len(channel[q]) \in Nat /\ size \in 0..Len(channel[q])
  BY <1>1
<1>3. /\ batch' = [batch EXCEPT ![q] = sent]
      /\ channel' = [channel EXCEPT ![q] = kept]
      /\ UNCHANGED <<indexVars, cacheVars, uuid, notifier, leftover, disconnects>>
  BY DEF SendBatch
<1> HIDE DEF size
<1>4. sent \in Seq(Notification) /\ kept \in Seq(Notification) /\ Len(kept) <= Len(channel[q])
  BY <1>2, SplitType
<1> HIDE DEF sent, kept
<1>5. batch' \in [Peer -> Seq(Notification)] /\ channel' \in [Peer -> Seq(Notification)]
  BY <1>1, <1>3, <1>4
<1>6. \A r \in Peer : Len(channel'[r]) <= ChannelSize
  BY <1>1, <1>2, <1>3, <1>4
<1>7. IndexTypeOK' /\ HistoryExplainsIndex' /\ CacheTypeOK' /\ VisibleIffHeld'
  BY <1>3, IndexSame, CacheSame DEF SyncInv, TypeOK, indexVars, IndexTypeOK
<1>8. TypeOK'
  BY <1>3, <1>5, <1>6, <1>7 DEF SyncInv, TypeOK
<1>9. WithinHistory'
  BY <1>3 DEF SyncInv, WithinHistory, indexVars
<1>10. QED
  BY <1>7, <1>8, <1>9 DEF SyncInv

\* do_notify applies a notification, of the connection that is or that was.
LEMMA AfterUpdateType ==
  ASSUME NEW b \in Seq(Notification), b # <<>>
  PROVE  Head(b) \in Notification /\ AfterUpdate(b) \in Seq(Notification)
  BY DEF AfterUpdate

\* Applying a batch, or what is left of one, keeps the invariant.
LEMMA ApplyStep ==
  ASSUME SyncInv, NEW q \in Peer, ApplyNotification(q) \/ ApplyLeftover(q) PROVE SyncInv'
<1>1. batch \in [Peer -> Seq(Notification)] /\ leftover \in [Peer -> Seq(Notification)]
  BY DEF SyncInv, TypeOK
<1>2. UNCHANGED <<indexVars, uuid, notifier, channel, disconnects>>
  BY DEF ApplyNotification, ApplyLeftover
<1>3. CacheTypeOK /\ VisibleIffHeld
  BY DEF SyncInv, TypeOK
<1>4. /\ CacheTypeOK' /\ VisibleIffHeld'
      /\ batch' \in [Peer -> Seq(Notification)] /\ leftover' \in [Peer -> Seq(Notification)]
  <2>1. CASE ApplyNotification(q)
    <3>1. batch[q] # <<>> /\ Update(q, Head(batch[q])) /\ leftover' = leftover
          /\ batch' = [batch EXCEPT ![q] = AfterUpdate(batch[q])]
      BY <2>1 DEF ApplyNotification
    <3>2. Head(batch[q]) \in Notification /\ AfterUpdate(batch[q]) \in Seq(Notification)
      BY <1>1, <3>1, AfterUpdateType
    <3>3. QED
      BY <1>1, <1>3, <3>1, <3>2, UpdateStep
  <2>2. CASE ApplyLeftover(q)
    <3>1. leftover[q] # <<>> /\ Update(q, Head(leftover[q])) /\ batch' = batch
          /\ leftover' = [leftover EXCEPT ![q] = AfterUpdate(leftover[q])]
      BY <2>2 DEF ApplyLeftover
    <3>2. Head(leftover[q]) \in Notification /\ AfterUpdate(leftover[q]) \in Seq(Notification)
      BY <1>1, <3>1, AfterUpdateType
    <3>3. QED
      BY <1>1, <1>3, <3>1, <3>2, UpdateStep
  <2>3. QED
    BY <2>1, <2>2
<1>5. IndexTypeOK' /\ HistoryExplainsIndex'
  BY <1>2, IndexSame DEF SyncInv, TypeOK, indexVars, IndexTypeOK
<1>6. TypeOK'
  BY <1>2, <1>4, <1>5 DEF SyncInv, TypeOK
<1>7. WithinHistory'
  BY <1>2 DEF SyncInv, WithinHistory, indexVars
<1>8. QED
  BY <1>4, <1>5, <1>6, <1>7 DEF SyncInv

\* A broken connection.
LEMMA DisconnectStep == ASSUME SyncInv, NEW q \in Peer, Disconnect(q) PROVE SyncInv'
<1>1. /\ notifier' = [notifier EXCEPT ![q] = NoNotifier]
      /\ channel' = [channel EXCEPT ![q] = <<>>]
      /\ batch' = [batch EXCEPT ![q] = <<>>]
      /\ leftover' \in {leftover, [leftover EXCEPT ![q] = batch[q]]}
      /\ disconnects < MaxDisconnects /\ disconnects' = disconnects + 1
      /\ UNCHANGED <<cacheVars, uuid>>
      /\ UNCHANGED indexVars \/ ReopenIndex(q)
  BY DEF Disconnect
<1>2. IndexTypeOK /\ HistoryExplainsIndex /\ CacheTypeOK /\ VisibleIffHeld /\ WithinHistory
  BY DEF SyncInv, TypeOK
<1>3. IndexTypeOK' /\ HistoryExplainsIndex'
  <2>1. CASE UNCHANGED indexVars
    BY <1>2, <2>1, IndexSame DEF indexVars, IndexTypeOK
  <2>2. CASE ReopenIndex(q)
    BY <1>2, <2>2, IndexChangeStep
  <2>3. QED
    BY <1>1, <2>1, <2>2
<1>4. CacheTypeOK' /\ VisibleIffHeld'
  BY <1>1, <1>2, CacheSame
<1>5. /\ notifier' \in [Peer -> NotifierState]
      /\ channel' \in [Peer -> Seq(Notification)]
      /\ batch' \in [Peer -> Seq(Notification)]
      /\ leftover' \in [Peer -> Seq(Notification)]
      /\ disconnects' \in 0..MaxDisconnects
      /\ uuid' \in [Peer -> 1..MaxUuid]
  <2>1. /\ notifier \in [Peer -> NotifierState]
        /\ channel \in [Peer -> Seq(Notification)]
        /\ batch \in [Peer -> Seq(Notification)]
        /\ leftover \in [Peer -> Seq(Notification)]
        /\ disconnects \in 0..MaxDisconnects
        /\ uuid \in [Peer -> 1..MaxUuid]
    BY DEF SyncInv, TypeOK
  <2>2. <<>> \in Seq(Notification)
    OBVIOUS
  <2>3. notifier' \in [Peer -> NotifierState]
    BY <1>1, <2>1, NoNotifierType
  <2>4. channel' \in [Peer -> Seq(Notification)] /\ batch' \in [Peer -> Seq(Notification)]
    BY <1>1, <2>1, <2>2
  <2>5. leftover' \in [Peer -> Seq(Notification)]
    BY <1>1, <2>1
  <2>6. disconnects' \in 0..MaxDisconnects /\ uuid' \in [Peer -> 1..MaxUuid]
    BY <1>1, <2>1
  <2>7. QED
    BY <2>3, <2>4, <2>5, <2>6
<1>6. \A r \in Peer : Len(channel'[r]) <= ChannelSize
  BY <1>1 DEF SyncInv, TypeOK
<1>7. TypeOK'
  BY <1>3, <1>4, <1>5, <1>6 DEF TypeOK
<1>8. \A r \in Peer : /\ watch'[r] <= Len(history'[r])
                      /\ \A w \in Writer : hook'[r][w] <= Len(history'[r])
                      /\ history' = history
  <2>1. CASE UNCHANGED indexVars
    BY <1>2, <2>1 DEF indexVars, WithinHistory
  <2>2. CASE ReopenIndex(q)
    BY <1>2, <2>2 DEF ReopenIndex, WithinHistory, IndexTypeOK
  <2>3. QED
    BY <1>1, <2>1, <2>2
<1>9. ASSUME NEW r \in Peer
      PROVE  /\ notifier'[r].pc \notin {"off", "asked"} => notifier'[r].current <= Len(history'[r])
             /\ notifier'[r].pc = "send" => notifier'[r].next >= 1
  <2>1. CASE r = q
    BY <1>1, <2>1, NoNotifierType DEF SyncInv, TypeOK
  <2>2. CASE r # q
    BY <1>1, <1>2, <1>8, <2>2 DEF WithinHistory, SyncInv, TypeOK
  <2>3. QED
    BY <2>1, <2>2
<1>10. WithinHistory'
  BY <1>8, <1>9 DEF WithinHistory
<1>11. QED
  BY <1>3, <1>4, <1>7, <1>10 DEF SyncInv

\* An index that is rebuilt.
LEMMA RebuildIndexStep == ASSUME SyncInv, NEW q \in Peer, RebuildIndex(q) PROVE SyncInv'
<1>1. /\ CreateIndex(q) /\ notifier[q].pc = "off"
      /\ uuid[q] < MaxUuid /\ uuid' = [uuid EXCEPT ![q] = @ + 1]
      /\ UNCHANGED <<cacheVars, notifier, channel, batch, leftover, disconnects>>
  BY DEF RebuildIndex
<1>2. IndexTypeOK /\ HistoryExplainsIndex /\ CacheTypeOK /\ VisibleIffHeld /\ WithinHistory
  BY DEF SyncInv, TypeOK
<1>3. IndexTypeOK' /\ HistoryExplainsIndex'
  BY <1>1, <1>2, CreateIndexStep
<1>4. CacheTypeOK' /\ VisibleIffHeld'
  BY <1>1, <1>2, CacheSame
<1>5. uuid' \in [Peer -> 1..MaxUuid]
  BY <1>1 DEF SyncInv, TypeOK
<1>6. TypeOK'
  BY <1>1, <1>3, <1>4, <1>5 DEF SyncInv, TypeOK
<1>7. ASSUME NEW r \in Peer
      PROVE  /\ watch'[r] <= Len(history'[r])
             /\ \A w \in Writer : hook'[r][w] <= Len(history'[r])
             /\ r # q => history'[r] = history[r]
  <2>1. CASE r = q
    BY <1>1, <1>2, <2>1 DEF CreateIndex, IndexTypeOK
  <2>2. CASE r # q
    BY <1>1, <1>2, <2>2 DEF CreateIndex, IndexTypeOK, WithinHistory
  <2>3. QED
    BY <2>1, <2>2
<1>8. WithinHistory'
  BY <1>1, <1>2, <1>7 DEF WithinHistory
<1>9. QED
  BY <1>3, <1>4, <1>6, <1>8 DEF SyncInv

\* The invariant holds of a new household.
LEMMA SyncInvInit == ASSUME Init PROVE SyncInv
<1>1. IndexTypeOK /\ HistoryExplainsIndex
  BY IndexInitially DEF Init
<1>2. CacheTypeOK /\ VisibleIffHeld
  BY CacheInitially DEF Init
<1>3. TypeOK
  BY <1>1, <1>2, NoNotifierType DEF Init, TypeOK
<1>4. WithinHistory
  BY NoNotifierType DEF Init, IndexInit, WithinHistory
<1>5. QED
  BY <1>1, <1>2, <1>3, <1>4 DEF SyncInv

\* Every step keeps the invariant.
LEMMA SyncInvStep == ASSUME SyncInv, [Next]_vars PROVE SyncInv'
<1>1. CASE Next
  BY <1>1, ChangeIndexStep, RunCallbackStep, SubscribeStep, NotifierStep, SendBatchStep,
     ApplyStep, DisconnectStep, RebuildIndexStep DEF Next
<1>2. CASE UNCHANGED vars
  <2>1. UNCHANGED <<index, history, watch, hook, drops, signalled, cacheVars, syncVars>>
    BY <1>2 DEF vars, indexVars
  <2>2. IndexTypeOK' /\ HistoryExplainsIndex'
    BY <2>1, IndexSame DEF SyncInv, TypeOK, IndexTypeOK
  <2>3. TypeOK' /\ VisibleIffHeld'
    BY <2>1, <2>2, SubscriptionSame
  <2>4. WithinHistory'
    BY <2>1 DEF SyncInv, WithinHistory, syncVars
  <2>5. QED
    BY <2>2, <2>3, <2>4 DEF SyncInv
<1>3. QED
  BY <1>1, <1>2

\* The invariant the theorems below rest on, for any number of peers, writers
\* and files and however connections break.
THEOREM SyncInvCorrect == Spec => []SyncInv
<1>1. Init => SyncInv
  BY SyncInvInit
<1>2. SyncInv /\ [Next]_vars => SyncInv'
  BY SyncInvStep
<1>3. QED
  BY <1>1, <1>2, PTL DEF Spec

\* Tables, channels and tasks keep their types: in particular a notifier never
\* overruns its channel and never reads past the end of the history.
THEOREM TypeCorrect == Spec => []TypeOK
<1>1. SyncInv => TypeOK
  BY DEF SyncInv
<1>2. QED
  BY <1>1, SyncInvCorrect, PTL

\* The history of each peer explains its index.
THEOREM HistoryExplainsIndexCorrect == Spec => []HistoryExplainsIndex
<1>1. SyncInv => HistoryExplainsIndex
  BY DEF SyncInv
<1>2. QED
  BY <1>1, SyncInvCorrect, PTL

\* Users see a file exactly as long as some peer has a version of it, however
\* notifications are batched, lost with a connection or applied late.
THEOREM VisibleIffHeldCorrect == Spec => []VisibleIffHeld
<1>1. SyncInv => VisibleIffHeld
  BY DEF SyncInv
<1>2. QED
  BY <1>1, SyncInvCorrect, PTL

-----------------------------------------------------------------------------
(* Progress *)

\* A notification speaks of the index as it is: an entry its history has, and
\* its own identity.
Genuine(q, n) ==
  n.index <= Len(history[q]) /\ (n.kind = "Connected" => n.uuid = uuid[q])

\* Everything on its way from q is genuine, nothing is on its way without a
\* connection, and no connection left a batch behind.
ProgressInv ==
  \A q \in Peer :
    /\ leftover[q] = <<>>
    /\ known[q] <= uuid[q]
    /\ known[q] = uuid[q] => seen[q] <= Len(history[q])
    /\ notifier[q].pc = "off" => channel[q] = <<>> /\ batch[q] = <<>>
    /\ \A i \in DOMAIN channel[q] : Genuine(q, channel[q][i])
    /\ \A i \in DOMAIN batch[q] : Genuine(q, batch[q][i])

\* What is sent is genuine.
LEMMA SendProgress ==
  ASSUME SyncInv, ProgressInv, NEW q \in Peer, NEW n \in Notification, Genuine(q, n), Send(q, n),
         NEW st, notifier' = [notifier EXCEPT ![q] = st], st.pc # "off",
         UNCHANGED <<history, seen, known, uuid, batch, leftover>>
  PROVE  ProgressInv'
<1>1. /\ channel \in [Peer -> Seq(Notification)]
      /\ notifier \in [Peer -> NotifierState]
      /\ channel' = [channel EXCEPT ![q] = Append(channel[q], n)]
  BY DEF SyncInv, TypeOK, Send
<1>2. ASSUME NEW r \in Peer
      PROVE  /\ \A i \in DOMAIN channel'[r] : Genuine(r, channel'[r][i])
             /\ notifier'[r].pc = "off" => channel'[r] = <<>> /\ batch[r] = <<>>
  <2>1. CASE r = q
    <3>1. channel[q] \in Seq(Notification) /\ channel'[r] = Append(channel[q], n) /\ notifier'[r] = st
      BY <1>1, <2>1
    <3>2. \A i \in DOMAIN Append(channel[q], n) :
            \/ i \in DOMAIN channel[q] /\ Append(channel[q], n)[i] = channel[q][i]
            \/ Append(channel[q], n)[i] = n
      BY <3>1
    <3>3. QED
      BY <2>1, <3>1, <3>2 DEF ProgressInv
  <2>2. CASE r # q
    BY <1>1, <2>2 DEF ProgressInv
  <2>3. QED
    BY <2>1, <2>2
<1>3. QED
  BY <1>2 DEF ProgressInv, Genuine

\* A notifier that sends nothing.
LEMMA SilentProgress ==
  ASSUME SyncInv, ProgressInv, NEW q \in Peer,
         NEW st, notifier' = [notifier EXCEPT ![q] = st], st.pc # "off",
         UNCHANGED <<history, seen, known, uuid, channel, batch, leftover>>
  PROVE  ProgressInv'
<1>1. \A r \in Peer : notifier'[r].pc = "off" => notifier[r].pc = "off"
  BY DEF SyncInv, TypeOK
<1>2. QED
  BY <1>1 DEF ProgressInv, Genuine

\* The notifier task sends what is in the history.
LEMMA NotifierProgress == ASSUME SyncInv, ProgressInv, NEW q \in Peer, Notifier(q) PROVE ProgressInv'
<1>1. /\ TypeOK /\ IndexTypeOK
      /\ notifier[q] \in NotifierState
      /\ notifier[q].current \in 0..MaxHistory
      /\ notifier[q].next \in 0..MaxHistory + 1
      /\ notifier[q].files \in SUBSET (Path \X Hash)
      /\ uuid[q] \in 0..MaxUuid
      /\ Len(history[q]) \in Nat
  <2>1. TypeOK /\ IndexTypeOK
    BY DEF SyncInv, TypeOK
  <2>2. uuid[q] \in 0..MaxUuid
    BY DEF SyncInv, TypeOK
  <2>3. QED
    BY <2>1, <2>2, NotifierFields DEF IndexTypeOK
<1>2. /\ 0 \in 0..MaxHistory /\ 0 \in 0..MaxUuid
      /\ "Catchup" \in Given \cup Taken /\ "Catchup" \notin Taken \cup {"Replace"}
  BY DEF Given, Taken
<1>3. notifier[q].pc \notin {"off", "asked"} => notifier[q].current <= Len(history[q])
  BY DEF SyncInv, WithinHistory
<1>4. CASE StartNotifier(q)
  <2>1. PICK st : notifier' = [notifier EXCEPT ![q] = st] /\ st.pc \in {"catchup", "send"}
    <3> DEFINE lastSeen == IF notifier[q].identity = uuid[q] THEN notifier[q].lastSeen ELSE 0
               pc == IF NeedsCatchup(lastSeen, watch[q]) THEN "catchup" ELSE "send"
               st == [notifier[q] EXCEPT !.pc = pc, !.lastSeen = lastSeen,
                        !.current = watch[q], !.next = FirstUnseen(lastSeen)]
    <3>1. notifier' = [notifier EXCEPT ![q] = st]
      BY <1>4 DEF StartNotifier
    <3>2. st.pc = pc
      BY <1>1 DEF NotifierState
    <3>3. pc \in {"catchup", "send"}
      OBVIOUS
    <3> HIDE DEF st, pc
    <3>4. QED
      BY <3>1, <3>2, <3>3
  <2>2. Send(q, Signal("Connected", 0, uuid[q]))
        /\ UNCHANGED <<history, seen, known, uuid, batch, leftover>>
    BY <1>4 DEF StartNotifier, cacheVars
  <2>3. Signal("Connected", 0, uuid[q]) \in Notification /\ Genuine(q, Signal("Connected", 0, uuid[q]))
    BY <1>1, <1>2, SignalType DEF Genuine
  <2>4. QED
    BY <2>1, <2>2, <2>3, SendProgress
<1>5. CASE StartCatchup(q)
  <2> DEFINE st == [notifier[q] EXCEPT !.pc = "files",
                      !.files = {f \in Path \X Hash : index[q][f[1]] = f[2]}]
  <2>1. notifier' = [notifier EXCEPT ![q] = st] /\ st.pc # "off"
    BY <1>1, <1>5 DEF StartCatchup, NotifierState
  <2>2. Send(q, Signal("CatchupStart", 0, 0))
        /\ UNCHANGED <<history, seen, known, uuid, batch, leftover>>
    BY <1>5 DEF StartCatchup, cacheVars, indexVars
  <2>3. Signal("CatchupStart", 0, 0) \in Notification /\ Genuine(q, Signal("CatchupStart", 0, 0))
    BY <1>1, <1>2, SignalType DEF Genuine
  <2> HIDE DEF st
  <2>4. QED
    BY <2>1, <2>2, <2>3, SendProgress
<1>6. CASE SendCatchup(q)
  <2>1. PICK f \in notifier[q].files :
          /\ Send(q, About("Catchup", f[1], f[2], None, 0))
          /\ notifier' = [notifier EXCEPT ![q] = [@ EXCEPT !.files = notifier[q].files \ {f}]]
    BY <1>6 DEF SendCatchup
  <2> DEFINE st == [notifier[q] EXCEPT !.files = notifier[q].files \ {f}]
             n == About("Catchup", f[1], f[2], None, 0)
  <2>2. f[1] \in Path /\ f[2] \in Hash
    BY <1>1, <2>1
  <2>3. notifier' = [notifier EXCEPT ![q] = st] /\ st.pc # "off"
    BY <1>1, <1>6, <2>1 DEF SendCatchup, NotifierState
  <2>4. n \in Notification /\ n.index = 0 /\ n.kind = "Catchup"
    BY <1>2, <2>2, AboutType
  <2>5. UNCHANGED <<history, seen, known, uuid, batch, leftover>>
    BY <1>6 DEF SendCatchup, cacheVars, indexVars
  <2>6. Genuine(q, n) /\ Send(q, n)
    BY <1>1, <2>1, <2>4 DEF Genuine
  <2> HIDE DEF st, n
  <2>7. QED
    BY <2>3, <2>4, <2>5, <2>6, SendProgress
<1>7. CASE EndCatchup(q)
  <2> DEFINE st == [notifier[q] EXCEPT !.pc = "wait", !.lastSeen = notifier[q].current]
             n == Signal("CatchupComplete", notifier[q].current, 0)
  <2>1. notifier' = [notifier EXCEPT ![q] = st] /\ st.pc # "off" /\ notifier[q].pc = "files"
    BY <1>1, <1>7 DEF EndCatchup, NotifierState
  <2>2. n \in Notification /\ n.index = notifier[q].current /\ n.kind = "CatchupComplete"
    BY <1>1, <1>2, SignalType
  <2>3. Send(q, n) /\ UNCHANGED <<history, seen, known, uuid, batch, leftover>>
    BY <1>7 DEF EndCatchup, cacheVars, indexVars
  <2>4. Genuine(q, n)
    BY <1>3, <2>1, <2>2 DEF Genuine
  <2> HIDE DEF st, n
  <2>5. QED
    BY <2>1, <2>2, <2>3, <2>4, SendProgress
<1>8. CASE SendNotification(q)
  <2> DEFINE i == notifier[q].next
             st == [notifier[q] EXCEPT !.next = i + 1]
  <2>1. /\ notifier' = [notifier EXCEPT ![q] = st] /\ notifier[q].pc = "send"
        /\ i <= notifier[q].current
        /\ channel' = channel \/ \E n \in Notify(q, i) : Send(q, n)
        /\ UNCHANGED <<history, seen, known, uuid, batch, leftover>>
    BY <1>8 DEF SendNotification, cacheVars, indexVars
  <2>2. st.pc # "off"
    BY <1>1, <2>1 DEF NotifierState
  <2>3. i \in 1..Len(history[q])
    BY <1>1, <1>3, <2>1 DEF SyncInv, WithinHistory
  <2> HIDE DEF st, i
  <2>4. \A n \in Notify(q, i) : n \in Notification /\ Genuine(q, n)
    BY <1>1, <2>3, NotifyType DEF Genuine
  <2>5. QED
    BY <2>1, <2>2, <2>4, SendProgress, SilentProgress
<1>9. CASE NotificationsSent(q)
  <2> DEFINE st == [notifier[q] EXCEPT !.pc = "wait", !.lastSeen = notifier[q].current]
  <2>1. /\ notifier' = [notifier EXCEPT ![q] = st] /\ st.pc # "off"
        /\ UNCHANGED <<history, seen, known, uuid, channel, batch, leftover>>
    BY <1>1, <1>9 DEF NotificationsSent, NotifierState, cacheVars, indexVars
  <2> HIDE DEF st
  <2>2. QED
    BY <2>1, SilentProgress
<1>10. CASE HistoryChanged(q)
  <2> DEFINE st == [notifier[q] EXCEPT !.pc = "send", !.current = watch[q],
                      !.next = FirstUnseen(notifier[q].lastSeen)]
  <2>1. /\ notifier' = [notifier EXCEPT ![q] = st] /\ st.pc # "off"
        /\ UNCHANGED <<history, seen, known, uuid, channel, batch, leftover>>
    BY <1>1, <1>10 DEF HistoryChanged, NotifierState, cacheVars
  <2> HIDE DEF st
  <2>2. QED
    BY <2>1, SilentProgress
<1>11. QED
  BY <1>4, <1>5, <1>6, <1>7, <1>8, <1>9, <1>10 DEF Notifier

\* A transaction of a peer on its index.
LEMMA ChangeProgress == ASSUME SyncInv, ProgressInv, NEW q \in Peer, ChangeIndex(q) PROVE ProgressInv'
<1>1. UNCHANGED <<seen, known, uuid, notifier, channel, batch, leftover>>
  BY DEF ChangeIndex, cacheVars, syncVars
<1>2. IndexTypeOK /\ IndexTypeOK'
  BY ChangeIndexStep DEF SyncInv, TypeOK
<1>3. \A r \in Peer : /\ Len(history'[r]) >= Len(history[r])
                      /\ Len(history'[r]) \in Nat /\ Len(history[r]) \in Nat
  BY <1>2, IndexGrows DEF ChangeIndex, IndexTypeOK
<1>4. \A r \in Peer : seen[r] \in Nat
  BY DEF SyncInv, TypeOK, CacheTypeOK
<1>5. \A n \in Notification : n.index \in Nat
  BY NotificationFields
<1>6. \A r \in Peer : /\ \A i \in DOMAIN channel[r] : channel[r][i] \in Notification
                      /\ \A i \in DOMAIN batch[r] : batch[r][i] \in Notification
  <2>1. \A r \in Peer : channel[r] \in Seq(Notification) /\ batch[r] \in Seq(Notification)
    BY DEF SyncInv, TypeOK
  <2>2. QED
    BY <2>1
<1>7. ASSUME NEW r \in Peer
      PROVE  /\ \A i \in DOMAIN channel[r] : Genuine(r, channel[r][i])'
             /\ \A i \in DOMAIN batch[r] : Genuine(r, batch[r][i])'
             /\ known[r] = uuid[r] => seen[r] <= Len(history'[r])
  <2>1. /\ \A i \in DOMAIN channel[r] : Genuine(r, channel[r][i])
        /\ \A i \in DOMAIN batch[r] : Genuine(r, batch[r][i])
        /\ known[r] = uuid[r] => seen[r] <= Len(history[r])
    BY DEF ProgressInv
  <2>2. known[r] = uuid[r] => seen[r] <= Len(history'[r])
    BY <1>3, <1>4, <2>1
  <2>3. \A i \in DOMAIN channel[r] : Genuine(r, channel[r][i])'
    BY <1>1, <1>3, <1>5, <1>6, <2>1 DEF Genuine
  <2>4. \A i \in DOMAIN batch[r] : Genuine(r, batch[r][i])'
    BY <1>1, <1>3, <1>5, <1>6, <2>1 DEF Genuine
  <2>5. QED
    BY <2>2, <2>3, <2>4
<1>8. QED
  BY <1>1, <1>7 DEF ProgressInv

\* do_subscribe moves notifications from the channel to a batch.
LEMMA SendBatchProgress == ASSUME SyncInv, ProgressInv, NEW q \in Peer, SendBatch(q) PROVE ProgressInv'
<1> DEFINE size == IF Len(channel[q]) < BatchMax THEN Len(channel[q]) ELSE BatchMax
           sent == SubSeq(channel[q], 1, size)
           kept == SubSeq(channel[q], size + 1, Len(channel[q]))
<1>1. /\ channel \in [Peer -> Seq(Notification)] /\ batch \in [Peer -> Seq(Notification)]
      /\ channel[q] \in Seq(Notification) /\ Len(channel[q]) \in Nat
  BY DEF SyncInv, TypeOK
<1>2. /\ batch' = [batch EXCEPT ![q] = sent]
      /\ channel' = [channel EXCEPT ![q] = kept]
      /\ channel[q] # <<>>
      /\ UNCHANGED <<history, seen, known, uuid, notifier, leftover>>
  BY DEF SendBatch, indexVars, cacheVars
<1>3. size \in 0..Len(channel[q])
  BY <1>1
<1> HIDE DEF size
<1>4. /\ \A i \in DOMAIN sent : \E j \in DOMAIN channel[q] : sent[i] = channel[q][j]
      /\ \A i \in DOMAIN kept : \E j \in DOMAIN channel[q] : kept[i] = channel[q][j]
  <2>1. ASSUME NEW i \in DOMAIN sent PROVE i \in DOMAIN channel[q] /\ sent[i] = channel[q][i]
    BY <1>1, <1>3
  <2>2. ASSUME NEW i \in DOMAIN kept
        PROVE  size + i \in DOMAIN channel[q] /\ kept[i] = channel[q][size + i]
    BY <1>1, <1>3
  <2>3. QED
    BY <2>1, <2>2
<1>5. \A i \in DOMAIN channel[q] : Genuine(q, channel[q][i])
  BY DEF ProgressInv
<1> HIDE DEF sent, kept
<1>6. ASSUME NEW r \in Peer
      PROVE  /\ notifier[r].pc = "off" => channel'[r] = <<>> /\ batch'[r] = <<>>
             /\ \A i \in DOMAIN channel'[r] : Genuine(r, channel'[r][i])
             /\ \A i \in DOMAIN batch'[r] : Genuine(r, batch'[r][i])
  <2>1. CASE r = q
    <3>1. channel'[r] = kept /\ batch'[r] = sent /\ notifier[r].pc # "off"
      BY <1>1, <1>2, <2>1 DEF ProgressInv
    <3>2. QED
      BY <1>4, <1>5, <2>1, <3>1
  <2>2. CASE r # q
    BY <1>1, <1>2, <2>2 DEF ProgressInv
  <2>3. QED
    BY <2>1, <2>2
<1>7. QED
  BY <1>2, <1>6 DEF ProgressInv, Genuine

\* do_notify applies genuine notifications only.
LEMMA ApplyProgress ==
  ASSUME SyncInv, ProgressInv, NEW q \in Peer, ApplyNotification(q) PROVE ProgressInv'
<1>1. /\ batch \in [Peer -> Seq(Notification)] /\ CacheTypeOK /\ IndexTypeOK
      /\ uuid[q] \in Nat
  BY DEF SyncInv, TypeOK
<1>2. /\ batch[q] # <<>> /\ batch[q] \in Seq(Notification)
      /\ Update(q, Head(batch[q]))
      /\ batch' = [batch EXCEPT ![q] = AfterUpdate(batch[q])]
      /\ UNCHANGED <<history, uuid, notifier, channel, leftover>>
  BY <1>1 DEF ApplyNotification, indexVars
<1> DEFINE n == Head(batch[q])
<1>3. n \in Notification /\ Genuine(q, n)
  <2>1. n = batch[q][1] /\ 1 \in DOMAIN batch[q]
    BY <1>2
  <2>2. QED
    BY <1>2, <2>1, AfterUpdateType DEF ProgressInv
<1> HIDE DEF n
<1>4. /\ \A r \in Peer \ {q} : seen'[r] = seen[r] /\ known'[r] = known[r]
      /\ n.kind # "Connected" => known'[q] = known[q] /\ seen'[q] \in {seen[q], n.index}
      /\ n.kind = "Connected" => /\ known'[q] = n.uuid
                                 /\ seen'[q] = IF known[q] = n.uuid THEN seen[q] ELSE 0
  <2>1. Update(q, n)
    BY <1>2 DEF n
  <2>2. QED
    BY <1>1, <1>3, <2>1, UpdateProgress
<1>5. Len(history[q]) \in Nat
  BY <1>1 DEF IndexTypeOK
<1>6. ASSUME NEW r \in Peer
      PROVE  known'[r] <= uuid[r] /\ (known'[r] = uuid[r] => seen'[r] <= Len(history[r]))
  <2>1. CASE r # q
    BY <1>4, <2>1 DEF ProgressInv
  <2>2. CASE r = q
    BY <1>1, <1>3, <1>4, <1>5, <2>2 DEF ProgressInv, Genuine
  <2>3. QED
    BY <2>1, <2>2
<1>7. ASSUME NEW r \in Peer
      PROVE  /\ \A i \in DOMAIN batch'[r] : Genuine(r, batch'[r][i])
             /\ notifier[r].pc = "off" => batch'[r] = <<>>
  <2>1. CASE r # q
    BY <1>1, <1>2, <2>1 DEF ProgressInv
  <2>2. CASE r = q
    <3>1. batch'[r] \in {<<>>, Tail(batch[q])} /\ notifier[r].pc # "off"
      BY <1>1, <1>2, <2>2 DEF AfterUpdate, ProgressInv
    <3>2. \A i \in DOMAIN Tail(batch[q]) :
            i + 1 \in DOMAIN batch[q] /\ Tail(batch[q])[i] = batch[q][i + 1]
      BY <1>2
    <3>3. \A i \in DOMAIN batch'[r] : \E j \in DOMAIN batch[q] : batch'[r][i] = batch[q][j]
      <4>1. CASE batch'[r] = <<>>
        BY <4>1
      <4>2. CASE batch'[r] = Tail(batch[q])
        BY <3>2, <4>2
      <4>3. QED
        BY <3>1, <4>1, <4>2
    <3>4. QED
      BY <2>2, <3>1, <3>3 DEF ProgressInv
  <2>3. QED
    BY <2>1, <2>2
<1>8. QED
  BY <1>2, <1>6, <1>7 DEF ProgressInv, Genuine

\* A broken connection that leaves no batch behind.
LEMMA DisconnectProgress ==
  ASSUME MaxLeftovers = 0, SyncInv, ProgressInv, NEW q \in Peer, Disconnect(q)
  PROVE  ProgressInv'
<1>1. /\ notifier' = [notifier EXCEPT ![q] = NoNotifier]
      /\ channel' = [channel EXCEPT ![q] = <<>>]
      /\ batch' = [batch EXCEPT ![q] = <<>>]
      /\ UNCHANGED <<seen, known, uuid, history, leftover>>
  BY DEF Disconnect, cacheVars, indexVars, ReopenIndex, SyncInv, TypeOK
<1>2. notifier \in [Peer -> NotifierState] /\ channel \in [Peer -> Seq(Notification)]
      /\ batch \in [Peer -> Seq(Notification)]
  BY DEF SyncInv, TypeOK
<1>3. ASSUME NEW r \in Peer
      PROVE  /\ notifier'[r].pc = "off" => channel'[r] = <<>> /\ batch'[r] = <<>>
             /\ \A i \in DOMAIN channel'[r] : Genuine(r, channel'[r][i])
             /\ \A i \in DOMAIN batch'[r] : Genuine(r, batch'[r][i])
  <2>1. CASE r = q
    BY <1>1, <1>2, <2>1
  <2>2. CASE r # q
    BY <1>1, <1>2, <2>2 DEF ProgressInv
  <2>3. QED
    BY <2>1, <2>2
<1>4. QED
  BY <1>1, <1>3 DEF ProgressInv, Genuine

\* A rebuilt index has an identity the cache does not know.
LEMMA RebuildProgress ==
  ASSUME SyncInv, ProgressInv, NEW q \in Peer, RebuildIndex(q) PROVE ProgressInv'
<1>1. /\ notifier[q].pc = "off"
      /\ uuid' = [uuid EXCEPT ![q] = uuid[q] + 1]
      /\ history' = [history EXCEPT ![q] = <<>>]
      /\ UNCHANGED <<seen, known, notifier, channel, batch, leftover>>
  BY DEF RebuildIndex, CreateIndex, cacheVars
<1>2. /\ uuid \in [Peer -> 1..MaxUuid] /\ history \in [Peer -> Seq(HistoryEntry)]
      /\ known \in [Peer -> 0..MaxUuid]
  BY DEF SyncInv, TypeOK, IndexTypeOK, CacheTypeOK
<1>3. ASSUME NEW r \in Peer
      PROVE  /\ known[r] <= uuid'[r]
             /\ known[r] = uuid'[r] => seen[r] <= Len(history'[r])
             /\ \A i \in DOMAIN channel[r] : Genuine(r, channel[r][i])'
             /\ \A i \in DOMAIN batch[r] : Genuine(r, batch[r][i])'
  <2>1. CASE r = q
    <3>1. channel[r] = <<>> /\ batch[r] = <<>>
      BY <1>1, <2>1 DEF ProgressInv
    <3>2. uuid'[r] = uuid[q] + 1 /\ known[r] <= uuid[q] /\ uuid[q] \in Nat /\ known[r] \in Nat
      BY <1>1, <1>2, <2>1 DEF ProgressInv
    <3>3. QED
      BY <3>1, <3>2
  <2>2. CASE r # q
    <3>1. uuid'[r] = uuid[r] /\ history'[r] = history[r]
      BY <1>1, <1>2, <2>2
    <3>2. QED
      BY <1>1, <3>1 DEF ProgressInv, Genuine
  <2>3. QED
    BY <2>1, <2>2
<1>4. QED
  BY <1>1, <1>3 DEF ProgressInv

\* Every step keeps the progress meaningful.
LEMMA ProgressStep ==
  ASSUME MaxLeftovers = 0, SyncInv, ProgressInv, [Next]_vars PROVE ProgressInv'
<1>1. ASSUME NEW q \in Peer, NEW w \in Writer, RunCallback(q, w) PROVE ProgressInv'
  BY <1>1 DEF RunCallback, AfterCommit, cacheVars, syncVars, ProgressInv, Genuine
<1>2. ASSUME NEW q \in Peer, Subscribe(q) PROVE ProgressInv'
  <2> DEFINE st == [NoNotifier EXCEPT !.pc = "asked", !.lastSeen = seen[q], !.identity = known[q]]
  <2>1. st.pc = "asked"
    BY NoNotifierType DEF NotifierState
  <2>2. /\ notifier' = [notifier EXCEPT ![q] = st]
        /\ UNCHANGED <<history, seen, known, uuid, channel, batch, leftover>>
    BY <1>2 DEF Subscribe, indexVars, cacheVars
  <2> HIDE DEF st
  <2>3. QED
    BY <2>1, <2>2, SilentProgress
<1>3. ASSUME NEW q \in Peer, ApplyLeftover(q) PROVE ProgressInv'
  BY <1>3 DEF ApplyLeftover, ProgressInv
<1>4. CASE UNCHANGED vars
  BY <1>4 DEF vars, indexVars, cacheVars, syncVars, ProgressInv, Genuine
<1>5. QED
  BY <1>1, <1>2, <1>3, <1>4, ChangeProgress, NotifierProgress, SendBatchProgress, ApplyProgress,
     DisconnectProgress, RebuildProgress DEF Next

\* As long as no broken connection leaves a batch behind, the progress kept for
\* a peer never runs ahead of the history it is about, so that a subscriber
\* that comes back misses no entry, even if the peer's index was rebuilt.
THEOREM ProgressMeaningfulCorrect ==
  ASSUME MaxLeftovers = 0 PROVE Spec => []ProgressMeaningful
<1>1. Init => ProgressInv
  BY NoNotifierType DEF Init, IndexInit, CacheInit, ProgressInv
<1>2. SyncInv /\ ProgressInv /\ [Next]_vars => ProgressInv'
  BY ProgressStep
<1>3. ProgressInv => ProgressMeaningful
  BY DEF ProgressInv, ProgressMeaningful
<1>4. QED
  BY <1>1, <1>2, <1>3, SyncInvCorrect, PTL DEF Spec

-----------------------------------------------------------------------------
(* What is on its way *)

\* One sequence after another.
LEMMA Joined ==
  ASSUME NEW s \in Seq(Notification), NEW t \in Seq(Notification)
  PROVE  /\ s \o t \in Seq(Notification)
         /\ Len(s) \in Nat /\ Len(t) \in Nat /\ Len(s \o t) = Len(s) + Len(t)
         /\ DOMAIN (s \o t) = 1..(Len(s) + Len(t))
         /\ \A i \in 1..Len(s) : (s \o t)[i] = s[i]
         /\ \A i \in 1..Len(t) : (s \o t)[Len(s) + i] = t[i]
         /\ \A i \in 1..(Len(s) + Len(t)) : (s \o t)[i] \in Notification
<1>1. s \o t \in Seq(Notification) /\ Len(s) \in Nat /\ Len(t) \in Nat /\ Len(s \o t) = Len(s) + Len(t)
  OBVIOUS
<1>2. DOMAIN (s \o t) = 1..(Len(s) + Len(t))
  BY <1>1
<1>3. ASSUME NEW i \in 1..Len(s) PROVE (s \o t)[i] = s[i]
  BY <1>1
<1>4. ASSUME NEW i \in 1..Len(t) PROVE (s \o t)[Len(s) + i] = t[i]
  BY <1>1
<1>5. \A i \in 1..(Len(s) + Len(t)) : (s \o t)[i] \in Notification
  BY <1>1, <1>2
<1>6. QED
  BY <1>1, <1>2, <1>3, <1>4, <1>5

\* A sequence that is split and joined again.
LEMMA JoinedAgain ==
  ASSUME NEW s \in Seq(Notification), NEW k \in 0..Len(s)
  PROVE  SubSeq(s, 1, k) \o SubSeq(s, k + 1, Len(s)) = s
<1> DEFINE a == SubSeq(s, 1, k)
           b == SubSeq(s, k + 1, Len(s))
<1>1. /\ a \in Seq(Notification) /\ Len(a) = k /\ \A i \in 1..k : a[i] = s[i]
      /\ b \in Seq(Notification) /\ Len(b) = Len(s) - k /\ \A i \in 1..(Len(s) - k) : b[i] = s[k + i]
  OBVIOUS
<1>2. Len(s) \in Nat /\ k \in Nat /\ k <= Len(s)
  OBVIOUS
<1> HIDE DEF a, b
<1>3. /\ a \o b \in Seq(Notification) /\ Len(a \o b) = Len(a) + Len(b)
      /\ \A i \in 1..Len(a) : (a \o b)[i] = a[i]
      /\ \A i \in 1..Len(b) : (a \o b)[Len(a) + i] = b[i]
  BY <1>1, Joined
<1>4. ASSUME NEW i \in 1..Len(s) PROVE (a \o b)[i] = s[i]
  <2>1. CASE i \in 1..k
    BY <1>1, <1>3, <2>1
  <2>2. CASE i \notin 1..k
    <3>1. PICK j \in 1..(Len(s) - k) : i = k + j
      <4>1. i - k \in 1..(Len(s) - k) /\ i = k + (i - k)
        BY <1>2, <2>2
      <4>2. QED
        BY <4>1
    <3>2. (a \o b)[Len(a) + j] = b[j] /\ b[j] = s[k + j]
      BY <1>1, <1>3, <3>1
    <3>3. QED
      BY <1>1, <3>1, <3>2
  <2>3. QED
    BY <2>1, <2>2
<1>5. Len(a \o b) = Len(s)
  BY <1>1, <1>2, <1>3
<1>6. a \o b = s
  BY <1>3, <1>4, <1>5, SeqEqual
<1>7. QED
  BY <1>6 DEF a, b

\* What is on its way is the batch and, after it, what the channel holds.
LEMMA FlightSeq ==
  ASSUME TypeOK, NEW q \in Peer
  PROVE  /\ batch[q] \in Seq(Notification) /\ channel[q] \in Seq(Notification)
         /\ InFlight(q) \in Seq(Notification)
         /\ Len(InFlight(q)) = Len(batch[q]) + Len(channel[q])
         /\ \A i \in 1..Len(batch[q]) : InFlight(q)[i] = batch[q][i]
         /\ \A i \in 1..Len(channel[q]) : InFlight(q)[Len(batch[q]) + i] = channel[q][i]
         /\ DOMAIN InFlight(q) = 1..Len(InFlight(q)) /\ Len(InFlight(q)) \in Nat
         /\ \A i \in DOMAIN InFlight(q) : InFlight(q)[i] \in Notification
<1>1. batch[q] \in Seq(Notification) /\ channel[q] \in Seq(Notification)
  BY DEF TypeOK
<1>2. QED
  BY <1>1, Joined, ZenonT(40) DEF InFlight

\* A notification that is sent comes last.
LEMMA FlightSend ==
  ASSUME TypeOK, TypeOK', NEW q \in Peer, NEW n \in Notification, Send(q, n), batch' = batch
  PROVE  /\ Len(InFlight(q)') = Len(InFlight(q)) + 1
         /\ \A i \in DOMAIN InFlight(q) : InFlight(q)'[i] = InFlight(q)[i]
         /\ InFlight(q)'[Len(InFlight(q)) + 1] = n
         /\ DOMAIN InFlight(q)' = DOMAIN InFlight(q) \cup {Len(InFlight(q)) + 1}
         /\ \A r \in Peer \ {q} : InFlight(r)' = InFlight(r)
<1>1. batch[q] \in Seq(Notification) /\ channel[q] \in Seq(Notification)
      /\ channel' = [channel EXCEPT ![q] = Append(channel[q], n)] /\ channel \in [Peer -> Seq(Notification)]
  BY DEF TypeOK, Send
<1>2. channel'[q] = Append(channel[q], n)
  BY <1>1
<1>3. InFlight(q)' = batch[q] \o Append(channel[q], n)
  BY <1>2 DEF InFlight
<1>4. \A r \in Peer \ {q} : InFlight(r)' = InFlight(r)
  BY <1>1 DEF InFlight
<1> DEFINE b == batch[q]
           s == channel[q]
           t == Append(s, n)
<1>5. /\ t \in Seq(Notification) /\ Len(t) = Len(s) + 1 /\ Len(s) \in Nat
      /\ \A i \in 1..Len(s) : t[i] = s[i]
      /\ t[Len(s) + 1] = n
  BY <1>1, AppendProperties
<1>6. InFlight(q) = b \o s /\ InFlight(q)' = b \o t /\ b \in Seq(Notification) /\ s \in Seq(Notification)
  BY <1>1, <1>3 DEF InFlight
<1> HIDE DEF b, s, t
<1>7. /\ Len(b) \in Nat /\ Len(b \o s) = Len(b) + Len(s) /\ Len(b \o t) = Len(b) + Len(s) + 1
      /\ DOMAIN (b \o s) = 1..(Len(b) + Len(s)) /\ DOMAIN (b \o t) = 1..(Len(b) + Len(s) + 1)
  <2>1. /\ Len(b) \in Nat /\ Len(b \o s) = Len(b) + Len(s) /\ Len(b \o t) = Len(b) + Len(t)
        /\ DOMAIN (b \o s) = 1..(Len(b) + Len(s)) /\ DOMAIN (b \o t) = 1..(Len(b) + Len(t))
    BY <1>5, <1>6, Joined, Zenon
  <2>2. Len(b) + Len(t) = Len(b) + Len(s) + 1
    BY <1>5, <2>1
  <2>3. QED
    BY <2>1, <2>2
<1>8. ASSUME NEW i \in DOMAIN (b \o s) PROVE (b \o t)[i] = (b \o s)[i]
  <2>1. CASE i \in 1..Len(b)
    BY <1>5, <1>6, <2>1, Joined
  <2>2. CASE i \notin 1..Len(b)
    <3>1. i - Len(b) \in 1..Len(s) /\ i - Len(b) \in 1..Len(t) /\ i = Len(b) + (i - Len(b))
      BY <1>5, <1>7, <1>8, <2>2
    <3>2. (b \o t)[i] = t[i - Len(b)] /\ (b \o s)[i] = s[i - Len(b)]
      BY <1>5, <1>6, <3>1, Joined
    <3>3. QED
      BY <1>5, <3>1, <3>2
  <2>3. QED
    BY <2>1, <2>2
<1>9. (b \o t)[Len(b) + Len(s) + 1] = n
  <2>1. Len(s) + 1 \in 1..Len(t) /\ Len(b) + (Len(s) + 1) = Len(b) + Len(s) + 1
    BY <1>5, <1>7
  <2>2. (b \o t)[Len(b) + (Len(s) + 1)] = t[Len(s) + 1]
    BY <1>5, <1>6, <2>1, Joined
  <2>3. QED
    BY <1>5, <2>1, <2>2
<1>10. 1..(Len(b) + Len(s) + 1) = 1..(Len(b) + Len(s)) \cup {Len(b) + Len(s) + 1}
  BY <1>5, <1>7
<1>11. QED
  BY <1>4, <1>6, <1>7, <1>8, <1>9, <1>10

\* do_subscribe changes nothing of it.
LEMMA FlightBatch ==
  ASSUME TypeOK, NEW q \in Peer, SendBatch(q)
  PROVE  \A r \in Peer : InFlight(r)' = InFlight(r)
<1> DEFINE size == IF Len(channel[q]) < BatchMax THEN Len(channel[q]) ELSE BatchMax
           sent == SubSeq(channel[q], 1, size)
           kept == SubSeq(channel[q], size + 1, Len(channel[q]))
<1>1. /\ channel \in [Peer -> Seq(Notification)] /\ batch \in [Peer -> Seq(Notification)]
      /\ channel[q] \in Seq(Notification)
      /\ batch' = [batch EXCEPT ![q] = sent] /\ channel' = [channel EXCEPT ![q] = kept]
      /\ batch[q] = <<>>
  BY DEF TypeOK, SendBatch
<1>2. size \in 0..Len(channel[q])
  BY <1>1
<1> HIDE DEF size
<1>3. sent \o kept = channel[q]
  BY <1>1, <1>2, JoinedAgain
<1>4. batch[q] \o channel[q] = channel[q]
  BY <1>1
<1> HIDE DEF sent, kept
<1>5. \A r \in Peer \ {q} : InFlight(r)' = InFlight(r)
  BY <1>1 DEF InFlight
<1>6. InFlight(q)' = InFlight(q)
  BY <1>1, <1>3, <1>4 DEF InFlight
<1>7. QED
  BY <1>5, <1>6

\* Applying a notification takes the first, and with an error the rest of the
\* batch.
LEMMA FlightApply ==
  ASSUME TypeOK, TypeOK', NEW q \in Peer, ApplyNotification(q)
  PROVE  /\ InFlight(q) # <<>> /\ Head(batch[q]) = InFlight(q)[1] /\ 1 \in DOMAIN InFlight(q)
         /\ \A r \in Peer \ {q} : InFlight(r)' = InFlight(r)
         /\ \E k \in 1..Len(batch[q]) :
              /\ Len(InFlight(q)') = Len(InFlight(q)) - k
              /\ \A i \in DOMAIN InFlight(q)' : /\ i + k \in DOMAIN InFlight(q)
                                                /\ InFlight(q)'[i] = InFlight(q)[i + k]
<1>1. /\ batch \in [Peer -> Seq(Notification)] /\ batch[q] \in Seq(Notification) /\ batch[q] # <<>>
      /\ channel' = channel /\ channel[q] \in Seq(Notification)
      /\ batch' = [batch EXCEPT ![q] = AfterUpdate(batch[q])]
  BY DEF TypeOK, ApplyNotification
<1>2. Len(batch[q]) \in Nat \ {0} /\ batch'[q] = AfterUpdate(batch[q]) /\ Head(batch[q]) = batch[q][1]
  BY <1>1
<1>3. \A r \in Peer \ {q} : InFlight(r)' = InFlight(r)
  BY <1>1 DEF InFlight
<1>4. InFlight(q) # <<>> /\ Head(batch[q]) = InFlight(q)[1] /\ 1 \in DOMAIN InFlight(q)
  BY <1>1, <1>2 DEF InFlight
<1>5. PICK k \in 1..Len(batch[q]) :
        /\ batch'[q] \in Seq(Notification)
        /\ Len(batch'[q]) = Len(batch[q]) - k
        /\ \A i \in 1..Len(batch'[q]) : batch'[q][i] = batch[q][i + k]
  <2>1. CASE batch'[q] = Tail(batch[q])
    <3>1. /\ 1 \in 1..Len(batch[q]) /\ Len(batch'[q]) = Len(batch[q]) - 1
          /\ batch'[q] \in Seq(Notification)
          /\ \A i \in 1..Len(batch'[q]) : batch'[q][i] = batch[q][i + 1]
      BY <1>1, <1>2, <2>1
    <3>2. QED
      BY <3>1
  <2>2. CASE batch'[q] = <<>>
    <3>1. /\ Len(batch[q]) \in 1..Len(batch[q]) /\ Len(batch'[q]) = Len(batch[q]) - Len(batch[q])
          /\ batch'[q] \in Seq(Notification)
          /\ \A i \in 1..Len(batch'[q]) : batch'[q][i] = batch[q][i + Len(batch[q])]
      BY <1>1, <1>2, <2>2
    <3>2. QED
      BY <3>1
  <2>3. QED
    BY <1>2, <2>1, <2>2 DEF AfterUpdate
<1>6. InFlight(q)' = batch'[q] \o channel[q] /\ InFlight(q) = batch[q] \o channel[q]
  BY <1>1 DEF InFlight
<1> DEFINE b == batch[q]
           c == batch'[q]
           t == channel[q]
<1>7. /\ InFlight(q)' = c \o t /\ InFlight(q) = b \o t /\ t \in Seq(Notification)
      /\ b \in Seq(Notification) /\ c \in Seq(Notification)
      /\ Len(c) = Len(b) - k /\ k \in 1..Len(b)
      /\ \A i \in 1..Len(c) : c[i] = b[i + k]
  BY <1>1, <1>5, <1>6
<1> HIDE DEF b, c, t
<1>8. /\ Len(b) \in Nat /\ Len(t) \in Nat /\ Len(c) \in Nat
      /\ Len(b \o t) = Len(b) + Len(t) /\ Len(c \o t) = Len(c) + Len(t)
      /\ DOMAIN (b \o t) = 1..(Len(b) + Len(t)) /\ DOMAIN (c \o t) = 1..(Len(c) + Len(t))
  BY <1>7, Joined
<1>9. ASSUME NEW i \in DOMAIN (c \o t)
      PROVE  i + k \in DOMAIN (b \o t) /\ (c \o t)[i] = (b \o t)[i + k]
  <2>1. i + k \in DOMAIN (b \o t)
    BY <1>7, <1>8, <1>9
  <2>2. CASE i \in 1..Len(c)
    <3>1. i + k \in 1..Len(b)
      BY <1>7, <1>8, <2>2
    <3>2. QED
      BY <1>7, <2>1, <2>2, <3>1, Joined
  <2>3. CASE i \notin 1..Len(c)
    <3>1. i - Len(c) \in 1..Len(t) /\ i = Len(c) + (i - Len(c)) /\ i + k = Len(b) + (i - Len(c))
      BY <1>7, <1>8, <1>9, <2>3
    <3>2. \A j \in 1..Len(t) : (c \o t)[Len(c) + j] = t[j] /\ (b \o t)[Len(b) + j] = t[j]
      BY <1>7, Joined
    <3>3. QED
      BY <2>1, <3>1, <3>2
  <2>4. QED
    BY <2>2, <2>3
<1>10. /\ Len(InFlight(q)') = Len(InFlight(q)) - k
       /\ \A i \in DOMAIN InFlight(q)' : i + k \in DOMAIN InFlight(q)
                                         /\ InFlight(q)'[i] = InFlight(q)[i + k]
  BY <1>7, <1>8, <1>9, SMTT(30)
<1>11. QED
  BY <1>3, <1>4, <1>5, <1>10

-----------------------------------------------------------------------------
(* The version shown, on a first connection *)

\* A peer that a step is not about.
LEMMA FirstSame ==
  ASSUME TypeOK, NEW r \in Peer, FirstConnection(r), InFlight(r)' = InFlight(r),
         notifier'[r] = notifier[r], leftover'[r] = leftover[r],
         \A p \in Path : entry'[p][r] = entry[p][r]
  PROVE  FirstConnection(r)'
<1>1. \A i \in DOMAIN InFlight(r) : InFlight(r)[i].kind = "Catchup" => InFlight(r)[i].path \in Path
  BY FlightSeq, NotificationFields DEF Given
<1>2. notifier[r].files \subseteq Path \X Hash
  BY NotifierFields
<1>3. \A p \in Path : Untold(r, p) => Untold(r, p)'
  BY DEF Untold
<1>4. CatchupIsFirst(r)'
  BY <1>1 DEF CatchupIsFirst, FirstConnection
<1>5. \A f \in notifier[r].files : f[1] \in Path
  BY <1>2
<1>6. QED
  BY <1>3, <1>4, <1>5 DEF FirstConnection

\* A notification is sent: a Catchup only about a file that is yet untold.
LEMMA FirstSend ==
  ASSUME TypeOK, TypeOK', NEW q \in Peer, FirstConnection(q), NEW n \in Notification, Send(q, n),
         batch' = batch, UNCHANGED <<entry, leftover>>,
         n.kind = "Catchup" => Untold(q, n.path),
         notifier'[q].pc \in {"off", "asked", "catchup"}
           => notifier[q].pc \in {"off", "asked", "catchup"} /\ n.path \notin Path,
         notifier'[q].pc = "files" =>
           \A f \in notifier'[q].files : /\ Untold(q, f[1]) /\ n.path # f[1]
                                         /\ \A g \in notifier'[q].files : f[1] = g[1] => f = g
  PROVE  FirstConnection(q)'
<1> DEFINE s == InFlight(q)
           t == InFlight(q)'
<1>1. /\ Len(s) \in Nat /\ DOMAIN s = 1..Len(s) /\ DOMAIN t = DOMAIN s \cup {Len(s) + 1}
      /\ \A i \in DOMAIN s : t[i] = s[i]
      /\ t[Len(s) + 1] = n
  BY FlightSeq, FlightSend
<1>2. ASSUME NEW p, Untold(q, p), n.path # p PROVE Untold(q, p)'
  <2>1. entry[p][q] = None /\ \A i \in DOMAIN s : s[i].path # p
    BY <1>2 DEF Untold
  <2>2. entry'[p][q] = None /\ \A i \in DOMAIN t : t[i].path # p
    BY <1>1, <1>2, <2>1
  <2>3. QED
    BY <2>2 DEF Untold
<1>3. CatchupIsFirst(q)'
  <2>1. SUFFICES ASSUME NEW i \in DOMAIN t, t[i].kind = "Catchup"
                 PROVE  entry'[t[i].path][q] = None /\ \A j \in 1..(i - 1) : t[j].path # t[i].path
    BY DEF CatchupIsFirst
  <2>2. CASE i \in DOMAIN s
    <3>1. /\ t[i] = s[i] /\ entry[s[i].path][q] = None
          /\ \A j \in 1..(i - 1) : s[j].path # s[i].path
      BY <1>1, <2>1, <2>2 DEF FirstConnection, CatchupIsFirst
    <3>2. \A j \in 1..(i - 1) : t[j] = s[j]
      BY <1>1, <2>2
    <3>3. QED
      BY <3>1, <3>2
  <2>3. CASE i = Len(s) + 1
    <3>1. t[i] = n /\ Untold(q, n.path)
      BY <1>1, <2>1, <2>3
    <3>2. \A j \in 1..(i - 1) : j \in DOMAIN s /\ t[j] = s[j]
      BY <1>1, <2>3
    <3>3. QED
      BY <3>1, <3>2 DEF Untold
  <2>4. QED
    BY <1>1, <2>2, <2>3
<1>4. leftover'[q] = <<>>
  BY DEF FirstConnection
<1>5. notifier'[q].pc \in {"off", "asked", "catchup"} => \A p \in Path : Untold(q, p)'
  BY <1>2 DEF FirstConnection
<1>6. notifier'[q].pc = "files" => \A f \in notifier'[q].files : Untold(q, f[1])'
  BY <1>2
<1>7. QED
  BY <1>3, <1>4, <1>5, <1>6 DEF FirstConnection

\* The task moves on without sending anything.
LEMMA FirstSilent ==
  ASSUME TypeOK, NEW q \in Peer, FirstConnection(q), UNCHANGED <<entry, leftover>>,
         InFlight(q)' = InFlight(q),
         notifier'[q].pc \in {"off", "asked", "catchup"} => notifier[q].pc \in {"off", "asked", "catchup"},
         notifier'[q].pc # "files"
  PROVE  FirstConnection(q)'
<1>1. \A p : Untold(q, p) => Untold(q, p)'
  BY DEF Untold
<1>2. CatchupIsFirst(q)'
  BY DEF CatchupIsFirst, FirstConnection
<1>3. QED
  BY <1>1, <1>2 DEF FirstConnection

\* The notifier task.
LEMMA FirstNotifier ==
  ASSUME SyncInv, SyncInv', NEW q \in Peer, FirstConnection(q), Notifier(q)
  PROVE  FirstConnection(q)'
<1>1. /\ TypeOK /\ TypeOK' /\ notifier \in [Peer -> NotifierState]
      /\ notifier[q] \in NotifierState
      /\ notifier[q].current \in 0..MaxHistory
      /\ notifier[q].next \in 0..MaxHistory + 1
      /\ notifier[q].files \in SUBSET (Path \X Hash)
      /\ uuid[q] \in 0..MaxUuid
  <2>1. TypeOK /\ TypeOK' /\ uuid[q] \in 0..MaxUuid /\ notifier \in [Peer -> NotifierState]
    BY DEF SyncInv, TypeOK
  <2>2. QED
    BY <2>1, NotifierFields
<1>2. /\ 0 \in 0..MaxHistory /\ 0 \in 0..MaxUuid
      /\ "Catchup" \in Given \cup Taken /\ "Catchup" \notin Taken \cup {"Replace"}
  BY DEF Given, Taken
<1>3. UNCHANGED <<entry, leftover, batch>>
  BY DEF Notifier, StartNotifier, StartCatchup, SendCatchup, EndCatchup, SendNotification,
         NotificationsSent, HistoryChanged, cacheVars
<1>4. CASE StartNotifier(q)
  <2> DEFINE n == Signal("Connected", 0, uuid[q])
  <2>1. notifier[q].pc = "asked" /\ Send(q, n) /\ notifier'[q].pc \in {"catchup", "send"}
    BY <1>1, <1>4 DEF StartNotifier, NotifierState
  <2>2. n \in Notification /\ n.kind = "Connected" /\ n.path = None
    BY <1>1, <1>2, SignalType DEF Signal
  <2> HIDE DEF n
  <2>3. QED
    BY <1>1, <1>3, <2>1, <2>2, FirstSend
<1>5. CASE StartCatchup(q)
  <2> DEFINE n == Signal("CatchupStart", 0, 0)
             fs == {f \in Path \X Hash : index[q][f[1]] = f[2]}
  <2>1. /\ notifier[q].pc = "catchup" /\ Send(q, n) /\ notifier'[q].pc = "files"
        /\ notifier'[q].files = fs
    BY <1>1, <1>5 DEF StartCatchup, NotifierState
  <2>2. n \in Notification /\ n.kind = "CatchupStart" /\ n.path = None
    BY <1>1, <1>2, SignalType DEF Signal
  <2>3. \A f \in fs : f[1] \in Path /\ \A g \in fs : f[1] = g[1] => f = g
    OBVIOUS
  <2>4. \A p \in Path : Untold(q, p)
    BY <2>1 DEF FirstConnection
  <2> HIDE DEF n, fs
  <2>5. QED
    BY <1>1, <1>3, <2>1, <2>2, <2>3, <2>4, FirstSend
<1>6. CASE SendCatchup(q)
  <2>1. PICK f \in notifier[q].files :
          /\ Send(q, About("Catchup", f[1], f[2], None, 0))
          /\ notifier' = [notifier EXCEPT ![q] = [@ EXCEPT !.files = notifier[q].files \ {f}]]
    BY <1>6 DEF SendCatchup
  <2> DEFINE n == About("Catchup", f[1], f[2], None, 0)
  <2>2. f[1] \in Path /\ f[2] \in Hash
    BY <1>1, <2>1
  <2>3. n \in Notification /\ n.kind = "Catchup" /\ n.path = f[1] /\ Send(q, n)
    BY <1>2, <2>1, <2>2, AboutType DEF About
  <2>4. notifier[q].pc = "files" /\ notifier'[q].pc = "files"
        /\ notifier'[q].files = notifier[q].files \ {f}
    BY <1>1, <1>6, <2>1 DEF SendCatchup, NotifierState
  <2>5. \A g \in notifier[q].files : /\ Untold(q, g[1])
                                     /\ \A h \in notifier[q].files : g[1] = h[1] => g = h
    BY <2>4 DEF FirstConnection
  <2> HIDE DEF n
  <2>6. QED
    BY <1>1, <1>3, <2>1, <2>3, <2>4, <2>5, FirstSend
<1>7. CASE EndCatchup(q)
  <2> DEFINE n == Signal("CatchupComplete", notifier[q].current, 0)
  <2>1. Send(q, n) /\ notifier'[q].pc = "wait"
    BY <1>1, <1>7 DEF EndCatchup, NotifierState
  <2>2. n \in Notification /\ n.kind = "CatchupComplete"
    BY <1>1, <1>2, SignalType
  <2> HIDE DEF n
  <2>3. QED
    BY <1>1, <1>3, <2>1, <2>2, FirstSend
<1>8. CASE SendNotification(q)
  <2> DEFINE i == notifier[q].next
  <2>1. /\ notifier[q].pc = "send" /\ notifier'[q].pc = "send"
        /\ i <= notifier[q].current
        /\ channel' = channel \/ \E n \in Notify(q, i) : Send(q, n)
    BY <1>1, <1>8 DEF SendNotification, NotifierState
  <2>2. IndexTypeOK /\ i \in 1..Len(history[q])
    <3>1. IndexTypeOK
      BY <1>1 DEF TypeOK
    <3>2. Len(history[q]) \in Nat
      BY <3>1 DEF IndexTypeOK
    <3>3. notifier[q].current <= Len(history[q]) /\ i >= 1 /\ i \in Nat /\ notifier[q].current \in Nat
      BY <1>1, <2>1 DEF SyncInv, WithinHistory
    <3> HIDE DEF i
    <3>4. QED
      BY <2>1, <3>1, <3>2, <3>3
  <2> HIDE DEF i
  <2>3. \A n \in Notify(q, i) : n \in Notification /\ n.kind # "Catchup"
    BY <1>1, <2>2, NotifyType, NotifySays
  <2>4. CASE channel' = channel
    <3>1. InFlight(q)' = InFlight(q)
      BY <1>3, <2>4 DEF InFlight
    <3>2. QED
      BY <1>1, <1>3, <2>1, <3>1, FirstSilent
  <2>5. CASE \E n \in Notify(q, i) : Send(q, n)
    BY <1>1, <1>3, <2>1, <2>3, <2>5, FirstSend
  <2>6. QED
    BY <2>1, <2>4, <2>5
<1>9. CASE NotificationsSent(q) \/ HistoryChanged(q)
  <2>1. notifier'[q].pc \in {"wait", "send"} /\ channel' = channel
    <3>1. CASE NotificationsSent(q)
      BY <1>1, <3>1 DEF NotificationsSent, NotifierState
    <3>2. CASE HistoryChanged(q)
      BY <1>1, <3>2 DEF HistoryChanged, NotifierState
    <3>3. QED
      BY <1>9, <3>1, <3>2
  <2>2. InFlight(q)' = InFlight(q)
    BY <1>3, <2>1 DEF InFlight
  <2>3. QED
    BY <1>1, <1>3, <2>1, <2>2, FirstSilent
<1>10. QED
  BY <1>4, <1>5, <1>6, <1>7, <1>8, <1>9 DEF Notifier

\* A notification is applied.
LEMMA FirstApply ==
  ASSUME SyncInv, SyncInv', NEW q \in Peer, DefaultAvailable, FirstConnection(q), ApplyNotification(q)
  PROVE  DefaultAvailable' /\ FirstConnection(q)'
<1> DEFINE s == InFlight(q)
           t == InFlight(q)'
           n == Head(batch[q])
<1>1. TypeOK /\ TypeOK' /\ CacheTypeOK
  BY DEF SyncInv, TypeOK
<1>2. PICK k \in 1..Len(batch[q]) :
        /\ Len(t) = Len(s) - k
        /\ \A i \in DOMAIN t : i + k \in DOMAIN s /\ t[i] = s[i + k]
  BY <1>1, FlightApply
<1>3. n = s[1] /\ 1 \in DOMAIN s /\ k \in Nat /\ k >= 1 /\ DOMAIN s = 1..Len(s) /\ DOMAIN t = 1..Len(t)
      /\ n \in Notification /\ Len(s) \in Nat /\ Len(t) \in Nat
  <2>1. n = s[1] /\ 1 \in DOMAIN s
    BY <1>1, FlightApply
  <2>2. Len(batch[q]) \in Nat
    BY <1>1, FlightSeq
  <2>3. k \in Nat /\ k >= 1
    BY <2>2
  <2>4. DOMAIN s = 1..Len(s) /\ Len(s) \in Nat /\ \A i \in DOMAIN s : s[i] \in Notification
    BY <1>1, FlightSeq
  <2>5. DOMAIN t = 1..Len(t) /\ Len(t) \in Nat
    <3>1. batch'[q] \in Seq(Notification) /\ channel'[q] \in Seq(Notification)
      BY <1>1 DEF TypeOK
    <3>2. QED
      BY <3>1, Joined DEF InFlight
  <2>6. QED
    BY <2>1, <2>3, <2>4, <2>5
<1>4. Update(q, n) /\ UNCHANGED <<notifier, leftover>>
  BY DEF ApplyNotification
<1>5. \A i \in DOMAIN s : s[i].kind = "Catchup" =>
        s[i].path \in Path /\ entry[s[i].path][q] = None /\ \A j \in 1..(i - 1) : s[j].path # s[i].path
  <2>1. \A i \in DOMAIN s : s[i].kind = "Catchup" => s[i].path \in Path
    BY <1>1, FlightSeq, NotificationFields DEF Given
  <2>2. QED
    BY <2>1 DEF FirstConnection, CatchupIsFirst
<1> HIDE DEF n
<1>6. DefaultAvailable'
  BY <1>1, <1>3, <1>4, <1>5, UpdateAvailable
<1>7. ASSUME NEW p \in Path, n.path # p, entry[p][q] = None PROVE entry'[p][q] = None
  BY <1>1, <1>3, <1>4, <1>7, UpdateEntries
<1>8. ASSUME NEW p \in Path, Untold(q, p) PROVE Untold(q, p)'
  <2>1. entry[p][q] = None /\ \A i \in DOMAIN s : s[i].path # p
    BY <1>8 DEF Untold
  <2>2. entry'[p][q] = None
    BY <1>3, <1>7, <2>1
  <2>3. \A i \in DOMAIN t : t[i].path # p
    BY <1>2, <2>1
  <2>4. QED
    BY <2>2, <2>3 DEF Untold
<1>9. CatchupIsFirst(q)'
  <2>1. SUFFICES ASSUME NEW i \in DOMAIN t, t[i].kind = "Catchup"
                 PROVE  entry'[t[i].path][q] = None /\ \A j \in 1..(i - 1) : t[j].path # t[i].path
    BY DEF CatchupIsFirst
  <2>2. PICK m \in DOMAIN s : m = i + k /\ t[i] = s[m]
    BY <1>2, <2>1
  <2>3. /\ s[m].path \in Path /\ entry[s[m].path][q] = None
        /\ \A j \in 1..(m - 1) : s[j].path # s[m].path
    BY <1>5, <2>1, <2>2
  <2>4. m \in Nat /\ i \in Nat \ {0} /\ m = i + k
    BY <1>3, <2>1, <2>2
  <2>5. entry'[t[i].path][q] = None
    <3>1. 1 \in 1..(m - 1)
      BY <1>3, <2>4
    <3>2. QED
      BY <1>3, <1>7, <2>2, <2>3, <3>1
  <2>6. ASSUME NEW j \in 1..(i - 1) PROVE t[j].path # t[i].path
    <3>1. j \in DOMAIN t /\ j + k \in 1..(m - 1)
      BY <1>3, <2>1, <2>4, <2>6
    <3>2. t[j] = s[j + k]
      BY <1>2, <3>1
    <3>3. QED
      BY <2>2, <2>3, <3>1, <3>2
  <2>7. QED
    BY <2>5, <2>6
<1>10. notifier[q].files \subseteq Path \X Hash
  BY <1>1, NotifierFields
<1>11. \A f \in notifier[q].files : f[1] \in Path
  BY <1>10
<1>12. QED
  BY <1>4, <1>6, <1>8, <1>9, <1>11 DEF FirstConnection

\* Every step keeps the invariant of first connections.
LEMMA FirstStep == ASSUME SyncInv, SyncInv', FirstInv, [Next]_vars PROVE FirstInv'
<1>1. SUFFICES ASSUME disconnects' = 0 PROVE DefaultAvailable' /\ \A r \in Peer : FirstConnection(r)'
  BY DEF FirstInv
<1>2. /\ TypeOK /\ TypeOK' /\ CacheTypeOK /\ batch \in [Peer -> Seq(Notification)]
      /\ notifier \in [Peer -> NotifierState]
      /\ disconnects \in Nat
  BY DEF SyncInv, TypeOK
<1>3. CASE disconnects # 0
  <2>1. disconnects' \in {disconnects, disconnects + 1}
    BY DEF Next, vars, syncVars, ChangeIndex, RunCallback, Subscribe, Notifier, SendBatch,
           ApplyNotification, ApplyLeftover, Disconnect, RebuildIndex, StartNotifier, StartCatchup,
           SendCatchup, EndCatchup, SendNotification, NotificationsSent, HistoryChanged
  <2>2. QED
    BY <1>1, <1>2, <1>3, <2>1
<1>4. CASE disconnects = 0
  <2>1. DefaultAvailable /\ \A r \in Peer : FirstConnection(r)
    BY <1>4 DEF FirstInv
  <2>2. ASSUME UNCHANGED <<entry, default>> PROVE DefaultAvailable'
    BY <2>1, <2>2 DEF DefaultAvailable, FileAvailability
  <2>3. ASSUME \A r \in Peer : InFlight(r)' = InFlight(r), UNCHANGED <<entry, default, notifier, leftover>>
        PROVE  DefaultAvailable' /\ \A r \in Peer : FirstConnection(r)'
    BY <1>2, <2>1, <2>2, <2>3, FirstSame
  <2>4. ASSUME NEW q \in Peer, FirstConnection(q)',
               \A r \in Peer \ {q} : InFlight(r)' = InFlight(r) /\ notifier'[r] = notifier[r],
               UNCHANGED <<entry, default, leftover>>
        PROVE  DefaultAvailable' /\ \A r \in Peer : FirstConnection(r)'
    BY <1>2, <2>1, <2>2, <2>4, FirstSame
  <2>5. ASSUME NEW q \in Peer, ChangeIndex(q) \/ (\E w \in Writer : RunCallback(q, w)) \/ RebuildIndex(q)
        PROVE  DefaultAvailable' /\ \A r \in Peer : FirstConnection(r)'
    <3>1. UNCHANGED <<entry, default, notifier, leftover, channel, batch>>
      BY <2>5 DEF ChangeIndex, RunCallback, RebuildIndex, cacheVars, syncVars
    <3>2. QED
      BY <2>3, <3>1 DEF InFlight
  <2>6. ASSUME NEW q \in Peer, SendBatch(q) PROVE DefaultAvailable' /\ \A r \in Peer : FirstConnection(r)'
    <3>1. UNCHANGED <<entry, default, notifier, leftover>>
      BY <2>6 DEF SendBatch, cacheVars
    <3>2. QED
      BY <1>2, <2>3, <2>6, <3>1, FlightBatch
  <2>7. ASSUME NEW q \in Peer, Subscribe(q) PROVE DefaultAvailable' /\ \A r \in Peer : FirstConnection(r)'
    <3> DEFINE st == [NoNotifier EXCEPT !.pc = "asked", !.lastSeen = seen[q], !.identity = known[q]]
    <3>1. st.pc = "asked"
      BY NoNotifierType DEF NotifierState
    <3>2. /\ notifier' = [notifier EXCEPT ![q] = st] /\ notifier[q].pc = "off"
          /\ UNCHANGED <<entry, default, leftover, channel, batch>>
      BY <2>7 DEF Subscribe, cacheVars
    <3> HIDE DEF st
    <3>3. notifier'[q].pc = "asked" /\ \A r \in Peer \ {q} : notifier'[r] = notifier[r]
      BY <1>2, <3>1, <3>2
    <3>4. \A r \in Peer : InFlight(r)' = InFlight(r)
      BY <3>2 DEF InFlight
    <3>5. FirstConnection(q)'
      BY <1>2, <2>1, <3>2, <3>3, <3>4, FirstSilent
    <3>6. QED
      BY <2>4, <3>2, <3>3, <3>4, <3>5
  <2>8. ASSUME NEW q \in Peer, Notifier(q) PROVE DefaultAvailable' /\ \A r \in Peer : FirstConnection(r)'
    <3>1. UNCHANGED <<entry, default, leftover, batch>>
      BY <2>8 DEF Notifier, StartNotifier, StartCatchup, SendCatchup, EndCatchup, SendNotification,
             NotificationsSent, HistoryChanged, cacheVars
    <3>2. \A r \in Peer \ {q} : notifier'[r] = notifier[r] /\ channel'[r] = channel[r]
      BY <1>2, <2>8 DEF TypeOK, Notifier, StartNotifier, StartCatchup, SendCatchup, EndCatchup,
             SendNotification, NotificationsSent, HistoryChanged, Send
    <3>3. \A r \in Peer \ {q} : InFlight(r)' = InFlight(r)
      BY <3>1, <3>2 DEF InFlight
    <3>4. FirstConnection(q)'
      BY <2>1, <2>8, FirstNotifier
    <3>5. QED
      BY <2>4, <3>1, <3>2, <3>3, <3>4
  <2>9. ASSUME NEW q \in Peer, ApplyNotification(q) PROVE DefaultAvailable' /\ \A r \in Peer : FirstConnection(r)'
    <3>1. DefaultAvailable' /\ FirstConnection(q)'
      BY <2>1, <2>9, FirstApply
    <3>2. UNCHANGED <<notifier, leftover>> /\ \A r \in Peer \ {q} : InFlight(r)' = InFlight(r)
      BY <1>2, <2>9, FlightApply DEF ApplyNotification
    <3>3. Update(q, Head(batch[q])) /\ Head(batch[q]) \in Notification
      BY <1>2, <2>9, AfterUpdateType DEF ApplyNotification
    <3>4. \A r \in Peer \ {q}, p \in Path : entry'[p][r] = entry[p][r]
      BY <1>2, <3>3, UpdateEntries
    <3>5. QED
      BY <1>2, <2>1, <3>1, <3>2, <3>4, FirstSame
  <2>10. ASSUME NEW q \in Peer, ApplyLeftover(q) PROVE DefaultAvailable' /\ \A r \in Peer : FirstConnection(r)'
    BY <2>1, <2>10 DEF ApplyLeftover, FirstConnection
  <2>11. ASSUME NEW q \in Peer, Disconnect(q) PROVE DefaultAvailable' /\ \A r \in Peer : FirstConnection(r)'
    BY <1>1, <1>4, <2>11 DEF Disconnect
  <2>12. CASE UNCHANGED vars
    <3>1. UNCHANGED <<entry, default, notifier, leftover, channel, batch>>
      BY <2>12 DEF vars, cacheVars, syncVars
    <3>2. QED
      BY <2>3, <3>1 DEF InFlight
  <2>13. QED
    BY <2>5, <2>6, <2>7, <2>8, <2>9, <2>10, <2>11, <2>12 DEF Next
<1>5. QED
  BY <1>3, <1>4

\* As long as no connection has broken, the version shown to users is one some
\* peer still has, for any number of peers and files, whatever they add,
\* replace, remove and drop, however notifications are batched and whichever of
\* them fail (ArenaCache::update, do_rm_file_entry).
THEOREM ShownIsAvailableCorrect == Spec => []ShownIsAvailable
<1>1. Init => FirstInv
  <2>1. SUFFICES ASSUME Init PROVE FirstInv
    OBVIOUS
  <2>2. DefaultAvailable
    BY <2>1 DEF Init, CacheInit, DefaultAvailable
  <2>3. ASSUME NEW q \in Peer PROVE FirstConnection(q)
    <3>1. batch[q] = <<>> /\ channel[q] = <<>> /\ leftover[q] = <<>> /\ notifier[q].pc = "off"
          /\ \A p \in Path : entry[p][q] = None
      BY <2>1, NoNotifierType DEF Init, CacheInit
    <3>2. DOMAIN InFlight(q) = {}
      BY <3>1 DEF InFlight
    <3>3. QED
      BY <3>1, <3>2 DEF FirstConnection, Untold, CatchupIsFirst
  <2>4. QED
    BY <2>2, <2>3 DEF FirstInv
<1>2. SyncInv /\ SyncInv' /\ FirstInv /\ [Next]_vars => FirstInv'
  BY FirstStep
<1>3. FirstInv => ShownIsAvailable
  BY DEF FirstInv, ShownIsAvailable
<1>4. QED
  BY <1>1, <1>2, <1>3, SyncInvCorrect, PTL DEF Spec

-----------------------------------------------------------------------------
(* The cache follows the indexes *)

\* What the theorem on QuietMeansInSync is about: one thread changes an index,
\* files are not dropped, a notification that fails takes no other with it, a
\* broken connection leaves nothing behind and indexes are not rebuilt.
Orderly ==
  /\ \E w : Writer = {w}
  /\ MaxDrops = 0
  /\ BatchMax = 1
  /\ MaxLeftovers = 0
  /\ MaxUuid = 1

\* A version that is accounted for by later entries is so by more of them.
LEMMA SinceEarlier ==
  ASSUME NEW q, NEW p, NEW v, NEW k \in Int, NEW m \in Int, m <= k, Since(q, p, v, k)
  PROVE  Since(q, p, v, m)
<1>1. \A j \in (k + 1)..Len(history[q]) : j \in (m + 1)..Len(history[q])
  OBVIOUS
<1>2. QED
  BY <1>1 DEF Since

\* The order of the kinds of notifications.
LEMMA PhaseFacts ==
  ASSUME NEW n
  PROVE  /\ Phase(n) \in 0..4
         /\ Phase(n) = 0 <=> n.kind = "Connected"
         /\ Phase(n) = 1 <=> n.kind = "CatchupStart"
         /\ Phase(n) = 2 <=> n.kind = "Catchup"
         /\ Phase(n) = 3 <=> n.kind = "CatchupComplete"
         /\ n.kind \in Changes => Phase(n) = 4
         /\ n \in Notification /\ Phase(n) = 4 => n.kind \in Changes \cup {"Drop"}
<1>1. CASE n.kind = "Connected"
  BY <1>1 DEF Phase, Changes
<1>2. CASE n.kind = "CatchupStart"
  BY <1>2 DEF Phase, Changes
<1>3. CASE n.kind = "Catchup"
  BY <1>3 DEF Phase, Changes
<1>4. CASE n.kind = "CatchupComplete"
  BY <1>4 DEF Phase, Changes
<1>5. CASE n.kind \notin {"Connected", "CatchupStart", "Catchup", "CatchupComplete"}
  <2>1. Phase(n) = 4
    BY <1>5 DEF Phase
  <2>2. n \in Notification => n.kind \in Kind
    BY NotificationFields
  <2>3. QED
    BY <1>5, <2>1, <2>2 DEF Kind, Given, Taken, Changes
<1>6. QED
  BY <1>1, <1>2, <1>3, <1>4, <1>5

\* How far the notifier has got.
LEMMA SentType ==
  ASSUME SyncInv, NEW q \in Peer, NotifierFollows(q), notifier[q].pc \notin {"off", "asked"}
  PROVE  Sent(q) \in Nat /\ Len(history[q]) \in Nat /\ Sent(q) <= Len(history[q]) /\ seen[q] \in Nat
<1>1. TypeOK /\ IndexTypeOK /\ CacheTypeOK /\ WithinHistory
  BY DEF SyncInv, TypeOK
<1>2. /\ notifier[q].lastSeen \in Nat /\ notifier[q].current \in Nat
      /\ notifier[q].next \in Nat /\ seen[q] \in Nat
      /\ notifier[q].pc \in {"off", "asked", "catchup", "files", "send", "wait"}
  BY <1>1, NotifierFields DEF CacheTypeOK
<1>3. Len(history[q]) \in Nat
  BY <1>1 DEF IndexTypeOK
<1>4. notifier[q].pc = "send" => notifier[q].next >= 1
  BY <1>1 DEF WithinHistory
<1>5. Sent(q) \in Nat
  BY <1>2, <1>4 DEF Sent
<1>6. Sent(q) <= notifier[q].current /\ notifier[q].current <= Len(history[q])
  BY <1>1 DEF NotifierFollows, WithinHistory
<1>7. QED
  BY <1>2, <1>3, <1>5, <1>6

\* A peer that a step is not about: at most marks of files it does not have go.
LEMMA PeerSame ==
  ASSUME SyncInv, NEW q \in Peer, PeerFollowed(q),
         index'[q] = index[q], history'[q] = history[q], watch'[q] = watch[q], hook'[q] = hook[q],
         q \in signalled' <=> q \in signalled,
         \A p \in Path : entry'[p][q] = entry[p][q],
         \A p \in Path : <<q, p>> \in marked' => <<q, p>> \in marked,
         \A p \in Path : <<q, p>> \in marked => <<q, p>> \in marked' \/ entry[p][q] = None,
         seen'[q] = seen[q], known'[q] = known[q], uuid'[q] = uuid[q],
         notifier'[q] = notifier[q], InFlight(q)' = InFlight(q), Len(batch'[q]) <= 1,
         leftover'[q] = leftover[q]
  PROVE  PeerFollowed(q)'
<1>1. Sent(q)' = Sent(q)
  BY DEF Sent
<1>2. \A p, v, k : Since(q, p, v, k)' <=> Since(q, p, v, k)
  BY DEF Since
<1>3. \A p, v, i : Accounted(q, p, v, i)' <=> Accounted(q, p, v, i)
  BY <1>1, <1>2 DEF Accounted
<1>4. /\ InCatchup(q)' <=> InCatchup(q)
      /\ Begun(q)' <=> Begun(q)
      /\ \A p : Awaited(q, p)' <=> Awaited(q, p)
  BY DEF InCatchup, Begun, Awaited
<1>5. \A p \in Path : Left(q, p)' = Left(q, p)
  BY <1>4 DEF Left
<1>6. WatchFollows(q)'
  BY <1>2 DEF PeerFollowed, WatchFollows
<1>7. NotifierFollows(q)'
  BY <1>1 DEF PeerFollowed, NotifierFollows
<1>8. FlightRight(q)'
  BY <1>1, <1>3 DEF PeerFollowed, FlightRight
<1>9. FlightOrder(q)'
  BY DEF PeerFollowed, FlightOrder
<1>10. CacheFollows(q)'
  BY <1>1, <1>2, <1>3, <1>4, <1>5 DEF PeerFollowed, CacheFollows
<1>11. QED
  BY <1>6, <1>7, <1>8, <1>9, <1>10 DEF PeerFollowed

\* An after-commit callback.
LEMMA PeerCallback ==
  ASSUME SyncInv, NEW q \in Peer, PeerFollowed(q), NEW w \in Writer, Writer = {w}, RunCallback(q, w)
  PROVE  PeerFollowed(q)'
<1>1. /\ hook[q][w] # 0
      /\ watch' = [watch EXCEPT ![q] = hook[q][w]]
      /\ hook' = [hook EXCEPT ![q][w] = 0]
      /\ signalled' = signalled \cup {q}
      /\ UNCHANGED <<index, history, entry, marked, seen, known, uuid, notifier, channel, batch, leftover>>
  BY DEF RunCallback, AfterCommit, cacheVars, syncVars
<1>2. IndexTypeOK /\ WithinHistory /\ TypeOK /\ CacheTypeOK
  BY DEF SyncInv, TypeOK
<1>3. /\ watch'[q] = Len(history[q]) /\ Len(history[q]) \in Nat \ {0} /\ q \in signalled'
      /\ \A x \in Writer : hook'[q][x] = 0
      /\ watch[q] \in Nat /\ watch[q] <= Len(history[q])
  <2>1. hook[q][w] = Len(history[q])
    BY <1>1 DEF PeerFollowed, WatchFollows
  <2>2. Len(history[q]) \in Nat /\ watch[q] \in Nat
    BY <1>2 DEF IndexTypeOK
  <2>3. watch'[q] = Len(history[q])
    BY <1>1, <1>2, <2>1 DEF IndexTypeOK
  <2>4. \A x \in Writer : hook'[q][x] = 0
    BY <1>1, <1>2 DEF IndexTypeOK
  <2>5. watch[q] <= Len(history[q])
    BY <1>2 DEF WithinHistory
  <2>6. QED
    BY <1>1, <2>1, <2>2, <2>3, <2>4, <2>5
<1>4. Sent(q)' = Sent(q) /\ InFlight(q)' = InFlight(q)
  BY <1>1 DEF Sent, InFlight
<1>5. \A p, v, k : Since(q, p, v, k)' <=> Since(q, p, v, k)
  BY <1>1 DEF Since
<1>6. \A p, v, i : Accounted(q, p, v, i)' <=> Accounted(q, p, v, i)
  BY <1>4, <1>5 DEF Accounted
<1>7. /\ InCatchup(q)' <=> InCatchup(q)
      /\ \A p : Awaited(q, p)' <=> Awaited(q, p)
      /\ \A p : Left(q, p)' = Left(q, p)
  BY <1>1, <1>4 DEF InCatchup, Begun, Awaited, Left
<1>8. WatchFollows(q)'
  BY <1>1, <1>3, <1>5 DEF PeerFollowed, WatchFollows
<1>9. NotifierFollows(q)'
  <2>1. seen[q] \in Nat /\ notifier[q].current \in Nat
    BY <1>2, NotifierFields DEF CacheTypeOK
  <2>2. seen[q] <= watch'[q] /\ (notifier[q].pc \notin {"off", "asked"} => notifier[q].current <= watch'[q])
    BY <1>3, <2>1 DEF PeerFollowed, NotifierFollows
  <2>3. QED
    BY <1>1, <1>3, <1>4, <2>2 DEF PeerFollowed, NotifierFollows
<1>10. FlightRight(q)'
  BY <1>1, <1>4, <1>6 DEF PeerFollowed, FlightRight
<1>11. FlightOrder(q)'
  BY <1>1, <1>4 DEF PeerFollowed, FlightOrder
<1>12. CacheFollows(q)'
  BY <1>1, <1>3, <1>4, <1>5, <1>6, <1>7 DEF PeerFollowed, CacheFollows
<1>13. QED
  BY <1>8, <1>9, <1>10, <1>11, <1>12 DEF PeerFollowed

\* What the history is to a version goes on when entries are added to it.
LEMMA SinceGrows ==
  ASSUME NEW q, NEW p \in Path, NEW v, NEW k \in Nat, k <= Len(history[q]), Since(q, p, v, k),
         Len(history[q]) \in Nat, Len(history'[q]) \in Nat, Len(history'[q]) > Len(history[q]),
         \A j \in 1..Len(history[q]) : history'[q][j] = history[q][j],
         \/ index'[q][p] = index[q][p]
         \/ \E j \in (Len(history[q]) + 1)..Len(history'[q]) :
              history'[q][j].path = p /\ history'[q][j].old = index[q][p]
  PROVE  Since(q, p, v, k)'
<1>1. CASE v = index[q][p]
  <2>1. \A j \in (Len(history[q]) + 1)..Len(history'[q]) : j \in (k + 1)..Len(history'[q])
    OBVIOUS
  <2>2. QED
    BY <1>1, <2>1 DEF Since
<1>2. ASSUME NEW j \in (k + 1)..Len(history[q]), history[q][j].path = p, history[q][j].old = v
      PROVE  Since(q, p, v, k)'
  <2>1. j \in (k + 1)..Len(history'[q]) /\ history'[q][j] = history[q][j]
    OBVIOUS
  <2>2. QED
    BY <1>2, <2>1 DEF Since
<1>3. QED
  BY <1>1, <1>2 DEF Since

\* A transaction on the index of q.
LEMMA PeerChange ==
  ASSUME SyncInv, SyncInv', MaxDrops = 0, NEW q \in Peer, PeerFollowed(q),
         NEW w \in Writer, Writer = {w}, ChangeIndex(q)
  PROVE  PeerFollowed(q)'
<1>1. TypeOK /\ WithinHistory /\ IndexTypeOK /\ IndexTypeOK' /\ CacheTypeOK
  BY DEF SyncInv, TypeOK
<1>2. IndexChange(q) /\ UNCHANGED <<entry, marked, seen, known, uuid, notifier, channel, batch, leftover>>
  BY DEF ChangeIndex, cacheVars, syncVars
<1>3. /\ hook[q][w] = 0
      /\ hook' = [hook EXCEPT ![q][w] = Len(history'[q])]
      /\ watch' = watch /\ signalled' = signalled
      /\ Len(history'[q]) > Len(history[q])
      /\ \A j \in 1..Len(history[q]) : history'[q][j] = history[q][j]
      /\ \A j \in (Len(history[q]) + 1)..Len(history'[q]) :
           /\ history'[q][j].kind # "Drop"
           /\ history'[q][j].kind = "Add" => history'[q][j].old = None
      /\ \A p \in Path :
           \/ index'[q][p] = index[q][p]
           \/ \E j \in (Len(history[q]) + 1)..Len(history'[q]) :
                history'[q][j].path = p /\ history'[q][j].old = index[q][p]
  BY <1>1, <1>2, IndexTransacts
<1>4. Len(history[q]) \in Nat /\ Len(history'[q]) \in Nat /\ hook \in [Peer -> [Writer -> 0..MaxHistory]]
      /\ history'[q] \in Seq(HistoryEntry) /\ history[q] \in Seq(HistoryEntry)
  <2>1. history[q] \in Seq(HistoryEntry)
    BY <1>1 DEF IndexTypeOK
  <2>2. history'[q] \in Seq(HistoryEntry)
    BY <1>1 DEF IndexTypeOK
  <2>3. hook \in [Peer -> [Writer -> 0..MaxHistory]]
    BY <1>1 DEF IndexTypeOK
  <2>4. \A s \in Seq(HistoryEntry) : Len(s) \in Nat
    OBVIOUS
  <2>5. QED
    BY <2>1, <2>2, <2>3, <2>4, Zenon
<1>5. Sent(q)' = Sent(q) /\ InFlight(q)' = InFlight(q)
  BY <1>2 DEF Sent, InFlight
<1>6. ASSUME NEW p \in Path, NEW v, NEW k \in Nat, k <= Len(history[q]), Since(q, p, v, k)
      PROVE  Since(q, p, v, k)'
  BY <1>3, <1>4, <1>6, SinceGrows
<1>7. ASSUME notifier[q].pc \notin {"off", "asked"}
      PROVE  Sent(q) \in Nat /\ Sent(q) <= Len(history[q])
  BY <1>7, SentType DEF PeerFollowed
<1>8. ASSUME notifier[q].pc \notin {"off", "asked"}, NEW p \in Path, NEW v, NEW i, Accounted(q, p, v, i)
      PROVE  Accounted(q, p, v, i)'
  BY <1>5, <1>6, <1>7, <1>8 DEF Accounted
<1>9. /\ InCatchup(q)' <=> InCatchup(q)
      /\ \A p : Awaited(q, p)' <=> Awaited(q, p)
      /\ \A p : Left(q, p)' = Left(q, p)
  BY <1>2, <1>5 DEF InCatchup, Begun, Awaited, Left
<1>10. WatchFollows(q)'
  <2>1. hook'[q][w] = Len(history'[q]) /\ hook'[q][w] # 0
    BY <1>3, <1>4
  <2>2. \A p \in Path : Since(q, p, None, 0)'
    BY <1>4, <1>6 DEF PeerFollowed, WatchFollows
  <2>3. ASSUME NEW j \in DOMAIN history'[q]
        PROVE  /\ history'[q][j].kind # "Drop"
               /\ history'[q][j].kind = "Add" => history'[q][j].old = None
    <3>1. CASE j \in 1..Len(history[q])
      <4>1. j \in DOMAIN history[q]
        BY <1>4, <3>1
      <4>2. QED
        BY <1>3, <3>1, <4>1 DEF PeerFollowed, WatchFollows
    <3>2. CASE j \notin 1..Len(history[q])
      <4>1. j \in (Len(history[q]) + 1)..Len(history'[q])
        BY <1>4, <2>3, <3>2
      <4>2. QED
        BY <1>3, <4>1
    <3>3. QED
      BY <3>1, <3>2
  <2>4. QED
    BY <2>1, <2>2, <2>3 DEF WatchFollows
<1>11. NotifierFollows(q)'
  BY <1>2, <1>3, <1>5 DEF PeerFollowed, NotifierFollows
<1>12. FlightRight(q)'
  <2>1. CASE notifier[q].pc \in {"off", "asked"}
    <3>1. InFlight(q)' = <<>>
      BY <1>5, <2>1 DEF PeerFollowed, NotifierFollows
    <3>2. DOMAIN InFlight(q)' = {}
      BY <3>1
    <3>3. QED
      BY <1>2, <3>2 DEF PeerFollowed, FlightRight
  <2>2. CASE notifier[q].pc \notin {"off", "asked"}
    <3>1. \A i \in DOMAIN InFlight(q) :
            /\ InFlight(q)[i].kind \in Changes \cup {"Catchup"} => InFlight(q)[i].path \in Path
            /\ InFlight(q)[i].index \in 0..MaxHistory
      <4>1. \A i \in DOMAIN InFlight(q) : InFlight(q)[i] \in Notification
        BY <1>1, FlightSeq
      <4>2. QED
        BY <4>1, NotificationFields DEF Changes, Given, Taken
    <3>2. seen[q] \in Nat
      BY <1>1 DEF CacheTypeOK
    <3>3. ASSUME NEW i \in DOMAIN InFlight(q), InFlight(q)[i].kind \in Changes
          PROVE  history'[q][InFlight(q)[i].index] = history[q][InFlight(q)[i].index]
      <4>1. InFlight(q)[i].index \in (seen[q] + 1)..Sent(q)
        BY <3>3 DEF PeerFollowed, FlightRight, Indexed
      <4>2. Sent(q) \in Nat /\ Sent(q) <= Len(history[q]) /\ Len(history[q]) \in Nat
        BY <1>4, <1>7, <2>2
      <4>3. \A m \in (seen[q] + 1)..Sent(q) : m \in 1..Len(history[q])
        BY <3>2, <4>2
      <4>4. QED
        BY <1>3, <4>1, <4>3
    <3>4. QED
      BY <1>2, <1>5, <1>8, <2>2, <3>1, <3>3 DEF PeerFollowed, FlightRight
  <2>3. QED
    BY <2>1, <2>2
<1>13. FlightOrder(q)'
  BY <1>2, <1>5 DEF PeerFollowed, FlightOrder
<1>14. CacheFollows(q)'
  <2>1. watch'[q] = 0 => /\ \A p \in Path : entry'[p][q] = None
                         /\ \A i \in DOMAIN InFlight(q)' : InFlight(q)'[i].kind = "Connected"
    BY <1>2, <1>3, <1>5 DEF PeerFollowed, CacheFollows
  <2>2. ASSUME notifier[q].pc \in {"off", "asked"}, seen[q] # 0
        PROVE  \A p \in Path : Since(q, p, entry[p][q], seen[q])'
    <3>1. seen[q] \in Nat /\ watch[q] \in Nat /\ seen[q] <= watch[q] /\ watch[q] <= Len(history[q])
      BY <1>1 DEF CacheTypeOK, IndexTypeOK, PeerFollowed, NotifierFollows, WithinHistory
    <3>2. seen[q] <= Len(history[q])
      BY <1>4, <3>1
    <3>3. \A p \in Path : Since(q, p, entry[p][q], seen[q])
      BY <2>2 DEF PeerFollowed, CacheFollows
    <3>4. \A p \in Path : \A v : Since(q, p, v, seen[q]) => Since(q, p, v, seen[q])'
      BY <1>2, <1>6, <3>1, <3>2
    <3>5. QED
      BY <1>2, <3>3, <3>4
  <2>3. ASSUME notifier[q].pc \notin {"off", "asked"}, ~InCatchup(q)
        PROVE  \A p \in Path : Accounted(q, p, entry[p][q], 0)'
    BY <1>2, <1>8, <2>3 DEF PeerFollowed, CacheFollows
  <2>4. ASSUME InCatchup(q), notifier[q].pc # "catchup"
        PROVE  \A p \in Path : Awaited(q, p)' \/ Accounted(q, p, Left(q, p), 0)'
    <3>1. notifier[q].pc \notin {"off", "asked"}
      <4>1. InFlight(q) = <<>> => DOMAIN InFlight(q) = {}
        OBVIOUS
      <4>2. QED
        BY <2>4, <4>1 DEF InCatchup, PeerFollowed, NotifierFollows
    <3>2. QED
      BY <1>8, <1>9, <2>4, <3>1 DEF PeerFollowed, CacheFollows
  <2>5. ASSUME notifier[q].pc = "files", NEW f \in notifier[q].files
        PROVE  Since(q, f[1], f[2], Sent(q))'
    <3>1. f[1] \in Path
      BY <1>1, NotifierFields
    <3>2. Since(q, f[1], f[2], Sent(q)) /\ Sent(q) \in Nat /\ Sent(q) <= Len(history[q])
      BY <1>7, <2>5 DEF PeerFollowed, CacheFollows
    <3>3. QED
      BY <1>5, <1>6, <3>1, <3>2
  <2>6. QED
    BY <1>2, <1>3, <1>5, <1>9, <2>1, <2>2, <2>3, <2>4, <2>5 DEF PeerFollowed, CacheFollows
<1>15. QED
  BY <1>10, <1>11, <1>12, <1>13, <1>14 DEF PeerFollowed

\* subscribe_self
LEMMA PeerSubscribe ==
  ASSUME SyncInv, NEW q \in Peer, PeerFollowed(q), Subscribe(q)
  PROVE  PeerFollowed(q)'
<1>1. TypeOK
  BY DEF SyncInv
<1>2. /\ notifier[q].pc = "off"
      /\ notifier' = [notifier EXCEPT ![q] =
           [NoNotifier EXCEPT !.pc = "asked", !.lastSeen = seen[q], !.identity = known[q]]]
      /\ UNCHANGED <<index, history, watch, hook, signalled, entry, marked, seen, known, uuid,
                     channel, batch, leftover>>
  BY DEF Subscribe, indexVars, cacheVars
<1>3. notifier'[q].pc = "asked" /\ notifier'[q].lastSeen = seen[q] /\ notifier'[q].identity = known[q]
  BY <1>1, <1>2 DEF NoNotifier, TypeOK
<1>4. InFlight(q)' = <<>> /\ InFlight(q) = <<>>
  BY <1>2 DEF InFlight, PeerFollowed, NotifierFollows
<1>5. DOMAIN InFlight(q)' = {} /\ DOMAIN InFlight(q) = {}
  BY <1>4
<1>6. \A p, v, k : Since(q, p, v, k)' <=> Since(q, p, v, k)
  BY <1>2 DEF Since
<1>7. WatchFollows(q)'
  BY <1>2, <1>6 DEF PeerFollowed, WatchFollows
<1>8. NotifierFollows(q)'
  BY <1>2, <1>3, <1>4 DEF PeerFollowed, NotifierFollows
<1>9. FlightRight(q)'
  BY <1>2, <1>5 DEF PeerFollowed, FlightRight
<1>10. FlightOrder(q)'
  BY <1>2, <1>3, <1>5 DEF PeerFollowed, FlightOrder
<1>11. ~InCatchup(q)'
  BY <1>3, <1>5 DEF InCatchup
<1>12. CacheFollows(q)'
  BY <1>2, <1>3, <1>4, <1>5, <1>6, <1>11 DEF PeerFollowed, CacheFollows
<1>13. QED
  BY <1>7, <1>8, <1>9, <1>10, <1>12 DEF PeerFollowed

\* do_subscribe
LEMMA PeerBatch ==
  ASSUME SyncInv, BatchMax = 1, QuietInv, NEW q \in Peer, SendBatch(q)
  PROVE  QuietInv'
<1>1. TypeOK
  BY DEF SyncInv
<1>2. UNCHANGED <<index, history, watch, hook, signalled, entry, marked, seen, known, uuid,
                  notifier, leftover>>
  BY DEF SendBatch, indexVars, cacheVars
<1>3. \A r \in Peer : InFlight(r)' = InFlight(r)
  BY <1>1, FlightBatch
<1>4. ASSUME NEW r \in Peer PROVE Len(batch'[r]) <= 1
  <2>1. batch \in [Peer -> Seq(Notification)] /\ channel[q] \in Seq(Notification)
    BY <1>1 DEF TypeOK
  <2>2. CASE r = q
    <3> DEFINE size == IF Len(channel[q]) < BatchMax THEN Len(channel[q]) ELSE BatchMax
    <3>1. batch'[q] = SubSeq(channel[q], 1, size)
      BY <2>1 DEF SendBatch
    <3>2. size \in 0..Len(channel[q]) /\ size <= 1
      BY <2>1
    <3> HIDE DEF size
    <3>3. Len(batch'[q]) = size
      BY <2>1, <3>1, <3>2
    <3>4. QED
      BY <2>2, <3>2, <3>3
  <2>3. CASE r # q
    <3>1. batch'[r] = batch[r]
      BY <2>1, <2>3 DEF SendBatch
    <3>2. QED
      BY <3>1 DEF QuietInv, PeerFollowed, FlightRight
  <2>4. QED
    BY <2>2, <2>3
<1>5. ASSUME NEW r \in Peer PROVE PeerFollowed(r)'
  BY <1>2, <1>3, <1>4, PeerSame DEF QuietInv
<1>6. QED
  BY <1>5 DEF QuietInv

\* What is accounted for stays so when the notifier deals with one more entry of
\* the history at most, and the version the entry replaced is still accounted
\* for: by the index or by a notification that is sent.
LEMMA AccountedGoes ==
  ASSUME SyncInv, SyncInv', NEW q \in Peer, NEW m \in Nat, Sent(q) = m, m <= Len(history[q]),
         UNCHANGED <<index, history>>,
         \A j \in DOMAIN InFlight(q) : j \in DOMAIN InFlight(q)' /\ InFlight(q)'[j] = InFlight(q)[j],
         \/ Sent(q)' = m
         \/ /\ Sent(q)' = m + 1
            /\ \/ history[q][m + 1].old = index[q][history[q][m + 1].path]
               \/ /\ Len(InFlight(q)) + 1 \in DOMAIN InFlight(q)'
                  /\ InFlight(q)'[Len(InFlight(q)) + 1].kind \in Changes
                  /\ InFlight(q)'[Len(InFlight(q)) + 1].path = history[q][m + 1].path
                  /\ InFlight(q)'[Len(InFlight(q)) + 1].old = history[q][m + 1].old,
         NEW p, NEW v, NEW i \in 0..Len(InFlight(q)), Accounted(q, p, v, i)
  PROVE  Accounted(q, p, v, i)'
<1>1. TypeOK /\ IndexTypeOK
  BY DEF SyncInv, TypeOK
<1>2. Len(history[q]) \in Nat
  BY <1>1 DEF IndexTypeOK
<1>3. Len(InFlight(q)) \in Nat
  BY <1>1, FlightSeq
<1>4. \A x, y, k : Since(q, x, y, k)' <=> Since(q, x, y, k)
  BY DEF Since
<1>5. ASSUME NEW j \in DOMAIN InFlight(q), j > i, InFlight(q)[j].kind \in Changes,
             InFlight(q)[j].path = p, InFlight(q)[j].old = v
      PROVE  Accounted(q, p, v, i)'
  BY <1>5 DEF Accounted
<1>6. CASE Sent(q)' = m /\ Since(q, p, v, m)
  BY <1>4, <1>6 DEF Accounted
<1>7. CASE Sent(q)' = m + 1 /\ Since(q, p, v, m)
  <2>1. CASE Since(q, p, v, m + 1)
    BY <1>4, <1>7, <2>1 DEF Accounted
  <2>2. CASE ~Since(q, p, v, m + 1)
    <3>1. history[q][m + 1].path = p /\ history[q][m + 1].old = v
      <4>1. PICK j \in (m + 1)..Len(history[q]) : history[q][j].path = p /\ history[q][j].old = v
        BY <1>7, <2>2 DEF Since
      <4>2. j \notin (m + 1 + 1)..Len(history[q])
        BY <2>2, <4>1 DEF Since
      <4>3. j = m + 1
        BY <1>2, <4>1, <4>2
      <4>4. QED
        BY <4>1, <4>3
    <3>2. v # index[q][p]
      BY <2>2 DEF Since
    <3>3. /\ Len(InFlight(q)) + 1 \in DOMAIN InFlight(q)'
          /\ InFlight(q)'[Len(InFlight(q)) + 1].kind \in Changes
          /\ InFlight(q)'[Len(InFlight(q)) + 1].path = p
          /\ InFlight(q)'[Len(InFlight(q)) + 1].old = v
      <4>1. m + 1 # m
        OBVIOUS
      <4>2. QED
        BY <1>7, <3>1, <3>2, <4>1
    <3>4. Len(InFlight(q)) + 1 > i
      BY <1>3
    <3>5. QED
      BY <3>3, <3>4 DEF Accounted
  <2>3. QED
    BY <2>1, <2>2
<1>8. Sent(q)' = m \/ Sent(q)' = m + 1
  OBVIOUS
<1>9. QED
  BY <1>5, <1>6, <1>7, <1>8 DEF Accounted

\* A notification is sent that says what the history does.
LEMMA RightSend ==
  ASSUME SyncInv, SyncInv', NEW q \in Peer, PeerFollowed(q), notifier[q].pc \notin {"off", "asked"},
         NEW n \in Notification, Send(q, n), UNCHANGED <<index, history, seen, leftover, batch>>,
         Sent(q)' = Sent(q) \/ (Sent(q)' = Sent(q) + 1 /\ n.kind \in Changes),
         n.kind \in Changes => /\ history[q][n.index].path = n.path
                               /\ history[q][n.index].old = n.old
                               /\ n.kind = "Add" => n.old = None
                               /\ n.kind = "Remove" => n.hash = None,
         n.kind \in Indexed => /\ n.index = Sent(q)'
                               /\ n.index > seen[q]
                               /\ \A i \in DOMAIN InFlight(q) : InFlight(q)[i].kind \in Indexed
                                                                  => InFlight(q)[i].index < n.index,
         n.kind \in Changes \cup {"Catchup"} => Since(q, n.path, n.hash, Sent(q)')
  PROVE  /\ FlightRight(q)'
         /\ \A p, v : Accounted(q, p, v, 0) => Accounted(q, p, v, 0)'
<1>1. TypeOK /\ TypeOK' /\ CacheTypeOK
  BY DEF SyncInv, TypeOK
<1>2. PICK m \in Nat : m = Sent(q) /\ m <= Len(history[q])
  BY SentType DEF PeerFollowed
<1>3. PICK l \in Nat : l = Len(InFlight(q)) /\ DOMAIN InFlight(q) = 1..l
  BY <1>1, FlightSeq
<1>4. /\ \A i \in DOMAIN InFlight(q) : InFlight(q)'[i] = InFlight(q)[i]
      /\ InFlight(q)'[l + 1] = n
      /\ DOMAIN InFlight(q)' = DOMAIN InFlight(q) \cup {l + 1}
  BY <1>1, <1>3, FlightSend
<1>s. PICK s : s = InFlight(q)
  OBVIOUS
<1>t. PICK t : t = InFlight(q)'
  OBVIOUS
<1>5. \A i \in DOMAIN s : s[i] \in Notification
  BY <1>1, <1>s, FlightSeq
<1>6. \A i \in DOMAIN s : s[i].index \in 0..MaxHistory
  BY <1>5, NotificationFields
<1>7. n.index \in 0..MaxHistory /\ seen[q] \in Nat
  BY <1>1, NotificationFields DEF CacheTypeOK
<1>8. ASSUME NEW p, NEW v, NEW i \in 0..l, Accounted(q, p, v, i)
      PROVE  Accounted(q, p, v, i)'
  <2>1. \A j \in DOMAIN InFlight(q) : j \in DOMAIN InFlight(q)' /\ InFlight(q)'[j] = InFlight(q)[j]
    BY <1>4
  <2>2. \/ Sent(q)' = m
        \/ /\ Sent(q)' = m + 1
           /\ Len(InFlight(q)) + 1 \in DOMAIN InFlight(q)'
           /\ InFlight(q)'[Len(InFlight(q)) + 1].kind \in Changes
           /\ InFlight(q)'[Len(InFlight(q)) + 1].path = history[q][m + 1].path
           /\ InFlight(q)'[Len(InFlight(q)) + 1].old = history[q][m + 1].old
    BY <1>2, <1>3, <1>4 DEF Indexed
  <2>3. QED
    BY <1>2, <1>3, <1>8, <2>1, <2>2, AccountedGoes
<1>9. PICK k \in Nat : k = Sent(q)' /\ m <= k
  BY <1>2
<1>10. /\ \A i \in DOMAIN t : i \in DOMAIN s \/ i = l + 1
       /\ \A i \in DOMAIN s : t[i] = s[i]
       /\ t[l + 1] = n /\ DOMAIN s = 1..l
  BY <1>3, <1>4, <1>s, <1>t
<1>11. /\ \A i \in DOMAIN s : s[i].kind \in Changes =>
             /\ history[q][s[i].index].path = s[i].path
             /\ history[q][s[i].index].old = s[i].old
             /\ s[i].kind = "Add" => s[i].old = None
             /\ s[i].kind = "Remove" => s[i].hash = None
       /\ \A i \in DOMAIN s : s[i].kind \in Indexed => s[i].index \in (seen[q] + 1)..m
       /\ \A i, j \in DOMAIN s : i < j /\ s[i].kind \in Indexed /\ s[j].kind \in Indexed
                                   => s[i].index < s[j].index
       /\ \A i \in DOMAIN s : s[i].kind \in Changes \cup {"Catchup"}
                                   => Accounted(q, s[i].path, s[i].hash, i)
  BY <1>2, <1>s DEF PeerFollowed, FlightRight
<1>12. \A i \in DOMAIN t : t[i].kind \in Changes =>
             /\ history[q][t[i].index].path = t[i].path
             /\ history[q][t[i].index].old = t[i].old
             /\ t[i].kind = "Add" => t[i].old = None
             /\ t[i].kind = "Remove" => t[i].hash = None
  BY <1>10, <1>11
<1>13. ASSUME NEW i \in DOMAIN t, t[i].kind \in Indexed PROVE t[i].index \in (seen[q] + 1)..k
  <2>1. CASE i \in DOMAIN s
    <3>1. t[i] = s[i] /\ s[i].index \in (seen[q] + 1)..m
      BY <1>10, <1>11, <1>13, <2>1
    <3>2. \A x \in (seen[q] + 1)..m : x \in (seen[q] + 1)..k
      BY <1>7, <1>9
    <3>3. QED
      BY <3>1, <3>2
  <2>2. CASE i = l + 1
    BY <1>7, <1>9, <1>10, <1>13, <2>2
  <2>3. QED
    BY <1>10, <2>1, <2>2
<1>14. ASSUME NEW i \in DOMAIN t, NEW j \in DOMAIN t, i < j, t[i].kind \in Indexed, t[j].kind \in Indexed
       PROVE  t[i].index < t[j].index
  <2>1. i \in DOMAIN s
    BY <1>10, <1>14
  <2>2. CASE j \in DOMAIN s
    BY <1>10, <1>11, <1>14, <2>1, <2>2
  <2>3. CASE j = l + 1
    BY <1>10, <1>14, <1>s, <2>1, <2>3
  <2>4. QED
    BY <1>10, <2>2, <2>3
<1>15. ASSUME NEW i \in DOMAIN t, t[i].kind \in Changes \cup {"Catchup"}
       PROVE  Accounted(q, t[i].path, t[i].hash, i)'
  <2>1. CASE i \in DOMAIN s
    <3>1. t[i] = s[i] /\ Accounted(q, s[i].path, s[i].hash, i) /\ i \in 0..l
      BY <1>10, <1>11, <1>15, <2>1
    <3>2. QED
      BY <1>8, <3>1
  <2>2. CASE i = l + 1
    <3>1. Since(q, n.path, n.hash, Sent(q)') /\ t[i] = n
      BY <1>10, <1>15, <2>2
    <3>2. Since(q, n.path, n.hash, Sent(q))'
      BY <3>1 DEF Since
    <3>3. QED
      BY <3>1, <3>2 DEF Accounted
  <2>3. QED
    BY <1>10, <2>1, <2>2
<1>16. Len(batch'[q]) <= 1 /\ leftover'[q] = <<>>
  BY DEF PeerFollowed, FlightRight
<1>17. FlightRight(q)'
  BY <1>9, <1>12, <1>13, <1>14, <1>15, <1>16, <1>t DEF FlightRight
<1>18. 0 \in 0..l
  OBVIOUS
<1>19. QED
  BY <1>8, <1>17, <1>18

\* A notification is sent in its turn.
LEMMA OrderSend ==
  ASSUME TypeOK, TypeOK', NEW q \in Peer, PeerFollowed(q), notifier[q].pc \notin {"off", "asked"},
         NEW n \in Notification, Send(q, n), UNCHANGED <<seen, known, uuid, batch>>,
         n.kind \notin {"Drop", "Connected"},
         \A i \in DOMAIN InFlight(q) : Phase(InFlight(q)[i]) <= Phase(n)
                                       /\ (Phase(InFlight(q)[i]) = 3 => Phase(n) = 4),
         notifier'[q].pc # "catchup",
         notifier'[q].pc = "files" => notifier[q].pc \in {"catchup", "files"} /\ Phase(n) <= 2
  PROVE  FlightOrder(q)'
<1>1. PICK l \in Nat : l = Len(InFlight(q)) /\ DOMAIN InFlight(q) = 1..l
  BY FlightSeq
<1>s. PICK s : s = InFlight(q)
  OBVIOUS
<1>t. PICK t : t = InFlight(q)'
  OBVIOUS
<1>2. /\ \A i \in DOMAIN t : i \in DOMAIN s \/ i = l + 1
      /\ \A i \in DOMAIN s : i \in DOMAIN t /\ t[i] = s[i]
      /\ t[l + 1] = n /\ DOMAIN s = 1..l
  <2>1. batch' = batch
    OBVIOUS
  <2>2. /\ \A i \in DOMAIN InFlight(q) : InFlight(q)'[i] = InFlight(q)[i]
        /\ InFlight(q)'[Len(InFlight(q)) + 1] = n
        /\ DOMAIN InFlight(q)' = DOMAIN InFlight(q) \cup {Len(InFlight(q)) + 1}
    BY <2>1, FlightSend
  <2>3. QED
    BY ONLY <1>1, <1>s, <1>t, <2>2
<1>3. /\ \A i \in DOMAIN s : s[i].kind # "Drop" /\ (s[i].kind = "Connected" => s[i].uuid = uuid[q])
      /\ \A i, j \in DOMAIN s : i < j => /\ Phase(s[i]) <= Phase(s[j])
                                         /\ Phase(s[i]) = 3 => Phase(s[j]) = 4
      /\ \A i \in DOMAIN s : Phase(s[i]) <= Phase(n) /\ (Phase(s[i]) = 3 => Phase(n) = 4)
      /\ known[q] # uuid[q] => seen[q] = 0 /\ 1 \in DOMAIN s /\ s[1].kind = "Connected"
      /\ notifier[q].pc = "catchup" => \A i \in DOMAIN s : Phase(s[i]) = 0
      /\ notifier[q].pc = "files" => \A i \in DOMAIN s : Phase(s[i]) <= 2
  BY <1>s DEF PeerFollowed, FlightOrder
<1>4. \A i \in DOMAIN t : t[i].kind # "Drop" /\ (t[i].kind = "Connected" => t[i].uuid = uuid[q])
  BY <1>2, <1>3
<1>5. ASSUME NEW i \in DOMAIN t, NEW j \in DOMAIN t, i < j
      PROVE  Phase(t[i]) <= Phase(t[j]) /\ (Phase(t[i]) = 3 => Phase(t[j]) = 4)
  <2>1. i \in DOMAIN s
    BY <1>2, <1>5
  <2>2. QED
    BY <1>2, <1>3, <1>5, <2>1
<1>6. known[q] # uuid[q] => seen[q] = 0 /\ 1 \in DOMAIN t /\ t[1].kind = "Connected"
  BY <1>2, <1>3
<1>7. notifier'[q].pc = "files" => \A i \in DOMAIN t : Phase(t[i]) <= 2
  BY <1>2, <1>3
<1>8. QED
  BY <1>4, <1>5, <1>6, <1>7, <1>t DEF FlightOrder

\* The types of what is kept about a peer.
LEMMA PeerTypes ==
  ASSUME TypeOK, NEW q \in Peer
  PROVE  /\ notifier[q] \in NotifierState /\ notifier \in [Peer -> NotifierState]
         /\ notifier[q].pc \in {"off", "asked", "catchup", "files", "send", "wait"}
         /\ notifier[q].lastSeen \in Nat /\ notifier[q].current \in Nat /\ notifier[q].next \in Nat
         /\ notifier[q].current \in 0..MaxHistory
         /\ notifier[q].files \subseteq Path \X Hash
         /\ seen[q] \in Nat /\ watch[q] \in Nat /\ uuid[q] \in 0..MaxUuid
         /\ Len(history[q]) \in Nat
<1>1. IndexTypeOK /\ CacheTypeOK /\ notifier \in [Peer -> NotifierState] /\ uuid[q] \in 0..MaxUuid
  BY DEF TypeOK
<1>2. seen[q] \in Nat
  BY <1>1 DEF CacheTypeOK
<1>3. watch[q] \in Nat
  BY <1>1 DEF IndexTypeOK
<1>4. Len(history[q]) \in Nat
  BY <1>1 DEF IndexTypeOK
<1>5. \A x \in 0..MaxHistory + 1 : x \in Nat
  OBVIOUS
<1>6. QED
  BY <1>1, <1>2, <1>3, <1>4, <1>5, NotifierFields

\* notifier::subscribe up to the point where it knows what to send.
LEMMA PeerStartNotifier ==
  ASSUME SyncInv, SyncInv', NEW q \in Peer, PeerFollowed(q), StartNotifier(q)
  PROVE  PeerFollowed(q)'
<1>1. TypeOK /\ TypeOK' /\ CacheTypeOK /\ IndexTypeOK
  BY DEF SyncInv, TypeOK
<1>2. /\ notifier[q] \in NotifierState /\ notifier \in [Peer -> NotifierState]
      /\ seen[q] \in Nat /\ watch[q] \in Nat /\ uuid[q] \in 0..MaxUuid
  BY <1>1, PeerTypes
<1>3. UNCHANGED <<index, history, watch, hook, entry, marked, seen, known, uuid, leftover, batch>>
  BY DEF StartNotifier, cacheVars
<1>4. notifier[q].pc = "asked" /\ notifier[q].lastSeen = seen[q] /\ notifier[q].identity = known[q]
  BY DEF StartNotifier, PeerFollowed, NotifierFollows
<1>5. known[q] # uuid[q] => seen[q] = 0
  BY DEF PeerFollowed, FlightOrder
<1>6. /\ notifier'[q].pc = IF seen[q] = 0 /\ watch[q] > 0 THEN "catchup" ELSE "send"
      /\ notifier'[q].current = watch[q]
      /\ notifier'[q].next = seen[q] + 1
  <2>1. (IF notifier[q].identity = uuid[q] THEN notifier[q].lastSeen ELSE 0) = seen[q]
    BY <1>4, <1>5
  <2>2. QED
    BY <1>2, <2>1 DEF StartNotifier, NotifierState, NeedsCatchup, FirstUnseen
<1>7. /\ notifier'[q].pc = "catchup" => Sent(q)' = watch[q]
      /\ notifier'[q].pc = "send" => Sent(q)' = seen[q]
  BY <1>2, <1>6 DEF Sent
<1> DEFINE n == Signal("Connected", 0, uuid[q])
<1>8. n \in Notification /\ n.kind = "Connected" /\ n.uuid = uuid[q] /\ Send(q, n)
  <2>1. 0 \in 0..MaxHistory
    OBVIOUS
  <2>2. QED
    BY <1>2, <2>1, SignalType DEF StartNotifier
<1> HIDE DEF n
<1>9. InFlight(q) = <<>> /\ Len(InFlight(q)) = 0 /\ DOMAIN InFlight(q) = {}
  BY <1>4 DEF PeerFollowed, NotifierFollows
<1>10. DOMAIN InFlight(q)' = {1} /\ InFlight(q)'[1] = n
  <2>1. /\ InFlight(q)'[Len(InFlight(q)) + 1] = n
        /\ DOMAIN InFlight(q)' = DOMAIN InFlight(q) \cup {Len(InFlight(q)) + 1}
    BY <1>1, <1>3, <1>8, FlightSend
  <2>2. QED
    BY <1>9, <2>1
<1>11. \A p, v, k : Since(q, p, v, k)' <=> Since(q, p, v, k)
  BY <1>3 DEF Since
<1>12. seen[q] <= watch[q]
  BY DEF PeerFollowed, NotifierFollows
<1>13. notifier'[q].pc \in {"catchup", "send"}
  BY <1>6
<1>14. WatchFollows(q)'
  BY <1>3, <1>11 DEF PeerFollowed, WatchFollows
<1>15. NotifierFollows(q)'
  <2>1. seen[q] <= Sent(q)' /\ Sent(q)' <= watch[q]
    BY <1>2, <1>7, <1>12, <1>13
  <2>2. QED
    BY <1>2, <1>3, <1>6, <1>12, <1>13, <2>1 DEF NotifierFollows
<1>16. n.kind \notin Changes /\ n.kind \notin Indexed
  BY <1>8 DEF Changes, Indexed
<1>17. FlightRight(q)'
  <2>1. Len(batch'[q]) <= 1 /\ leftover'[q] = <<>>
    BY <1>3 DEF PeerFollowed, FlightRight
  <2>2. n.kind # "Catchup"
    BY <1>8
  <2>3. QED
    BY <1>10, <1>16, <2>1, <2>2 DEF FlightRight
<1>18. FlightOrder(q)'
  <2>1. Phase(n) = 0
    BY <1>8, PhaseFacts
  <2>2. \A i, j \in {1} : ~(i < j)
    OBVIOUS
  <2>3. QED
    BY <1>3, <1>5, <1>8, <1>10, <1>13, <2>1, <2>2 DEF FlightOrder
<1>19. CacheFollows(q)'
  <2>1. InCatchup(q)' <=> notifier'[q].pc = "catchup"
    BY <1>8, <1>10, <1>13 DEF InCatchup
  <2>2. watch[q] = 0 => \A p \in Path : entry[p][q] = None
    BY DEF PeerFollowed, CacheFollows
  <2>3. ASSUME notifier'[q].pc = "send", NEW p \in Path PROVE Accounted(q, p, entry[p][q], 0)'
    <3>1. CASE seen[q] # 0
      <4>1. Since(q, p, entry[p][q], seen[q])
        BY <1>4, <3>1 DEF PeerFollowed, CacheFollows
      <4>2. QED
        BY <1>3, <1>7, <1>11, <2>3, <4>1 DEF Accounted
    <3>2. CASE seen[q] = 0
      <4>1. watch[q] = 0
        BY <1>2, <1>6, <2>3, <3>2
      <4>2. entry[p][q] = None /\ Since(q, p, None, 0)
        BY <2>2, <4>1 DEF PeerFollowed, WatchFollows
      <4>3. QED
        BY <1>3, <1>7, <1>11, <2>3, <3>2, <4>2 DEF Accounted
    <3>3. QED
      BY <3>1, <3>2
  <2>4. notifier'[q].pc = "catchup" => seen[q] = 0
    BY <1>6
  <2>5. QED
    BY <1>3, <1>8, <1>10, <1>13, <2>1, <2>2, <2>3, <2>4 DEF CacheFollows
<1>20. QED
  BY <1>14, <1>15, <1>17, <1>18, <1>19 DEF PeerFollowed

\* catchup: CatchupStart and all_files
LEMMA PeerStartCatchup ==
  ASSUME SyncInv, SyncInv', NEW q \in Peer, PeerFollowed(q), StartCatchup(q)
  PROVE  PeerFollowed(q)'
<1>1. TypeOK /\ TypeOK' /\ CacheTypeOK /\ IndexTypeOK
  BY DEF SyncInv, TypeOK
<1>2. notifier[q] \in NotifierState /\ notifier \in [Peer -> NotifierState] /\ watch[q] \in Nat
      /\ notifier[q].current \in Nat
  BY <1>1, PeerTypes
<1>3. UNCHANGED <<index, history, watch, hook, signalled, entry, marked, seen, known, uuid, leftover, batch>>
  BY DEF StartCatchup, cacheVars, indexVars
<1> DEFINE n == Signal("CatchupStart", 0, 0)
           fs == {f \in Path \X Hash : index[q][f[1]] = f[2]}
<1>4. /\ notifier[q].pc = "catchup" /\ notifier'[q].pc = "files" /\ notifier'[q].files = fs
      /\ notifier'[q].current = notifier[q].current /\ Send(q, n)
  BY <1>2 DEF StartCatchup, NotifierState
<1>5. n \in Notification /\ n.kind = "CatchupStart"
  <2>1. 0 \in 0..MaxHistory /\ 0 \in 0..MaxUuid
    OBVIOUS
  <2>2. QED
    BY <2>1, SignalType
<1>6. /\ \A f \in fs : f[1] \in Path /\ f[2] = index[q][f[1]]
      /\ \A p \in Path : index[q][p] # None => \E f \in fs : f[1] = p
  <2>1. ASSUME NEW p \in Path, index[q][p] # None PROVE \E f \in fs : f[1] = p
    <3>1. index[q][p] \in Hash
      BY <1>1, <2>1 DEF IndexTypeOK
    <3>2. <<p, index[q][p]>> \in fs
      BY <3>1
    <3>3. QED
      BY <3>2
  <2>2. QED
    BY <2>1
<1> HIDE DEF n, fs
<1>7. Sent(q)' = notifier[q].current /\ Sent(q) = notifier[q].current
  BY <1>4 DEF Sent
<1>8. n.kind \notin Changes /\ n.kind \notin Indexed /\ n.kind # "Catchup" /\ Phase(n) = 1
  BY <1>5, PhaseFacts DEF Changes, Indexed
<1>9. \A i \in DOMAIN InFlight(q) : Phase(InFlight(q)[i]) = 0
  BY <1>4 DEF PeerFollowed, FlightOrder
<1>10. FlightRight(q)'
  BY <1>3, <1>4, <1>5, <1>7, <1>8, RightSend
<1>11. FlightOrder(q)'
  BY <1>1, <1>3, <1>4, <1>5, <1>8, <1>9, OrderSend
<1>12. \A p, v, k : Since(q, p, v, k)' <=> Since(q, p, v, k)
  BY <1>3 DEF Since
<1>13. WatchFollows(q)'
  BY <1>3, <1>12 DEF PeerFollowed, WatchFollows
<1>14. NotifierFollows(q)'
  BY <1>3, <1>4, <1>7 DEF PeerFollowed, NotifierFollows
<1>15. CacheFollows(q)'
  <2>1. watch[q] # 0
    <3>1. notifier[q].current <= watch[q] /\ notifier[q].current > 0
      BY <1>4 DEF PeerFollowed, NotifierFollows
    <3>2. QED
      BY <1>2, <3>1
  <2>2. seen[q] = 0
    BY <1>4 DEF PeerFollowed, CacheFollows, InCatchup
  <2>3. ~Begun(q)'
    <3>1. \E i \in DOMAIN InFlight(q)' : InFlight(q)'[i] = n
      BY <1>1, <1>3, <1>4, <1>5, FlightSend
    <3>2. QED
      BY <1>5, <3>1 DEF Begun
  <2>4. ASSUME NEW p \in Path PROVE Awaited(q, p)' \/ Accounted(q, p, Left(q, p), 0)'
    <3>1. CASE index[q][p] # None
      BY <1>4, <1>6, <3>1 DEF Awaited
    <3>2. CASE index[q][p] = None
      <4>1. Left(q, p)' = None
        BY <2>3 DEF Left
      <4>2. Since(q, p, None, Sent(q))'
        BY <1>3, <3>2 DEF Since
      <4>3. QED
        BY <4>1, <4>2 DEF Accounted
    <3>3. QED
      BY <3>1, <3>2
  <2>5. ASSUME NEW f \in fs PROVE Since(q, f[1], f[2], Sent(q))'
    BY <1>3, <1>6 DEF Since
  <2>6. InCatchup(q)'
    BY <1>4 DEF InCatchup
  <2>7. QED
    BY <1>3, <1>4, <2>1, <2>2, <2>4, <2>5, <2>6 DEF CacheFollows
<1>16. QED
  BY <1>10, <1>11, <1>13, <1>14, <1>15 DEF PeerFollowed

\* catchup: one Catchup
LEMMA PeerSendCatchup ==
  ASSUME SyncInv, SyncInv', NEW q \in Peer, PeerFollowed(q), SendCatchup(q)
  PROVE  PeerFollowed(q)'
<1>1. TypeOK /\ TypeOK' /\ CacheTypeOK /\ IndexTypeOK
  BY DEF SyncInv, TypeOK
<1>2. notifier[q] \in NotifierState /\ notifier \in [Peer -> NotifierState] /\ watch[q] \in Nat
      /\ notifier[q].current \in Nat /\ notifier[q].files \subseteq Path \X Hash
  BY <1>1, PeerTypes
<1>3. UNCHANGED <<index, history, watch, hook, signalled, entry, marked, seen, known, uuid, leftover, batch>>
  BY DEF SendCatchup, cacheVars, indexVars
<1>4. PICK f \in notifier[q].files :
        /\ Send(q, About("Catchup", f[1], f[2], None, 0))
        /\ notifier' = [notifier EXCEPT ![q] = [@ EXCEPT !.files = notifier[q].files \ {f}]]
  BY DEF SendCatchup
<1> DEFINE n == About("Catchup", f[1], f[2], None, 0)
<1>5. f[1] \in Path /\ f[2] \in Hash
  BY <1>2, <1>4
<1>6. n \in Notification /\ n.kind = "Catchup" /\ n.path = f[1] /\ n.hash = f[2] /\ Send(q, n)
  <2>1. /\ 0 \in 0..MaxHistory /\ None \in Hash \cup {None}
        /\ "Catchup" \in Given \cup Taken /\ "Catchup" \notin Taken \cup {"Replace"}
    BY DEF Given, Taken
  <2>2. QED
    BY <1>4, <1>5, <2>1, AboutType DEF About
<1>7. /\ notifier[q].pc = "files" /\ notifier'[q].pc = "files"
      /\ notifier'[q].files = notifier[q].files \ {f}
      /\ notifier'[q].current = notifier[q].current
  BY <1>2, <1>4 DEF SendCatchup, NotifierState
<1> HIDE DEF n
<1>8. Sent(q)' = Sent(q)
  BY <1>7 DEF Sent
<1>9. n.kind \notin Changes /\ n.kind \notin Indexed /\ Phase(n) = 2
  BY <1>6, PhaseFacts DEF Changes, Indexed
<1>10. \A i \in DOMAIN InFlight(q) : Phase(InFlight(q)[i]) <= 2 /\ Phase(InFlight(q)[i]) # 3
  <2>1. \A i \in DOMAIN InFlight(q) : Phase(InFlight(q)[i]) <= 2
    BY <1>7 DEF PeerFollowed, FlightOrder
  <2>2. \A x \in 0..4 : x <= 2 => x # 3
    OBVIOUS
  <2>3. QED
    BY <2>1, <2>2, PhaseFacts
<1>11. \A g \in notifier[q].files : Since(q, g[1], g[2], Sent(q))
  BY <1>7 DEF PeerFollowed, CacheFollows
<1>12. FlightRight(q)' /\ \A p, v : Accounted(q, p, v, 0) => Accounted(q, p, v, 0)'
  BY <1>3, <1>4, <1>6, <1>7, <1>8, <1>9, <1>11, RightSend
<1>13. FlightOrder(q)'
  BY <1>1, <1>3, <1>6, <1>7, <1>9, <1>10, OrderSend
<1>14. \A p, v, k : Since(q, p, v, k)' <=> Since(q, p, v, k)
  BY <1>3 DEF Since
<1>15. WatchFollows(q)'
  BY <1>3, <1>14 DEF PeerFollowed, WatchFollows
<1>16. NotifierFollows(q)'
  BY <1>3, <1>7, <1>8 DEF PeerFollowed, NotifierFollows
<1>17. /\ \A i \in DOMAIN InFlight(q) : i \in DOMAIN InFlight(q)' /\ InFlight(q)'[i] = InFlight(q)[i]
       /\ \E i \in DOMAIN InFlight(q)' : InFlight(q)'[i] = n
       /\ \A i \in DOMAIN InFlight(q)' : i \in DOMAIN InFlight(q) \/ InFlight(q)'[i] = n
  BY <1>1, <1>3, <1>6, FlightSend, ZenonT(40)
<1>18. CacheFollows(q)'
  <2>1. watch[q] # 0
    <3>1. notifier[q].current <= watch[q] /\ notifier[q].current > 0
      BY <1>7 DEF PeerFollowed, NotifierFollows
    <3>2. QED
      BY <1>2, <3>1
  <2>2. InCatchup(q) /\ InCatchup(q)'
    BY <1>7 DEF InCatchup
  <2>3. Begun(q)' <=> Begun(q)
    BY <1>6, <1>17 DEF Begun
  <2>4. \A p : Left(q, p)' = Left(q, p)
    BY <1>3, <2>3 DEF Left
  <2>5. \A p : Awaited(q, p) => Awaited(q, p)'
    BY <1>6, <1>7, <1>17 DEF Awaited
  <2>6. \A p \in Path : Awaited(q, p) \/ Accounted(q, p, Left(q, p), 0)
    BY <1>7, <2>2 DEF PeerFollowed, CacheFollows
  <2>7. \A p \in Path : Awaited(q, p)' \/ Accounted(q, p, Left(q, p), 0)'
    BY <1>12, <2>4, <2>5, <2>6
  <2>8. \A g \in notifier'[q].files : Since(q, g[1], g[2], Sent(q))'
    BY <1>7, <1>8, <1>11, <1>14
  <2>9. seen[q] = 0
    BY <2>2 DEF PeerFollowed, CacheFollows
  <2>10. QED
    BY <1>3, <1>7, <2>1, <2>2, <2>7, <2>8, <2>9 DEF CacheFollows
<1>19. QED
  BY <1>12, <1>13, <1>15, <1>16, <1>18 DEF PeerFollowed

\* catchup: CatchupComplete
LEMMA PeerEndCatchup ==
  ASSUME SyncInv, SyncInv', NEW q \in Peer, PeerFollowed(q), EndCatchup(q)
  PROVE  PeerFollowed(q)'
<1>1. TypeOK /\ TypeOK'
  BY DEF SyncInv
<1>2. notifier[q] \in NotifierState /\ notifier \in [Peer -> NotifierState] /\ watch[q] \in Nat
      /\ notifier[q].current \in 0..MaxHistory
  BY <1>1, PeerTypes
<1>3. UNCHANGED <<index, history, watch, hook, signalled, entry, marked, seen, known, uuid, leftover, batch>>
  BY DEF EndCatchup, cacheVars, indexVars
<1> DEFINE n == Signal("CatchupComplete", notifier[q].current, 0)
<1>4. /\ notifier[q].pc = "files" /\ notifier'[q].pc = "wait" /\ notifier[q].files = {}
      /\ notifier'[q].current = notifier[q].current
      /\ notifier'[q].lastSeen = notifier[q].current /\ Send(q, n)
  BY <1>2 DEF EndCatchup, NotifierState
<1>5. n \in Notification /\ n.kind = "CatchupComplete" /\ n.index = notifier[q].current
  <2>1. 0 \in 0..MaxUuid
    OBVIOUS
  <2>2. QED
    BY <1>2, <2>1, SignalType
<1> HIDE DEF n
<1>6. Sent(q)' = notifier[q].current /\ Sent(q) = notifier[q].current
  BY <1>4 DEF Sent
<1>7. n.kind \notin Changes /\ n.kind # "Catchup" /\ Phase(n) = 3
  BY <1>5, PhaseFacts DEF Changes
<1>8. \A i \in DOMAIN InFlight(q) : Phase(InFlight(q)[i]) <= 2 /\ Phase(InFlight(q)[i]) \in 0..4
  BY <1>4, PhaseFacts DEF PeerFollowed, FlightOrder
<1>9. \A i \in DOMAIN InFlight(q) : Phase(InFlight(q)[i]) # 3 /\ Phase(InFlight(q)[i]) # 4
                                     /\ Phase(InFlight(q)[i]) <= 3
  BY <1>8
<1>10. \A i \in DOMAIN InFlight(q) : InFlight(q)[i].kind \notin Indexed
  BY <1>9, PhaseFacts DEF Indexed
<1>11. InCatchup(q) /\ seen[q] = 0
  BY <1>4 DEF InCatchup, PeerFollowed, CacheFollows
<1>12. notifier[q].current > 0 /\ notifier[q].current <= watch[q]
  BY <1>4 DEF PeerFollowed, NotifierFollows
<1>13. FlightRight(q)' /\ \A p, v : Accounted(q, p, v, 0) => Accounted(q, p, v, 0)'
  BY <1>3, <1>4, <1>5, <1>6, <1>7, <1>10, <1>11, <1>12, RightSend
<1>14. FlightOrder(q)'
  BY <1>1, <1>3, <1>4, <1>5, <1>7, <1>9, OrderSend
<1>15. \A p, v, k : Since(q, p, v, k)' <=> Since(q, p, v, k)
  BY <1>3 DEF Since
<1>16. WatchFollows(q)'
  BY <1>3, <1>15 DEF PeerFollowed, WatchFollows
<1>17. NotifierFollows(q)'
  BY <1>3, <1>4, <1>6 DEF PeerFollowed, NotifierFollows
<1>18. /\ \A i \in DOMAIN InFlight(q) : i \in DOMAIN InFlight(q)' /\ InFlight(q)'[i] = InFlight(q)[i]
       /\ \E i \in DOMAIN InFlight(q)' : InFlight(q)'[i] = n
       /\ \A i \in DOMAIN InFlight(q)' : i \in DOMAIN InFlight(q) \/ InFlight(q)'[i] = n
  BY <1>1, <1>3, <1>4, <1>5, FlightSend
<1>19. CacheFollows(q)'
  <2>1. watch[q] # 0
    BY <1>2, <1>12
  <2>2. InCatchup(q)'
    BY <1>5, <1>18 DEF InCatchup
  <2>3. Begun(q)' <=> Begun(q)
    BY <1>5, <1>18 DEF Begun
  <2>4. \A p : Left(q, p)' = Left(q, p)
    BY <1>3, <2>3 DEF Left
  <2>5. \A p : Awaited(q, p) => Awaited(q, p)'
    BY <1>4, <1>18 DEF Awaited
  <2>6. \A p \in Path : Awaited(q, p) \/ Accounted(q, p, Left(q, p), 0)
    BY <1>4, <1>11 DEF PeerFollowed, CacheFollows
  <2>7. \A p \in Path : Awaited(q, p)' \/ Accounted(q, p, Left(q, p), 0)'
    BY <1>13, <2>4, <2>5, <2>6
  <2>8. QED
    BY <1>3, <1>4, <1>11, <2>1, <2>2, <2>7 DEF CacheFollows
<1>20. QED
  BY <1>13, <1>14, <1>16, <1>17, <1>19 DEF PeerFollowed

\* What CacheFollows needs of a step that deals with the history.
LEMMA CacheSends ==
  ASSUME NEW q \in Peer, PeerFollowed(q), watch[q] # 0,
         notifier[q].pc \in {"send", "wait"}, notifier'[q].pc \in {"send", "wait"},
         UNCHANGED <<watch, entry, marked, seen>>,
         \A p, v : Accounted(q, p, v, 0) => Accounted(q, p, v, 0)',
         \A i \in DOMAIN InFlight(q) : i \in DOMAIN InFlight(q)' /\ InFlight(q)'[i] = InFlight(q)[i],
         \A i \in DOMAIN InFlight(q)' : i \in DOMAIN InFlight(q) \/ InFlight(q)'[i].kind \in Changes
  PROVE  CacheFollows(q)'
<1>1. {"CatchupStart", "Catchup", "CatchupComplete"} \cap Changes = {}
  BY DEF Changes
<1>2. /\ InCatchup(q)' <=> InCatchup(q)
      /\ Begun(q)' <=> Begun(q)
      /\ \A p : Awaited(q, p)' <=> Awaited(q, p)
  BY <1>1 DEF InCatchup, Begun, Awaited
<1>3. \A p : Left(q, p)' = Left(q, p)
  BY <1>2 DEF Left
<1>4. QED
  BY <1>2, <1>3 DEF PeerFollowed, CacheFollows

\* send_notifications: one entry of the history
LEMMA PeerSendNotification ==
  ASSUME SyncInv, SyncInv', NEW q \in Peer, PeerFollowed(q), SendNotification(q)
  PROVE  PeerFollowed(q)'
<1>1. TypeOK /\ TypeOK' /\ IndexTypeOK /\ WithinHistory
  BY DEF SyncInv, TypeOK
<1>2. /\ notifier[q] \in NotifierState /\ notifier \in [Peer -> NotifierState]
      /\ watch[q] \in Nat /\ seen[q] \in Nat /\ Len(history[q]) \in Nat
      /\ notifier[q].current \in Nat /\ notifier[q].next \in Nat
  BY <1>1, PeerTypes
<1>3. UNCHANGED <<index, history, watch, hook, signalled, entry, marked, seen, known, uuid, leftover, batch>>
  BY DEF SendNotification, cacheVars, indexVars
<1>4. PICK i \in Nat : i = notifier[q].next
  BY <1>2
<1>5. /\ notifier[q].pc = "send" /\ notifier'[q].pc = "send" /\ i <= notifier[q].current
      /\ notifier'[q].current = notifier[q].current /\ notifier'[q].next = i + 1
      /\ \/ Notify(q, i) = {} /\ channel' = channel
         \/ \E n \in Notify(q, i) : Send(q, n)
  BY <1>2, <1>4 DEF SendNotification, NotifierState
<1>6. i >= 1 /\ notifier[q].current <= Len(history[q]) /\ notifier[q].current <= watch[q]
  BY <1>1, <1>4, <1>5 DEF WithinHistory, PeerFollowed, NotifierFollows
<1>7. i \in 1..Len(history[q]) /\ watch[q] # 0
  BY <1>2, <1>5, <1>6
<1>8. PICK m \in Nat : m + 1 = i /\ m = i - 1
  <2>1. i - 1 \in Nat /\ (i - 1) + 1 = i
    BY <1>6
  <2>2. QED
    BY <2>1
<1>9. Sent(q) = m /\ Sent(q)' = m + 1 /\ m + 1 = i
  BY <1>4, <1>5, <1>8 DEF Sent
<1>10. m <= Len(history[q]) /\ seen[q] <= m
  BY <1>2, <1>5, <1>6, <1>8, <1>9 DEF PeerFollowed, NotifierFollows
<1>11. history[q][i].kind # "Drop" /\ (history[q][i].kind = "Add" => history[q][i].old = None)
  <2>1. history[q] \in Seq(HistoryEntry)
    BY <1>1 DEF IndexTypeOK
  <2>2. i \in DOMAIN history[q]
    BY <1>7, <2>1
  <2>3. QED
    BY <2>2 DEF PeerFollowed, WatchFollows
<1>12. \A p, v, k : Since(q, p, v, k)' <=> Since(q, p, v, k)
  BY <1>3 DEF Since
<1>13. WatchFollows(q)'
  BY <1>3, <1>12 DEF PeerFollowed, WatchFollows
<1>14. NotifierFollows(q)'
  <2>1. seen[q] <= Sent(q)' /\ Sent(q)' <= notifier[q].current
    BY <1>2, <1>5, <1>9, <1>10
  <2>2. QED
    BY <1>3, <1>5, <2>1 DEF PeerFollowed, NotifierFollows
<1>15. CASE Notify(q, i) = {} /\ channel' = channel
  <2>1. InFlight(q)' = InFlight(q)
    BY <1>3, <1>15 DEF InFlight
  <2>2. history[q][m + 1].old = index[q][history[q][m + 1].path]
    BY <1>1, <1>7, <1>8, <1>11, <1>15, NotifySays
  <2>3. PICK l \in Nat : l = Len(InFlight(q)) /\ DOMAIN InFlight(q) = 1..l
    BY <1>1, FlightSeq
  <2>4. \A p, v : \A k \in 0..l : Accounted(q, p, v, k) => Accounted(q, p, v, k)'
    BY <1>3, <1>9, <1>10, <2>1, <2>2, <2>3, AccountedGoes
  <2>5. FlightRight(q)'
    <3>1. \A k \in DOMAIN InFlight(q) : k \in 0..l
      BY <2>3
    <3>2. \A x \in (seen[q] + 1)..m : x \in (seen[q] + 1)..(m + 1)
      BY <1>2
    <3>3. QED
      BY <1>3, <1>9, <2>1, <2>4, <3>1, <3>2 DEF PeerFollowed, FlightRight
  <2>6. FlightOrder(q)'
    BY <1>3, <1>5, <2>1 DEF PeerFollowed, FlightOrder
  <2>7. \A p, v : Accounted(q, p, v, 0) => Accounted(q, p, v, 0)'
    <3>1. 0 \in 0..l
      OBVIOUS
    <3>2. QED
      BY <2>4, <3>1
  <2>8. CacheFollows(q)'
    BY <1>3, <1>5, <1>7, <2>1, <2>7, CacheSends
  <2>9. QED
    BY <1>13, <1>14, <2>5, <2>6, <2>8 DEF PeerFollowed
<1>16. ASSUME NEW n \in Notify(q, i), Send(q, n) PROVE PeerFollowed(q)'
  <2>1. n \in Notification /\ n.index = i
    BY <1>1, <1>7, <1>16, NotifyType
  <2>2. /\ n.path = history[q][i].path /\ n.old = history[q][i].old /\ n.hash = index[q][n.path]
        /\ n.kind \in Changes /\ n.kind # "Drop" /\ (n.kind = "Add" => n.old = None)
        /\ n.kind = "Remove" => n.hash = None
    <3>1. /\ n.path = history[q][i].path /\ n.old = history[q][i].old
          /\ n.hash = index[q][history[q][i].path]
          /\ n.kind \in {"Add", "Replace", "Remove", "Drop"}
          /\ n.kind = "Drop" => history[q][i].kind = "Drop"
          /\ n.kind = "Add" => history[q][i].kind = "Add"
          /\ n.kind = "Remove" => n.hash = None
      BY <1>1, <1>7, NotifySays
    <3>2. QED
      BY <1>11, <3>1 DEF Changes
  <2>3. \A k \in DOMAIN InFlight(q) : InFlight(q)[k].kind \in Indexed => InFlight(q)[k].index < n.index
    <3>1. \A x \in (seen[q] + 1)..m : x < m + 1
      BY <1>2
    <3>2. QED
      BY <1>9, <2>1, <3>1 DEF PeerFollowed, FlightRight
  <2>4. n.index = Sent(q)' /\ n.index > seen[q]
    BY <1>2, <1>9, <1>10, <2>1
  <2>5. Since(q, n.path, n.hash, Sent(q)')
    BY <2>2 DEF Since
  <2>6. FlightRight(q)' /\ \A p, v : Accounted(q, p, v, 0) => Accounted(q, p, v, 0)'
    BY <1>3, <1>5, <1>9, <1>16, <2>1, <2>2, <2>3, <2>4, <2>5, RightSend
  <2>7. \A k \in DOMAIN InFlight(q) : Phase(InFlight(q)[k]) <= Phase(n)
                                      /\ (Phase(InFlight(q)[k]) = 3 => Phase(n) = 4)
    <3>1. Phase(n) = 4 /\ \A x : Phase(x) \in 0..4
      BY <2>2, PhaseFacts
    <3>2. \A x \in 0..4 : x <= 4
      OBVIOUS
    <3>3. QED
      BY <3>1, <3>2
  <2>8. n.kind # "Connected"
    BY <2>2 DEF Changes
  <2>9. FlightOrder(q)'
    BY <1>1, <1>3, <1>5, <1>16, <2>1, <2>2, <2>7, <2>8, OrderSend
  <2>10. /\ \A k \in DOMAIN InFlight(q) : k \in DOMAIN InFlight(q)' /\ InFlight(q)'[k] = InFlight(q)[k]
         /\ \A k \in DOMAIN InFlight(q)' : k \in DOMAIN InFlight(q) \/ InFlight(q)'[k].kind \in Changes
    BY <1>1, <1>3, <1>16, <2>1, <2>2, FlightSend
  <2>11. CacheFollows(q)'
    BY <1>3, <1>5, <1>7, <2>6, <2>10, CacheSends
  <2>12. QED
    BY <1>13, <1>14, <2>6, <2>9, <2>11 DEF PeerFollowed
<1>17. QED
  BY <1>5, <1>15, <1>16

\* The end of send_notifications, and watch_rx.changed().
LEMMA PeerIdle ==
  ASSUME SyncInv, SyncInv', NEW q \in Peer, PeerFollowed(q), NotificationsSent(q) \/ HistoryChanged(q)
  PROVE  PeerFollowed(q)'
<1>1. TypeOK
  BY DEF SyncInv
<1>2. /\ notifier[q] \in NotifierState /\ notifier \in [Peer -> NotifierState]
      /\ watch[q] \in Nat /\ seen[q] \in Nat
      /\ notifier[q].current \in Nat /\ notifier[q].next \in Nat /\ notifier[q].lastSeen \in Nat
  BY <1>1, PeerTypes
<1>3. UNCHANGED <<index, history, watch, hook, entry, marked, seen, known, uuid, leftover, batch, channel>>
  BY DEF NotificationsSent, HistoryChanged, cacheVars, indexVars
<1>4. InFlight(q)' = InFlight(q)
  BY <1>3 DEF InFlight
<1>5. /\ notifier[q].pc \in {"send", "wait"} /\ notifier'[q].pc \in {"send", "wait"}
      /\ Sent(q)' = Sent(q) /\ NotifierFollows(q)'
  <2>1. CASE NotificationsSent(q)
    <3>1. /\ notifier[q].pc = "send" /\ notifier'[q].pc = "wait" /\ notifier[q].next > notifier[q].current
          /\ notifier'[q].lastSeen = notifier[q].current /\ notifier'[q].current = notifier[q].current
          /\ signalled' = signalled
      BY <1>2, <2>1 DEF NotificationsSent, NotifierState, indexVars
    <3>2. Sent(q) = notifier[q].next - 1 /\ Sent(q) <= notifier[q].current
      BY <3>1 DEF Sent, PeerFollowed, NotifierFollows
    <3>3. Sent(q) = notifier[q].current
      <4>1. \A x, y \in Nat : x > y /\ x - 1 <= y => x - 1 = y
        OBVIOUS
      <4>2. QED
        BY <1>2, <3>1, <3>2, <4>1
    <3>4. Sent(q)' = Sent(q)
      BY <3>1, <3>3 DEF Sent
    <3>5. QED
      BY <1>3, <3>1, <3>4 DEF PeerFollowed, NotifierFollows
  <2>2. CASE HistoryChanged(q)
    <3>1. /\ notifier[q].pc = "wait" /\ notifier'[q].pc = "send"
          /\ notifier'[q].current = watch[q] /\ notifier'[q].next = notifier[q].lastSeen + 1
      BY <1>2, <2>2 DEF HistoryChanged, NotifierState, FirstUnseen
    <3>2. Sent(q) = notifier[q].lastSeen /\ Sent(q)' = (notifier[q].lastSeen + 1) - 1
      BY <3>1 DEF Sent
    <3>3. Sent(q)' = Sent(q) /\ Sent(q) \in Nat
      BY <1>2, <3>2
    <3>4. notifier[q].current <= watch[q] /\ Sent(q) <= notifier[q].current /\ seen[q] <= Sent(q)
      BY <3>1 DEF PeerFollowed, NotifierFollows
    <3>5. Sent(q) <= watch[q]
      BY <1>2, <3>3, <3>4
    <3>6. seen[q] <= watch[q]
      BY DEF PeerFollowed, NotifierFollows
    <3>7. NotifierFollows(q)'
      BY <1>2, <1>3, <3>1, <3>3, <3>4, <3>5, <3>6 DEF NotifierFollows
    <3>8. QED
      BY <3>1, <3>3, <3>7
  <2>3. QED
    BY <2>1, <2>2
<1>6. \A p, v, k : Since(q, p, v, k)' <=> Since(q, p, v, k)
  BY <1>3 DEF Since
<1>7. \A p, v, k : Accounted(q, p, v, k)' <=> Accounted(q, p, v, k)
  BY <1>4, <1>5, <1>6 DEF Accounted
<1>8. WatchFollows(q)'
  BY <1>3, <1>6 DEF PeerFollowed, WatchFollows
<1>9. FlightRight(q)'
  BY <1>3, <1>4, <1>5, <1>7 DEF PeerFollowed, FlightRight
<1>10. FlightOrder(q)'
  BY <1>3, <1>4, <1>5 DEF PeerFollowed, FlightOrder
<1>11. /\ InCatchup(q)' <=> InCatchup(q)
       /\ Begun(q)' <=> Begun(q)
       /\ \A p : Awaited(q, p)' <=> Awaited(q, p)
  BY <1>4, <1>5 DEF InCatchup, Begun, Awaited
<1>12. \A p : Left(q, p)' = Left(q, p)
  BY <1>3, <1>11 DEF Left
<1>13. CacheFollows(q)'
  BY <1>3, <1>4, <1>5, <1>7, <1>11, <1>12 DEF PeerFollowed, CacheFollows
<1>14. QED
  BY <1>5, <1>8, <1>9, <1>10, <1>13 DEF PeerFollowed

\* What is on its way moves up by one when the first is applied, as batches have
\* one notification.
LEMMA FlightShift ==
  ASSUME TypeOK, TypeOK', NEW q \in Peer, Len(batch[q]) <= 1, ApplyNotification(q)
  PROVE  /\ Head(batch[q]) = InFlight(q)[1] /\ 1 \in DOMAIN InFlight(q)
         /\ InFlight(q)[1] \in Notification
         /\ batch'[q] = <<>>
         /\ \A i \in DOMAIN InFlight(q)' : /\ i \in Nat \ {0} /\ i + 1 \in DOMAIN InFlight(q)
                                           /\ InFlight(q)'[i] = InFlight(q)[i + 1]
         /\ \A j \in DOMAIN InFlight(q) : j > 1 => /\ j - 1 \in DOMAIN InFlight(q)'
                                                   /\ InFlight(q)'[j - 1] = InFlight(q)[j]
<1>1. PICK k \in 1..Len(batch[q]) :
        /\ Len(InFlight(q)') = Len(InFlight(q)) - k
        /\ \A i \in DOMAIN InFlight(q)' : /\ i + k \in DOMAIN InFlight(q)
                                          /\ InFlight(q)'[i] = InFlight(q)[i + k]
  BY FlightApply
<1>2. /\ batch[q] \in Seq(Notification) /\ batch \in [Peer -> Seq(Notification)] /\ batch[q] # <<>>
      /\ batch' = [batch EXCEPT ![q] = AfterUpdate(batch[q])]
  BY DEF TypeOK, ApplyNotification
<1>3. k = 1 /\ Len(batch[q]) = 1
  <2>1. Len(batch[q]) \in Nat
    BY <1>2
  <2>2. \A x \in Nat : \A y \in 1..x : x <= 1 => y = 1 /\ x = 1
    OBVIOUS
  <2>3. QED
    BY <1>1, <2>1, <2>2, Zenon
<1>4. batch'[q] = <<>>
  <2>1. Tail(batch[q]) = <<>>
    <3>1. \A b \in Seq(Notification) : b # <<>> /\ Len(b) = 1 => Len(Tail(b)) = 0 /\ Tail(b) \in Seq(Notification)
      OBVIOUS
    <3>2. \A b \in Seq(Notification) : Len(b) = 0 => b = <<>>
      OBVIOUS
    <3>3. QED
      BY <1>2, <1>3, <3>1, <3>2
  <2>2. QED
    BY <1>2, <2>1 DEF AfterUpdate
<1>5. PICK l \in Nat : l = Len(InFlight(q)) /\ DOMAIN InFlight(q) = 1..l
  BY FlightSeq
<1>6. DOMAIN InFlight(q)' = 1..(l - 1)
  <2>1. InFlight(q)' \in Seq(Notification)
    <3>1. batch'[q] \in Seq(Notification) /\ channel'[q] \in Seq(Notification)
      BY DEF TypeOK
    <3>2. QED
      BY <3>1, Joined DEF InFlight
  <2>2. QED
    BY <1>1, <1>3, <1>5, <2>1
<1>7. \A i \in DOMAIN InFlight(q)' : i + 1 \in DOMAIN InFlight(q) /\ InFlight(q)'[i] = InFlight(q)[i + 1]
  BY <1>1, <1>3
<1>8. ASSUME NEW j \in DOMAIN InFlight(q), j > 1
      PROVE  j - 1 \in DOMAIN InFlight(q)' /\ InFlight(q)'[j - 1] = InFlight(q)[j]
  <2>1. PICK i \in DOMAIN InFlight(q)' : i = j - 1 /\ i + 1 = j
    BY <1>5, <1>6, <1>8
  <2>2. QED
    BY <1>7, <2>1
<1>9. InFlight(q)[1] \in Notification /\ Head(batch[q]) = InFlight(q)[1] /\ 1 \in DOMAIN InFlight(q)
  BY FlightSeq, FlightApply
<1>10. QED
  BY <1>4, <1>6, <1>7, <1>8, <1>9

\* What is accounted for after the notification that is applied stays so.
LEMMA AccountedShifts ==
  ASSUME TypeOK, TypeOK', NEW q \in Peer, Len(batch[q]) <= 1, ApplyNotification(q), NEW p, NEW v
  PROVE  /\ \A i \in Nat : Accounted(q, p, v, i + 1) => Accounted(q, p, v, i)'
         /\ Accounted(q, p, v, 0) =>
              \/ Accounted(q, p, v, 0)'
              \/ /\ InFlight(q)[1].kind \in Changes
                 /\ InFlight(q)[1].path = p
                 /\ InFlight(q)[1].old = v
<1>1. Sent(q)' = Sent(q)
  BY DEF ApplyNotification, Sent
<1>2. Since(q, p, v, Sent(q))' <=> Since(q, p, v, Sent(q))
  BY <1>1 DEF Since, ApplyNotification, indexVars
<1>3. \A j \in DOMAIN InFlight(q) : j \in Nat \ {0}
  BY FlightSeq
<1>4. ASSUME NEW i \in Nat, NEW j \in DOMAIN InFlight(q), j > i + 1, InFlight(q)[j].kind \in Changes,
             InFlight(q)[j].path = p, InFlight(q)[j].old = v
      PROVE  Accounted(q, p, v, i)'
  <2>1. j - 1 > i /\ j > 1
    BY <1>3, <1>4
  <2>2. j - 1 \in DOMAIN InFlight(q)' /\ InFlight(q)'[j - 1] = InFlight(q)[j]
    BY <2>1, FlightShift
  <2>3. QED
    BY <1>4, <2>1, <2>2 DEF Accounted
<1>5. ASSUME NEW i \in Nat, Accounted(q, p, v, i + 1) PROVE Accounted(q, p, v, i)'
  BY <1>2, <1>4, <1>5 DEF Accounted
<1>6. ASSUME Accounted(q, p, v, 0), ~Accounted(q, p, v, 0)'
      PROVE  InFlight(q)[1].kind \in Changes /\ InFlight(q)[1].path = p /\ InFlight(q)[1].old = v
  <2>1. ~Since(q, p, v, Sent(q))
    BY <1>2, <1>6 DEF Accounted
  <2>2. PICK j \in DOMAIN InFlight(q) : j > 0 /\ InFlight(q)[j].kind \in Changes
                                        /\ InFlight(q)[j].path = p /\ InFlight(q)[j].old = v
    BY <1>6, <2>1 DEF Accounted
  <2>3. ~(j > 0 + 1)
    BY <1>4, <1>6, <2>2
  <2>4. j = 1
    BY <1>3, <2>2, <2>3
  <2>5. QED
    BY <2>2, <2>4
<1>7. QED
  BY <1>5, <1>6

\* Where the progress kept for a peer is after a notification.
LEMMA ApplySeen ==
  ASSUME SyncInv, SyncInv', NEW q \in Peer, PeerFollowed(q), ApplyNotification(q)
  PROVE  /\ seen'[q] \in Nat
         /\ seen'[q] \in {seen[q], 0} \/ (InFlight(q)[1].kind \in Indexed /\ seen'[q] = InFlight(q)[1].index)
         /\ InFlight(q)[1].kind \in {"Connected", "CatchupStart", "Catchup"} => seen'[q] \in {seen[q], 0}
         /\ known'[q] = uuid[q]
<1>1. TypeOK /\ TypeOK' /\ CacheTypeOK /\ CacheTypeOK' /\ Len(batch[q]) <= 1
  BY DEF SyncInv, TypeOK, PeerFollowed, FlightRight
<1>2. PICK n \in Notification : n = InFlight(q)[1] /\ 1 \in DOMAIN InFlight(q) /\ Update(q, n)
  <2>1. Head(batch[q]) = InFlight(q)[1] /\ InFlight(q)[1] \in Notification /\ 1 \in DOMAIN InFlight(q)
    BY <1>1, FlightShift
  <2>2. QED
    BY <2>1 DEF ApplyNotification
<1>3. n.kind # "Drop" /\ (n.kind = "Connected" => n.uuid = uuid[q])
  BY <1>2 DEF PeerFollowed, FlightOrder
<1>4. n.kind \in {"Connected", "CatchupStart", "Catchup"} \cup Indexed
  BY <1>3, NotificationFields DEF Kind, Given, Taken, Indexed, Changes
<1>5. n.kind = "Connected" => seen'[q] \in {seen[q], 0} /\ known'[q] = uuid[q]
  BY <1>1, <1>2, <1>3, UpdateProgress
<1>6. n.kind # "Connected" => seen'[q] \in {seen[q], n.index} /\ known'[q] = known[q]
  BY <1>1, <1>2, UpdateProgress
<1>7. n.kind \in {"CatchupStart", "Catchup"} => seen'[q] = seen[q]
  <2>1. CASE n.kind = "CatchupStart"
    <3>1. CatchupStart(q)
      BY <1>2, <2>1 DEF Update, Taken, Fails
    <3>2. QED
      BY <3>1 DEF CatchupStart
  <2>2. CASE n.kind = "Catchup"
    <3>1. Catchup(q, n)
      BY <1>2, <2>2 DEF Update, Taken, Fails
    <3>2. QED
      BY <3>1 DEF Catchup
  <2>3. QED
    BY <2>1, <2>2
<1>8. known[q] # uuid[q] => n.kind = "Connected"
  <2>1. InFlight(q) # <<>>
    BY <1>2
  <2>2. notifier[q].pc \notin {"off", "asked"}
    BY <2>1 DEF PeerFollowed, NotifierFollows
  <2>3. QED
    BY <1>2, <2>2 DEF PeerFollowed, FlightOrder
<1>9. seen'[q] \in Nat
  BY <1>1 DEF CacheTypeOK
<1>10. QED
  BY <1>2, <1>4, <1>5, <1>6, <1>7, <1>8, <1>9

\* A notification is applied: what is on its way.
LEMMA ApplyFlight ==
  ASSUME SyncInv, SyncInv', NEW q \in Peer, PeerFollowed(q), ApplyNotification(q)
  PROVE  WatchFollows(q)' /\ NotifierFollows(q)' /\ FlightRight(q)' /\ FlightOrder(q)'
<1>1. TypeOK /\ TypeOK' /\ Len(batch[q]) <= 1
  BY DEF SyncInv, PeerFollowed, FlightRight
<1>2. UNCHANGED <<index, history, watch, hook, signalled, uuid, notifier, leftover>>
  BY DEF ApplyNotification, indexVars
<1>3. Sent(q)' = Sent(q)
  BY <1>2 DEF Sent
<1>4. PICK s : s = InFlight(q)
  OBVIOUS
<1>5. PICK t : t = InFlight(q)'
  OBVIOUS
<1>6. /\ 1 \in DOMAIN s /\ batch'[q] = <<>>
      /\ \A i \in DOMAIN t : i \in Nat \ {0} /\ i + 1 \in DOMAIN s /\ t[i] = s[i + 1]
  BY <1>1, <1>4, <1>5, FlightShift
<1>7. notifier[q].pc \notin {"off", "asked"}
  <2>1. InFlight(q) # <<>>
    BY <1>4, <1>6
  <2>2. QED
    BY <2>1 DEF PeerFollowed, NotifierFollows
<1>8. PICK m \in Nat : m = Sent(q) /\ seen[q] \in Nat
  BY <1>7, SentType DEF PeerFollowed
<1>9. /\ seen'[q] \in Nat /\ known'[q] = uuid[q]
      /\ seen'[q] \in {seen[q], 0} \/ (s[1].kind \in Indexed /\ seen'[q] = s[1].index)
  BY <1>4, ApplySeen
<1>10. /\ \A i \in DOMAIN s : s[i].kind \in Indexed => s[i].index \in (seen[q] + 1)..m
       /\ \A i, j \in DOMAIN s : i < j /\ s[i].kind \in Indexed /\ s[j].kind \in Indexed
                                   => s[i].index < s[j].index
  BY <1>4, <1>8 DEF PeerFollowed, FlightRight
<1>11. seen[q] <= m /\ m <= notifier[q].current /\ notifier[q].current <= watch[q] /\ notifier[q].current \in Nat
       /\ watch[q] \in Nat
  BY <1>1, <1>7, <1>8, PeerTypes DEF PeerFollowed, NotifierFollows
<1>12. seen'[q] <= m
  <2>1. CASE seen'[q] \in {seen[q], 0}
    BY <1>8, <1>11, <2>1
  <2>2. CASE s[1].kind \in Indexed /\ seen'[q] = s[1].index
    <3>1. s[1].index \in (seen[q] + 1)..m
      BY <1>6, <1>10, <2>2
    <3>2. QED
      BY <1>8, <2>2, <3>1
  <2>3. QED
    BY <1>9, <2>1, <2>2
<1>13. \A p, v, k : Since(q, p, v, k)' <=> Since(q, p, v, k)
  BY <1>2 DEF Since
<1>14. WatchFollows(q)'
  BY <1>2, <1>13 DEF PeerFollowed, WatchFollows
<1>15. NotifierFollows(q)'
  <2>1. seen'[q] <= watch[q]
    BY <1>8, <1>9, <1>11, <1>12
  <2>2. QED
    BY <1>2, <1>3, <1>7, <1>8, <1>12, <2>1 DEF PeerFollowed, NotifierFollows
<1>16. FlightRight(q)'
  <2>1. \A i \in DOMAIN t : t[i].kind \in Changes =>
          /\ history[q][t[i].index].path = t[i].path
          /\ history[q][t[i].index].old = t[i].old
          /\ t[i].kind = "Add" => t[i].old = None
          /\ t[i].kind = "Remove" => t[i].hash = None
    BY <1>4, <1>6 DEF PeerFollowed, FlightRight
  <2>2. ASSUME NEW i \in DOMAIN t, t[i].kind \in Indexed PROVE t[i].index \in (seen'[q] + 1)..m
    <3>1. PICK j \in DOMAIN s : j > 1 /\ t[i] = s[j]
      <4>1. i + 1 > 1
        BY <1>6
      <4>2. QED
        BY <1>6, <4>1
    <3>2. s[j].index \in (seen[q] + 1)..m
      BY <1>10, <2>2, <3>1
    <3>3. CASE seen'[q] \in {seen[q], 0}
      BY <1>8, <3>1, <3>2, <3>3
    <3>4. CASE s[1].kind \in Indexed /\ seen'[q] = s[1].index
      <4>1. s[1].index < s[j].index
        BY <1>6, <1>10, <2>2, <3>1, <3>4
      <4>2. QED
        BY <1>8, <1>9, <3>1, <3>2, <3>4, <4>1
    <3>5. QED
      BY <1>9, <3>3, <3>4
  <2>3. ASSUME NEW i \in DOMAIN t, NEW j \in DOMAIN t, i < j, t[i].kind \in Indexed, t[j].kind \in Indexed
        PROVE  t[i].index < t[j].index
    <3>1. i + 1 < j + 1
      BY <1>6, <2>3
    <3>2. i + 1 \in DOMAIN s /\ j + 1 \in DOMAIN s /\ t[i] = s[i + 1] /\ t[j] = s[j + 1]
      BY <1>6
    <3>3. QED
      BY <1>10, <2>3, <3>1, <3>2
  <2>4. ASSUME NEW i \in DOMAIN t, t[i].kind \in Changes \cup {"Catchup"}
        PROVE  Accounted(q, t[i].path, t[i].hash, i)'
    <3>1. i \in Nat /\ i + 1 \in DOMAIN s /\ t[i] = s[i + 1]
      BY <1>6
    <3>2. Accounted(q, t[i].path, t[i].hash, i + 1)
      BY <1>4, <2>4, <3>1 DEF PeerFollowed, FlightRight
    <3>3. QED
      BY <1>1, <3>1, <3>2, AccountedShifts
  <2>5. Len(batch'[q]) <= 1 /\ leftover'[q] = <<>>
    BY <1>2, <1>6 DEF PeerFollowed, FlightRight
  <2>6. QED
    BY <1>2, <1>3, <1>5, <1>8, <2>1, <2>2, <2>3, <2>4, <2>5 DEF FlightRight
<1>17. FlightOrder(q)'
  <2>1. /\ \A i \in DOMAIN s : s[i].kind # "Drop" /\ (s[i].kind = "Connected" => s[i].uuid = uuid[q])
        /\ \A i, j \in DOMAIN s : i < j => /\ Phase(s[i]) <= Phase(s[j])
                                           /\ Phase(s[i]) = 3 => Phase(s[j]) = 4
        /\ notifier[q].pc = "catchup" => \A i \in DOMAIN s : Phase(s[i]) = 0
        /\ notifier[q].pc = "files" => \A i \in DOMAIN s : Phase(s[i]) <= 2
    BY <1>4 DEF PeerFollowed, FlightOrder
  <2>2. ASSUME NEW i \in DOMAIN t, NEW j \in DOMAIN t, i < j
        PROVE  Phase(t[i]) <= Phase(t[j]) /\ (Phase(t[i]) = 3 => Phase(t[j]) = 4)
    <3>1. i + 1 < j + 1
      BY <1>6, <2>2
    <3>2. i + 1 \in DOMAIN s /\ j + 1 \in DOMAIN s /\ t[i] = s[i + 1] /\ t[j] = s[j + 1]
      BY <1>6
    <3>3. QED
      BY <2>1, <3>1, <3>2
  <2>3. /\ \A i \in DOMAIN t : t[i].kind # "Drop" /\ (t[i].kind = "Connected" => t[i].uuid = uuid[q])
        /\ notifier[q].pc = "catchup" => \A i \in DOMAIN t : Phase(t[i]) = 0
        /\ notifier[q].pc = "files" => \A i \in DOMAIN t : Phase(t[i]) <= 2
    BY <1>6, <2>1
  <2>4. QED
    BY <1>2, <1>5, <1>9, <2>2, <2>3 DEF FlightOrder
<1>18. QED
  BY <1>14, <1>15, <1>16, <1>17

\* A notification is applied: what the cache holds.
LEMMA ApplyCache ==
  ASSUME SyncInv, SyncInv', NEW q \in Peer, PeerFollowed(q), ApplyNotification(q)
  PROVE  CacheFollows(q)'
<1>1. TypeOK /\ TypeOK' /\ CacheTypeOK /\ VisibleIffHeld /\ Len(batch[q]) <= 1
  BY DEF SyncInv, TypeOK, PeerFollowed, FlightRight
<1>2. UNCHANGED <<index, history, watch, uuid, notifier>>
  BY DEF ApplyNotification, indexVars
<1>3. PICK s : s = InFlight(q)
  OBVIOUS
<1>4. PICK t : t = InFlight(q)'
  OBVIOUS
<1>5. /\ 1 \in DOMAIN s
      /\ \A i \in DOMAIN t : i \in Nat \ {0} /\ i + 1 \in DOMAIN s /\ t[i] = s[i + 1]
      /\ \A j \in DOMAIN s : j > 1 => j - 1 \in DOMAIN t /\ t[j - 1] = s[j]
      /\ \A j \in DOMAIN s : j \in Nat \ {0} /\ s[j] \in Notification
  <2>1. PICK l \in Nat : DOMAIN s = 1..l /\ \A j \in DOMAIN s : s[j] \in Notification
    BY <1>1, <1>3, FlightSeq
  <2>2. \A j \in 1..l : j \in Nat \ {0}
    OBVIOUS
  <2>3. QED
    BY <1>1, <1>3, <1>4, <2>1, <2>2, FlightShift
<1>6. PICK n \in Notification : n = s[1] /\ Update(q, n)
  BY <1>1, <1>3, FlightShift DEF ApplyNotification
<1>7. /\ \A i \in DOMAIN t : \E j \in DOMAIN s : 1 < j /\ t[i] = s[j]
      /\ \A j \in DOMAIN s : s[j] = n \/ \E i \in DOMAIN t : t[i] = s[j]
  <2>1. ASSUME NEW i \in DOMAIN t PROVE \E j \in DOMAIN s : 1 < j /\ t[i] = s[j]
    <3>1. 1 < i + 1
      BY <1>5
    <3>2. QED
      BY <1>5, <3>1
  <2>2. ASSUME NEW j \in DOMAIN s PROVE s[j] = n \/ \E i \in DOMAIN t : t[i] = s[j]
    <3>1. j = 1 \/ j > 1
      BY <1>5
    <3>2. QED
      BY <1>5, <1>6, <3>1
  <2>3. QED
    BY <2>1, <2>2
<1>8. notifier[q].pc \notin {"off", "asked"}
  <2>1. InFlight(q) # <<>>
    BY <1>3, <1>5
  <2>2. QED
    BY <2>1 DEF PeerFollowed, NotifierFollows
<1>9. /\ \A j \in DOMAIN s : 1 < j => Phase(n) <= Phase(s[j]) /\ (Phase(n) = 3 => Phase(s[j]) = 4)
      /\ n.kind # "Drop"
      /\ notifier[q].pc = "catchup" => Phase(n) = 0
      /\ notifier[q].pc = "files" => Phase(n) <= 2
  BY <1>3, <1>5, <1>6 DEF PeerFollowed, FlightOrder
<1>10. \A x : Phase(x) \in 0..4
  BY PhaseFacts
<1>11. ASSUME NEW p, NEW v, Accounted(q, p, v, 1) PROVE Accounted(q, p, v, 0)'
  <2>1. Accounted(q, p, v, 0 + 1)
    BY <1>11
  <2>2. QED
    BY <1>1, <2>1, AccountedShifts
<1>12. ASSUME NEW p, NEW v, Accounted(q, p, v, 0), n.kind \notin Changes \/ n.path # p \/ n.old # v
       PROVE  Accounted(q, p, v, 0)'
  BY <1>1, <1>3, <1>6, <1>12, AccountedShifts
<1>13. n.kind \in Changes \cup {"Catchup"} => Accounted(q, n.path, n.hash, 0)'
  <2>1. n.kind \in Changes \cup {"Catchup"} => Accounted(q, n.path, n.hash, 1)
    BY <1>3, <1>5, <1>6 DEF PeerFollowed, FlightRight
  <2>2. QED
    BY <1>11, <2>1
<1>14. Sent(q)' = Sent(q) /\ \A p, v, k : Since(q, p, v, k)' <=> Since(q, p, v, k)
  BY <1>2 DEF Sent, Since
\* The parts that do not depend on the kind of notification.
<1>15. ASSUME InCatchup(q)' => seen'[q] = 0,
              ~InCatchup(q)' => \A p \in Path : Accounted(q, p, entry[p][q], 0)',
              InCatchup(q)' /\ notifier[q].pc # "catchup" =>
                \A p \in Path : Awaited(q, p)' \/ Accounted(q, p, Left(q, p), 0)'
       PROVE  CacheFollows(q)'
  <2>1. ASSUME watch[q] = 0
        PROVE  /\ \A p \in Path : entry'[p][q] = None
               /\ \A i \in DOMAIN t : t[i].kind = "Connected"
    <3>1. (\A p \in Path : entry[p][q] = None) /\ \A i \in DOMAIN s : s[i].kind = "Connected"
      BY <1>3, <2>1 DEF PeerFollowed, CacheFollows
    <3>2. n.kind = "Connected"
      BY <1>5, <1>6, <3>1
    <3>3. entry' = entry
      BY <1>6, <3>2 DEF Update, Connected, Taken, Fails
    <3>4. QED
      BY <1>5, <3>1, <3>3
  <2>2. notifier[q].pc = "files" => \A f \in notifier[q].files : Since(q, f[1], f[2], Sent(q))
    BY DEF PeerFollowed, CacheFollows
  <2>3. QED
    BY <1>2, <1>4, <1>8, <1>14, <1>15, <2>1, <2>2 DEF CacheFollows
<1>16. n.kind # "CatchupComplete" => (InCatchup(q)' <=> InCatchup(q))
  <2>1. ASSUME n.kind # "CatchupComplete"
        PROVE  (\E i \in DOMAIN t : t[i].kind = "CatchupComplete")
                  <=> (\E i \in DOMAIN s : s[i].kind = "CatchupComplete")
    BY <1>7, <2>1
  <2>2. QED
    BY <1>2, <1>3, <1>4, <2>1 DEF InCatchup
<1>17. ASSUME InCatchup(q)' PROVE seen'[q] = 0 /\ n.kind \notin Indexed
  <2>1. ASSUME n.kind \in Indexed PROVE FALSE
    <3>1. Phase(n) = 3 \/ Phase(n) = 4
      BY <2>1, PhaseFacts DEF Indexed
    <3>2. notifier[q].pc \notin {"catchup", "files"}
      BY <1>9, <3>1
    <3>3. PICK i \in DOMAIN t : t[i].kind = "CatchupComplete"
      BY <1>2, <1>4, <1>17, <3>2 DEF InCatchup
    <3>4. Phase(t[i]) = 3
      BY <3>3, PhaseFacts
    <3>5. PICK j \in DOMAIN s : 1 < j /\ t[i] = s[j]
      BY <1>7
    <3>6. Phase(n) <= 3 /\ Phase(n) # 3
      BY <1>9, <3>4, <3>5
    <3>7. QED
      BY <3>1, <3>6
  <2>2. InCatchup(q)
    BY <1>16, <1>17, <2>1 DEF Indexed
  <2>3. seen[q] = 0
    BY <2>2 DEF PeerFollowed, CacheFollows
  <2>4. QED
    BY <1>3, <1>6, <2>1, <2>3, ApplySeen
<1>18. ~InCatchup(q) => \A p \in Path : Accounted(q, p, entry[p][q], 0)
  BY <1>8 DEF PeerFollowed, CacheFollows
<1>19. InCatchup(q) /\ notifier[q].pc # "catchup" =>
         \A p \in Path : Awaited(q, p) \/ Accounted(q, p, Left(q, p), 0)
  BY DEF PeerFollowed, CacheFollows
<1>20. n.kind # "Catchup" => \A p : Awaited(q, p) => Awaited(q, p)'
  <2>1. ASSUME n.kind # "Catchup", NEW p, NEW i \in DOMAIN s, s[i].kind = "Catchup", s[i].path = p
        PROVE  \E j \in DOMAIN t : t[j].kind = "Catchup" /\ t[j].path = p
    BY <1>7, <2>1
  <2>2. QED
    BY <1>2, <1>3, <1>4, <2>1 DEF Awaited
<1>21. n.kind # "CatchupStart" => (Begun(q)' <=> Begun(q))
  <2>1. ASSUME n.kind # "CatchupStart"
        PROVE  (\A i \in DOMAIN t : t[i].kind # "CatchupStart")
                 <=> (\A i \in DOMAIN s : s[i].kind # "CatchupStart")
    BY <1>7, <2>1
  <2>2. QED
    BY <1>3, <1>4, <2>1 DEF Begun
<1>22. CASE n.kind = "Connected"
  <2>1. n.kind \notin Changes /\ n.kind # "CatchupComplete" /\ n.kind # "CatchupStart" /\ n.kind # "Catchup"
    BY <1>22 DEF Changes
  <2>2. Connected(q, n)
    BY <1>6, <1>22 DEF Update, Taken, Fails
  <2>3. entry' = entry /\ marked' = marked
    BY <2>2 DEF Connected
  <2>4. \A p : Left(q, p)' = Left(q, p)
    BY <1>21, <2>1, <2>3 DEF Left
  <2>5. ~InCatchup(q)' => \A p \in Path : Accounted(q, p, entry[p][q], 0)'
    BY <1>12, <1>16, <1>18, <2>1, <2>3
  <2>6. InCatchup(q)' /\ notifier[q].pc # "catchup" =>
                \A p \in Path : Awaited(q, p)' \/ Accounted(q, p, Left(q, p), 0)'
    BY <1>12, <1>16, <1>19, <1>20, <2>1, <2>4
  <2>7. QED
    BY <1>15, <1>17, <2>5, <2>6
<1>23. CASE n.kind = "CatchupStart"
  <2>1. n.kind \notin Changes /\ n.kind # "CatchupComplete" /\ n.kind # "Catchup"
    BY <1>23 DEF Changes
  <2>2. entry' = entry
    BY <1>6, <1>23 DEF Update, CatchupStart, Taken, Fails
  <2>3. \A p \in Path : entry[p][q] # None => <<q, p>> \in marked'
    BY <1>1, <1>6, <1>23, UpdateCatchup
  <2>4. ~Begun(q)
    BY <1>3, <1>5, <1>6, <1>23 DEF Begun
  <2>5. \A p \in Path : Left(q, p)' = None /\ Left(q, p) = None
    BY <2>2, <2>3, <2>4 DEF Left
  <2>6. ~InCatchup(q)' => \A p \in Path : Accounted(q, p, entry[p][q], 0)'
    BY <1>12, <1>16, <1>18, <2>1, <2>2
  <2>7. InCatchup(q)' /\ notifier[q].pc # "catchup" =>
                \A p \in Path : Awaited(q, p)' \/ Accounted(q, p, Left(q, p), 0)'
    BY <1>12, <1>16, <1>19, <1>20, <2>1, <2>5
  <2>8. QED
    BY <1>15, <1>17, <2>6, <2>7
<1>24. CASE n.kind = "Catchup"
  <2>1. n.kind \notin Changes /\ n.kind # "CatchupComplete" /\ n.kind # "CatchupStart"
    BY <1>24 DEF Changes
  <2>2. \A p \in Path : /\ entry'[p][q] = IF p = n.path THEN n.hash ELSE entry[p][q]
                        /\ <<q, p>> \in marked' <=> <<q, p>> \in marked /\ p # n.path
    BY <1>1, <1>6, <1>24, UpdateCatchup
  <2>3. Begun(q)
    <3>1. Phase(n) = 2
      BY <1>24, PhaseFacts
    <3>2. ASSUME NEW j \in DOMAIN s PROVE s[j].kind # "CatchupStart"
      <4>1. CASE s[j] = n
        BY <2>1, <4>1
      <4>2. CASE s[j] # n
        <5>1. 1 < j
          BY <1>5, <1>6, <4>2
        <5>2. Phase(s[j]) # 1
          BY <1>9, <3>1, <5>1
        <5>3. QED
          BY <5>2, PhaseFacts
      <4>3. QED
        BY <4>1, <4>2
    <3>3. QED
      BY <1>3, <3>2 DEF Begun
  <2>4. ~InCatchup(q)' => \A p \in Path : Accounted(q, p, entry[p][q], 0)'
    <3>1. ASSUME ~InCatchup(q), NEW p \in Path PROVE Accounted(q, p, entry[p][q], 0)'
      <4>1. CASE p = n.path
        BY <1>13, <1>24, <2>2, <4>1
      <4>2. CASE p # n.path
        <5>1. entry'[p][q] = entry[p][q] /\ Accounted(q, p, entry[p][q], 0)
          BY <1>18, <2>2, <3>1, <4>2
        <5>2. QED
          BY <1>12, <2>1, <5>1
      <4>3. QED
        BY <4>1, <4>2
    <3>2. QED
      BY <1>16, <2>1, <3>1
  <2>5. ASSUME InCatchup(q)', notifier[q].pc # "catchup", NEW p \in Path
        PROVE  Awaited(q, p)' \/ Accounted(q, p, Left(q, p), 0)'
    <3>1. CASE p = n.path
      <4>1. Left(q, p)' = n.hash
        BY <1>21, <2>1, <2>2, <2>3, <3>1 DEF Left
      <4>2. QED
        BY <1>13, <1>24, <3>1, <4>1
    <3>2. CASE p # n.path
      <4>1. Left(q, p)' = Left(q, p)
        BY <1>21, <2>1, <2>2, <2>3, <3>2 DEF Left
      <4>2. Awaited(q, p) => Awaited(q, p)'
        <5>1. ASSUME NEW i \in DOMAIN s, s[i].kind = "Catchup", s[i].path = p
              PROVE  \E j \in DOMAIN t : t[j].kind = "Catchup" /\ t[j].path = p
          BY <1>7, <3>2, <5>1
        <5>2. QED
          BY <1>2, <1>3, <1>4, <5>1 DEF Awaited
      <4>3. Awaited(q, p) \/ Accounted(q, p, Left(q, p), 0)
        BY <1>16, <1>19, <2>1, <2>5
      <4>4. QED
        BY <1>12, <2>1, <4>1, <4>2, <4>3
    <3>3. QED
      BY <3>1, <3>2
  <2>6. QED
    BY <1>15, <1>17, <2>4, <2>5
<1>25. CASE n.kind = "CatchupComplete"
  <2>1. n.kind \notin Changes /\ n.kind \in Indexed /\ Phase(n) = 3
    BY <1>25, PhaseFacts DEF Changes, Indexed
  <2>2. InCatchup(q) /\ ~InCatchup(q)'
    BY <1>3, <1>5, <1>6, <1>17, <1>25, <2>1 DEF InCatchup
  <2>3. notifier[q].pc # "catchup" /\ notifier[q].pc # "files"
    BY <1>9, <2>1
  <2>4. \A j \in DOMAIN s : s[j].kind # "CatchupStart" /\ s[j].kind # "Catchup"
    <3>1. ASSUME NEW j \in DOMAIN s PROVE Phase(s[j]) \in {3, 4}
      <4>1. j = 1 \/ 1 < j
        BY <1>5
      <4>2. QED
        BY <1>6, <1>9, <2>1, <4>1
    <3>2. QED
      BY <3>1, PhaseFacts
  <2>5. Begun(q) /\ \A p : ~Awaited(q, p)
    BY <1>3, <2>3, <2>4 DEF Begun, Awaited
  <2>6. \A p \in Path : entry'[p][q] = Left(q, p)
    BY <1>1, <1>6, <1>25, <2>5, UpdateCatchup DEF Left
  <2>7. \A p \in Path : Accounted(q, p, Left(q, p), 0)
    BY <1>19, <2>2, <2>3, <2>5
  <2>8. ASSUME NEW p \in Path PROVE Accounted(q, p, entry[p][q], 0)'
    <3>1. PICK v : v = Left(q, p)
      OBVIOUS
    <3>2. Accounted(q, p, v, 0)'
      BY <1>12, <2>1, <2>7, <3>1
    <3>3. QED
      BY <2>6, <3>1, <3>2
  <2>9. QED
    BY <1>15, <2>2, <2>8
<1>26. CASE n.kind \in Changes
  <2>1. n.kind \in Indexed /\ n.kind # "CatchupComplete"
    BY <1>26 DEF Indexed, Changes
  <2>2. ~InCatchup(q) /\ ~InCatchup(q)'
    BY <1>16, <1>17, <2>1
  <2>3. ASSUME NEW p \in Path PROVE Accounted(q, p, entry[p][q], 0)'
    <3>1. Accounted(q, p, entry[p][q], 0)
      BY <1>18, <2>2
    <3>2. CASE p # n.path
      <4>1. entry'[p][q] = entry[p][q]
        BY <1>1, <1>6, <2>1, <3>2, UpdateEntries
      <4>2. QED
        BY <1>12, <3>1, <3>2, <4>1
    <3>3. CASE p = n.path
      <4>1. (n.kind = "Add" => n.old = None) /\ (n.kind = "Remove" => n.hash = None)
        BY <1>3, <1>5, <1>6, <1>26 DEF PeerFollowed, FlightRight
      <4>2. /\ entry'[n.path][q] \in {entry[n.path][q], n.hash}
            /\ entry[n.path][q] = n.old => entry'[n.path][q] = n.hash
        BY <1>1, <1>6, <1>26, <4>1, UpdateChange DEF Changes
      <4>3. PICK v : v = entry[p][q]
        OBVIOUS
      <4>4. CASE entry'[n.path][q] = n.hash
        BY <1>13, <1>26, <3>3, <4>4
      <4>5. CASE entry'[n.path][q] = v /\ v # n.old
        <5>1. Accounted(q, p, v, 0)'
          BY <1>12, <3>1, <4>3, <4>5
        <5>2. QED
          BY <3>3, <4>5, <5>1
      <4>6. QED
        BY <3>3, <4>2, <4>3, <4>4, <4>5
    <3>4. QED
      BY <3>2, <3>3
  <2>4. QED
    BY <1>15, <2>2, <2>3
<1>27. n.kind \in {"Connected", "CatchupStart", "Catchup", "CatchupComplete"} \cup Changes
  BY <1>9, NotificationFields DEF Kind, Given, Taken, Changes
<1>28. QED
  BY <1>22, <1>23, <1>24, <1>25, <1>26, <1>27

\* The connection breaks.
LEMMA PeerDisconnect ==
  ASSUME SyncInv, SyncInv', NEW q \in Peer, PeerFollowed(q), MaxLeftovers = 0, Disconnect(q)
  PROVE  PeerFollowed(q)'
<1>1. TypeOK /\ IndexTypeOK /\ WithinHistory
  BY DEF SyncInv, TypeOK
<1>2. seen[q] \in Nat /\ watch[q] \in Nat /\ Len(history[q]) \in Nat
  BY <1>1, PeerTypes
<1>3. /\ notifier'[q] = NoNotifier /\ channel'[q] = <<>> /\ batch'[q] = <<>>
      /\ UNCHANGED <<entry, marked, seen, known, uuid, index, history>>
      /\ notifier[q].pc # "off"
  BY <1>1 DEF Disconnect, TypeOK, cacheVars, indexVars, ReopenIndex
<1>4. leftover' = leftover
  BY <1>1 DEF Disconnect, TypeOK
<1>5. notifier'[q].pc = "off"
  BY <1>3, NoNotifierType
<1>6. InFlight(q)' = <<>> /\ DOMAIN InFlight(q)' = {}
  <2>1. InFlight(q)' = <<>>
    BY <1>3 DEF InFlight
  <2>2. QED
    BY <2>1
<1>7. \/ watch'[q] = watch[q] /\ hook'[q] = hook[q]
      \/ watch'[q] = Len(history[q]) /\ \A w \in Writer : hook'[q][w] = 0
  <2>1. watch \in [Peer -> 0..MaxHistory] /\ hook \in [Peer -> [Writer -> 0..MaxHistory]]
    BY <1>1 DEF IndexTypeOK
  <2>2. CASE UNCHANGED indexVars
    BY <2>2 DEF indexVars
  <2>3. CASE ReopenIndex(q)
    BY <2>1, <2>3 DEF ReopenIndex
  <2>4. QED
    BY <2>2, <2>3 DEF Disconnect
<1>8. watch[q] <= Len(history[q]) /\ seen[q] <= watch[q]
  BY <1>1 DEF WithinHistory, PeerFollowed, NotifierFollows
<1>9. \A p, v, k : Since(q, p, v, k)' <=> Since(q, p, v, k)
  BY <1>3 DEF Since
<1>10. WatchFollows(q)'
  BY <1>3, <1>7, <1>9 DEF PeerFollowed, WatchFollows
<1>11. seen[q] <= watch'[q] /\ (watch'[q] = 0 => watch[q] = 0)
  BY <1>2, <1>7, <1>8
<1>12. NotifierFollows(q)'
  BY <1>3, <1>5, <1>6, <1>11 DEF NotifierFollows
<1>13. FlightRight(q)'
  BY <1>3, <1>4, <1>6 DEF FlightRight, PeerFollowed
<1>14. FlightOrder(q)'
  BY <1>3, <1>5, <1>6 DEF FlightOrder, PeerFollowed
<1>15. ASSUME seen[q] # 0, NEW p \in Path PROVE Since(q, p, entry[p][q], seen[q])
  <2>1. CASE notifier[q].pc = "asked"
    BY <1>15, <2>1 DEF PeerFollowed, CacheFollows
  <2>2. CASE notifier[q].pc # "asked"
    <3>1. notifier[q].pc \notin {"off", "asked"}
      BY <1>3, <2>2
    <3>2. PICK m \in Nat : m = Sent(q) /\ m <= Len(history[q]) /\ seen[q] <= m
      BY <3>1, SentType DEF PeerFollowed, NotifierFollows
    <3>3. Accounted(q, p, entry[p][q], 0)
      BY <1>15, <3>1 DEF PeerFollowed, CacheFollows
    <3>4. CASE Since(q, p, entry[p][q], m)
      BY <1>2, <3>2, <3>4, SinceEarlier
    <3>5. ASSUME NEW j \in DOMAIN InFlight(q), InFlight(q)[j].kind \in Changes,
                 InFlight(q)[j].path = p, InFlight(q)[j].old = entry[p][q]
          PROVE  Since(q, p, entry[p][q], seen[q])
      <4>1. PICK i : i = InFlight(q)[j].index
        OBVIOUS
      <4>2. i \in (seen[q] + 1)..m /\ history[q][i].path = p /\ history[q][i].old = entry[p][q]
        BY <3>2, <3>5, <4>1 DEF PeerFollowed, FlightRight, Indexed
      <4>3. i \in (seen[q] + 1)..Len(history[q])
        BY <1>2, <3>2, <4>2
      <4>4. QED
        BY <4>2, <4>3 DEF Since
    <3>6. QED
      BY <3>2, <3>3, <3>4, <3>5 DEF Accounted
  <2>3. QED
    BY <2>1, <2>2
<1>16. ~InCatchup(q)'
  BY <1>5, <1>6 DEF InCatchup
<1>17. CacheFollows(q)'
  <2>1. watch[q] = 0 => \A p \in Path : entry[p][q] = None
    BY DEF PeerFollowed, CacheFollows
  <2>2. QED
    BY <1>3, <1>5, <1>6, <1>9, <1>11, <1>15, <1>16, <2>1 DEF CacheFollows
<1>18. QED
  BY <1>10, <1>12, <1>13, <1>14, <1>17 DEF PeerFollowed

\* Any step.
LEMMA QuietStep == ASSUME Orderly, SyncInv, SyncInv', QuietInv, [Next]_vars PROVE QuietInv'
<1>1. /\ TypeOK /\ TypeOK' /\ IndexTypeOK /\ CacheTypeOK /\ batch \in [Peer -> Seq(Notification)]
      /\ channel \in [Peer -> Seq(Notification)] /\ notifier \in [Peer -> NotifierState]
  BY DEF SyncInv, TypeOK
<1>2. /\ index \in [Peer -> [Path -> Hash \cup {None}]] /\ history \in [Peer -> Seq(HistoryEntry)]
      /\ watch \in [Peer -> 0..MaxHistory] /\ hook \in [Peer -> [Writer -> 0..MaxHistory]]
      /\ drops \in 0..MaxDrops
  BY <1>1 DEF IndexTypeOK
<1>3. /\ MaxDrops = 0 /\ BatchMax = 1 /\ MaxLeftovers = 0 /\ MaxUuid = 1
      /\ \A w \in Writer : Writer = {w}
  BY DEF Orderly
<1>4. \A r \in Peer : PeerFollowed(r) /\ Len(batch[r]) <= 1
  BY DEF QuietInv, PeerFollowed, FlightRight
\* A step about q that leaves the cache alone.
<1>5. ASSUME NEW q \in Peer, PeerFollowed(q)', UNCHANGED <<entry, marked, seen, known, uuid, leftover>>,
             \A r \in Peer \ {q} :
               /\ index'[r] = index[r] /\ history'[r] = history[r] /\ watch'[r] = watch[r]
               /\ hook'[r] = hook[r] /\ (r \in signalled' <=> r \in signalled)
               /\ notifier'[r] = notifier[r] /\ channel'[r] = channel[r] /\ batch'[r] = batch[r]
      PROVE  QuietInv'
  <2>1. ASSUME NEW r \in Peer \ {q} PROVE PeerFollowed(r)'
    <3>1. InFlight(r)' = InFlight(r) /\ Len(batch'[r]) <= 1
      BY <1>4, <1>5, <2>1 DEF InFlight
    <3>2. QED
      BY <1>4, <1>5, <2>1, <3>1, PeerSame
  <2>2. QED
    BY <1>5, <2>1 DEF QuietInv
<1>6. ASSUME NEW q \in Peer, ChangeIndex(q) PROVE QuietInv'
  <2>1. UNCHANGED <<entry, marked, seen, known, uuid, leftover, notifier, channel, batch>>
    BY <1>6 DEF ChangeIndex, cacheVars, syncVars
  <2>2. PICK w \in Writer : watch' = watch /\ signalled' = signalled
          /\ \A r \in Peer \ {q} : index'[r] = index[r] /\ history'[r] = history[r] /\ hook'[r] = hook[r]
    BY <1>1, <1>3, <1>6, IndexTransacts DEF ChangeIndex
  <2>3. PeerFollowed(q)'
    BY <1>3, <1>4, <1>6, <2>2, PeerChange
  <2>4. QED
    BY <1>5, <2>1, <2>2, <2>3
<1>7. ASSUME NEW q \in Peer, NEW w \in Writer, RunCallback(q, w) PROVE QuietInv'
  <2>1. PeerFollowed(q)'
    BY <1>3, <1>4, <1>7, PeerCallback
  <2>2. /\ UNCHANGED <<index, history, entry, marked, seen, known, uuid, leftover, notifier, channel, batch>>
        /\ \A r \in Peer \ {q} : watch'[r] = watch[r] /\ hook'[r] = hook[r]
                                 /\ (r \in signalled' <=> r \in signalled)
    BY <1>2, <1>7 DEF RunCallback, AfterCommit, cacheVars, syncVars
  <2>3. QED
    BY <1>5, <2>1, <2>2
<1>8. ASSUME NEW q \in Peer, Subscribe(q) PROVE QuietInv'
  <2>1. PeerFollowed(q)'
    BY <1>4, <1>8, PeerSubscribe
  <2>2. /\ UNCHANGED <<index, history, watch, hook, signalled, entry, marked, seen, known, uuid, leftover,
                       channel, batch>>
        /\ \A r \in Peer \ {q} : notifier'[r] = notifier[r]
    BY <1>1, <1>8 DEF Subscribe, cacheVars, indexVars
  <2>3. QED
    BY <1>5, <2>1, <2>2
<1>9. ASSUME NEW q \in Peer, Notifier(q) PROVE QuietInv'
  <2>1. PeerFollowed(q)'
    BY <1>4, <1>9, PeerStartNotifier, PeerStartCatchup, PeerSendCatchup, PeerEndCatchup,
       PeerSendNotification, PeerIdle DEF Notifier
  <2>2. UNCHANGED <<index, history, watch, hook, entry, marked, seen, known, uuid, leftover, batch>>
    BY <1>9 DEF Notifier, StartNotifier, StartCatchup, SendCatchup, EndCatchup, SendNotification,
           NotificationsSent, HistoryChanged, cacheVars, indexVars
  <2>3. \A r \in Peer \ {q} : notifier'[r] = notifier[r] /\ channel'[r] = channel[r]
    BY <1>1, <1>9 DEF Notifier, StartNotifier, StartCatchup, SendCatchup, EndCatchup,
           SendNotification, NotificationsSent, HistoryChanged, Send
  <2>4. \A r \in Peer \ {q} : r \in signalled' <=> r \in signalled
    BY <1>9 DEF Notifier, StartNotifier, StartCatchup, SendCatchup, EndCatchup, SendNotification,
           NotificationsSent, HistoryChanged, indexVars
  <2>5. QED
    BY <1>5, <2>1, <2>2, <2>3, <2>4
<1>10. ASSUME NEW q \in Peer, SendBatch(q) PROVE QuietInv'
  BY <1>3, <1>10, PeerBatch
<1>11. ASSUME NEW q \in Peer, ApplyNotification(q) PROVE QuietInv'
  <2>1. PeerFollowed(q)'
    BY <1>4, <1>11, ApplyFlight, ApplyCache DEF PeerFollowed
  <2>2. UNCHANGED <<index, history, watch, hook, signalled, uuid, notifier, leftover>>
    BY <1>11 DEF ApplyNotification, indexVars
  <2>3. PICK n \in Notification : Update(q, n)
    BY <1>1, <1>11, AfterUpdateType DEF ApplyNotification
  <2>4. ASSUME NEW r \in Peer \ {q} PROVE PeerFollowed(r)'
    <3>1. InFlight(r)' = InFlight(r)
      BY <1>1, <1>11, FlightApply
    <3>2. batch'[r] = batch[r]
      BY <1>1, <1>11 DEF ApplyNotification
    <3>3. seen'[r] = seen[r] /\ known'[r] = known[r]
      BY <1>1, <2>3, UpdateProgress
    <3>4. \A p \in Path : entry'[p][r] = entry[p][r]
      BY <1>1, <2>3, UpdateEntries
    <3>5. \A p \in Path : /\ <<r, p>> \in marked' => <<r, p>> \in marked
                          /\ <<r, p>> \in marked => <<r, p>> \in marked' \/ entry[p][r] = None
      BY <1>1, <2>3, UpdateMarks
    <3>6. QED
      BY <1>4, <2>2, <3>1, <3>2, <3>3, <3>4, <3>5, PeerSame
  <2>5. QED
    BY <2>1, <2>4 DEF QuietInv
<1>12. ASSUME NEW q \in Peer, ApplyLeftover(q) PROVE FALSE
  BY <1>4, <1>12 DEF ApplyLeftover, PeerFollowed, FlightRight
<1>13. ASSUME NEW q \in Peer, Disconnect(q) PROVE QuietInv'
  <2>1. PeerFollowed(q)'
    BY <1>3, <1>4, <1>13, PeerDisconnect
  <2>2. /\ UNCHANGED <<index, history, entry, marked, seen, known, uuid>>
        /\ \A r \in Peer \ {q} : watch'[r] = watch[r] /\ hook'[r] = hook[r]
                                 /\ (r \in signalled' <=> r \in signalled)
    BY <1>2, <1>13 DEF Disconnect, ReopenIndex, indexVars, cacheVars
  <2>3. \A r \in Peer \ {q} : notifier'[r] = notifier[r] /\ channel'[r] = channel[r] /\ batch'[r] = batch[r]
    BY <1>1, <1>13 DEF Disconnect
  <2>4. leftover' = leftover
    BY <1>1, <1>3, <1>13 DEF Disconnect, TypeOK
  <2>5. QED
    BY <1>5, <2>1, <2>2, <2>3, <2>4
<1>14. ASSUME NEW q \in Peer, RebuildIndex(q) PROVE FALSE
  BY <1>1, <1>3, <1>14 DEF RebuildIndex, TypeOK
<1>15. CASE UNCHANGED vars
  <2>1. UNCHANGED <<index, history, watch, hook, signalled, entry, marked, seen, known, uuid, notifier,
                    channel, batch, leftover>>
    BY <1>15 DEF vars, indexVars, cacheVars, syncVars
  <2>2. \A r \in Peer : InFlight(r)' = InFlight(r)
    BY <2>1 DEF InFlight
  <2>3. \A r \in Peer : PeerFollowed(r)'
    BY <1>4, <2>1, <2>2, PeerSame
  <2>4. QED
    BY <2>3 DEF QuietInv
<1>16. QED
  BY <1>6, <1>7, <1>8, <1>9, <1>10, <1>11, <1>12, <1>13, <1>14, <1>15 DEF Next

\* Before anything has happened.
LEMMA QuietInit == ASSUME Init PROVE QuietInv
<1>1. SUFFICES ASSUME NEW q \in Peer PROVE PeerFollowed(q)
  BY DEF QuietInv
<1>2. /\ batch[q] = <<>> /\ channel[q] = <<>> /\ leftover[q] = <<>> /\ notifier[q].pc = "off"
      /\ \A p \in Path : entry[p][q] = None /\ index[q][p] = None
      /\ history[q] = <<>> /\ watch[q] = 0 /\ \A w \in Writer : hook[q][w] = 0
      /\ seen[q] = 0 /\ known[q] = 0 /\ uuid[q] = 1
  BY NoNotifierType DEF Init, IndexInit, CacheInit, NewIndex
<1>3. InFlight(q) = <<>>
  BY <1>2 DEF InFlight
<1>4. DOMAIN InFlight(q) = {} /\ DOMAIN history[q] = {} /\ Len(history[q]) = 0 /\ Len(batch[q]) = 0
  BY <1>2, <1>3
<1>5. WatchFollows(q)
  BY <1>2, <1>4 DEF WatchFollows, Since
<1>6. NotifierFollows(q)
  BY <1>2, <1>3 DEF NotifierFollows
<1>7. FlightRight(q)
  BY <1>2, <1>4 DEF FlightRight
<1>8. FlightOrder(q)
  BY <1>2, <1>4 DEF FlightOrder
<1>9. CacheFollows(q)
  BY <1>2, <1>4 DEF CacheFollows, InCatchup
<1>10. QED
  BY <1>5, <1>6, <1>7, <1>8, <1>9 DEF PeerFollowed

\* Whenever nothing is on its way from a peer, the cache holds exactly the files
\* of that peer's index, for any number of peers, files and versions, however
\* long the history is and however often connections break: as long as the
\* system is Orderly (notifier::subscribe, catchup, send_notifications and
\* ArenaCache::update).
THEOREM QuietMeansInSyncCorrect == ASSUME Orderly PROVE Spec => []QuietMeansInSync
<1>1. Init => QuietInv
  BY QuietInit
<1>2. SyncInv /\ SyncInv' /\ QuietInv /\ [Next]_vars => QuietInv'
  BY QuietStep
<1>3. SyncInv /\ QuietInv => QuietMeansInSync
  <2>1. SUFFICES ASSUME SyncInv, QuietInv, NEW q \in Peer, Quiet(q), NEW p \in Path
                 PROVE  entry[p][q] = index[q][p]
    BY DEF QuietMeansInSync, InSync
  <2>2. TypeOK /\ PeerFollowed(q)
    BY <2>1 DEF QuietInv, SyncInv
  <2>3. /\ notifier[q].pc = "wait" /\ q \notin signalled /\ \A w \in Writer : hook[q][w] = 0
        /\ InFlight(q) = <<>>
    BY <2>1 DEF Quiet, InFlight
  <2>4. DOMAIN InFlight(q) = {} /\ Len(history[q]) \in Nat
    BY <2>2, <2>3, PeerTypes
  <2>5. Sent(q) = notifier[q].current /\ notifier[q].current = watch[q] /\ watch[q] = Len(history[q])
    BY <2>2, <2>3 DEF Sent, PeerFollowed, NotifierFollows, WatchFollows
  <2>6. ~InCatchup(q)
    BY <2>3, <2>4 DEF InCatchup
  <2>7. Accounted(q, p, entry[p][q], 0)
    BY <2>2, <2>3, <2>6 DEF PeerFollowed, CacheFollows
  <2>8. Since(q, p, entry[p][q], Len(history[q]))
    BY <2>4, <2>5, <2>7 DEF Accounted
  <2>9. (Len(history[q]) + 1)..Len(history[q]) = {}
    BY <2>4
  <2>10. QED
    BY <2>8, <2>9 DEF Since
<1>4. QED
  BY <1>1, <1>2, <1>3, SyncInvCorrect, PTL DEF Spec
=============================================================================
