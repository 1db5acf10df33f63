--------------------------- MODULE UnrealCacheProofs --------------------------
(***************************************************************************)
(* Theorems about UnrealCache and ArenaJobs: the tables of inodes keep the *)
(* files of peers at their own paths, inodes lead back to the arena that   *)
(* holds them, arenas are where their names say, and listings are whole.   *)
(* Seen by path, the tables do what ArenaCache says, and a path that gets  *)
(* a job is marked dirty.                                                  *)
(***************************************************************************)
EXTENDS ArenaJobs, WellFoundedInduction, FiniteSetTheorems, SequenceTheorems, TLAPS

-----------------------------------------------------------------------------
(* Induction and recursion.                                                *)

\* Induction over the natural numbers, for a set.
LEMMA SetInduction ==
  ASSUME NEW S, 0 \in S, \A n \in Nat : n \in S => n + 1 \in S
  PROVE  Nat \subseteq S
<1> DEFINE R == {ss \in Nat \X Nat : ss[1] < ss[2]}
           B == Nat \ S
<1>1. IsWellFoundedOn(R, Nat)
  BY NatLessThanWellFounded DEF OpToRel
<1>2. SUFFICES ASSUME B # {} PROVE FALSE
  OBVIOUS
<1>3. PICK n \in B : \A m \in B : ~(<<m, n>> \in R)
  <2> HIDE DEF R
  <2>1. QED
    BY <1>1, <1>2, WFMin
<1>4. n \in Nat /\ n # 0
  OBVIOUS
<1>5. n - 1 \in Nat /\ n - 1 < n /\ n - 1 + 1 = n
  BY <1>4
<1>6. <<n - 1, n>> \in R
  BY <1>4, <1>5
<1>7. n - 1 \notin B
  BY <1>3, <1>6
<1>8. QED
  BY <1>3, <1>5, <1>7

\* The entries along a path: Walk is the last of them.
IsWalk(f, tab, root, path) ==
  /\ f[0] = [inode |-> root, kind |-> "Dir"]
  /\ \A i \in 1..Len(path) : f[i] = Enter(tab, f[i - 1], path[i])

LEMMA WalkSteps ==
  ASSUME NEW tab, NEW root, NEW path, Len(path) \in Nat
  PROVE  \E f : IsWalk(f, tab, root, path) /\ Walk(tab, root, path) = f[Len(path)]
<1> DEFINE e0 == [inode |-> root, kind |-> "Dir"]
           Next1(f, i) == IF i = 0 THEN e0 ELSE Enter(tab, f[i - 1], path[i])
           S == {n \in Nat : \E f : f = [i \in 0..n |-> Next1(f, i)]}
<1>1. 0 \in S
  <2> DEFINE f == [i \in 0..0 |-> e0]
  <2>1. f = [i \in 0..0 |-> Next1(f, i)]
    OBVIOUS
  <2>2. QED
    BY <2>1
<1>2. ASSUME NEW n \in Nat, n \in S PROVE n + 1 \in S
  <2>1. PICK f : f = [i \in 0..n |-> Next1(f, i)]
    BY <1>2
  <2> DEFINE g == [i \in 0..(n + 1) |-> IF i = n + 1 THEN Enter(tab, f[n], path[n + 1]) ELSE f[i]]
  <2>2. ASSUME NEW i \in 0..(n + 1) PROVE g[i] = Next1(g, i)
    <3>1. CASE i = n + 1
      <4>1. g[n] = f[n] /\ i - 1 = n /\ i # 0
        BY <3>1
      <4>2. QED
        BY <3>1, <4>1
    <3>2. CASE i # n + 1
      <4>1. i \in 0..n /\ g[i] = f[i]
        BY <3>2
      <4>2. f[i] = Next1(f, i)
        BY <2>1, <4>1
      <4>3. i # 0 => g[i - 1] = f[i - 1]
        BY <4>1
      <4>4. QED
        BY <4>1, <4>2, <4>3
    <3>3. QED
      BY <3>1, <3>2
  <2>3. g = [i \in 0..(n + 1) |-> Next1(g, i)]
    <3> DEFINE h == [i \in 0..(n + 1) |-> Next1(g, i)]
    <3>1. \A i \in 0..(n + 1) : g[i] = h[i]
      BY <2>2
    <3> HIDE DEF Next1
    <3>2. QED
      BY <3>1
  <2> HIDE DEF g
  <2>4. QED
    BY <2>3
<1>3. Len(path) \in S
  <2> HIDE DEF S
  <2>1. QED
    BY <1>1, <1>2, SetInduction
<1> DEFINE at == CHOOSE f : f = [i \in 0..Len(path) |-> Next1(f, i)]
<1>4. at = [i \in 0..Len(path) |-> Next1(at, i)]
  <2>1. \E f : f = [i \in 0..Len(path) |-> Next1(f, i)]
    BY <1>3
  <2>2. QED
    BY <2>1
<1>5. Walk(tab, root, path) = at[Len(path)]
  BY DEF Walk
<1>6. at[0] = e0 /\ \A i \in 1..Len(path) : at[i] = Enter(tab, at[i - 1], path[i])
  <2> HIDE DEF at
  <2>1. \A i \in 0..Len(path) : at[i] = Next1(at, i)
    BY <1>4
  <2>2. QED
    BY <2>1
<1> HIDE DEF at
<1>7. QED
  BY <1>5, <1>6 DEF IsWalk

\* The states along a path that is being made: Mkdirs is the last of them.
IsMkdirs(f, s, path) ==
  f[0] = s /\ \A i \in 1..Len(path) : f[i] = MakeEntry(f[i - 1], path[i], "Dir")

LEMMA MkdirsSteps ==
  ASSUME NEW s, NEW path, Len(path) \in Nat
  PROVE  \E f : IsMkdirs(f, s, path) /\ Mkdirs(s, path) = f[Len(path)]
<1> DEFINE Next1(f, i) == IF i = 0 THEN s ELSE MakeEntry(f[i - 1], path[i], "Dir")
           S == {n \in Nat : \E f : f = [i \in 0..n |-> Next1(f, i)]}
<1>1. 0 \in S
  <2> DEFINE f == [i \in 0..0 |-> s]
  <2>1. f = [i \in 0..0 |-> Next1(f, i)]
    OBVIOUS
  <2>2. QED
    BY <2>1
<1>2. ASSUME NEW n \in Nat, n \in S PROVE n + 1 \in S
  <2>1. PICK f : f = [i \in 0..n |-> Next1(f, i)]
    BY <1>2
  <2> DEFINE g == [i \in 0..(n + 1) |-> IF i = n + 1 THEN MakeEntry(f[n], path[n + 1], "Dir") ELSE f[i]]
  <2>2. ASSUME NEW i \in 0..(n + 1) PROVE g[i] = Next1(g, i)
    <3>1. CASE i = n + 1
      <4>1. g[n] = f[n] /\ i - 1 = n /\ i # 0
        BY <3>1
      <4>2. QED
        BY <3>1, <4>1
    <3>2. CASE i # n + 1
      <4>1. i \in 0..n /\ g[i] = f[i]
        BY <3>2
      <4>2. f[i] = Next1(f, i)
        BY <2>1, <4>1
      <4>3. i # 0 => g[i - 1] = f[i - 1]
        BY <4>1
      <4>4. QED
        BY <4>1, <4>2, <4>3
    <3>3. QED
      BY <3>1, <3>2
  <2>3. g = [i \in 0..(n + 1) |-> Next1(g, i)]
    <3> DEFINE h == [i \in 0..(n + 1) |-> Next1(g, i)]
    <3>1. \A i \in 0..(n + 1) : g[i] = h[i]
      BY <2>2
    <3> HIDE DEF Next1
    <3>2. QED
      BY <3>1
  <2> HIDE DEF g
  <2>4. QED
    BY <2>3
<1>3. Len(path) \in S
  <2> HIDE DEF S
  <2>1. QED
    BY <1>1, <1>2, SetInduction
<1> DEFINE at == CHOOSE f : f = [i \in 0..Len(path) |-> Next1(f, i)]
<1>4. at = [i \in 0..Len(path) |-> Next1(at, i)]
  <2>1. \E f : f = [i \in 0..Len(path) |-> Next1(f, i)]
    BY <1>3
  <2>2. QED
    BY <2>1
<1>5. Mkdirs(s, path) = at[Len(path)]
  BY DEF Mkdirs
<1>6. at[0] = s /\ \A i \in 1..Len(path) : at[i] = MakeEntry(at[i - 1], path[i], "Dir")
  <2> HIDE DEF at
  <2>1. \A i \in 0..Len(path) : at[i] = Next1(at, i)
    BY <1>4
  <2>2. QED
    BY <2>1
<1> HIDE DEF at
<1>7. QED
  BY <1>5, <1>6 DEF IsMkdirs


-----------------------------------------------------------------------------
(* Walking along a path.                                                   *)

\* An entry of a directory, what a walk may find, and a table of entries.
Entry == [inode : Nat, kind : {"Dir", "File"}]
Found == [inode : Nat, kind : {"Dir", "File", "NotFound", "NotADirectory"}]
Entries(tab) == \A k \in DOMAIN tab : tab[k] \in Entry

LEMMA EnterType ==
  ASSUME NEW tab, Entries(tab), NEW e \in Found, NEW name
  PROVE  /\ Enter(tab, e, name) \in Found
         /\ Enter(tab, e, name).kind \in {"Dir", "File"} =>
              /\ e.kind = "Dir" /\ <<e.inode, name>> \in DOMAIN tab
              /\ Enter(tab, e, name) = tab[<<e.inode, name>>]
         /\ e.kind = "Dir" /\ <<e.inode, name>> \in DOMAIN tab =>
              Enter(tab, e, name) = tab[<<e.inode, name>>]
<1>1. CASE e.kind = "File"
  BY <1>1 DEF Enter, Found
<1>2. CASE e.kind = "Dir"
  <2>1. CASE <<e.inode, name>> \in DOMAIN tab
    <3>1. tab[<<e.inode, name>>] \in Entry
      BY <2>1 DEF Entries
    <3>2. QED
      BY <1>2, <2>1, <3>1 DEF Enter, Found, Entry
  <2>2. CASE <<e.inode, name>> \notin DOMAIN tab
    BY <1>2, <2>2 DEF Enter, Found
  <2>3. QED
    BY <2>1, <2>2
<1>3. CASE e.kind \notin {"File", "Dir"}
  BY <1>3 DEF Enter, Found
<1>4. QED
  BY <1>1, <1>2, <1>3

LEMMA WalkType ==
  ASSUME NEW tab, Entries(tab), NEW root \in Nat, NEW path, Len(path) \in Nat,
         NEW f, IsWalk(f, tab, root, path)
  PROVE  \A i \in 0..Len(path) : f[i] \in Found
<1> DEFINE S == {n \in Nat : n <= Len(path) => f[n] \in Found}
<1>1. 0 \in S
  BY DEF IsWalk, Found
<1>2. ASSUME NEW n \in Nat, n \in S PROVE n + 1 \in S
  <2>1. SUFFICES ASSUME n + 1 <= Len(path) PROVE f[n + 1] \in Found
    OBVIOUS
  <2>2. f[n] \in Found
    BY <1>2, <2>1
  <2>3. n + 1 \in 1..Len(path) /\ n + 1 - 1 = n
    BY <2>1
  <2>4. f[n + 1] = Enter(tab, f[n], path[n + 1])
    BY <2>3 DEF IsWalk
  <2>5. QED
    BY <2>2, <2>4, EnterType
<1>3. Nat \subseteq S
  <2> HIDE DEF S
  <2>1. QED
    BY <1>1, <1>2, SetInduction
<1>4. QED
  BY <1>3

\* What is before an entry that was found are directories.
LEMMA WalkFound ==
  ASSUME NEW tab, Entries(tab), NEW root \in Nat, NEW path, Len(path) \in Nat,
         NEW f, IsWalk(f, tab, root, path), NEW n \in 0..Len(path), f[n].kind \in {"Dir", "File"}
  PROVE  \A i \in 1..n :
           /\ f[i - 1].kind = "Dir" /\ f[i] \in Entry
           /\ <<f[i - 1].inode, path[i]>> \in DOMAIN tab /\ f[i] = tab[<<f[i - 1].inode, path[i]>>]
<1> DEFINE S == {j \in Nat : j < n => f[n - j].kind \in {"Dir", "File"}}
<1>t. \A i \in 0..Len(path) : f[i] \in Found
  BY WalkType
<1>s. ASSUME NEW i \in 1..n, f[i].kind \in {"Dir", "File"}
      PROVE  /\ f[i - 1].kind = "Dir" /\ f[i] \in Entry
             /\ <<f[i - 1].inode, path[i]>> \in DOMAIN tab /\ f[i] = tab[<<f[i - 1].inode, path[i]>>]
  <2>1. i \in 1..Len(path) /\ i - 1 \in 0..Len(path)
    OBVIOUS
  <2>2. f[i] = Enter(tab, f[i - 1], path[i]) /\ f[i - 1] \in Found
    BY <2>1, <1>t DEF IsWalk
  <2>3. QED
    BY <2>2, <1>s, EnterType DEF Entries
<1>1. 0 \in S
  BY n - 0 = n
<1>2. ASSUME NEW j \in Nat, j \in S PROVE j + 1 \in S
  <2>1. SUFFICES ASSUME j + 1 < n PROVE f[n - (j + 1)].kind \in {"Dir", "File"}
    OBVIOUS
  <2>2. f[n - j].kind \in {"Dir", "File"} /\ n - j \in 1..n /\ n - j - 1 = n - (j + 1)
    BY <1>2, <2>1
  <2>3. f[n - j - 1].kind = "Dir"
    BY <1>s, <2>2
  <2>4. QED
    BY <2>2, <2>3
<1>3. Nat \subseteq S
  <2> HIDE DEF S
  <2>1. QED
    BY <1>1, <1>2, SetInduction
<1>4. ASSUME NEW i \in 1..n PROVE f[i].kind \in {"Dir", "File"}
  <2>1. n - i \in Nat /\ n - i < n /\ n - (n - i) = i
    OBVIOUS
  <2>2. n - i \in S
    BY <1>3, <2>1
  <2>3. QED
    BY <2>1, <2>2
<1>5. QED
  BY <1>s, <1>4

\* A walk finds the same in a table that has the same directories and the
\* same entry at the end.
SameStart(path, path2, n) == \A i \in 1..n : path[i] = path2[i]
SameWay(tab, tab2, end) ==
  \A k \in DOMAIN tab : tab[k].kind = "Dir" \/ tab[k] = end => k \in DOMAIN tab2 /\ tab2[k] = tab[k]

\* A walk that is at an entry after n names, and the entries it went through.
Reaches(f, tab, root, path, n) ==
  /\ Entries(tab) /\ root \in Nat /\ Len(path) \in Nat /\ IsWalk(f, tab, root, path)
  /\ n \in 0..Len(path) /\ f[n].kind \in {"Dir", "File"}
Through(f, tab, path, n) ==
  \A i \in 1..n :
    /\ f[i - 1].kind = "Dir" /\ f[i] \in Entry
    /\ <<f[i - 1].inode, path[i]>> \in DOMAIN tab /\ f[i] = tab[<<f[i - 1].inode, path[i]>>]

LEMMA ReachesThrough ==
  ASSUME NEW f, NEW tab, NEW root, NEW path, NEW n, Reaches(f, tab, root, path, n)
  PROVE  Through(f, tab, path, n)
<1>1. /\ Entries(tab) /\ root \in Nat /\ Len(path) \in Nat /\ IsWalk(f, tab, root, path)
      /\ n \in 0..Len(path) /\ f[n].kind \in {"Dir", "File"}
  BY DEF Reaches
<1>2. SUFFICES ASSUME NEW i \in 1..n
               PROVE  /\ f[i - 1].kind = "Dir" /\ f[i] \in Entry
                      /\ <<f[i - 1].inode, path[i]>> \in DOMAIN tab
                      /\ f[i] = tab[<<f[i - 1].inode, path[i]>>]
  BY DEF Through
<1>3. QED
  BY <1>1, WalkFound

\* A walk along the same names in another table.
Along(g, tab2, root, path2, path, n) ==
  IsWalk(g, tab2, root, path2) /\ Len(path2) \in Nat /\ n <= Len(path2) /\ SameStart(path, path2, n)

LEMMA ReachesAlong ==
  ASSUME NEW f, NEW tab, NEW root, NEW path, NEW n, Reaches(f, tab, root, path, n),
         NEW g, NEW tab2, NEW path2, Along(g, tab2, root, path2, path, n), SameWay(tab, tab2, f[n])
  PROVE  g[n] = f[n]
<1>0. /\ Entries(tab) /\ root \in Nat /\ Len(path) \in Nat /\ IsWalk(f, tab, root, path)
      /\ n \in 0..Len(path) /\ f[n].kind \in {"Dir", "File"}
      /\ IsWalk(g, tab2, root, path2) /\ Len(path2) \in Nat /\ n <= Len(path2) /\ SameStart(path, path2, n)
  BY DEF Reaches, Along
<1> DEFINE S == {i \in Nat : i <= n => g[i] = f[i]}
<1>w. \A i \in 1..n :
        /\ f[i - 1].kind = "Dir"
        /\ <<f[i - 1].inode, path[i]>> \in DOMAIN tab /\ f[i] = tab[<<f[i - 1].inode, path[i]>>]
  BY ReachesThrough DEF Through
<1>1. 0 \in S
  BY <1>0 DEF IsWalk
<1>2. ASSUME NEW i \in Nat, i \in S PROVE i + 1 \in S
  <2>1. SUFFICES ASSUME i + 1 <= n PROVE g[i + 1] = f[i + 1]
    OBVIOUS
  <2>2. i + 1 \in 1..n /\ i + 1 \in 1..Len(path2) /\ i + 1 - 1 = i /\ g[i] = f[i]
    BY <1>0, <1>2, <2>1
  <2> DEFINE k == <<f[i].inode, path[i + 1]>>
  <2>3. f[i].kind = "Dir" /\ k \in DOMAIN tab /\ f[i + 1] = tab[k]
    BY <2>2, <1>w
  <2>4. tab[k].kind = "Dir" \/ tab[k] = f[n]
    <3>1. CASE i + 1 = n
      <4>1. f[i + 1] = f[n]
        BY <3>1
      <4>2. QED
        BY <2>3, <4>1
    <3>2. CASE i + 1 # n
      <4>1. i + 2 \in 1..n /\ i + 2 - 1 = i + 1
        BY <1>0, <2>2, <3>2
      <4>2. f[(i + 2) - 1].kind = "Dir"
        BY <4>1, <1>w
      <4>3. QED
        BY <2>3, <4>1, <4>2
    <3>3. QED
      BY <3>1, <3>2
  <2>5. k \in DOMAIN tab2 /\ tab2[k] = tab[k]
    BY <2>3, <2>4 DEF SameWay
  <2>6. g[i + 1] = Enter(tab2, f[i], path[i + 1])
    BY <1>0, <2>2 DEF IsWalk, SameStart
  <2>7. Enter(tab2, f[i], path[i + 1]) = tab2[k]
    BY <2>3, <2>5 DEF Enter
  <2>8. QED
    BY <2>3, <2>5, <2>6, <2>7
<1>3. Nat \subseteq S
  <2> HIDE DEF S
  <2>1. QED
    BY <1>1, <1>2, SetInduction
<1>4. QED
  BY <1>0, <1>3

-----------------------------------------------------------------------------
(* Inodes and ranges.                                                      *)

\* The first range that ends at or after the inode was taken for root.
Owned(rs, inode, root) ==
  \E e \in DOMAIN rs :
    e >= inode /\ rs[e] = root /\ \A d \in DOMAIN rs : d >= inode => d >= e

\* A table of ranges has a last one.
RangesOK(rs) ==
  /\ \A e \in DOMAIN rs : e \in Nat /\ e >= 2 /\ rs[e] \in Nat
  /\ DOMAIN rs # {} => \E m \in DOMAIN rs : \A e \in DOMAIN rs : e <= m

\* Ranges are added after those that are there.
Grows(rs, rs2) ==
  /\ DOMAIN rs \subseteq DOMAIN rs2
  /\ \A e \in DOMAIN rs : rs2[e] = rs[e]
  /\ \A e \in DOMAIN rs2 \ DOMAIN rs : \A d \in DOMAIN rs : e > d

\* What is left of a current range is of one range taken for root.
Current(rs, cur, root) ==
  /\ cur \in Nat \X Nat
  /\ cur # NoRange =>
       /\ cur[1] >= 2 /\ cur[1] > root /\ cur[1] < cur[2]
       /\ cur[2] - 1 \in DOMAIN rs /\ rs[cur[2] - 1] = root
       /\ \A d \in DOMAIN rs : d >= cur[1] => d >= cur[2] - 1

\* The inodes of a tree are in ranges taken for its root, and none is after
\* the last one that was allocated.
Tree(rs, tab, cur, root) ==
  \A k \in DOMAIN tab :
    /\ k = <<k[1], k[2]>> /\ k[1] \in Nat /\ (k[1] = root \/ k[1] <= cur[1])
    /\ tab[k] \in Entry /\ tab[k].inode >= 2 /\ tab[k].inode <= cur[1]
    /\ Owned(rs, tab[k].inode, root)

\* No inode is in two places.
Unique(tab) == \A k, l \in DOMAIN tab : tab[k].inode = tab[l].inode => k = l

\* A table with one more entry.
LEMMA Inserted ==
  ASSUME NEW k, NEW v, NEW t
  PROVE  /\ DOMAIN Insert(t, k, v) = DOMAIN t \cup {k}
         /\ Insert(t, k, v)[k] = v
         /\ \A x \in DOMAIN t : x # k => Insert(t, k, v)[x] = t[x]
  BY DEF Insert

LEMMA LastEndMax ==
  ASSUME NEW rs, RangesOK(rs)
  PROVE  LastEnd(rs) \in Nat /\ LastEnd(rs) >= 1 /\ \A e \in DOMAIN rs : e <= LastEnd(rs)
<1>1. CASE DOMAIN rs = {}
  BY <1>1 DEF LastEnd
<1>2. CASE DOMAIN rs # {}
  <2>1. PICK m \in DOMAIN rs : \A e \in DOMAIN rs : e <= m
    BY <1>2 DEF RangesOK
  <2>2. \A e \in DOMAIN rs : e \in Nat /\ e >= 2
    BY DEF RangesOK
  <2>3. \E x \in DOMAIN rs : \A y \in DOMAIN rs : x >= y
    BY <2>1, <2>2
  <2>4. Max(DOMAIN rs) \in DOMAIN rs /\ \A y \in DOMAIN rs : Max(DOMAIN rs) >= y
    BY <2>3 DEF Max
  <2>5. LastEnd(rs) = Max(DOMAIN rs)
    BY <1>2 DEF LastEnd
  <2>6. QED
    BY <2>2, <2>4, <2>5
<1>3. QED
  BY <1>1, <1>2

LEMMA GrowsOwned ==
  ASSUME NEW rs, NEW rs2, RangesOK(rs), RangesOK(rs2), Grows(rs, rs2), NEW i \in Nat, NEW r,
         Owned(rs, i, r)
  PROVE  Owned(rs2, i, r)
<1>1. PICK e \in DOMAIN rs : e >= i /\ rs[e] = r /\ \A d \in DOMAIN rs : d >= i => d >= e
  BY DEF Owned
<1>2. e \in DOMAIN rs2 /\ rs2[e] = r
  BY <1>1 DEF Grows
<1>3. ASSUME NEW d \in DOMAIN rs2, d >= i PROVE d >= e
  BY <1>1, <1>3 DEF Grows, RangesOK
<1>4. QED
  BY <1>1, <1>2, <1>3 DEF Owned

LEMMA GrowsCurrent ==
  ASSUME NEW rs, NEW rs2, RangesOK(rs), RangesOK(rs2), Grows(rs, rs2), NEW cur, NEW r,
         Current(rs, cur, r)
  PROVE  Current(rs2, cur, r)
<1>1. SUFFICES ASSUME cur # NoRange
               PROVE  /\ cur[2] - 1 \in DOMAIN rs2 /\ rs2[cur[2] - 1] = r
                      /\ \A d \in DOMAIN rs2 : d >= cur[1] => d >= cur[2] - 1
  BY DEF Current
<1>2. cur[1] \in Nat /\ cur[2] \in Nat /\ cur[2] - 1 \in DOMAIN rs /\ rs[cur[2] - 1] = r
      /\ \A d \in DOMAIN rs : d >= cur[1] => d >= cur[2] - 1
  BY <1>1 DEF Current
<1>3. cur[2] - 1 \in DOMAIN rs2 /\ rs2[cur[2] - 1] = r
  BY <1>2 DEF Grows
<1>4. ASSUME NEW d \in DOMAIN rs2, d >= cur[1] PROVE d >= cur[2] - 1
  BY <1>2, <1>4 DEF Grows, RangesOK
<1>5. QED
  BY <1>3, <1>4

LEMMA GrowsTree ==
  ASSUME NEW rs, NEW rs2, RangesOK(rs), RangesOK(rs2), Grows(rs, rs2), NEW tab, NEW cur, NEW r,
         Tree(rs, tab, cur, r)
  PROVE  Tree(rs2, tab, cur, r)
<1>1. ASSUME NEW k \in DOMAIN tab PROVE Owned(rs2, tab[k].inode, r)
  <2>1. tab[k].inode \in Nat /\ Owned(rs, tab[k].inode, r)
    BY DEF Tree, Entry
  <2>2. QED
    BY <2>1, GrowsOwned
<1>2. QED
  BY <1>1 DEF Tree

LEMMA GrowsRefl == ASSUME NEW rs PROVE Grows(rs, rs)
  BY DEF Grows

LEMMA GrowsTrans ==
  ASSUME NEW r1, NEW r2, NEW r3, Grows(r1, r2), Grows(r2, r3)
  PROVE  Grows(r1, r3)
  BY DEF Grows

\* A new range is after the others.
LEMMA NewRange ==
  ASSUME NEW rs, RangesOK(rs), NEW root \in Nat, NEW size \in Nat \ {0},
         NEW start, start = LastEnd(rs) + 1,
         NEW rs2, rs2 = Insert(rs, start + size - 1, root)
  PROVE  /\ RangesOK(rs2) /\ Grows(rs, rs2) /\ start \in Nat /\ start >= 2
         /\ \A d \in DOMAIN rs : d < start
         /\ start + size - 1 \in DOMAIN rs2 /\ rs2[start + size - 1] = root
         /\ \A d \in DOMAIN rs2 : d >= start => d = start + size - 1
<1> DEFINE e == start + size - 1
<1>1. start \in Nat /\ start >= 2 /\ \A d \in DOMAIN rs : d < start /\ d \in Nat
  BY LastEndMax DEF RangesOK
<1>2. e \in Nat /\ e >= start /\ e \notin DOMAIN rs
  BY <1>1
<1>i. rs2 = Insert(rs, e, root)
  OBVIOUS
<1> HIDE DEF e
<1>3. DOMAIN rs2 = {e} \cup DOMAIN rs /\ rs2[e] = root /\ \A d \in DOMAIN rs : rs2[d] = rs[d]
  BY <1>2, <1>i DEF Insert
<1>4. \A d \in DOMAIN rs2 : d <= e
  BY <1>1, <1>2, <1>3
<1>5. RangesOK(rs2)
  BY <1>1, <1>2, <1>3, <1>4 DEF RangesOK
<1>6. Grows(rs, rs2)
  BY <1>1, <1>2, <1>3 DEF Grows
<1>7. \A d \in DOMAIN rs2 : d >= start => d = e
  BY <1>1, <1>3
<1>8. QED
  BY <1>1, <1>2, <1>3, <1>5, <1>6, <1>7 DEF e

\* What holds of the state of an allocation.
AllocOK(s) ==
  /\ s = [tab |-> s.tab, at |-> s.at, cur |-> s.cur, ranges |-> s.ranges, root |-> s.root,
          size |-> s.size, failed |-> s.failed]
  /\ s.root \in Nat /\ s.size \in Nat \ {0} /\ s.at \in Nat /\ s.failed \in BOOLEAN
  /\ RangesOK(s.ranges)
  /\ Current(s.ranges, s.cur, s.root)
  /\ Tree(s.ranges, s.tab, s.cur, s.root)
  /\ s.at = s.root \/ s.at <= s.cur[1]
  /\ s.root = 1 \/ \E e \in DOMAIN s.ranges : s.root <= e

\* allocate_inode returns an inode of a range taken for the root, after every
\* inode of the tree.
LEMMA AllocateOK ==
  ASSUME NEW s, AllocOK(s), NEW t, t = AllocateInode(s)
  PROVE  /\ t = [tab |-> s.tab, at |-> s.at, cur |-> t.cur, ranges |-> t.ranges,
                 root |-> s.root, size |-> s.size, failed |-> s.failed]
         /\ RangesOK(t.ranges) /\ Grows(s.ranges, t.ranges)
         /\ Current(t.ranges, t.cur, s.root)
         /\ t.cur[1] \in Nat /\ t.cur[1] >= 2 /\ t.cur[1] > s.cur[1] /\ t.cur[1] > s.root
         /\ Owned(t.ranges, t.cur[1], s.root)
<1>1. s.cur \in Nat \X Nat /\ s.root \in Nat /\ s.size \in Nat \ {0} /\ RangesOK(s.ranges)
      /\ Current(s.ranges, s.cur, s.root)
  BY DEF AllocOK, Current
<1>2. CASE s.cur # NoRange /\ s.cur[1] + 1 < s.cur[2]
  <2>1. t = [tab |-> s.tab, at |-> s.at, cur |-> <<s.cur[1] + 1, s.cur[2]>>, ranges |-> s.ranges,
             root |-> s.root, size |-> s.size, failed |-> s.failed]
    <3>1. t = [s EXCEPT !.cur[1] = @ + 1]
      BY <1>2 DEF AllocateInode
    <3>2. [s.cur EXCEPT ![1] = @ + 1] = <<s.cur[1] + 1, s.cur[2]>>
      BY <1>1
    <3>3. QED
      BY <3>1, <3>2 DEF AllocOK
  <2>2. s.cur[1] \in Nat /\ s.cur[2] \in Nat
    BY <1>1
  <2>3. Current(t.ranges, t.cur, s.root)
    <3>1. t.cur[1] = s.cur[1] + 1 /\ t.cur[2] = s.cur[2] /\ t.ranges = s.ranges /\ t.cur \in Nat \X Nat
      BY <2>1, <2>2
    <3>2. /\ s.cur[1] >= 2 /\ s.cur[1] > s.root
          /\ s.cur[2] - 1 \in DOMAIN s.ranges /\ s.ranges[s.cur[2] - 1] = s.root
          /\ \A d \in DOMAIN s.ranges : d >= s.cur[1] => d >= s.cur[2] - 1
      BY <1>1, <1>2 DEF Current
    <3>3. \A d \in DOMAIN s.ranges : d >= s.cur[1] + 1 => d >= s.cur[2] - 1
      BY <1>1, <2>2, <3>2 DEF RangesOK
    <3>4. s.cur[1] + 1 >= 2 /\ s.cur[1] + 1 > s.root /\ s.cur[1] + 1 < s.cur[2]
      BY <1>1, <1>2, <2>2, <3>2
    <3>5. QED
      BY <3>1, <3>2, <3>3, <3>4 DEF Current
  <2>4. Owned(t.ranges, t.cur[1], s.root)
    <3>1. s.cur[2] - 1 \in DOMAIN s.ranges /\ s.ranges[s.cur[2] - 1] = s.root
          /\ \A d \in DOMAIN s.ranges : d >= s.cur[1] => d >= s.cur[2] - 1
      BY <1>1, <1>2 DEF Current
    <3>2. s.cur[2] - 1 >= s.cur[1] + 1
      BY <1>2, <2>2
    <3>3. \A d \in DOMAIN s.ranges : d >= s.cur[1] + 1 => d >= s.cur[2] - 1
      BY <1>1, <2>2, <3>1 DEF RangesOK
    <3>4. t.cur[1] = s.cur[1] + 1 /\ t.ranges = s.ranges
      BY <2>1
    <3>5. QED
      BY <3>1, <3>2, <3>3, <3>4 DEF Owned
  <2>5. s.cur[1] >= 2 /\ s.cur[1] > s.root
    BY <1>1, <1>2 DEF Current
  <2>6. QED
    BY <1>1, <2>1, <2>2, <2>3, <2>4, <2>5, GrowsRefl
<1>3. CASE ~(s.cur # NoRange /\ s.cur[1] + 1 < s.cur[2])
  <2> DEFINE start == LastEnd(s.ranges) + 1
             rs2 == Insert(s.ranges, start + s.size - 1, s.root)
  <2>1. t = [tab |-> s.tab, at |-> s.at, cur |-> <<start, start + s.size>>, ranges |-> rs2,
             root |-> s.root, size |-> s.size, failed |-> s.failed]
    <3>1. t = [s EXCEPT !.cur = <<start, start + s.size>>, !.ranges = rs2]
      BY <1>3 DEF AllocateInode
    <3> HIDE DEF start, rs2
    <3>2. QED
      BY <3>1 DEF AllocOK
  <2>2. /\ RangesOK(rs2) /\ Grows(s.ranges, rs2) /\ start \in Nat /\ start >= 2
        /\ \A d \in DOMAIN s.ranges : d < start
        /\ start + s.size - 1 \in DOMAIN rs2 /\ rs2[start + s.size - 1] = s.root
        /\ \A d \in DOMAIN rs2 : d >= start => d = start + s.size - 1
    BY <1>1, NewRange
  <2> HIDE DEF start, rs2
  <2>3. start > s.root
    BY <1>1, <2>2 DEF AllocOK, RangesOK
  <2>4. start > s.cur[1]
    BY <1>1, <2>2 DEF Current, NoRange, RangesOK
  <2>5. t.cur[1] = start /\ t.cur[2] = start + s.size /\ t.ranges = rs2 /\ t.cur \in Nat \X Nat
    BY <1>1, <2>1, <2>2
  <2>6. start < start + s.size /\ start + s.size - 1 >= start
    BY <1>1, <2>2
  <2>7. Current(rs2, t.cur, s.root)
    BY <1>1, <2>2, <2>3, <2>5, <2>6 DEF Current
  <2>8. Owned(rs2, start, s.root)
    BY <1>1, <2>2, <2>6 DEF Owned, RangesOK
  <2>9. QED
    BY <2>1, <2>2, <2>3, <2>4, <2>5, <2>7, <2>8
<1>4. QED
  BY <1>2, <1>3

\* What a step of do_mkdirs or do_create_file does, whether it finds an entry,
\* finds one of another kind or adds one.
Finds(s, t, name, kind) ==
  /\ <<s.at, name>> \in DOMAIN s.tab /\ s.tab[<<s.at, name>>].kind = kind
  /\ t = [s EXCEPT !.at = s.tab[<<s.at, name>>].inode]
Adds(s, t, name, kind) ==
  /\ <<s.at, name>> \notin DOMAIN s.tab
  /\ t.tab = Insert(s.tab, <<s.at, name>>, [inode |-> t.at, kind |-> kind])
  /\ t.at > s.cur[1] /\ t.at > s.root
Fails(s, t) == t.tab = s.tab /\ t.failed

LEMMA EntrySet ==
  ASSUME NEW tab, NEW at, NEW cur, NEW rs, NEW root, NEW size, NEW failed, NEW tab2, NEW at2
  PROVE  [[tab |-> tab, at |-> at, cur |-> cur, ranges |-> rs, root |-> root, size |-> size,
           failed |-> failed] EXCEPT !.tab = tab2, !.at = at2] =
         [tab |-> tab2, at |-> at2, cur |-> cur, ranges |-> rs, root |-> root, size |-> size,
          failed |-> failed]
<1> DEFINE u == [tab |-> tab, at |-> at, cur |-> cur, ranges |-> rs, root |-> root, size |-> size,
                 failed |-> failed]
           v == [u EXCEPT !.tab = tab2]
<1>1. v = [tab |-> tab2, at |-> at, cur |-> cur, ranges |-> rs, root |-> root, size |-> size,
           failed |-> failed]
  OBVIOUS
<1>2. [u EXCEPT !.tab = tab2, !.at = at2] = [v EXCEPT !.at = at2]
  OBVIOUS
<1> HIDE DEF v
<1>3. [v EXCEPT !.at = at2] =
        [tab |-> tab2, at |-> at2, cur |-> cur, ranges |-> rs, root |-> root, size |-> size,
         failed |-> failed]
  BY <1>1
<1>4. QED
  BY <1>2, <1>3

LEMMA MakeEntryOK ==
  ASSUME NEW s, AllocOK(s), NEW name, NEW kind \in {"Dir", "File"},
         NEW t, t = MakeEntry(s, name, kind)
  PROVE  /\ AllocOK(t) /\ Grows(s.ranges, t.ranges)
         /\ t.root = s.root /\ t.size = s.size
         /\ s.cur[1] \in Nat /\ t.cur[1] \in Nat /\ t.cur[1] >= s.cur[1]
         /\ t.at = s.at \/ \E k \in DOMAIN t.tab : t.at = t.tab[k].inode
         /\ \/ Fails(s, t)
            \/ ~s.failed /\ ~t.failed /\ (Finds(s, t, name, kind) \/ Adds(s, t, name, kind))
<1> DEFINE key == <<s.at, name>>
<1>0. s.cur[1] \in Nat
  BY DEF AllocOK, Current
<1>1. CASE s.failed
  BY <1>0, <1>1, GrowsRefl DEF MakeEntry, Fails
<1>2. CASE ~s.failed /\ key \in DOMAIN s.tab
  <2>1. CASE s.tab[key].kind = kind
    <3>1. t = [s EXCEPT !.at = s.tab[key].inode]
      BY <1>2, <2>1 DEF MakeEntry
    <3>2. s.tab[key].inode \in Nat /\ s.tab[key].inode <= s.cur[1]
      BY <1>2 DEF AllocOK, Tree, Entry
    <3>3. t = [tab |-> s.tab, at |-> s.tab[key].inode, cur |-> s.cur, ranges |-> s.ranges,
               root |-> s.root, size |-> s.size, failed |-> s.failed]
      BY <3>1 DEF AllocOK
    <3>4. AllocOK(t)
      BY <3>2, <3>3 DEF AllocOK
    <3>5. QED
      BY <1>0, <1>2, <2>1, <3>1, <3>3, <3>4, GrowsRefl DEF Finds
  <2>2. CASE s.tab[key].kind # kind
    <3>1. t = [s EXCEPT !.failed = TRUE]
      BY <1>2, <2>2 DEF MakeEntry
    <3>2. t = [tab |-> s.tab, at |-> s.at, cur |-> s.cur, ranges |-> s.ranges,
               root |-> s.root, size |-> s.size, failed |-> TRUE]
      BY <3>1 DEF AllocOK
    <3>3. AllocOK(t)
      BY <3>2 DEF AllocOK
    <3>4. QED
      BY <1>0, <3>2, <3>3, GrowsRefl DEF Fails
  <2>3. QED
    BY <2>1, <2>2
<1>3. CASE ~s.failed /\ key \notin DOMAIN s.tab
  <2> DEFINE u == AllocateInode(s)
             entry == [inode |-> u.cur[1], kind |-> kind]
             tab == Insert(s.tab, key, entry)
  <2>1. /\ u = [tab |-> s.tab, at |-> s.at, cur |-> u.cur, ranges |-> u.ranges,
                root |-> s.root, size |-> s.size, failed |-> s.failed]
        /\ RangesOK(u.ranges) /\ Grows(s.ranges, u.ranges)
        /\ Current(u.ranges, u.cur, s.root)
        /\ u.cur[1] \in Nat /\ u.cur[1] >= 2 /\ u.cur[1] > s.cur[1] /\ u.cur[1] > s.root
        /\ Owned(u.ranges, u.cur[1], s.root)
    BY AllocateOK
  <2>2. t = [u EXCEPT !.tab = Insert(@, key, entry), !.at = u.cur[1]]
    BY <1>3 DEF MakeEntry
  <2> HIDE DEF u
  <2>3. t = [tab |-> tab, at |-> u.cur[1], cur |-> u.cur, ranges |-> u.ranges,
             root |-> s.root, size |-> s.size, failed |-> s.failed]
    <3>1. u.tab = s.tab
      BY <2>1
    <3> DEFINE i == u.cur[1]
    <3>2. t = [u EXCEPT !.tab = tab, !.at = i]
      BY <2>2, <3>1
    <3> HIDE DEF tab, i
    <3>3. t = [tab |-> tab, at |-> i, cur |-> u.cur, ranges |-> u.ranges,
               root |-> s.root, size |-> s.size, failed |-> s.failed]
      <4> DEFINE U == [tab |-> s.tab, at |-> s.at, cur |-> u.cur, ranges |-> u.ranges,
                       root |-> s.root, size |-> s.size, failed |-> s.failed]
      <4>1. t = [U EXCEPT !.tab = tab, !.at = i]
        <5>1. u = U
          BY <2>1
        <5> HIDE DEF U
        <5>2. QED
          BY <3>2, <5>1
      <4>2. QED
        BY <4>1, EntrySet, Zenon
    <3>4. QED
      BY <3>3 DEF i
  <2>4. entry \in Entry /\ entry.inode = u.cur[1]
    BY <2>1 DEF Entry
  <2>5. DOMAIN tab = DOMAIN s.tab \cup {key} /\ tab[key] = entry
        /\ \A k \in DOMAIN s.tab : tab[k] = s.tab[k]
    BY <1>3, Inserted DEF Insert
  <2>6. s.cur[1] \in Nat /\ s.at \in Nat /\ s.root \in Nat /\ RangesOK(s.ranges)
        /\ Tree(s.ranges, s.tab, s.cur, s.root) /\ (s.at = s.root \/ s.at <= s.cur[1])
    BY DEF AllocOK, Current
  <2>7. Tree(u.ranges, s.tab, s.cur, s.root)
    BY <2>1, <2>6, GrowsTree
  <2>8. Tree(u.ranges, tab, u.cur, s.root)
    <3>1. ASSUME NEW k \in DOMAIN tab
          PROVE /\ k = <<k[1], k[2]>> /\ k[1] \in Nat /\ (k[1] = s.root \/ k[1] <= u.cur[1])
                /\ tab[k] \in Entry /\ tab[k].inode >= 2 /\ tab[k].inode <= u.cur[1]
                /\ Owned(u.ranges, tab[k].inode, s.root)
      <4>1. CASE k = key
        <5>1. k[1] = s.at /\ k = <<k[1], k[2]>>
          BY <4>1
        <5> HIDE DEF key, entry, tab
        <5>2. QED
          BY <2>1, <2>4, <2>5, <2>6, <4>1, <5>1
      <4>2. CASE k # key
        <5>1. k \in DOMAIN s.tab /\ tab[k] = s.tab[k]
          BY <2>5, <4>2
        <5> HIDE DEF tab
        <5>2. /\ k = <<k[1], k[2]>> /\ k[1] \in Nat /\ (k[1] = s.root \/ k[1] <= s.cur[1])
              /\ s.tab[k] \in Entry /\ s.tab[k].inode >= 2 /\ s.tab[k].inode <= s.cur[1]
              /\ Owned(u.ranges, s.tab[k].inode, s.root)
          BY <2>7, <5>1 DEF Tree
        <5>3. s.tab[k].inode \in Nat
          BY <5>2 DEF Entry
        <5>4. QED
          BY <2>1, <2>6, <5>1, <5>2, <5>3
      <4>3. QED
        BY <4>1, <4>2
    <3>2. QED
      BY <3>1 DEF Tree
  <2>9. s.root = 1 \/ \E e \in DOMAIN u.ranges : s.root <= e
    BY <2>1 DEF AllocOK, Grows
  <2> HIDE DEF entry, tab
  <2>10. AllocOK(t)
    <3>1. s.size \in Nat \ {0} /\ s.failed \in BOOLEAN
      BY DEF AllocOK
    <3>2. /\ t.tab = tab /\ t.at = u.cur[1] /\ t.cur = u.cur /\ t.ranges = u.ranges
          /\ t.root = s.root /\ t.size = s.size /\ t.failed = s.failed
      BY <2>3
    <3>3. t = [tab |-> t.tab, at |-> t.at, cur |-> t.cur, ranges |-> t.ranges, root |-> t.root,
               size |-> t.size, failed |-> t.failed]
      BY <2>3
    <3>4. t.at <= t.cur[1]
      BY <2>1, <3>2
    <3>5. QED
      BY <2>1, <2>6, <2>8, <2>9, <3>1, <3>2, <3>3, <3>4 DEF AllocOK
  <2>11. t.at = t.tab[key].inode /\ key \in DOMAIN t.tab
    BY <2>3, <2>4, <2>5
  <2>12. Adds(s, t, name, kind)
    BY <1>3, <2>1, <2>3 DEF Adds, tab, entry
  <2>13. QED
    BY <1>0, <1>3, <2>1, <2>3, <2>10, <2>11, <2>12
<1>4. QED
  BY <1>1, <1>2, <1>3

\* A table with all the entries of another one.
Extends(tab, tab2) == \A k \in DOMAIN tab : k \in DOMAIN tab2 /\ tab2[k] = tab[k]

LEMMA MakeEntryKeeps ==
  ASSUME NEW s, AllocOK(s), NEW name, NEW kind \in {"Dir", "File"},
         NEW t, t = MakeEntry(s, name, kind)
  PROVE  /\ Extends(s.tab, t.tab)
         /\ ~t.failed => /\ <<s.at, name>> \in DOMAIN t.tab
                         /\ t.tab[<<s.at, name>>] = [inode |-> t.at, kind |-> kind]
<1> DEFINE key == <<s.at, name>>
<1>1. \/ Fails(s, t)
      \/ ~s.failed /\ ~t.failed /\ (Finds(s, t, name, kind) \/ Adds(s, t, name, kind))
  BY MakeEntryOK
<1>2. CASE Fails(s, t)
  BY <1>2 DEF Fails, Extends
<1>3. CASE Finds(s, t, name, kind)
  <2>1. key \in DOMAIN s.tab /\ s.tab[key] \in Entry /\ s.tab[key].kind = kind
    BY <1>3 DEF Finds, AllocOK, Tree
  <2>2. t.tab = s.tab /\ t.at = s.tab[key].inode
    BY <1>3 DEF Finds, AllocOK
  <2>3. s.tab[key] = [inode |-> s.tab[key].inode, kind |-> s.tab[key].kind]
    BY <2>1 DEF Entry
  <2>4. QED
    BY <2>1, <2>2, <2>3 DEF Extends
<1>4. CASE Adds(s, t, name, kind)
  <2> DEFINE entry == [inode |-> t.at, kind |-> kind]
  <2>1. key \notin DOMAIN s.tab /\ t.tab = Insert(s.tab, key, entry) /\ t.at > s.cur[1]
    BY <1>4 DEF Adds
  <2>2. DOMAIN t.tab = DOMAIN s.tab \cup {key} /\ t.tab[key] = entry
        /\ \A k \in DOMAIN s.tab : t.tab[k] = s.tab[k]
    BY <2>1 DEF Insert
  <2>3. QED
    BY <2>2 DEF Extends
<1>5. QED
  BY <1>1, <1>2, <1>3, <1>4

LEMMA MakeEntryUnique ==
  ASSUME NEW s, AllocOK(s), NEW name, NEW kind \in {"Dir", "File"},
         NEW t, t = MakeEntry(s, name, kind), Unique(s.tab)
  PROVE  Unique(t.tab)
<1> DEFINE key == <<s.at, name>>
<1>1. \/ Fails(s, t)
      \/ ~s.failed /\ ~t.failed /\ (Finds(s, t, name, kind) \/ Adds(s, t, name, kind))
  BY MakeEntryOK
<1>2. CASE Fails(s, t)
  BY <1>2 DEF Fails
<1>3. CASE Finds(s, t, name, kind)
  <2>1. t.tab = s.tab
    BY <1>3 DEF Finds, AllocOK
  <2>2. QED
    BY <2>1
<1>4. CASE Adds(s, t, name, kind)
  <2> DEFINE entry == [inode |-> t.at, kind |-> kind]
  <2>1. key \notin DOMAIN s.tab /\ t.tab = Insert(s.tab, key, entry) /\ t.at > s.cur[1]
    BY <1>4 DEF Adds
  <2>2. DOMAIN t.tab = DOMAIN s.tab \cup {key} /\ t.tab[key] = entry
        /\ \A k \in DOMAIN s.tab : t.tab[k] = s.tab[k]
    BY <2>1 DEF Insert
  <2>3. \A k \in DOMAIN s.tab : s.tab[k].inode \in Nat /\ s.tab[k].inode <= s.cur[1]
    BY DEF AllocOK, Tree, Entry
  <2>4. s.cur[1] \in Nat /\ t.at \in Nat
    <3>1. AllocOK(t)
      BY MakeEntryOK
    <3>2. QED
      BY <3>1 DEF AllocOK, Current
  <2>5. \A k \in DOMAIN s.tab : s.tab[k].inode # t.at
    BY <2>1, <2>3, <2>4
  <2>6. entry.inode = t.at
    OBVIOUS
  <2> HIDE DEF entry, key
  <2>7. QED
    BY <2>2, <2>5, <2>6 DEF Unique
<1>5. QED
  BY <1>1, <1>2, <1>3, <1>4

LEMMA WalkExtends ==
  ASSUME NEW tab, Entries(tab), NEW tab2, Extends(tab, tab2), NEW root \in Nat,
         NEW path, Len(path) \in Nat, NEW f, IsWalk(f, tab, root, path),
         NEW g, IsWalk(g, tab2, root, path), NEW n \in 0..Len(path),
         f[n].kind \in {"Dir", "File"}
  PROVE  g[n] = f[n]
<1>1. SameWay(tab, tab2, f[n])
  BY DEF Extends, SameWay
<1>2. n <= Len(path) /\ SameStart(path, path, n)
  BY DEF SameStart
<1>3. Reaches(f, tab, root, path, n) /\ Along(g, tab2, root, path, path, n)
  BY <1>2 DEF Reaches, Along
<1>4. QED
  BY <1>1, <1>3, ReachesAlong

LEMMA ExtendsTrans ==
  ASSUME NEW t1, NEW t2, NEW t3, Extends(t1, t2), Extends(t2, t3)
  PROVE  Extends(t1, t3)
  BY DEF Extends

\* do_mkdirs keeps what is there.
LEMMA MkdirsOK ==
  ASSUME NEW s, AllocOK(s), NEW path, Len(path) \in Nat, NEW f, IsMkdirs(f, s, path)
  PROVE  \A i \in 0..Len(path) :
           /\ AllocOK(f[i]) /\ f[i].root = s.root /\ f[i].size = s.size
           /\ Grows(s.ranges, f[i].ranges) /\ Extends(s.tab, f[i].tab)
           /\ Unique(s.tab) => Unique(f[i].tab)
<1> DEFINE P(t) == /\ AllocOK(t) /\ t.root = s.root /\ t.size = s.size
                   /\ Grows(s.ranges, t.ranges) /\ Extends(s.tab, t.tab)
                   /\ Unique(s.tab) => Unique(t.tab)
           S == {n \in Nat : n <= Len(path) => P(f[n])}
<1>1. 0 \in S
  <2>1. P(s)
    BY GrowsRefl DEF Extends
  <2>2. f[0] = s
    BY DEF IsMkdirs
  <2> HIDE DEF P
  <2>3. QED
    BY <2>1, <2>2
<1>2. ASSUME NEW n \in Nat, n \in S PROVE n + 1 \in S
  <2>1. SUFFICES ASSUME n + 1 <= Len(path) PROVE P(f[n + 1])
    OBVIOUS
  <2>2. P(f[n])
    BY <1>2, <2>1
  <2>3. n + 1 \in 1..Len(path) /\ n + 1 - 1 = n
    BY <2>1
  <2>4. f[n + 1] = MakeEntry(f[n], path[n + 1], "Dir")
    BY <2>3 DEF IsMkdirs
  <2> DEFINE t == f[n]
             u == f[n + 1]
  <2> HIDE DEF t, u
  <2>5. AllocOK(t) /\ t.root = s.root /\ t.size = s.size /\ Grows(s.ranges, t.ranges)
        /\ Extends(s.tab, t.tab) /\ (Unique(s.tab) => Unique(t.tab))
    BY <2>2 DEF t
  <2>6. u = MakeEntry(t, path[n + 1], "Dir")
    BY <2>4 DEF t, u
  <2>7. AllocOK(u) /\ Grows(t.ranges, u.ranges) /\ u.root = t.root /\ u.size = t.size
    BY <2>5, <2>6, MakeEntryOK
  <2>8. Extends(t.tab, u.tab) /\ (Unique(t.tab) => Unique(u.tab))
    <3>1. Extends(t.tab, u.tab)
      BY <2>5, <2>6, MakeEntryKeeps
    <3>2. ASSUME Unique(t.tab) PROVE Unique(u.tab)
      BY <2>5, <2>6, <3>2, MakeEntryUnique
    <3>3. QED
      BY <3>1, <3>2
  <2>9. P(u)
    BY <2>5, <2>7, <2>8, GrowsTrans, ExtendsTrans
  <2>10. QED
    BY <2>9 DEF u
<1>3. Nat \subseteq S
  <2> HIDE DEF S
  <2>1. QED
    BY <1>1, <1>2, SetInduction
<1>4. QED
  BY <1>3

LEMMA AllocEntries ==
  ASSUME NEW s, AllocOK(s)
  PROVE  Entries(s.tab) /\ s.root \in Nat
  BY DEF AllocOK, Tree, Entries

\* do_mkdirs ends in the directory of that path.
LEMMA MkdirsWalk ==
  ASSUME NEW s, AllocOK(s), s.at = s.root, NEW path, Len(path) \in Nat, NEW f, IsMkdirs(f, s, path)
  PROVE  \A n \in 0..Len(path) : ~f[n].failed =>
           \A g : IsWalk(g, f[n].tab, s.root, path) => g[n] = [inode |-> f[n].at, kind |-> "Dir"]
<1> DEFINE P(n) == ~f[n].failed =>
             \A g : IsWalk(g, f[n].tab, s.root, path) => g[n] = [inode |-> f[n].at, kind |-> "Dir"]
           S == {n \in Nat : n <= Len(path) => P(n)}
<1>0. \A i \in 0..Len(path) : AllocOK(f[i]) /\ f[i].root = s.root
  BY MkdirsOK
<1>1. 0 \in S
  BY DEF IsMkdirs, IsWalk
<1>2. ASSUME NEW n \in Nat, n \in S PROVE n + 1 \in S
  <2>1. SUFFICES ASSUME n + 1 <= Len(path), ~f[n + 1].failed,
                        NEW g, IsWalk(g, f[n + 1].tab, s.root, path)
                 PROVE  g[n + 1] = [inode |-> f[n + 1].at, kind |-> "Dir"]
    OBVIOUS
  <2>2. n \in 0..Len(path) /\ n + 1 \in 1..Len(path) /\ n + 1 - 1 = n
    BY <2>1
  <2>3. f[n + 1] = MakeEntry(f[n], path[n + 1], "Dir")
    BY <2>2 DEF IsMkdirs
  <2> DEFINE t == f[n]
             u == f[n + 1]
             name == path[n + 1]
  <2>4. AllocOK(t) /\ t.root = s.root /\ u = MakeEntry(t, name, "Dir") /\ ~u.failed
    BY <1>0, <2>1, <2>2, <2>3
  <2>5. P(n)
    BY <1>2, <2>2
  <2>6. PICK h : IsWalk(h, t.tab, s.root, path)
    BY WalkSteps
  <2>7. g[n + 1] = Enter(u.tab, g[n], name)
    BY <2>1, <2>2 DEF IsWalk
  <2>8. ~t.failed => h[n] = [inode |-> t.at, kind |-> "Dir"]
    BY <2>5, <2>6
  <2>w. IsWalk(g, u.tab, s.root, path)
    BY <2>1
  <2> HIDE DEF t, u, name
  <2>9. ~t.failed
    <3>1. Fails(t, u) \/ ~t.failed
      BY <2>4, MakeEntryOK
    <3>2. QED
      BY <2>4, <3>1 DEF Fails
  <2>10. h[n] = [inode |-> t.at, kind |-> "Dir"] /\ h[n].kind \in {"Dir", "File"}
    BY <2>8, <2>9
  <2>11. Extends(t.tab, u.tab) /\ <<t.at, name>> \in DOMAIN u.tab
         /\ u.tab[<<t.at, name>>] = [inode |-> u.at, kind |-> "Dir"]
    BY <2>4, MakeEntryKeeps
  <2>12. g[n] = h[n]
    <3>1. Entries(t.tab) /\ s.root \in Nat
      BY <2>4, AllocEntries
    <3>2. QED
      BY <2>2, <2>6, <2>w, <2>10, <2>11, <3>1, WalkExtends
  <2>13. g[n].kind = "Dir" /\ g[n].inode = t.at
    BY <2>10, <2>12
  <2>14. Enter(u.tab, g[n], name) = u.tab[<<t.at, name>>]
    BY <2>11, <2>13 DEF Enter
  <2>15. g[n + 1] = [inode |-> u.at, kind |-> "Dir"]
    BY <2>7, <2>11, <2>14
  <2>16. QED
    BY <2>15 DEF u
<1>3. Nat \subseteq S
  <2> HIDE DEF S
  <2>1. QED
    BY <1>1, <1>2, SetInduction
<1>4. QED
  BY <1>3

LEMMA FrontLast ==
  ASSUME NEW path \in Seq(STRING) \ {<<>>}
  PROVE  /\ Front(path) \in Seq(STRING) /\ Len(Front(path)) \in Nat
         /\ Len(path) = Len(Front(path)) + 1 /\ Last(path) = path[Len(path)]
         /\ \A i \in 1..Len(Front(path)) : Front(path)[i] = path[i]
<1>1. Len(path) \in Nat /\ Len(path) >= 1
  BY EmptySeq, LenProperties
<1> DEFINE m == Len(path) - 1
<1>2. m \in Nat /\ 1 \in 1..(Len(path) + 1) /\ m \in 0..Len(path) /\ m - 1 + 1 = m
  BY <1>1
<1>3. SubSeq(path, 1, m) \in Seq(STRING) /\ Len(SubSeq(path, 1, m)) = m
      /\ \A i \in 1..m : SubSeq(path, 1, m)[i] = path[i]
  <2>1. path \in Seq(STRING)
    OBVIOUS
  <2>2. \A i \in 1..m : path[i] \in STRING
    BY <1>1, <2>1, ElementOfSeq
  <2>3. SubSeq(path, 1, m) = [i \in 1..m |-> path[i]]
    BY <1>2 DEF SubSeq
  <2>4. QED
    BY <1>2, <2>2, <2>3
<1>4. Front(path) = SubSeq(path, 1, m)
  BY DEF Front
<1>5. Len(path) = m + 1
  BY <1>1
<1> HIDE DEF m
<1>6. QED
  BY <1>2, <1>3, <1>4, <1>5 DEF Last

\* do_create_file, and do_mkdirs followed by an entry: the path leads to it.
LEMMA MakePathOK ==
  ASSUME NEW s, AllocOK(s), NEW path \in Seq(STRING) \ {<<>>}, NEW kind \in {"Dir", "File"},
         NEW parent, parent = Mkdirs(s, Front(path)),
         NEW t, t = MakeEntry(parent, Last(path), kind)
  PROVE  /\ AllocOK(parent) /\ parent.root = s.root
         /\ Grows(s.ranges, parent.ranges) /\ Extends(s.tab, parent.tab)
         /\ AllocOK(t) /\ t.root = s.root
         /\ Grows(s.ranges, t.ranges) /\ Extends(s.tab, t.tab)
         /\ s.at = s.root /\ ~t.failed => Walk(t.tab, s.root, path) = [inode |-> t.at, kind |-> kind]
<1> DEFINE front == Front(path)
           n == Len(front)
<1>1. /\ n \in Nat /\ Len(path) = n + 1 /\ Last(path) = path[n + 1]
      /\ \A i \in 1..n : front[i] = path[i]
  BY FrontLast
<1> HIDE DEF front, n
<1>2. PICK f : IsMkdirs(f, s, front) /\ parent = f[n]
  BY <1>1, MkdirsSteps DEF front, n
<1>3. n = Len(front) /\ n \in 0..Len(front)
  BY <1>1 DEF n
<1>4. AllocOK(parent) /\ parent.root = s.root /\ Grows(s.ranges, parent.ranges)
      /\ Extends(s.tab, parent.tab)
  BY <1>1, <1>2, <1>3, MkdirsOK
<1>5. AllocOK(t) /\ t.root = s.root /\ Grows(parent.ranges, t.ranges) /\ Extends(parent.tab, t.tab)
  <2>1. AllocOK(t) /\ t.root = parent.root /\ Grows(parent.ranges, t.ranges)
    BY <1>4, MakeEntryOK
  <2>2. Extends(parent.tab, t.tab)
    BY <1>4, MakeEntryKeeps
  <2>3. QED
    BY <1>4, <2>1, <2>2
<1>6. Grows(s.ranges, t.ranges) /\ Extends(s.tab, t.tab)
  BY <1>4, <1>5, GrowsTrans, ExtendsTrans
<1>7. ASSUME s.at = s.root, ~t.failed
      PROVE  Walk(t.tab, s.root, path) = [inode |-> t.at, kind |-> kind]
  <2>1. ~parent.failed
    <3>1. Fails(parent, t) \/ ~parent.failed
      BY <1>4, MakeEntryOK
    <3>2. QED
      BY <1>7, <3>1 DEF Fails
  <2>2. <<parent.at, Last(path)>> \in DOMAIN t.tab
        /\ t.tab[<<parent.at, Last(path)>>] = [inode |-> t.at, kind |-> kind]
    BY <1>4, <1>7, MakeEntryKeeps
  <2>3. PICK h : IsWalk(h, parent.tab, s.root, front)
    BY <1>1, <1>3, WalkSteps
  <2>4. h[n] = [inode |-> parent.at, kind |-> "Dir"]
    <3>1. \A m \in 0..Len(front) : ~f[m].failed =>
            \A g : IsWalk(g, f[m].tab, s.root, front) => g[m] = [inode |-> f[m].at, kind |-> "Dir"]
      BY <1>1, <1>2, <1>3, <1>7, MkdirsWalk
    <3>2. QED
      BY <1>2, <1>3, <2>1, <2>3, <3>1
  <2>5. PICK g : IsWalk(g, t.tab, s.root, path) /\ Walk(t.tab, s.root, path) = g[n + 1]
    BY <1>1, WalkSteps
  <2>6. g[n] = h[n]
    <3>1. Entries(parent.tab) /\ s.root \in Nat
      BY <1>4, AllocEntries
    <3>2. SameStart(front, path, n) /\ n <= Len(path) /\ Len(path) \in Nat
      BY <1>1 DEF SameStart
    <3>3. SameWay(parent.tab, t.tab, h[n])
      BY <1>5 DEF SameWay, Extends
    <3>4. Reaches(h, parent.tab, s.root, front, n)
      BY <1>1, <1>3, <2>3, <2>4, <3>1 DEF Reaches
    <3>5. Along(g, t.tab, s.root, path, front, n)
      BY <2>5, <3>2 DEF Along
    <3>6. QED
      BY <3>3, <3>4, <3>5, ReachesAlong
  <2>7. g[n].kind = "Dir" /\ g[n].inode = parent.at
    BY <2>4, <2>6
  <2>8. g[n + 1] = Enter(t.tab, g[n], Last(path))
    <3>1. n + 1 \in 1..Len(path) /\ n + 1 - 1 = n
      BY <1>1
    <3>2. QED
      BY <1>1, <2>5, <3>1 DEF IsWalk
  <2>9. Enter(t.tab, g[n], Last(path)) = t.tab[<<parent.at, Last(path)>>]
    BY <2>2, <2>7 DEF Enter
  <2>10. QED
    BY <2>2, <2>5, <2>8, <2>9
<1>8. QED
  BY <1>4, <1>5, <1>6, <1>7

LEMMA MakePathUnique ==
  ASSUME NEW s, AllocOK(s), NEW path \in Seq(STRING) \ {<<>>}, NEW kind \in {"Dir", "File"},
         NEW parent, parent = Mkdirs(s, Front(path)),
         NEW t, t = MakeEntry(parent, Last(path), kind), Unique(s.tab)
  PROVE  Unique(t.tab)
<1> DEFINE front == Front(path)
           n == Len(front)
<1>1. n \in Nat
  BY FrontLast
<1> HIDE DEF front, n
<1>2. PICK f : IsMkdirs(f, s, front) /\ parent = f[n]
  BY <1>1, MkdirsSteps DEF front, n
<1>3. n = Len(front) /\ n \in 0..Len(front)
  BY <1>1 DEF n
<1>4. AllocOK(parent) /\ Unique(parent.tab)
  BY <1>1, <1>2, <1>3, MkdirsOK
<1>5. QED
  BY <1>4, MakeEntryUnique

-----------------------------------------------------------------------------
(* The inductive invariant.                                                *)

\* Ranges, and the global tree: it holds directories and roots of arenas.
GlobalOK ==
  /\ RangesOK(ranges) /\ Current(ranges, globalRange, RootInode)
  /\ Tree(ranges, globalDirs, globalRange, RootInode)
  /\ \A k \in DOMAIN globalDirs : globalDirs[k].kind = "Dir"

\* The roots of arenas are global inodes, one for each.
RootsOK ==
  /\ \A a \in Arena : arenaTable[a] # 0 =>
       /\ arenaTable[a] >= 2 /\ arenaTable[a] <= globalRange[1]
       /\ Owned(ranges, arenaTable[a], RootInode)
  /\ \A a, b \in Arena : arenaTable[a] # 0 /\ arenaTable[a] = arenaTable[b] => a = b

\* The tree of an arena is made of its own inodes, each in one place, and a
\* file is at its path.
ArenaOK(a) ==
  /\ Current(ranges, range[a], arenaTable[a])
  /\ Tree(ranges, dirs[a], range[a], arenaTable[a])
  /\ Unique(dirs[a])
  /\ arenaTable[a] = 0 => range[a] = NoRange /\ dirs[a] = Empty /\ file[a] = Empty
FilesOK(a) ==
  \A i \in DOMAIN file[a] : LookupPath(a, file[a][i].path) = [inode |-> i, kind |-> "File"]

\* What the process serves was added, and what was added has a root.
ProcessOK ==
  /\ \A a \in added : arenaTable[a] # 0
  /\ updating # None => updating.arena \in registered
  /\ listing # None => arenaTable[listing.arena] # 0

\* A listing has shown what stayed, up to where it is.
ListingOK ==
  listing # None =>
    /\ listing = [arena |-> listing.arena, after |-> listing.after, page |-> listing.page,
                  listed |-> listing.listed, ended |-> listing.ended, stayed |-> listing.stayed]
    /\ listing.arena \in Arena /\ listing.after \in Nat
    /\ listing.stayed \subseteq ReadDir(dirs[listing.arena], arenaTable[listing.arena])
    /\ listing.page # None =>
         /\ listing.page[1] \in Nat /\ ~listing.ended
         /\ \A e \in listing.stayed : e[1] > listing.after => e = listing.page \/ e[1] > listing.page[1]
    /\ \A e \in listing.stayed : e[1] > listing.after => ~listing.ended
    /\ \A e \in listing.stayed : e[1] <= listing.after => e \in listing.listed

\* The tables have the shape they start with.
ShapeOK ==
  /\ DOMAIN dirs = Arena /\ DOMAIN file = Arena /\ DOMAIN pending = Arena
  /\ budget \in [arenas : SUBSET Arena, files : SUBSET Path, updates : Nat, marks : Nat,
                 restarts : Nat, listings : Nat, jobs : Nat]

TablesInv ==
  /\ TypeOK /\ ShapeOK /\ GlobalOK /\ RootsOK /\ ProcessOK /\ ListingOK
  /\ \A a \in Arena : ArenaOK(a) /\ FilesOK(a)

\* A walk in a table with the same directories and the same end.
LEMMA WalkSame ==
  ASSUME NEW tab, Entries(tab), NEW tab2, NEW root \in Nat, NEW path, Len(path) \in Nat,
         Walk(tab, root, path).kind \in {"Dir", "File"}, SameWay(tab, tab2, Walk(tab, root, path))
  PROVE  Walk(tab2, root, path) = Walk(tab, root, path)
<1> DEFINE n == Len(path)
<1> HIDE DEF n
<1>1. PICK f : IsWalk(f, tab, root, path) /\ Walk(tab, root, path) = f[n]
  BY WalkSteps DEF n
<1>2. PICK g : IsWalk(g, tab2, root, path) /\ Walk(tab2, root, path) = g[n]
  BY WalkSteps DEF n
<1>3. n \in 0..Len(path) /\ n <= Len(path) /\ SameStart(path, path, n)
  BY DEF n, SameStart
<1>4. Reaches(f, tab, root, path, n) /\ Along(g, tab2, root, path, path, n)
  BY <1>1, <1>2, <1>3 DEF Reaches, Along
<1>5. g[n] = f[n]
  BY <1>1, <1>4, ReachesAlong
<1>6. QED
  BY <1>1, <1>2, <1>5

\* A file that a walk finds is an entry of the table.
LEMMA WalkEntry ==
  ASSUME NEW tab, Entries(tab), NEW root \in Nat, NEW path, Len(path) \in Nat,
         Walk(tab, root, path).kind = "File"
  PROVE  \E k \in DOMAIN tab : tab[k] = Walk(tab, root, path)
<1> DEFINE n == Len(path)
<1> HIDE DEF n
<1>1. PICK f : IsWalk(f, tab, root, path) /\ Walk(tab, root, path) = f[n]
  BY WalkSteps DEF n
<1>2. n # 0
  BY <1>1 DEF IsWalk
<1>3. n \in 1..n /\ n \in 0..Len(path)
  BY <1>2 DEF n
<1>4. Reaches(f, tab, root, path, n)
  BY <1>1, <1>3 DEF Reaches
<1>5. Through(f, tab, path, n)
  BY <1>4, ReachesThrough
<1>6. QED
  BY <1>1, <1>3, <1>5 DEF Through

-----------------------------------------------------------------------------
(* Steps that leave the trees alone.                                       *)

LEMMA TreesUnchanged ==
  ASSUME TablesInv, UNCHANGED <<globalVars, treeVars>>
  PROVE  GlobalOK' /\ RootsOK' /\ \A a \in Arena : ArenaOK(a)' /\ FilesOK(a)'
<1>1. GlobalOK'
  BY DEF TablesInv, GlobalOK, globalVars
<1>2. RootsOK'
  BY DEF TablesInv, RootsOK, globalVars
<1>3. ASSUME NEW a \in Arena PROVE ArenaOK(a)' /\ FilesOK(a)'
  <2>1. ArenaOK(a) /\ FilesOK(a)
    BY DEF TablesInv
  <2>2. ArenaOK(a)'
    BY <2>1 DEF ArenaOK, globalVars, treeVars
  <2>3. FilesOK(a)'
    BY <2>1 DEF FilesOK, LookupPath, globalVars, treeVars
  <2>4. QED
    BY <2>2, <2>3
<1>4. QED
  BY <1>1, <1>2, <1>3

LEMMA ListingUnchanged ==
  ASSUME TablesInv, UNCHANGED <<arenaTable, dirs, listing>>
  PROVE  ListingOK'
  BY DEF TablesInv, ListingOK

LEMMA SpendBudget ==
  ASSUME TablesInv, NEW what \in {"updates", "marks", "restarts", "listings", "jobs"}, Spend(what)
  PROVE  budget' \in [arenas : SUBSET Arena, files : SUBSET Path, updates : Nat, marks : Nat,
                      restarts : Nat, listings : Nat, jobs : Nat]
<1>1. budget \in [arenas : SUBSET Arena, files : SUBSET Path, updates : Nat, marks : Nat,
                  restarts : Nat, listings : Nat, jobs : Nat]
  BY DEF TablesInv, ShapeOK
<1>2. budget[what] \in Nat
  BY <1>1
<1>3. budget[what] - 1 \in Nat /\ budget' = [budget EXCEPT ![what] = budget[what] - 1]
  BY <1>2 DEF Spend
<1>4. QED
  BY <1>1, <1>3

LEMMA RestartStep == ASSUME TablesInv, Restart PROVE TablesInv'
<1>1. TypeOK'
  BY DEF TablesInv, TypeOK, Restart, Silent, globalVars, treeVars, peerVars
<1>2. ShapeOK'
  <2>1. Spend("restarts")
    BY DEF Restart
  <2>2. QED
    BY <2>1, SpendBudget DEF TablesInv, ShapeOK, Restart, treeVars, peerVars
<1>3. GlobalOK' /\ RootsOK' /\ \A a \in Arena : ArenaOK(a)' /\ FilesOK(a)'
  BY TreesUnchanged DEF Restart
<1>4. ProcessOK' /\ ListingOK'
  BY DEF Restart, ProcessOK, ListingOK
<1>5. QED
  BY <1>1, <1>2, <1>3, <1>4 DEF TablesInv

\* A step on one arena's marks, index or listing.
LEMMA OpStep ==
  ASSUME TablesInv, NEW a \in Arena, NEW what \in {"updates", "marks", "listings", "jobs"}, Op(a, what)
  PROVE  /\ a \in registered /\ arenaTable[a] # 0
         /\ budget' \in [arenas : SUBSET Arena, files : SUBSET Path, updates : Nat, marks : Nat,
                         restarts : Nat, listings : Nat, jobs : Nat]
  BY SpendBudget DEF Op, TablesInv, TypeOK, ProcessOK

\* What peers send is about paths and versions.
LEMMA IncomingFields ==
  ASSUME NEW n \in Incoming
  PROVE  /\ n.kind \in Given \cup Taken \cup {"CatchupStart", "CatchupComplete", "Connected"}
         /\ n.kind \in Given \cup Taken => n.path \in Path
         /\ n.kind \in Given => n.hash \in Hash
         /\ n.kind \in Taken \cup {"Replace"} => n.old \in Hash
         /\ n.index \in 0..MaxHistory /\ n.uuid \in 0..MaxUuid
<1>1. 0 \in 0..MaxHistory /\ 1 \in 0..MaxHistory /\ 0 \in 0..MaxUuid
      /\ \A u \in 1..MaxUuid : u \in 0..MaxUuid
  BY HistoryAssumption, IndexAssumption
<1>2. CASE n \in {About(k, p, h, None, 1) : k \in {"Add", "Catchup"}, p \in Path, h \in Hash}
  BY <1>1, <1>2 DEF About, Given, Taken
<1>3. CASE n \in {About("Replace", p, h[1], h[2], 1) : p \in Path, h \in {x \in Hash \X Hash : x[1] # x[2]}}
  BY <1>1, <1>3 DEF About, Given, Taken
<1>4. CASE n \in {About("Remove", p, None, h, 1) : p \in Path, h \in Hash}
  BY <1>1, <1>4 DEF About, Given, Taken
<1>5. CASE n \in {Signal("CatchupStart", 0, 0), Signal("CatchupComplete", 1, 0)}
  BY <1>1, <1>5 DEF Signal, Given, Taken
<1>6. CASE n \in {Signal("Connected", 0, u) : u \in 1..MaxUuid}
  BY <1>1, <1>6 DEF Signal, Given, Taken
<1>7. QED
  BY <1>2, <1>3, <1>4, <1>5, <1>6 DEF Incoming

LEMMA NotifiesIndexStep == ASSUME TablesInv, NEW a \in Arena, NotifiesIndex(a) PROVE TablesInv'
<1>1. PICK q \in Peer, n \in Sent :
        /\ Outdates(a, n)
        /\ indexed' = [indexed EXCEPT ![a][n.path].outdated = n.hash]
        /\ updating' = [arena |-> a, peer |-> q, notification |-> n]
  BY DEF NotifiesIndex
<1>2. n \in Incoming /\ n.kind = "Replace" /\ indexed[a][n.path] # None
  BY <1>1 DEF Sent, Outdates
<1>3. n.path \in Path /\ n.hash \in Hash
  BY <1>2, IncomingFields DEF Given
<1>4. indexed \in [Arena -> [Path -> {None} \cup [hash : Hash, outdated : Hash \cup {None}]]]
  BY DEF TablesInv, TypeOK
<1>5. indexed' \in [Arena -> [Path -> {None} \cup [hash : Hash, outdated : Hash \cup {None}]]]
  <2> DEFINE e == [indexed[a][n.path] EXCEPT !.outdated = n.hash]
  <2>1. indexed[a][n.path] \in [hash : Hash, outdated : Hash \cup {None}]
    BY <1>2, <1>3, <1>4
  <2>2. e \in [hash : Hash, outdated : Hash \cup {None}]
    BY <1>3, <2>1
  <2>3. indexed' = [indexed EXCEPT ![a][n.path] = e]
    BY <1>1
  <2> HIDE DEF e
  <2>4. QED
    BY <1>3, <1>4, <2>2, <2>3
<1>6. updating' \in [arena : Arena, peer : Peer, notification : Incoming]
  BY <1>1, <1>2
<1>7. TypeOK'
  BY <1>5, <1>6 DEF TablesInv, TypeOK, NotifiesIndex, Silent, globalVars, processVars, treeVars, peerVars
<1>8. a \in registered /\ ShapeOK'
  BY OpStep DEF NotifiesIndex, TablesInv, ShapeOK, treeVars, peerVars
<1>9. GlobalOK' /\ RootsOK' /\ \A b \in Arena : ArenaOK(b)' /\ FilesOK(b)'
  BY TreesUnchanged DEF NotifiesIndex
<1>10. ProcessOK' /\ ListingOK'
  <2>1. updating'.arena = a
    BY <1>1
  <2>2. ListingOK'
    BY ListingUnchanged DEF NotifiesIndex, globalVars, treeVars
  <2>3. QED
    BY <1>8, <2>1, <2>2 DEF TablesInv, ProcessOK, NotifiesIndex, globalVars, processVars
<1>11. QED
  BY <1>7, <1>8, <1>9, <1>10 DEF TablesInv

LEMMA IndexChangesStep ==
  ASSUME TablesInv, NEW a \in Arena, NEW p \in Path,
         NEW entry \in {None} \cup [hash : Hash, outdated : Hash \cup {None}], IndexChanges(a, p, entry)
  PROVE  TablesInv'
<1>1. indexed' \in [Arena -> [Path -> {None} \cup [hash : Hash, outdated : Hash \cup {None}]]]
  BY DEF TablesInv, TypeOK, IndexChanges
<1>2. dirtied' \subseteq Arena \X Path
  BY DEF IndexChanges
<1>3. TypeOK'
  BY <1>1, <1>2 DEF TablesInv, TypeOK, IndexChanges, globalVars, processVars, treeVars, peerVars
<1>4. ShapeOK'
  BY OpStep DEF IndexChanges, TablesInv, ShapeOK, treeVars, peerVars
<1>5. GlobalOK' /\ RootsOK' /\ \A b \in Arena : ArenaOK(b)' /\ FilesOK(b)'
  BY TreesUnchanged DEF IndexChanges
<1>6. ListingOK'
  BY ListingUnchanged DEF IndexChanges, globalVars, treeVars
<1>7. ProcessOK'
  BY DEF TablesInv, ProcessOK, IndexChanges, globalVars, processVars
<1>8. QED
  BY <1>3, <1>4, <1>5, <1>6, <1>7 DEF TablesInv

LEMMA SetMarkStep ==
  ASSUME TablesInv, NEW a \in Arena, NEW p \in MarkPath, NEW m \in Mark \cup {None}, SetMark(a, p, m)
  PROVE  TablesInv'
<1>1. marks' \in [Arena -> [MarkPath -> Mark \cup {None}]]
  <2>1. marks' = [marks EXCEPT ![a] = [marks[a] EXCEPT ![p] = m]]
    BY DEF SetMark
  <2>2. marks \in [Arena -> [MarkPath -> Mark \cup {None}]]
    BY DEF TablesInv, TypeOK
  <2>3. [marks[a] EXCEPT ![p] = m] \in [MarkPath -> Mark \cup {None}]
    BY <2>2
  <2>4. QED
    BY <2>1, <2>2, <2>3
<1>2. MarkDirty(a, p) \subseteq Arena \X Path
  <2>1. ASSUME NEW i \in DOMAIN file[a] PROVE file[a][i].path \in Path
    <3>1. Range(file[a]) \subseteq [path : Path, parent : Nat, default : Hash,
                                    peer : [Peer -> Hash \cup {None}]]
      BY DEF TablesInv, TypeOK
    <3>2. file[a][i] \in Range(file[a])
      BY DEF Range
    <3>3. QED
      BY <3>1, <3>2
  <2> DEFINE e == LookupPath(a, p)
             cached == IF e.kind = "NotFound" THEN {} ELSE Below(dirs[a], e.inode) \cap DOMAIN file[a]
             indexes == {y \in Path : indexed[a][y] # None /\ IsPrefix(p, y)}
  <2>2. cached \subseteq DOMAIN file[a] /\ indexes \subseteq Path
    OBVIOUS
  <2>3. MarkDirty(a, p) = {<<a, x>> : x \in indexes} \cup {<<a, file[a][i].path>> : i \in cached}
    BY DEF MarkDirty
  <2> HIDE DEF cached, indexes
  <2>4. QED
    BY <2>1, <2>2, <2>3
<1>3. dirtied' \subseteq Arena \X Path
  BY <1>2 DEF SetMark
<1>4. TypeOK'
  BY <1>1, <1>3 DEF TablesInv, TypeOK, SetMark, globalVars, processVars, treeVars, peerVars
<1>5. ShapeOK'
  BY OpStep DEF SetMark, TablesInv, ShapeOK, treeVars, peerVars
<1>6. GlobalOK' /\ RootsOK' /\ \A b \in Arena : ArenaOK(b)' /\ FilesOK(b)'
  BY TreesUnchanged DEF SetMark
<1>7. ListingOK'
  BY ListingUnchanged DEF SetMark, globalVars, treeVars
<1>8. ProcessOK'
  BY DEF TablesInv, ProcessOK, SetMark, globalVars, processVars
<1>9. QED
  BY <1>4, <1>5, <1>6, <1>7, <1>8 DEF TablesInv

-----------------------------------------------------------------------------
(* Listings.                                                               *)

\* A page is an entry of a directory.
LEMMA ReadDirPair ==
  ASSUME NEW tab, Entries(tab), NEW inode, NEW e \in ReadDir(tab, inode)
  PROVE  e[1] \in Nat /\ \E k \in DOMAIN tab : k[1] = inode /\ e = <<tab[k].inode, k[2]>>
  BY DEF ReadDir, Entries, Entry

LEMMA ReadDirUnique ==
  ASSUME NEW tab, Entries(tab), Unique(tab), NEW inode,
         NEW e \in ReadDir(tab, inode), NEW f \in ReadDir(tab, inode), e[1] = f[1]
  PROVE  e = f
<1>1. PICK k \in DOMAIN tab : k[1] = inode /\ e = <<tab[k].inode, k[2]>>
  BY DEF ReadDir
<1>2. PICK l \in DOMAIN tab : l[1] = inode /\ f = <<tab[l].inode, l[2]>>
  BY DEF ReadDir
<1>3. tab[k].inode = tab[l].inode
  BY <1>1, <1>2
<1>4. k = l
  BY <1>3 DEF Unique
<1>5. QED
  BY <1>1, <1>2, <1>4

LEMMA ArenaEntries ==
  ASSUME TablesInv, NEW a \in Arena
  PROVE  Entries(dirs[a]) /\ Unique(dirs[a]) /\ arenaTable[a] \in Nat
  BY DEF TablesInv, ArenaOK, Tree, Entries, TypeOK

LEMMA StartListingStep == ASSUME TablesInv, NEW a \in Arena, StartListing(a) PROVE TablesInv'
<1>1. TypeOK'
  BY DEF TablesInv, TypeOK, StartListing, Silent, globalVars, processVars, treeVars, peerVars
<1>2. ShapeOK' /\ arenaTable[a] # 0
  BY OpStep DEF StartListing, TablesInv, ShapeOK, treeVars, peerVars
<1>3. GlobalOK' /\ RootsOK' /\ \A b \in Arena : ArenaOK(b)' /\ FilesOK(b)'
  BY TreesUnchanged DEF StartListing
<1>4. listing' = [arena |-> a, after |-> 0, page |-> None, listed |-> {}, ended |-> FALSE,
                  stayed |-> ReadDir(dirs[a], arenaTable[a])]
  BY DEF StartListing
<1>5. arenaTable' = arenaTable /\ dirs' = dirs /\ UNCHANGED <<processVars, updating>>
  BY DEF StartListing, globalVars, treeVars
<1>6. ASSUME NEW e \in ReadDir(dirs[a], arenaTable[a]) PROVE ~(e[1] <= 0)
  <2>1. PICK k \in DOMAIN dirs[a] : k[1] = arenaTable[a] /\ e = <<dirs[a][k].inode, k[2]>>
    BY DEF ReadDir
  <2>2. dirs[a][k].inode >= 2 /\ dirs[a][k].inode \in Nat
    BY DEF TablesInv, ArenaOK, Tree, Entry
  <2>3. e[1] >= 2 /\ e[1] \in Nat
    BY <2>1, <2>2
  <2>4. QED
    BY <2>3
<1>7. ListingOK'
  BY <1>4, <1>5, <1>6 DEF ListingOK
<1>8. ProcessOK'
  BY <1>2, <1>4, <1>5 DEF TablesInv, ProcessOK, processVars
<1>9. QED
  BY <1>1, <1>2, <1>3, <1>7, <1>8 DEF TablesInv

\* do_readdir takes the next entry in the order of inodes.
LEMMA ReadPageListing == ASSUME TablesInv, ReadPage PROVE ListingOK'
<1> DEFINE a == listing.arena
           dir == ReadDir(dirs[a], arenaTable[a])
           rest == {e \in dir : e[1] > listing.after}
<1>1. listing # None /\ listing.page = None /\ ~listing.ended
      /\ arenaTable' = arenaTable /\ dirs' = dirs
  BY DEF ReadPage, globalVars, treeVars
<1>2. /\ listing = [arena |-> a, after |-> listing.after, page |-> listing.page,
                    listed |-> listing.listed, ended |-> listing.ended, stayed |-> listing.stayed]
      /\ a \in Arena /\ listing.after \in Nat /\ listing.stayed \subseteq dir
      /\ \A e \in listing.stayed : e[1] <= listing.after => e \in listing.listed
  BY <1>1 DEF TablesInv, ListingOK
<1>3. \A e \in dir : e[1] \in Nat
  BY <1>2, ArenaEntries, ReadDirPair
<1>4. listing' \in IF rest = {} THEN {[listing EXCEPT !.ended = TRUE]}
                   ELSE {[listing EXCEPT !.page = e] : e \in NextEntries(rest)}
  BY DEF ReadPage
<1>5. CASE rest = {}
  <2>1. listing' = [arena |-> a, after |-> listing.after, page |-> None,
                    listed |-> listing.listed, ended |-> TRUE, stayed |-> listing.stayed]
    <3>1. listing' = [listing EXCEPT !.ended = TRUE]
      BY <1>4, <1>5
    <3>2. QED
      BY <1>1, <1>2, <3>1
  <2>2. \A e \in listing.stayed : ~(e[1] > listing.after)
    BY <1>2, <1>5
  <2>3. QED
    BY <1>1, <1>2, <2>1, <2>2 DEF ListingOK
<1>6. CASE rest # {}
  <2>1. PICK page \in NextEntries(rest) : listing' = [listing EXCEPT !.page = page]
    BY <1>4, <1>6
  <2>2. page \in rest /\ \A x \in rest : page[1] <= x[1]
    BY <2>1 DEF NextEntries
  <2>3. listing' = [arena |-> a, after |-> listing.after, page |-> page,
                    listed |-> listing.listed, ended |-> listing.ended, stayed |-> listing.stayed]
    BY <1>2, <2>1
  <2>4. ASSUME NEW e \in listing.stayed, e[1] > listing.after
        PROVE  e = page \/ e[1] > page[1]
    <3>1. e \in dir /\ e \in rest /\ page \in dir
      BY <1>2, <2>2, <2>4
    <3>2. page[1] <= e[1] /\ page[1] \in Nat /\ e[1] \in Nat
      BY <1>3, <2>2, <3>1
    <3>3. page[1] = e[1] => page = e
      BY <1>2, <3>1, ArenaEntries, ReadDirUnique
    <3>4. QED
      BY <3>2, <3>3
  <2>5. page[1] \in Nat
    BY <1>3, <2>2
  <2>6. \A e \in listing.stayed : e[1] > listing.after => e = page \/ e[1] > page[1]
    BY <2>4
  <2> HIDE DEF dir, rest
  <2>7. listing'.stayed \subseteq ReadDir(dirs'[listing'.arena], arenaTable'[listing'.arena])
    BY <1>1, <1>2, <2>3 DEF dir
  <2>8. QED
    BY <1>1, <1>2, <2>3, <2>5, <2>6, <2>7 DEF ListingOK
<1>7. QED
  BY <1>5, <1>6

LEMMA ReadPageStep == ASSUME TablesInv, ReadPage PROVE TablesInv'
<1>1. TypeOK' /\ ShapeOK'
  BY DEF TablesInv, TypeOK, ShapeOK, ReadPage, Silent, globalVars, processVars, treeVars, peerVars
<1>2. GlobalOK' /\ RootsOK' /\ \A b \in Arena : ArenaOK(b)' /\ FilesOK(b)'
  BY TreesUnchanged DEF ReadPage
<1>3. listing # None /\ listing'.arena = listing.arena
  BY DEF ReadPage, TablesInv, ListingOK
<1>4. ProcessOK'
  BY <1>3 DEF TablesInv, ProcessOK, ReadPage, globalVars, processVars
<1>5. QED
  BY <1>1, <1>2, <1>4, ReadPageListing DEF TablesInv

LEMMA ReadAttributesStep == ASSUME TablesInv, ReadAttributes PROVE TablesInv'
<1>1. TypeOK' /\ ShapeOK'
  BY DEF TablesInv, TypeOK, ShapeOK, ReadAttributes, Silent, globalVars, processVars, treeVars, peerVars
<1>2. GlobalOK' /\ RootsOK' /\ \A b \in Arena : ArenaOK(b)' /\ FilesOK(b)'
  BY TreesUnchanged DEF ReadAttributes
<1>3. listing # None /\ listing.page # None
  BY DEF ReadAttributes
<1>4. CASE listing' = None
  BY <1>1, <1>2, <1>4 DEF TablesInv, ListingOK, ProcessOK, ReadAttributes, globalVars, processVars
<1>5. CASE listing' # None
  <2> DEFINE e == listing.page
  <2>1. listing' = [listing EXCEPT !.page = None, !.after = e[1], !.listed = listing.listed \cup {e}]
    BY <1>5 DEF ReadAttributes
  <2>2. /\ listing = [arena |-> listing.arena, after |-> listing.after, page |-> listing.page,
                      listed |-> listing.listed, ended |-> listing.ended, stayed |-> listing.stayed]
        /\ listing.arena \in Arena /\ listing.after \in Nat
        /\ listing.stayed \subseteq ReadDir(dirs[listing.arena], arenaTable[listing.arena])
        /\ e[1] \in Nat /\ ~listing.ended
        /\ \A x \in listing.stayed : x[1] > listing.after => x = e \/ x[1] > e[1]
        /\ \A x \in listing.stayed : x[1] <= listing.after => x \in listing.listed
    BY <1>3 DEF TablesInv, ListingOK
  <2>3. listing' = [arena |-> listing.arena, after |-> e[1], page |-> None,
                    listed |-> listing.listed \cup {e}, ended |-> listing.ended, stayed |-> listing.stayed]
    <3>1. DOMAIN listing = {"arena", "after", "page", "listed", "ended", "stayed"}
      BY <2>2
    <3>2. QED
      BY <2>1, <3>1
  <2>4. \A x \in listing.stayed : x[1] \in Nat
    BY <2>2, ArenaEntries, ReadDirPair
  <2> HIDE DEF e
  <2>5. ASSUME NEW x \in listing.stayed, x[1] <= e[1] PROVE x \in listing.listed \cup {e}
    BY <2>2, <2>4, <2>5
  <2>6. arenaTable' = arenaTable /\ dirs' = dirs
    BY DEF ReadAttributes, globalVars, treeVars
  <2>7. ListingOK'
    BY <2>2, <2>3, <2>5, <2>6 DEF ListingOK
  <2>8. ProcessOK'
    BY <1>3, <2>3 DEF TablesInv, ProcessOK, ReadAttributes, globalVars, processVars
  <2>9. QED
    BY <1>1, <1>2, <2>7, <2>8 DEF TablesInv
<1>6. QED
  BY <1>4, <1>5

-----------------------------------------------------------------------------
(* Startup.                                                                *)

LEMMA GlobalAlloc ==
  ASSUME TablesInv
  PROVE  /\ AllocOK(GlobalAllocation) /\ GlobalAllocation.at = RootInode
         /\ GlobalAllocation.root = RootInode /\ GlobalAllocation.tab = globalDirs
         /\ GlobalAllocation.cur = globalRange /\ GlobalAllocation.ranges = ranges
         /\ ~GlobalAllocation.failed
  BY RangeAssumption DEF TablesInv, GlobalOK, GlobalAllocation, Allocation, AllocOK, RootInode

LEMMA ArenaAlloc ==
  ASSUME TablesInv, NEW a \in Arena, arenaTable[a] # 0
  PROVE  /\ AllocOK(ArenaAllocation(a)) /\ ArenaAllocation(a).at = arenaTable[a]
         /\ ArenaAllocation(a).root = arenaTable[a] /\ ArenaAllocation(a).tab = dirs[a]
         /\ ArenaAllocation(a).cur = range[a] /\ ArenaAllocation(a).ranges = ranges
         /\ ~ArenaAllocation(a).failed
<1>1. arenaTable[a] \in Nat /\ Owned(ranges, arenaTable[a], RootInode) /\ RangesOK(ranges)
  BY DEF TablesInv, RootsOK, TypeOK, GlobalOK
<1>2. \E e \in DOMAIN ranges : arenaTable[a] <= e
  BY <1>1 DEF Owned, RangesOK
<1>3. Current(ranges, range[a], arenaTable[a]) /\ Tree(ranges, dirs[a], range[a], arenaTable[a])
  BY DEF TablesInv, ArenaOK
<1>4. QED
  BY <1>1, <1>2, <1>3, RangeAssumption DEF ArenaAllocation, Allocation, AllocOK

LEMMA TreeCur ==
  ASSUME NEW rs, NEW tab, NEW cur, NEW cur2, NEW root, Tree(rs, tab, cur, root),
         cur[1] \in Nat, cur2[1] \in Nat, cur2[1] >= cur[1]
  PROVE  Tree(rs, tab, cur2, root)
<1>1. ASSUME NEW k \in DOMAIN tab
      PROVE  (k[1] = root \/ k[1] <= cur2[1]) /\ tab[k].inode <= cur2[1]
  <2>1. k[1] \in Nat /\ (k[1] = root \/ k[1] <= cur[1]) /\ tab[k].inode \in Nat /\ tab[k].inode <= cur[1]
    BY DEF Tree, Entry
  <2>2. QED
    BY <2>1
<1>2. QED
  BY <1>1 DEF Tree

\* An arena whose tree is left alone, while ranges are added.
LEMMA OtherArena ==
  ASSUME TablesInv, RangesOK(ranges'), Grows(ranges, ranges'), NEW a \in Arena,
         arenaTable'[a] = arenaTable[a], range'[a] = range[a], dirs'[a] = dirs[a], file'[a] = file[a]
  PROVE  ArenaOK(a)' /\ FilesOK(a)'
<1>1. RangesOK(ranges) /\ ArenaOK(a) /\ FilesOK(a)
  BY DEF TablesInv, GlobalOK
<1>2. Current(ranges', range[a], arenaTable[a])
  BY <1>1, GrowsCurrent DEF ArenaOK
<1>3. Tree(ranges', dirs[a], range[a], arenaTable[a])
  BY <1>1, GrowsTree DEF ArenaOK
<1>4. ArenaOK(a)'
  BY <1>1, <1>2, <1>3 DEF ArenaOK
<1>5. FilesOK(a)'
  BY <1>1 DEF FilesOK, LookupPath
<1>6. QED
  BY <1>4, <1>5

\* The global tree and the roots, while ranges are added.
LEMMA OtherGlobal ==
  ASSUME TablesInv, RangesOK(ranges'), Grows(ranges, ranges'),
         UNCHANGED <<arenaTable, globalRange, globalDirs>>
  PROVE  GlobalOK' /\ RootsOK'
<1>1. GlobalOK /\ RootsOK /\ arenaTable \in [Arena -> Nat]
  BY DEF TablesInv, TypeOK
<1>2. Current(ranges', globalRange, RootInode) /\ Tree(ranges', globalDirs, globalRange, RootInode)
  BY <1>1, GrowsCurrent, GrowsTree DEF GlobalOK
<1>3. GlobalOK'
  BY <1>1, <1>2 DEF GlobalOK
<1>4. ASSUME NEW a \in Arena, arenaTable[a] # 0 PROVE Owned(ranges', arenaTable[a], RootInode)
  BY <1>1, <1>4, GrowsOwned DEF RootsOK, GlobalOK
<1>5. RootsOK'
  BY <1>1, <1>4 DEF RootsOK
<1>6. QED
  BY <1>3, <1>5

LEMMA RangesType ==
  ASSUME NEW rs, RangesOK(rs)
  PROVE  DOMAIN rs \subseteq Nat /\ Range(rs) \subseteq Nat
  BY DEF RangesOK, Range

LEMMA AddArenaStep == ASSUME TablesInv, NEW a \in Arena, AddArena(a) PROVE TablesInv'
<1>0. /\ registered = {} /\ registered' = {} /\ added' = added \cup {a}
      /\ UNCHANGED <<globalDirs, range, dirs, file, pending, seen, known, marks, indexed, updating,
                     listing, budget>>
      /\ dirtied' = {}
  BY DEF AddArena, Silent, treeVars, peerVars
<1>1. CASE arenaTable[a] # 0
  <2>1. UNCHANGED <<arenaTable, ranges, globalRange>>
    BY <1>1 DEF AddArena
  <2>2. TypeOK' /\ ShapeOK'
    BY <1>0, <2>1 DEF TablesInv, TypeOK, ShapeOK
  <2>3. GlobalOK' /\ RootsOK' /\ \A b \in Arena : ArenaOK(b)' /\ FilesOK(b)'
    BY <1>0, <2>1, TreesUnchanged DEF globalVars, treeVars
  <2>4. ListingOK'
    BY <1>0, <2>1, ListingUnchanged
  <2>5. ProcessOK'
    BY <1>0, <1>1, <2>1 DEF TablesInv, ProcessOK
  <2>6. QED
    BY <2>2, <2>3, <2>4, <2>5 DEF TablesInv
<1>2. CASE arenaTable[a] = 0
  <2> DEFINE s == GlobalAllocation
             t == AllocateInode(s)
             i == t.cur[1]
  <2>1. arenaTable' = [arenaTable EXCEPT ![a] = i] /\ ranges' = t.ranges /\ globalRange' = t.cur
    BY <1>2 DEF AddArena
  <2>2. /\ RangesOK(t.ranges) /\ Grows(ranges, t.ranges) /\ Current(t.ranges, t.cur, RootInode)
        /\ i \in Nat /\ i >= 2 /\ i > globalRange[1] /\ Owned(t.ranges, i, RootInode)
    BY GlobalAlloc, AllocateOK
  <2> HIDE DEF t, i
  <2>3. arenaTable \in [Arena -> Nat] /\ arenaTable'[a] = i
        /\ \A b \in Arena : b # a => arenaTable'[b] = arenaTable[b]
    BY <2>1 DEF TablesInv, TypeOK
  <2>4. globalRange[1] \in Nat /\ t.cur \in Nat \X Nat /\ t.cur[1] = i
    BY <2>2 DEF TablesInv, TypeOK, Current, i
  <2>5. TypeOK' /\ ShapeOK'
    <3>1. arenaTable' \in [Arena -> Nat]
      BY <2>1, <2>2, <2>3
    <3>2. DOMAIN ranges' \subseteq Nat /\ Range(ranges') \subseteq Nat
      BY <2>1, <2>2, RangesType
    <3>3. TypeOK'
      BY <1>0, <2>1, <2>4, <3>1, <3>2 DEF TablesInv, TypeOK
    <3>4. QED
      BY <1>0, <3>3 DEF TablesInv, ShapeOK
  <2>6. GlobalOK'
    <3>1. Tree(t.ranges, globalDirs, globalRange, RootInode)
      BY <2>2, GrowsTree DEF TablesInv, GlobalOK
    <3>2. Tree(t.ranges, globalDirs, t.cur, RootInode)
      BY <2>2, <2>4, <3>1, TreeCur
    <3>3. QED
      BY <1>0, <2>1, <2>2, <3>2 DEF TablesInv, GlobalOK
  <2>7. RootsOK'
    <3>1. ASSUME NEW b \in Arena, arenaTable'[b] # 0
          PROVE  /\ arenaTable'[b] >= 2 /\ arenaTable'[b] <= globalRange'[1]
                 /\ Owned(ranges', arenaTable'[b], RootInode)
      <4>1. CASE b = a
        BY <2>1, <2>2, <2>3, <2>4, <4>1
      <4>2. CASE b # a
        <5>1. arenaTable[b] \in Nat /\ arenaTable[b] >= 2 /\ arenaTable[b] <= globalRange[1]
              /\ Owned(ranges, arenaTable[b], RootInode) /\ RangesOK(ranges)
          BY <2>3, <3>1, <4>2 DEF TablesInv, RootsOK, GlobalOK
        <5>2. Owned(t.ranges, arenaTable[b], RootInode)
          BY <2>2, <5>1, GrowsOwned
        <5>3. QED
          BY <2>1, <2>2, <2>3, <2>4, <4>2, <5>1, <5>2
      <4>3. QED
        BY <4>1, <4>2
    <3>2. ASSUME NEW b \in Arena, arenaTable[b] # 0 PROVE arenaTable[b] # i
      BY <2>2, <2>3, <2>4, <3>2 DEF TablesInv, RootsOK
    <3>3. ASSUME NEW b \in Arena, NEW c \in Arena, arenaTable'[b] # 0, arenaTable'[b] = arenaTable'[c]
          PROVE  b = c
      <4>1. i # 0
        BY <2>2
      <4>2. CASE b = a \/ c = a
        BY <2>3, <3>2, <3>3, <4>1, <4>2
      <4>3. CASE b # a /\ c # a
        BY <2>3, <3>3, <4>3 DEF TablesInv, RootsOK
      <4>4. QED
        BY <4>2, <4>3
    <3>4. QED
      BY <3>1, <3>3 DEF RootsOK
  <2>8. ASSUME NEW b \in Arena PROVE ArenaOK(b)' /\ FilesOK(b)'
    <3>1. CASE b = a
      <4>1. range'[a] = NoRange /\ dirs'[a] = Empty /\ file'[a] = Empty
        BY <1>0, <1>2 DEF TablesInv, ArenaOK
      <4>2. DOMAIN Empty = {}
        BY DEF Empty
      <4>3. ArenaOK(a)'
        BY <4>1, <4>2 DEF ArenaOK, Current, Tree, Unique, NoRange
      <4>4. FilesOK(a)'
        BY <4>1, <4>2 DEF FilesOK
      <4>5. QED
        BY <3>1, <4>3, <4>4
    <3>2. CASE b # a
      BY <1>0, <2>1, <2>2, <2>3, <3>2, OtherArena
    <3>3. QED
      BY <3>1, <3>2
  <2>9. ProcessOK'
    BY <1>0, <1>2, <2>2, <2>3 DEF TablesInv, ProcessOK, TypeOK, ListingOK
  <2>10. ListingOK'
    <3>1. listing # None => arenaTable'[listing.arena] = arenaTable[listing.arena]
      BY <1>2, <2>3 DEF TablesInv, ProcessOK, ListingOK
    <3>2. QED
      BY <1>0, <3>1 DEF TablesInv, ListingOK
  <2>11. QED
    BY <2>5, <2>6, <2>7, <2>8, <2>9, <2>10 DEF TablesInv
<1>3. QED
  BY <1>1, <1>2

\* Only directories.
OnlyDirs(tab) == \A k \in DOMAIN tab : tab[k].kind = "Dir"

\* Where there are only directories, do_mkdirs does not fail.  It is in a
\* directory it found in the table, or in a new one that is empty.
LEMMA MkdirsDirs ==
  ASSUME NEW s, AllocOK(s), ~s.failed, OnlyDirs(s.tab), NEW path, Len(path) \in Nat,
         NEW f, IsMkdirs(f, s, path)
  PROVE  \A i \in 0..Len(path) :
           /\ OnlyDirs(f[i].tab) /\ ~f[i].failed
           /\ s.cur[1] \in Nat /\ f[i].cur[1] \in Nat /\ f[i].cur[1] >= s.cur[1]
           /\ f[i].tab = s.tab \/ \A k \in DOMAIN f[i].tab : k[1] # f[i].at
<1> DEFINE P(t) == /\ OnlyDirs(t.tab) /\ ~t.failed /\ t.cur[1] \in Nat /\ t.cur[1] >= s.cur[1]
                   /\ t.tab = s.tab \/ \A k \in DOMAIN t.tab : k[1] # t.at
           S == {n \in Nat : n <= Len(path) => P(f[n])}
<1>0. s.cur[1] \in Nat
  BY DEF AllocOK, Current
<1>1. 0 \in S
  <2>1. f[0] = s
    BY DEF IsMkdirs
  <2>2. P(s)
    BY <1>0
  <2> HIDE DEF P
  <2>3. QED
    BY <2>1, <2>2
<1>2. ASSUME NEW n \in Nat, n \in S PROVE n + 1 \in S
  <2>1. SUFFICES ASSUME n + 1 <= Len(path) PROVE P(f[n + 1])
    OBVIOUS
  <2> DEFINE t == f[n]
             u == f[n + 1]
             name == path[n + 1]
  <2>2. P(t)
    BY <1>2, <2>1
  <2>3. n + 1 \in 1..Len(path) /\ n + 1 - 1 = n /\ n \in 0..Len(path)
    BY <2>1
  <2>4. u = MakeEntry(t, name, "Dir")
    BY <2>3 DEF IsMkdirs
  <2>5. AllocOK(t)
    BY <2>3, MkdirsOK
  <2> HIDE DEF t, u, name
  <2>6. /\ u.cur[1] \in Nat /\ u.cur[1] >= t.cur[1] /\ AllocOK(u)
        /\ \/ Fails(t, u)
           \/ ~t.failed /\ ~u.failed /\ (Finds(t, u, name, "Dir") \/ Adds(t, u, name, "Dir"))
    <3>1. u.cur[1] \in Nat /\ u.cur[1] >= t.cur[1] /\ AllocOK(u)
      BY <2>4, <2>5, MakeEntryOK
    <3>2. \/ Fails(t, u)
          \/ ~t.failed /\ ~u.failed /\ (Finds(t, u, name, "Dir") \/ Adds(t, u, name, "Dir"))
      BY <2>4, <2>5, MakeEntryOK
    <3>3. QED
      BY <3>1, <3>2
  <2>7. ~Fails(t, u)
    <3>1. SUFFICES ASSUME u.failed PROVE FALSE
      BY DEF Fails
    <3>2. <<t.at, name>> \in DOMAIN t.tab => t.tab[<<t.at, name>>].kind = "Dir"
      BY <2>2 DEF OnlyDirs
    <3>3. CASE <<t.at, name>> \in DOMAIN t.tab
      <4>1. u = [t EXCEPT !.at = t.tab[<<t.at, name>>].inode]
        BY <2>2, <2>4, <3>2, <3>3 DEF MakeEntry
      <4>2. u.failed = t.failed
        BY <2>5, <4>1 DEF AllocOK
      <4>3. QED
        BY <2>2, <3>1, <4>2
    <3>4. CASE <<t.at, name>> \notin DOMAIN t.tab
      <4> DEFINE v == AllocateInode(t)
      <4>1. v = [tab |-> t.tab, at |-> t.at, cur |-> v.cur, ranges |-> v.ranges,
                 root |-> t.root, size |-> t.size, failed |-> t.failed]
        BY <2>5, AllocateOK
      <4> HIDE DEF v
      <4>2. u = [v EXCEPT !.tab = Insert(@, <<t.at, name>>, [inode |-> v.cur[1], kind |-> "Dir"]),
                          !.at = v.cur[1]]
        BY <2>2, <2>4, <3>4 DEF MakeEntry, v
      <4>3. u.failed = v.failed
        BY <4>1, <4>2
      <4>4. QED
        BY <2>2, <3>1, <4>1, <4>3
    <3>5. QED
      BY <3>3, <3>4
  <2>8. ASSUME Finds(t, u, name, "Dir") PROVE P(u)
    <3>1. u.tab = t.tab /\ <<t.at, name>> \in DOMAIN t.tab
      BY <2>5, <2>8 DEF Finds, AllocOK
    <3>2. <<t.at, name>>[1] = t.at
      OBVIOUS
    <3>3. t.tab = s.tab
      BY <2>2, <3>1, <3>2
    <3>4. QED
      BY <1>0, <2>2, <2>6, <2>7, <3>1, <3>3
  <2>9. ASSUME Adds(t, u, name, "Dir") PROVE P(u)
    <3> DEFINE key == <<t.at, name>>
               entry == [inode |-> u.at, kind |-> "Dir"]
    <3>1. u.tab = Insert(t.tab, key, entry) /\ u.at > t.cur[1] /\ u.at > t.root
      BY <2>9 DEF Adds
    <3>2. DOMAIN u.tab = DOMAIN t.tab \cup {key} /\ u.tab[key] = entry
          /\ \A k \in DOMAIN t.tab : k # key => u.tab[k] = t.tab[k]
      BY <3>1 DEF Insert
    <3>3. OnlyDirs(u.tab)
      <4>1. entry.kind = "Dir"
        OBVIOUS
      <4> HIDE DEF entry, key
      <4>2. QED
        BY <2>2, <3>2, <4>1 DEF OnlyDirs
    <3>4. u.at \in Nat /\ t.at \in Nat /\ t.root \in Nat /\ (t.at = t.root \/ t.at <= t.cur[1])
      BY <2>5, <2>6 DEF AllocOK
    <3>5. ASSUME NEW k \in DOMAIN u.tab PROVE k[1] # u.at
      <4>1. CASE k = key
        <5>1. k[1] = t.at
          BY <4>1
        <5>2. QED
          BY <2>2, <3>1, <3>4, <5>1
      <4>2. CASE k # key
        <5>1. k \in DOMAIN t.tab
          BY <3>2, <4>2
        <5>2. k[1] \in Nat /\ (k[1] = t.root \/ k[1] <= t.cur[1])
          BY <2>5, <5>1 DEF AllocOK, Tree
        <5>3. QED
          BY <2>2, <3>1, <3>4, <5>2
      <4>3. QED
        BY <4>1, <4>2
    <3>6. QED
      BY <1>0, <2>2, <2>6, <2>7, <3>3, <3>5
  <2>10. P(u)
    BY <2>6, <2>7, <2>8, <2>9
  <2>11. QED
    BY <2>10 DEF u
<1>3. Nat \subseteq S
  <2> HIDE DEF S
  <2>1. QED
    BY <1>1, <1>2, SetInduction
<1>4. QED
  BY <1>0, <1>3

\* The table add_arena_root works on.
LEMMA ArenaRootDir ==
  ASSUME TablesInv, NEW a \in Arena, NEW s, s = Mkdirs(GlobalAllocation, Front(ArenaPath[a]))
  PROVE  /\ AllocOK(s) /\ s.root = RootInode /\ Grows(ranges, s.ranges) /\ Extends(globalDirs, s.tab)
         /\ OnlyDirs(s.tab) /\ s.cur[1] >= globalRange[1]
         /\ s.tab = globalDirs \/ \A k \in DOMAIN s.tab : k[1] # s.at
<1> DEFINE g == GlobalAllocation
           front == Front(ArenaPath[a])
           n == Len(front)
<1>1. ArenaPath[a] \in Seq(STRING) \ {<<>>}
  BY NameAssumption
<1>2. n \in Nat
  BY <1>1, FrontLast
<1>3. /\ AllocOK(g) /\ g.root = RootInode /\ g.tab = globalDirs /\ g.cur = globalRange
      /\ g.ranges = ranges /\ ~g.failed
  BY GlobalAlloc
<1>4. OnlyDirs(g.tab)
  BY <1>3 DEF TablesInv, GlobalOK, OnlyDirs
<1> HIDE DEF g, front, n
<1>5. PICK f : IsMkdirs(f, g, front) /\ s = f[n]
  BY <1>2, MkdirsSteps DEF g, front, n
<1>6. n = Len(front) /\ n \in 0..Len(front)
  BY <1>2 DEF n
<1>7. AllocOK(s) /\ s.root = g.root /\ Grows(g.ranges, s.ranges) /\ Extends(g.tab, s.tab)
  BY <1>2, <1>3, <1>5, <1>6, MkdirsOK
<1>8. /\ OnlyDirs(s.tab) /\ s.cur[1] >= g.cur[1]
      /\ s.tab = g.tab \/ \A k \in DOMAIN s.tab : k[1] # s.at
  <2>1. \A i \in 0..Len(front) :
          /\ OnlyDirs(f[i].tab) /\ f[i].cur[1] >= g.cur[1]
          /\ f[i].tab = g.tab \/ \A k \in DOMAIN f[i].tab : k[1] # f[i].at
    BY <1>2, <1>3, <1>4, <1>5, <1>6, MkdirsDirs
  <2>2. QED
    BY <1>5, <1>6, <2>1
<1>9. QED
  BY <1>3, <1>7, <1>8

LEMMA RegisterStep == ASSUME TablesInv, NEW a \in Arena, Register(a) PROVE TablesInv'
<1>0. /\ registered' = registered \cup {a} /\ a \in added
      /\ UNCHANGED <<arenaTable, added, range, dirs, file, pending, seen, known, marks, indexed,
                     updating, listing, budget>>
      /\ dirtied' = {}
  BY DEF Register, Silent, treeVars, peerVars
<1>1. AddArenaRoot(a) /\ arenaTable[a] # 0 /\ registered \subseteq added /\ added \subseteq Arena
  BY <1>0 DEF Register, TablesInv, ProcessOK, TypeOK
<1>2. ListingOK' /\ ProcessOK' /\ ShapeOK'
  <2>1. ListingOK'
    BY <1>0, ListingUnchanged
  <2>2. QED
    BY <1>0, <2>1 DEF TablesInv, ProcessOK, ShapeOK
<1>3. CASE UNCHANGED <<ranges, globalRange, globalDirs>>
  <2>1. TypeOK'
    BY <1>0, <1>1, <1>3 DEF TablesInv, TypeOK
  <2>2. GlobalOK' /\ RootsOK' /\ \A b \in Arena : ArenaOK(b)' /\ FilesOK(b)'
    BY <1>0, <1>3, TreesUnchanged DEF globalVars, treeVars
  <2>3. QED
    BY <1>2, <2>1, <2>2 DEF TablesInv
<1>4. CASE ~UNCHANGED <<ranges, globalRange, globalDirs>>
  <2> DEFINE s == Mkdirs(GlobalAllocation, Front(ArenaPath[a]))
             key == <<s.at, Last(ArenaPath[a])>>
             entry == [inode |-> arenaTable[a], kind |-> "Dir"]
  <2>1. ranges' = s.ranges /\ globalRange' = s.cur /\ globalDirs' = Insert(s.tab, key, entry)
    BY <1>1, <1>4 DEF AddArenaRoot
  <2>2. /\ AllocOK(s) /\ s.root = RootInode /\ Grows(ranges, s.ranges)
        /\ OnlyDirs(s.tab) /\ s.cur[1] >= globalRange[1]
    BY ArenaRootDir
  <2> HIDE DEF s
  <2>3. /\ RangesOK(s.ranges) /\ Current(s.ranges, s.cur, RootInode)
        /\ Tree(s.ranges, s.tab, s.cur, RootInode)
        /\ s.at \in Nat /\ (s.at = RootInode \/ s.at <= s.cur[1])
        /\ s.cur \in Nat \X Nat /\ globalRange[1] \in Nat
    BY <2>2 DEF AllocOK, Current, TablesInv, TypeOK
  <2>4. /\ arenaTable[a] \in Nat /\ arenaTable[a] >= 2 /\ arenaTable[a] <= s.cur[1]
        /\ Owned(s.ranges, arenaTable[a], RootInode)
    <3>1. arenaTable[a] \in Nat /\ arenaTable[a] >= 2 /\ arenaTable[a] <= globalRange[1]
          /\ Owned(ranges, arenaTable[a], RootInode) /\ RangesOK(ranges)
      BY <1>1 DEF TablesInv, RootsOK, TypeOK, GlobalOK
    <3>2. QED
      BY <2>2, <2>3, <3>1, GrowsOwned
  <2>5. DOMAIN globalDirs' = DOMAIN s.tab \cup {key} /\ globalDirs'[key] = entry
        /\ \A k \in DOMAIN s.tab : k # key => globalDirs'[k] = s.tab[k]
    BY <2>1 DEF Insert
  <2>6. entry \in Entry /\ entry.inode = arenaTable[a] /\ entry.kind = "Dir" /\ key[1] = s.at
        /\ key = <<key[1], key[2]>>
    BY <2>4 DEF Entry
  <2> HIDE DEF key, entry
  <2>7. Tree(s.ranges, globalDirs', s.cur, RootInode)
    <3>1. ASSUME NEW k \in DOMAIN globalDirs'
          PROVE /\ k = <<k[1], k[2]>> /\ k[1] \in Nat /\ (k[1] = RootInode \/ k[1] <= s.cur[1])
                /\ globalDirs'[k] \in Entry /\ globalDirs'[k].inode >= 2
                /\ globalDirs'[k].inode <= s.cur[1]
                /\ Owned(s.ranges, globalDirs'[k].inode, RootInode)
      <4>1. CASE k = key
        BY <2>3, <2>4, <2>5, <2>6, <4>1
      <4>2. CASE k # key
        BY <2>3, <2>5, <4>2 DEF Tree
      <4>3. QED
        BY <4>1, <4>2
    <3>2. QED
      BY <3>1 DEF Tree
  <2>8. GlobalOK'
    <3>1. \A k \in DOMAIN globalDirs' : globalDirs'[k].kind = "Dir"
      BY <2>2, <2>5, <2>6 DEF OnlyDirs
    <3>2. QED
      BY <2>1, <2>3, <2>7, <3>1 DEF GlobalOK
  <2>9. RootsOK'
    <3>1. ASSUME NEW b \in Arena, arenaTable[b] # 0
          PROVE  /\ arenaTable[b] >= 2 /\ arenaTable[b] <= s.cur[1]
                 /\ Owned(s.ranges, arenaTable[b], RootInode)
      <4>1. arenaTable[b] \in Nat /\ arenaTable[b] >= 2 /\ arenaTable[b] <= globalRange[1]
            /\ Owned(ranges, arenaTable[b], RootInode) /\ RangesOK(ranges)
        BY <3>1 DEF TablesInv, RootsOK, TypeOK, GlobalOK
      <4>2. QED
        BY <2>2, <2>3, <4>1, GrowsOwned
    <3>2. QED
      BY <1>0, <2>1, <3>1 DEF TablesInv, RootsOK
  <2>10. ASSUME NEW b \in Arena PROVE ArenaOK(b)' /\ FilesOK(b)'
    BY <1>0, <2>1, <2>2, <2>3, OtherArena
  <2>11. TypeOK'
    <3>1. DOMAIN ranges' \subseteq Nat /\ Range(ranges') \subseteq Nat
      BY <2>1, <2>3, RangesType
    <3>2. Range(globalDirs') \subseteq [inode : Nat, kind : {"Dir", "File"}]
      BY <2>7 DEF Tree, Entry, Range
    <3>3. QED
      BY <1>0, <1>1, <2>1, <2>3, <3>1, <3>2 DEF TablesInv, TypeOK
  <2>12. QED
    BY <1>2, <2>8, <2>9, <2>10, <2>11 DEF TablesInv
<1>5. QED
  BY <1>3, <1>4

\* do_create_file on the tables of an arena.
LEMMA CreateFileOK ==
  ASSUME TablesInv, NEW a \in Arena, arenaTable[a] # 0, NEW path \in Path,
         NEW c, c = CreateFile(a, path)
  PROVE  /\ AllocOK(c.made) /\ c.made.root = arenaTable[a] /\ c.parent \in Nat
         /\ Grows(ranges, c.made.ranges) /\ Extends(dirs[a], c.made.tab) /\ Unique(c.made.tab)
         /\ ~c.made.failed =>
              Walk(c.made.tab, arenaTable[a], path) = [inode |-> c.made.at, kind |-> "File"]
<1> DEFINE s == ArenaAllocation(a)
           parent == Mkdirs(s, Front(path))
           t == MakeEntry(parent, Last(path), "File")
<1>1. path \in Seq(STRING) \ {<<>>}
  BY NameAssumption
<1>2. AllocOK(s) /\ s.at = s.root /\ s.root = arenaTable[a] /\ s.tab = dirs[a] /\ s.ranges = ranges
      /\ Unique(s.tab)
  BY ArenaAlloc, ArenaEntries
<1>3. c.made = t /\ c.parent = parent.at
  BY DEF CreateFile
<1> HIDE DEF s
<1>4. /\ AllocOK(parent) /\ AllocOK(t) /\ t.root = s.root
      /\ Grows(s.ranges, t.ranges) /\ Extends(s.tab, t.tab)
      /\ ~t.failed => Walk(t.tab, s.root, path) = [inode |-> t.at, kind |-> "File"]
  BY <1>1, <1>2, MakePathOK
<1>5. Unique(t.tab)
  BY <1>1, <1>2, MakePathUnique
<1> HIDE DEF t, parent
<1>6. parent.at \in Nat
  BY <1>4 DEF AllocOK
<1>7. QED
  BY <1>2, <1>3, <1>4, <1>5, <1>6

LEMMA LosesRangeStep == ASSUME TablesInv, NEW a \in Arena, LosesRange(a) PROVE TablesInv'
<1>0. UNCHANGED <<arenaTable, globalRange, globalDirs, added, registered, range, dirs, file, pending,
                  seen, known, marks, indexed, updating, listing>>
      /\ dirtied' = {}
  BY DEF LosesRange, Silent, processVars, treeVars, peerVars
<1>1. Op(a, "updates")
  BY DEF LosesRange
<1>2. arenaTable[a] # 0 /\ ShapeOK' /\ budget.files \subseteq Path
  BY <1>0, <1>1, OpStep DEF TablesInv, ShapeOK
<1>3. PICK p \in budget.files : ranges' = CreateFile(a, p).made.ranges
  BY DEF LosesRange
<1>4. RangesOK(ranges') /\ Grows(ranges, ranges')
  BY <1>2, <1>3, CreateFileOK DEF AllocOK
<1>5. GlobalOK' /\ RootsOK'
  BY <1>0, <1>4, OtherGlobal
<1>6. ASSUME NEW b \in Arena PROVE ArenaOK(b)' /\ FilesOK(b)'
  BY <1>0, <1>4, OtherArena
<1>7. TypeOK'
  BY <1>0, <1>4, RangesType DEF TablesInv, TypeOK
<1>8. ProcessOK' /\ ListingOK'
  BY <1>0, ListingUnchanged DEF TablesInv, ProcessOK
<1>9. QED
  BY <1>2, <1>5, <1>6, <1>7, <1>8 DEF TablesInv

-----------------------------------------------------------------------------
(* Notifications.                                                          *)

\* The record of a file.
FileRecord == [path : Path, parent : Nat, default : Hash, peer : [Peer -> Hash \cup {None}]]

LEMMA FileType ==
  ASSUME TablesInv, NEW a \in Arena, NEW i \in DOMAIN file[a]
  PROVE  file[a][i] \in FileRecord
<1>1. Range(file[a]) \subseteq FileRecord
  BY DEF TablesInv, TypeOK, FileRecord
<1>2. file[a][i] \in Range(file[a])
  BY DEF Range
<1>3. QED
  BY <1>1, <1>2

\* What a version known of a peer makes of a record.
LEMMA TakingType ==
  ASSUME NEW f \in [path : Path, parent : Nat, default : Hash \cup {None},
                    peer : [Peer -> Hash \cup {None}]],
         NEW q \in Peer, NEW n, n.hash \in Hash, NEW g, g = Taking(f, q, n)
  PROVE  /\ g \in [path : Path, parent : Nat, default : Hash \cup {None},
                   peer : [Peer -> Hash \cup {None}]]
         /\ g.path = f.path /\ g.parent = f.parent
<1> DEFINE T == [path : Path, parent : Nat, default : Hash \cup {None},
                 peer : [Peer -> Hash \cup {None}]]
           given == [f EXCEPT !.peer[q] = n.hash]
<1>1. given \in T /\ given.path = f.path /\ given.parent = f.parent
  <2>1. [f.peer EXCEPT ![q] = n.hash] \in [Peer -> Hash \cup {None}]
    OBVIOUS
  <2>2. given = [f EXCEPT !.peer = [f.peer EXCEPT ![q] = n.hash]]
    OBVIOUS
  <2>3. QED
    BY <2>1, <2>2
<1> HIDE DEF given
<1>2. \A d \in Hash \cup {None} :
        /\ [given EXCEPT !.default = d] \in T
        /\ [given EXCEPT !.default = d].path = f.path /\ [given EXCEPT !.default = d].parent = f.parent
  BY <1>1
<1>3. g = f \/ g = given \/ \E d \in Hash \cup {None} : g = [given EXCEPT !.default = d]
  <2>1. given.default \in Hash \cup {None}
    BY <1>1
  <2>2. CASE n.kind = "Replace"
    BY <2>2 DEF Taking, given
  <2>3. CASE n.kind # "Replace"
    <3>1. CASE n.kind = "Add" /\ f.peer[q] # None
      BY <2>3, <3>1 DEF Taking, given
    <3>2. CASE ~(n.kind = "Add" /\ f.peer[q] # None)
      <4>1. g = [given EXCEPT !.default = IF given.default = None THEN n.hash ELSE given.default]
        BY <2>3, <3>2 DEF Taking, given
      <4>2. QED
        BY <2>1, <4>1
    <3>3. QED
      BY <3>1, <3>2
  <2>4. QED
    BY <2>2, <2>3
<1> HIDE DEF T
<1>4. f \in T
  BY DEF T
<1>5. g \in T /\ g.path = f.path /\ g.parent = f.parent
  BY <1>1, <1>2, <1>3, <1>4
<1>6. QED
  BY <1>5 DEF T

\* The path of a file is a sequence of names.
LEMMA PathLen ==
  ASSUME NEW p \in Path
  PROVE  p \in Seq(STRING) \ {<<>>} /\ Len(p) \in Nat
  BY NameAssumption

LEMMA GiveTree ==
  ASSUME TablesInv, NEW a \in Arena, arenaTable[a] # 0, NEW q \in Peer, NEW n \in Incoming,
         n.kind \in Given, Give(a, q, n), UNCHANGED <<arenaTable, globalRange, globalDirs>>
  PROVE  /\ GlobalOK' /\ RootsOK' /\ \A b \in Arena : ArenaOK(b)' /\ FilesOK(b)'
         /\ DOMAIN dirs' = Arena /\ DOMAIN file' = Arena
         /\ \A b \in Arena : Range(file'[b]) \subseteq FileRecord
         /\ RangesOK(ranges') /\ range' \in [Arena -> Nat \X Nat]
         /\ dirtied' \subseteq Arena \X Path
<1> DEFINE c == CreateFile(a, n.path)
           i == c.made.at
           f == IF i \in DOMAIN file[a] THEN file[a][i] ELSE NewFile(n.path, c.parent)
           g == Taking(f, q, n)
           T == [path : Path, parent : Nat, default : Hash \cup {None}, peer : [Peer -> Hash \cup {None}]]
<1>1. n.path \in Path /\ n.hash \in Hash
  BY IncomingFields
<1>2. /\ ~c.made.failed
      /\ ranges' = c.made.ranges
      /\ range' = [range EXCEPT ![a] = c.made.cur]
      /\ dirs' = [dirs EXCEPT ![a] = c.made.tab]
      /\ file' = IF g.default = None THEN file ELSE [file EXCEPT ![a] = Insert(@, i, g)]
      /\ dirtied' = IF g.default # f.default THEN {<<a, g.path>>} ELSE {}
  BY DEF Give
<1>3. /\ AllocOK(c.made) /\ c.made.root = arenaTable[a] /\ c.parent \in Nat
      /\ Grows(ranges, c.made.ranges) /\ Extends(dirs[a], c.made.tab) /\ Unique(c.made.tab)
      /\ Walk(c.made.tab, arenaTable[a], n.path) = [inode |-> i, kind |-> "File"]
  BY <1>1, <1>2, CreateFileOK
<1> HIDE DEF c
<1>4. f \in T
  <2>1. CASE i \in DOMAIN file[a]
    <3>1. file[a][i] \in FileRecord
      BY <2>1, FileType
    <3>2. QED
      BY <2>1, <3>1 DEF FileRecord
  <2>2. CASE i \notin DOMAIN file[a]
    BY <1>1, <1>3, <2>2 DEF NewFile
  <2>3. QED
    BY <2>1, <2>2
<1>5. g \in T /\ g.path = f.path
  <2> HIDE DEF f
  <2>1. QED
    BY <1>1, <1>4, TakingType
<1>6. i \notin DOMAIN file[a] => f.path = n.path
  BY DEF NewFile
<1>7. i \in DOMAIN file[a] => f = file[a][i]
  OBVIOUS
<1> HIDE DEF f, g, i
<1>8. /\ dirs'[a] = c.made.tab /\ range'[a] = c.made.cur
      /\ DOMAIN dirs' = Arena /\ DOMAIN file' = Arena
      /\ \A b \in Arena : b # a => dirs'[b] = dirs[b] /\ range'[b] = range[b] /\ file'[b] = file[b]
      /\ range' \in [Arena -> Nat \X Nat]
  <2>1. range \in [Arena -> Nat \X Nat] /\ DOMAIN dirs = Arena /\ DOMAIN file = Arena
    BY DEF TablesInv, TypeOK, ShapeOK
  <2>2. c.made.cur \in Nat \X Nat
    BY <1>3 DEF AllocOK, Current
  <2>3. QED
    BY <1>2, <2>1, <2>2
<1>9. RangesOK(ranges') /\ Grows(ranges, ranges')
  BY <1>2, <1>3 DEF AllocOK
<1>10. GlobalOK' /\ RootsOK'
  BY <1>9, OtherGlobal
<1>11. ArenaOK(a)'
  <2>1. Current(ranges', range'[a], arenaTable'[a]) /\ Tree(ranges', dirs'[a], range'[a], arenaTable'[a])
    BY <1>2, <1>3, <1>8 DEF AllocOK
  <2>2. QED
    BY <1>3, <1>8, <2>1 DEF ArenaOK
<1>12. ASSUME NEW j \in DOMAIN file[a]
       PROVE  Walk(dirs'[a], arenaTable[a], file[a][j].path) = [inode |-> j, kind |-> "File"]
  <2>1. Walk(dirs[a], arenaTable[a], file[a][j].path) = [inode |-> j, kind |-> "File"]
    BY DEF TablesInv, FilesOK, LookupPath
  <2>2. file[a][j].path \in Path
    BY FileType DEF FileRecord
  <2>3. Entries(dirs[a]) /\ arenaTable[a] \in Nat
    BY ArenaEntries
  <2>4. SameWay(dirs[a], dirs'[a], Walk(dirs[a], arenaTable[a], file[a][j].path))
    BY <1>3, <1>8 DEF SameWay, Extends
  <2>5. Walk(dirs[a], arenaTable[a], file[a][j].path).kind \in {"Dir", "File"}
    BY <2>1
  <2>6. QED
    BY <2>1, <2>2, <2>3, <2>4, <2>5, PathLen, WalkSame
<1>13. g.path = n.path \/ (i \in DOMAIN file[a] /\ g.path = file[a][i].path)
  <2>1. CASE i \in DOMAIN file[a]
    <3>1. f = file[a][i]
      BY <1>7, <2>1
    <3>2. QED
      BY <1>5, <2>1, <3>1
  <2>2. CASE i \notin DOMAIN file[a]
    BY <1>5, <1>6, <2>2
  <2>3. QED
    BY <2>1, <2>2
<1>14. Walk(dirs'[a], arenaTable[a], g.path) = [inode |-> i, kind |-> "File"]
  <2>1. CASE g.path = n.path
    BY <1>3, <1>8, <2>1 DEF i
  <2>2. CASE i \in DOMAIN file[a] /\ g.path = file[a][i].path
    BY <1>12, <2>2
  <2>3. QED
    BY <1>13, <2>1, <2>2
<1>15. file'[a] = file[a] \/ (g \in FileRecord /\ file'[a] = Insert(file[a], i, g))
  <2>1. DOMAIN file = Arena
    BY DEF TablesInv, ShapeOK
  <2>2. g.default # None => g \in FileRecord
    BY <1>5 DEF FileRecord
  <2>3. QED
    BY <1>2, <2>1, <2>2
<1>16. FilesOK(a)'
  <2>1. ASSUME NEW j \in DOMAIN file'[a]
        PROVE  Walk(dirs'[a], arenaTable[a], file'[a][j].path) = [inode |-> j, kind |-> "File"]
    <3>1. CASE file'[a] = file[a]
      BY <1>12, <2>1, <3>1
    <3>2. CASE g \in FileRecord /\ file'[a] = Insert(file[a], i, g)
      <4>1. (j = i /\ file'[a][j] = g) \/ (j \in DOMAIN file[a] /\ file'[a][j] = file[a][j])
        <5>1. DOMAIN file'[a] = DOMAIN file[a] \cup {i}
          BY <3>2 DEF Insert
        <5>2. CASE j = i
          BY <3>2, <5>2 DEF Insert
        <5>3. CASE j # i
          BY <2>1, <3>2, <5>1, <5>3 DEF Insert
        <5>4. QED
          BY <5>2, <5>3
      <4>2. QED
        BY <1>12, <1>14, <4>1
    <3>3. QED
      BY <1>15, <3>1, <3>2
  <2>2. QED
    BY <2>1 DEF FilesOK, LookupPath
<1>17. ASSUME NEW b \in Arena PROVE Range(file'[b]) \subseteq FileRecord
  <2>1. Range(file[b]) \subseteq FileRecord
    BY DEF TablesInv, TypeOK, FileRecord
  <2>2. CASE file'[b] = file[b]
    BY <2>1, <2>2
  <2>3. CASE b = a /\ g \in FileRecord /\ file'[a] = Insert(file[a], i, g)
    BY <2>1, <2>3 DEF Insert, Range
  <2>4. QED
    BY <1>8, <1>15, <2>2, <2>3
<1>18. ASSUME NEW b \in Arena PROVE ArenaOK(b)' /\ FilesOK(b)'
  <2>1. CASE b = a
    BY <1>11, <1>16, <2>1
  <2>2. CASE b # a
    BY <1>8, <1>9, <2>2, OtherArena
  <2>3. QED
    BY <2>1, <2>2
<1>19. dirtied' \subseteq Arena \X Path
  BY <1>2, <1>5
<1>20. QED
  BY <1>8, <1>9, <1>10, <1>17, <1>18, <1>19

\* do_rm_file_entry removes the file and its entry, and nothing else.
LEMMA RmTree ==
  ASSUME TablesInv, NEW a \in Arena, NEW q \in Peer, NEW inodes \in SUBSET DOMAIN file[a],
         RmFileEntries(a, q, inodes), UNCHANGED <<arenaTable, globalRange, globalDirs, ranges, range>>
  PROVE  /\ GlobalOK' /\ RootsOK' /\ \A b \in Arena : ArenaOK(b)' /\ FilesOK(b)'
         /\ DOMAIN dirs' = Arena /\ DOMAIN file' = Arena
         /\ \A b \in Arena : Range(file'[b]) \subseteq FileRecord
         /\ dirtied' \subseteq Arena \X Path
<1>1. PICK d \in [inodes -> Hash \cup {None}] :
        /\ \A i \in inodes : d[i] \in NextDefaults(file[a][i], q)
        /\ LET gone == {i \in inodes : d[i] = None}
           IN /\ file' = [file EXCEPT ![a] =
                            [i \in DOMAIN @ \ gone |->
                               IF i \in inodes THEN [@[i] EXCEPT !.peer[q] = None, !.default = d[i]]
                               ELSE @[i]]]
              /\ dirs' = [dirs EXCEPT ![a] =
                            WithoutEntries(@, {<<file[a][i].parent, i>> : i \in gone})]
        /\ dirtied' = {<<a, file[a][i].path>> : i \in {j \in inodes : d[j] # file[a][j].default}}
  BY DEF RmFileEntries
<1> DEFINE gone == {i \in inodes : d[i] = None}
           out == {<<file[a][i].parent, i>> : i \in gone}
           tab == dirs[a]
           tab2 == WithoutEntries(tab, out)
           New(i) == IF i \in inodes THEN [file[a][i] EXCEPT !.peer[q] = None, !.default = d[i]]
                     ELSE file[a][i]
<1>2. DOMAIN dirs = Arena /\ DOMAIN file = Arena /\ RangesOK(ranges) /\ Grows(ranges, ranges)
  BY GrowsRefl DEF TablesInv, ShapeOK, GlobalOK
<1>3. dirs' = [dirs EXCEPT ![a] = tab2] /\ file' = [file EXCEPT ![a] = [i \in DOMAIN file[a] \ gone |-> New(i)]]
  BY <1>1
<1>4. /\ dirs'[a] = tab2 /\ file'[a] = [i \in DOMAIN file[a] \ gone |-> New(i)]
      /\ \A b \in Arena : b # a => dirs'[b] = dirs[b] /\ file'[b] = file[b]
      /\ DOMAIN dirs' = Arena /\ DOMAIN file' = Arena
  <2> HIDE DEF tab2, New
  <2>1. QED
    BY <1>2, <1>3
<1>5. tab2 = [k \in {x \in DOMAIN tab : <<x[1], tab[x].inode>> \notin out} |-> tab[k]]
  BY DEF WithoutEntries, RestrictDomain, Restrict
<1>6. DOMAIN tab2 \subseteq DOMAIN tab /\ \A k \in DOMAIN tab2 : tab2[k] = tab[k]
  BY <1>5
<1>7. ASSUME NEW k \in DOMAIN tab, k \notin DOMAIN tab2 PROVE tab[k].inode \in gone
  <2>1. <<k[1], tab[k].inode>> \in out
    BY <1>5, <1>7
  <2>2. QED
    BY <2>1
<1>8. Entries(tab) /\ Unique(tab) /\ arenaTable[a] \in Nat
  BY ArenaEntries
<1> HIDE DEF tab2, out
<1>9. GlobalOK' /\ RootsOK'
  BY <1>2, OtherGlobal
<1>10. ASSUME NEW i \in DOMAIN file[a]
       PROVE  /\ New(i).path = file[a][i].path /\ file[a][i].path \in Path
              /\ i \notin gone => New(i) \in FileRecord
              /\ Walk(tab, arenaTable[a], file[a][i].path) = [inode |-> i, kind |-> "File"]
  <2>1. file[a][i] \in FileRecord
    BY FileType
  <2>2. Walk(tab, arenaTable[a], file[a][i].path) = [inode |-> i, kind |-> "File"]
    BY DEF TablesInv, FilesOK, LookupPath
  <2>3. CASE i \in inodes
    <3> DEFINE p == [file[a][i].peer EXCEPT ![q] = None]
               r1 == [file[a][i] EXCEPT !.peer = p]
    <3>1. p \in [Peer -> Hash \cup {None}] /\ d[i] \in Hash \cup {None}
      BY <2>1, <2>3 DEF FileRecord
    <3>2. New(i) = [r1 EXCEPT !.default = d[i]]
      BY <2>3
    <3> HIDE DEF p
    <3>3. r1 \in FileRecord /\ r1.path = file[a][i].path
      BY <2>1, <3>1 DEF FileRecord
    <3> HIDE DEF r1, New
    <3>4. New(i).path = r1.path /\ (d[i] # None => New(i) \in FileRecord)
      BY <3>1, <3>2, <3>3 DEF FileRecord
    <3>5. file[a][i].path \in Path
      BY <2>1 DEF FileRecord
    <3>6. QED
      BY <2>2, <2>3, <3>3, <3>4, <3>5
  <2>4. CASE i \notin inodes
    BY <2>1, <2>2, <2>4 DEF FileRecord
  <2>5. QED
    BY <2>3, <2>4
<1> HIDE DEF New
<1>11. ASSUME NEW i \in DOMAIN file[a] \ gone
       PROVE  Walk(tab2, arenaTable[a], file[a][i].path) = [inode |-> i, kind |-> "File"]
  <2> DEFINE end == [inode |-> i, kind |-> "File"]
  <2>1. Walk(tab, arenaTable[a], file[a][i].path) = end /\ file[a][i].path \in Path
    BY <1>10
  <2>2. ASSUME NEW k \in DOMAIN tab, tab[k].kind = "Dir" \/ tab[k] = end PROVE k \in DOMAIN tab2
    <3>1. SUFFICES ASSUME k \notin DOMAIN tab2 PROVE FALSE
      OBVIOUS
    <3> DEFINE j == tab[k].inode
    <3>2. j \in gone /\ j \in DOMAIN file[a]
      BY <1>7, <3>1
    <3> HIDE DEF gone
    <3>3. Walk(tab, arenaTable[a], file[a][j].path) = [inode |-> j, kind |-> "File"]
          /\ file[a][j].path \in Path
      BY <1>10, <3>2
    <3>4. PICK l \in DOMAIN tab : tab[l] = [inode |-> j, kind |-> "File"]
      <4>1. Walk(tab, arenaTable[a], file[a][j].path).kind = "File"
        BY <3>3
      <4>2. QED
        BY <1>8, <3>3, <4>1, PathLen, WalkEntry
    <3>5. k = l
      BY <1>8, <3>4 DEF Unique
    <3>6. tab[k].kind = "File" /\ tab[k].inode = i
      BY <2>2, <3>4, <3>5
    <3>7. QED
      BY <3>2, <3>6
  <2>3. SameWay(tab, tab2, Walk(tab, arenaTable[a], file[a][i].path))
    BY <1>6, <2>1, <2>2 DEF SameWay
  <2>4. Walk(tab, arenaTable[a], file[a][i].path).kind \in {"Dir", "File"}
    BY <2>1
  <2> HIDE DEF tab
  <2>5. QED
    BY <1>8, <2>1, <2>3, <2>4, PathLen, WalkSame
<1>12. FilesOK(a)'
  <2>1. ASSUME NEW i \in DOMAIN file'[a]
        PROVE  Walk(dirs'[a], arenaTable'[a], file'[a][i].path) = [inode |-> i, kind |-> "File"]
    <3>1. i \in DOMAIN file[a] \ gone /\ file'[a][i] = New(i)
      BY <1>4, <2>1
    <3>2. QED
      BY <1>4, <1>10, <1>11, <3>1
  <2>2. QED
    BY <2>1 DEF FilesOK, LookupPath
<1>13. ArenaOK(a)'
  <2>1. ArenaOK(a)
    BY DEF TablesInv
  <2>2. Unique(tab2)
    BY <1>6, <1>8 DEF Unique
  <2>3. Tree(ranges, tab2, range[a], arenaTable[a])
    BY <1>6, <2>1 DEF ArenaOK, Tree
  <2>4. arenaTable[a] # 0 \/ inodes = {}
    BY <2>1 DEF ArenaOK, Empty
  <2>5. arenaTable[a] = 0 => dirs'[a] = Empty /\ file'[a] = Empty
    <3>1. SUFFICES ASSUME arenaTable[a] = 0 PROVE dirs'[a] = Empty /\ file'[a] = Empty
      OBVIOUS
    <3>2. tab = Empty /\ file[a] = Empty
      BY <2>1, <3>1 DEF ArenaOK
    <3>3. DOMAIN tab2 = {}
      BY <1>6, <3>2 DEF Empty
    <3>4. tab2 = Empty
      BY <1>5, <3>2 DEF Empty, tab2
    <3>5. file'[a] = Empty
      BY <1>4, <3>2 DEF Empty
    <3>6. QED
      BY <1>4, <3>4, <3>5
  <2>6. QED
    BY <1>4, <2>1, <2>2, <2>3, <2>5 DEF ArenaOK
<1>14. ASSUME NEW b \in Arena PROVE ArenaOK(b)' /\ FilesOK(b)'
  <2>1. CASE b = a
    BY <1>12, <1>13, <2>1
  <2>2. CASE b # a
    BY <1>2, <1>4, <2>2, OtherArena
  <2>3. QED
    BY <2>1, <2>2
<1>15. ASSUME NEW b \in Arena PROVE Range(file'[b]) \subseteq FileRecord
  <2> HIDE DEF gone
  <2>1. CASE b = a
    <3>1. ASSUME NEW r \in Range(file'[a]) PROVE r \in FileRecord
      <4>1. PICK i \in DOMAIN file'[a] : r = file'[a][i]
        BY <3>1 DEF Range
      <4>2. i \in DOMAIN file[a] /\ i \notin gone /\ file'[a][i] = New(i)
        BY <1>4
      <4>3. QED
        BY <1>10, <4>1, <4>2
    <3>2. QED
      BY <2>1, <3>1
  <2>2. CASE b # a
    BY <1>4, <2>2 DEF TablesInv, TypeOK, FileRecord
  <2>3. QED
    BY <2>1, <2>2
<1>16. dirtied' \subseteq Arena \X Path
  <2>1. ASSUME NEW x \in dirtied' PROVE x \in Arena \X Path
    <3>1. PICK i \in inodes : x = <<a, file[a][i].path>>
      BY <1>1, <2>1
    <3>2. file[a][i].path \in Path
      BY <1>10
    <3>3. QED
      BY <3>1, <3>2
  <2>2. QED
    BY <2>1
<1>17. QED
  BY <1>4, <1>9, <1>14, <1>15, <1>16

\* do_update_last_seen_notification
LEMMA LastSeenType ==
  ASSUME TablesInv, NEW a \in Arena, NEW q \in Peer, NEW n \in Incoming, LastSeen(a, q, n)
  PROVE  seen' \in [Arena -> [Peer -> 0..MaxHistory]]
<1>1. seen \in [Arena -> [Peer -> 0..MaxHistory]]
  BY DEF TablesInv, TypeOK
<1>2. n.index \in 0..MaxHistory
  BY IncomingFields
<1>3. QED
  BY <1>1, <1>2 DEF LastSeen

\* ArenaCache::update keeps the trees and what is known of peers.
LEMMA UpdateTrees ==
  ASSUME TablesInv, NEW a \in Arena, arenaTable[a] # 0, NEW q \in Peer, NEW n \in Incoming,
         Update(a, q, n), UNCHANGED <<arenaTable, globalRange, globalDirs>>
  PROVE  /\ GlobalOK' /\ RootsOK' /\ \A b \in Arena : ArenaOK(b)' /\ FilesOK(b)'
         /\ DOMAIN dirs' = Arena /\ DOMAIN file' = Arena /\ DOMAIN pending' = Arena
         /\ \A b \in Arena : Range(file'[b]) \subseteq FileRecord
         /\ RangesOK(ranges') /\ range' \in [Arena -> Nat \X Nat]
         /\ dirtied' \subseteq Arena \X Path
         /\ seen' \in [Arena -> [Peer -> 0..MaxHistory]]
         /\ known' \in [Arena -> [Peer -> 0..MaxUuid]]
<1>1. /\ DOMAIN pending = Arena /\ DOMAIN dirs = Arena /\ DOMAIN file = Arena
      /\ RangesOK(ranges) /\ range \in [Arena -> Nat \X Nat]
      /\ seen \in [Arena -> [Peer -> 0..MaxHistory]] /\ known \in [Arena -> [Peer -> 0..MaxUuid]]
      /\ \A b \in Arena : Range(file[b]) \subseteq FileRecord
  BY DEF TablesInv, TypeOK, ShapeOK, GlobalOK, FileRecord
<1>2. CASE n.kind \in Given /\ Give(a, q, n)
  <2>1. DOMAIN pending' = Arena
    BY <1>1, <1>2 DEF Give
  <2>2. seen' \in [Arena -> [Peer -> 0..MaxHistory]] /\ known' = known
    BY <1>2, LastSeenType DEF Give
  <2>3. QED
    BY <1>1, <1>2, <2>1, <2>2, GiveTree
<1>3. CASE n.kind \in Taken /\ Take(a, q, n)
  <2> DEFINE inodes == {i \in {LookupPath(a, n.path).inode} \cap DOMAIN file[a] :
                          file[a][i].peer[q] = n.old}
  <2>1. RmFileEntries(a, q, inodes) /\ UNCHANGED <<ranges, range, pending, known>> /\ LastSeen(a, q, n)
    BY <1>3 DEF Take
  <2>2. inodes \in SUBSET DOMAIN file[a]
    OBVIOUS
  <2>3. seen' \in [Arena -> [Peer -> 0..MaxHistory]]
    BY <2>1, LastSeenType
  <2> HIDE DEF inodes
  <2>4. /\ GlobalOK' /\ RootsOK' /\ \A b \in Arena : ArenaOK(b)' /\ FilesOK(b)'
        /\ DOMAIN dirs' = Arena /\ DOMAIN file' = Arena
        /\ \A b \in Arena : Range(file'[b]) \subseteq FileRecord
        /\ dirtied' \subseteq Arena \X Path
    BY <2>1, <2>2, RmTree
  <2>5. QED
    BY <1>1, <2>1, <2>3, <2>4
<1>4. CASE n.kind = "CatchupStart" /\ CatchupStart(a, q)
  <2>1. UNCHANGED <<ranges, treeVars, seen, known>> /\ dirtied' = {} /\ DOMAIN pending' = Arena
    BY <1>1, <1>4 DEF CatchupStart
  <2>2. GlobalOK' /\ RootsOK' /\ \A b \in Arena : ArenaOK(b)' /\ FilesOK(b)'
    BY <2>1, TreesUnchanged DEF globalVars
  <2>3. QED
    BY <1>1, <2>1, <2>2 DEF treeVars
<1>5. CASE n.kind = "CatchupComplete" /\ CatchupComplete(a, q, n)
  <2> DEFINE inodes == {i \in DOMAIN file[a] : <<q, i>> \in pending[a] /\ file[a][i].peer[q] # None}
  <2>1. RmFileEntries(a, q, inodes) /\ UNCHANGED <<ranges, range, known>> /\ LastSeen(a, q, n)
    BY <1>5 DEF CatchupComplete
  <2>2. inodes \in SUBSET DOMAIN file[a]
    OBVIOUS
  <2>3. seen' \in [Arena -> [Peer -> 0..MaxHistory]]
    BY <2>1, LastSeenType
  <2>4. DOMAIN pending' = Arena
    BY <1>1, <1>5 DEF CatchupComplete
  <2> HIDE DEF inodes
  <2>5. /\ GlobalOK' /\ RootsOK' /\ \A b \in Arena : ArenaOK(b)' /\ FilesOK(b)'
        /\ DOMAIN dirs' = Arena /\ DOMAIN file' = Arena
        /\ \A b \in Arena : Range(file'[b]) \subseteq FileRecord
        /\ dirtied' \subseteq Arena \X Path
    BY <2>1, <2>2, RmTree
  <2>6. QED
    BY <1>1, <2>1, <2>3, <2>4, <2>5
<1>6. CASE n.kind = "Connected" /\ Connected(a, q, n)
  <2>1. UNCHANGED <<ranges, treeVars, pending>> /\ dirtied' = {}
    BY <1>6 DEF Connected
  <2>2. GlobalOK' /\ RootsOK' /\ \A b \in Arena : ArenaOK(b)' /\ FilesOK(b)'
    BY <2>1, TreesUnchanged DEF globalVars
  <2>3. known' \in [Arena -> [Peer -> 0..MaxUuid]]
    BY <1>1, <1>6, IncomingFields DEF Connected
  <2>4. seen' \in [Arena -> [Peer -> 0..MaxHistory]]
    <3> DEFINE new == IF known[a][q] = n.uuid THEN seen[a][q] ELSE 0
    <3>1. seen' = [seen EXCEPT ![a][q] = new]
      BY <1>6 DEF Connected
    <3>2. new \in 0..MaxHistory
      BY <1>1, HistoryAssumption
    <3> HIDE DEF new
    <3>3. QED
      BY <1>1, <3>1, <3>2
  <2>5. QED
    BY <1>1, <2>1, <2>2, <2>3, <2>4 DEF treeVars
<1>7. QED
  BY <1>2, <1>3, <1>4, <1>5, <1>6 DEF Update

\* What a listing relies on is there after an update too.
LEMMA StillThereListing ==
  ASSUME TablesInv, StillThere, arenaTable' = arenaTable
  PROVE  ListingOK' /\ (listing' # None => listing # None /\ listing'.arena = listing.arena)
<1>1. CASE listing = None
  BY <1>1 DEF StillThere, ListingOK
<1>2. CASE listing # None
  <2> DEFINE st == listing.stayed \cap ReadDir(dirs'[listing.arena], arenaTable[listing.arena])
  <2>1. listing' = [listing EXCEPT !.stayed = st]
    BY <1>2 DEF StillThere
  <2>2. /\ listing = [arena |-> listing.arena, after |-> listing.after, page |-> listing.page,
                      listed |-> listing.listed, ended |-> listing.ended, stayed |-> listing.stayed]
        /\ listing.arena \in Arena /\ listing.after \in Nat
        /\ listing.page # None =>
             /\ listing.page[1] \in Nat /\ ~listing.ended
             /\ \A e \in listing.stayed : e[1] > listing.after => e = listing.page \/ e[1] > listing.page[1]
        /\ \A e \in listing.stayed : e[1] > listing.after => ~listing.ended
        /\ \A e \in listing.stayed : e[1] <= listing.after => e \in listing.listed
    BY <1>2 DEF TablesInv, ListingOK
  <2>3. st \subseteq listing.stayed /\ st \subseteq ReadDir(dirs'[listing.arena], arenaTable'[listing.arena])
    OBVIOUS
  <2> HIDE DEF st
  <2>4. listing' = [arena |-> listing.arena, after |-> listing.after, page |-> listing.page,
                    listed |-> listing.listed, ended |-> listing.ended, stayed |-> st]
    <3>1. DOMAIN listing = {"arena", "after", "page", "listed", "ended", "stayed"}
      BY <2>2
    <3>2. QED
      BY <2>1, <3>1
  <2>5. /\ listing'.arena = listing.arena /\ listing'.after = listing.after /\ listing'.page = listing.page
        /\ listing'.listed = listing.listed /\ listing'.ended = listing.ended /\ listing'.stayed = st
    BY <2>4
  <2>6. ListingOK'
    BY <2>2, <2>3, <2>4, <2>5 DEF ListingOK
  <2>7. QED
    BY <1>2, <2>5, <2>6
<1>3. QED
  BY <1>1, <1>2

LEMMA NotifiesCacheStep ==
  ASSUME TablesInv, NEW a \in Arena, arenaTable[a] # 0, NEW q \in Peer, NEW n \in Incoming,
         NotifiesCache(a, q, n), updating' \in {updating, None},
         budget' \in [arenas : SUBSET Arena, files : SUBSET Path, updates : Nat, marks : Nat,
                      restarts : Nat, listings : Nat, jobs : Nat]
  PROVE  TablesInv'
<1>1. /\ Update(a, q, n) /\ StillThere
      /\ UNCHANGED <<arenaTable, globalRange, globalDirs, processVars, marks, indexed>>
  BY DEF NotifiesCache
<1>2. /\ GlobalOK' /\ RootsOK' /\ \A b \in Arena : ArenaOK(b)' /\ FilesOK(b)'
      /\ DOMAIN dirs' = Arena /\ DOMAIN file' = Arena /\ DOMAIN pending' = Arena
      /\ \A b \in Arena : Range(file'[b]) \subseteq FileRecord
      /\ RangesOK(ranges') /\ range' \in [Arena -> Nat \X Nat]
      /\ dirtied' \subseteq Arena \X Path
      /\ seen' \in [Arena -> [Peer -> 0..MaxHistory]]
      /\ known' \in [Arena -> [Peer -> 0..MaxUuid]]
  BY <1>1, UpdateTrees
<1>3. ListingOK' /\ (listing' # None => listing # None /\ listing'.arena = listing.arena)
  BY <1>1, StillThereListing
<1>4. ProcessOK'
  BY <1>1, <1>3 DEF TablesInv, ProcessOK, processVars
<1>5. ShapeOK'
  BY <1>2 DEF ShapeOK
<1>6. ASSUME NEW t \in {globalDirs'} \cup Range(dirs')
      PROVE  Range(t) \subseteq [inode : Nat, kind : {"Dir", "File"}]
  <2>1. CASE t = globalDirs'
    BY <1>1, <2>1 DEF TablesInv, TypeOK
  <2>2. CASE t \in Range(dirs')
    <3>1. PICK b \in Arena : t = dirs'[b]
      BY <1>2, <2>2 DEF Range
    <3>2. Tree(ranges', dirs'[b], range'[b], arenaTable'[b])
      BY <1>2 DEF ArenaOK
    <3>3. QED
      BY <3>1, <3>2 DEF Tree, Entry, Range
  <2>3. QED
    BY <2>1, <2>2
<1>7. TypeOK'
  <2>1. DOMAIN ranges' \subseteq Nat /\ Range(ranges') \subseteq Nat
    BY <1>2, RangesType
  <2>2. updating' \in {None} \cup [arena : Arena, peer : Peer, notification : Incoming]
    BY DEF TablesInv, TypeOK
  <2>3. /\ arenaTable' \in [Arena -> Nat] /\ registered' \subseteq added' /\ added' \subseteq Arena
        /\ globalRange' \in Nat \X Nat
        /\ marks' \in [Arena -> [MarkPath -> Mark \cup {None}]]
        /\ indexed' \in [Arena -> [Path -> {None} \cup [hash : Hash, outdated : Hash \cup {None}]]]
    BY <1>1 DEF TablesInv, TypeOK, processVars
  <2>4. QED
    BY <1>2, <1>6, <2>1, <2>2, <2>3 DEF TypeOK, FileRecord
<1>8. QED
  BY <1>2, <1>3, <1>4, <1>5, <1>7 DEF TablesInv

LEMMA NotifiedStep == ASSUME TablesInv, NEW a \in Arena, Notified(a) PROVE TablesInv'
<1>1. Op(a, "updates") /\ updating' = updating
  BY DEF Notified
<1>2. PICK q \in Peer, n \in Sent : NotifiesCache(a, q, n)
  BY DEF Notified
<1>3. n \in Incoming
  BY DEF Sent
<1>4. arenaTable[a] # 0 /\ budget' \in [arenas : SUBSET Arena, files : SUBSET Path, updates : Nat,
                                        marks : Nat, restarts : Nat, listings : Nat, jobs : Nat]
  BY <1>1, OpStep
<1>5. QED
  BY <1>1, <1>2, <1>3, <1>4, NotifiesCacheStep

LEMMA FinishesUpdateStep == ASSUME TablesInv, NEW a \in Arena, FinishesUpdate(a) PROVE TablesInv'
<1>1. /\ updating # None /\ updating.arena = a /\ updating' = None /\ budget' = budget
      /\ updating \in [arena : Arena, peer : Peer, notification : Incoming]
  BY DEF FinishesUpdate, TablesInv, TypeOK
<1>2. updating.peer \in Peer /\ updating.notification \in Incoming /\ arenaTable[a] # 0
  BY <1>1 DEF TablesInv, ProcessOK, TypeOK
<1>3. CASE NotifiesCache(a, updating.peer, updating.notification)
  BY <1>1, <1>2, <1>3, NotifiesCacheStep DEF TablesInv, ShapeOK
<1>4. CASE Silent /\ UNCHANGED <<globalVars, processVars, treeVars, peerVars, marks, indexed, listing>>
  <2>1. TypeOK' /\ ShapeOK'
    BY <1>1, <1>4 DEF TablesInv, TypeOK, ShapeOK, Silent, globalVars, processVars, treeVars, peerVars
  <2>2. GlobalOK' /\ RootsOK' /\ \A b \in Arena : ArenaOK(b)' /\ FilesOK(b)'
    BY <1>4, TreesUnchanged
  <2>3. ProcessOK' /\ ListingOK'
    BY <1>1, <1>4, ListingUnchanged DEF TablesInv, ProcessOK, globalVars, processVars, treeVars
  <2>4. QED
    BY <2>1, <2>2, <2>3 DEF TablesInv
<1>5. QED
  BY <1>3, <1>4 DEF FinishesUpdate

-----------------------------------------------------------------------------
(* The tables, always.                                                     *)

LEMMA TablesInit == ASSUME Init PROVE TablesInv
<1>1. TypeOK
  BY BudgetAssumption, HistoryAssumption DEF Init, TypeOK, Empty, NoRange, Range
<1>2. ShapeOK
  BY BudgetAssumption DEF Init, ShapeOK
<1>3. GlobalOK /\ RootsOK /\ ProcessOK /\ ListingOK
  BY DEF Init, GlobalOK, RootsOK, ProcessOK, ListingOK, RangesOK, Current, Tree, Empty, NoRange
<1>4. ASSUME NEW a \in Arena PROVE ArenaOK(a) /\ FilesOK(a)
  BY DEF Init, ArenaOK, FilesOK, Current, Tree, Unique, Empty, NoRange
<1>5. QED
  BY <1>1, <1>2, <1>3, <1>4 DEF TablesInv

LEMMA TablesNext == ASSUME TablesInv, Next PROVE TablesInv'
<1>1. ASSUME NEW a \in Arena, AddArena(a) \/ Register(a) \/ LosesRange(a) \/ StartListing(a)
      PROVE  TablesInv'
  BY <1>1, AddArenaStep, RegisterStep, LosesRangeStep, StartListingStep
<1>2. ASSUME NEW a \in Arena, NotifiesIndex(a) \/ FinishesUpdate(a) \/ Notified(a)
      PROVE  TablesInv'
  BY <1>2, NotifiesIndexStep, FinishesUpdateStep, NotifiedStep
<1>3. ASSUME NEW a \in Arena, NEW p \in MarkPath, NEW m \in Mark \cup {None}, SetMark(a, p, m)
      PROVE  TablesInv'
  BY <1>3, SetMarkStep
<1>4. ASSUME NEW a \in Arena, NEW p \in Path, IndexChanges(a, p, None)
      PROVE  TablesInv'
  BY <1>4, IndexChangesStep
<1>5. ASSUME NEW a \in Arena, NEW p \in Path, NEW h \in Hash,
             IndexChanges(a, p, [hash |-> h, outdated |-> None])
      PROVE  TablesInv'
  BY <1>5, IndexChangesStep
<1>6. QED
  BY <1>1, <1>2, <1>3, <1>4, <1>5, RestartStep, ReadPageStep, ReadAttributesStep DEF Next

LEMMA TablesStutter == ASSUME TablesInv, UNCHANGED vars PROVE TablesInv'
<1>1. TypeOK' /\ ShapeOK'
  BY DEF TablesInv, TypeOK, ShapeOK, vars, globalVars, processVars, treeVars, peerVars
<1>2. GlobalOK' /\ RootsOK' /\ \A b \in Arena : ArenaOK(b)' /\ FilesOK(b)'
  BY TreesUnchanged DEF vars
<1>3. ProcessOK' /\ ListingOK'
  BY ListingUnchanged DEF TablesInv, ProcessOK, vars, globalVars, processVars, treeVars
<1>4. QED
  BY <1>1, <1>2, <1>3 DEF TablesInv

\* The tables, and the job that is run.
JobsInv == TablesInv /\ (job # None => job.arena \in Arena /\ job.path \in Path)

\* A job is for a path of an arena.
LEMMA BuildJobType ==
  ASSUME NEW a \in Arena, NEW p \in Path, BuildJob(a, p) # None
  PROVE  BuildJob(a, p).arena = a /\ BuildJob(a, p).path = p
<1> DEFINE i == CHOOSE x \in FileAt(a, p) : TRUE
<1>1. BuildJob(a, p) = JobFor(a, p, i)
  BY DEF BuildJob
<1> HIDE DEF i
<1>2. JobFor(a, p, i) # None => \E t, h, o : JobFor(a, p, i) = Job(t, a, p, h, o)
  BY DEF JobFor
<1>3. PICK t, h, o : JobFor(a, p, i) = Job(t, a, p, h, o)
  BY <1>1, <1>2
<1>4. QED
  BY <1>1, <1>3 DEF Job

LEMMA JobsNext == ASSUME JobsInv, ArenaNext PROVE JobsInv'
<1> DEFINE Kept == UNCHANGED <<globalVars, processVars, treeVars, peerVars, marks, updating, listing>>
<1>0. TablesInv
  BY DEF JobsInv
<1>1. ASSUME Kept, indexed' \in [Arena -> [Path -> {None} \cup [hash : Hash, outdated : Hash \cup {None}]]],
             dirtied' \subseteq Arena \X Path,
             budget' \in [arenas : SUBSET Arena, files : SUBSET Path, updates : Nat, marks : Nat,
                          restarts : Nat, listings : Nat, jobs : Nat]
      PROVE  TablesInv'
  <2>1. TypeOK' /\ ShapeOK'
    BY <1>0, <1>1 DEF TablesInv, TypeOK, ShapeOK, globalVars, processVars, treeVars, peerVars
  <2>2. GlobalOK' /\ RootsOK' /\ \A b \in Arena : ArenaOK(b)' /\ FilesOK(b)'
    BY <1>0, <1>1, TreesUnchanged
  <2>3. ProcessOK' /\ ListingOK'
    BY <1>0, <1>1, ListingUnchanged DEF TablesInv, ProcessOK, globalVars, processVars, treeVars
  <2>4. QED
    BY <2>1, <2>2, <2>3 DEF TablesInv
<1>2. /\ indexed \in [Arena -> [Path -> {None} \cup [hash : Hash, outdated : Hash \cup {None}]]]
      /\ budget \in [arenas : SUBSET Arena, files : SUBSET Path, updates : Nat, marks : Nat,
                     restarts : Nat, listings : Nat, jobs : Nat]
  BY <1>0 DEF TablesInv, TypeOK, ShapeOK
<1>3. CASE Next /\ Follows
  BY <1>0, <1>3, TablesNext DEF JobsInv, Follows
<1>4. ASSUME NEW a \in Arena, NEW p \in Path, TakesJob(a, p) PROVE JobsInv'
  <2>1. TablesInv'
    BY <1>0, <1>1, <1>2, <1>4, OpStep DEF TakesJob, Silent
  <2>2. job' = BuildJob(a, p) /\ BuildJob(a, p) # None
    BY <1>4 DEF TakesJob
  <2>3. job'.arena = a /\ job'.path = p
    BY <2>2, BuildJobType
  <2>4. QED
    BY <2>1, <2>3 DEF JobsInv
<1>5. CASE Downloads \/ Realizes \/ EndsJob
  BY <1>0, <1>1, <1>2, <1>5 DEF Downloads, Realizes, EndsJob, Silent, JobsInv
<1>6. CASE Unrealizes
  <2>1. /\ job # None /\ dirtied' = {<<job.arena, job.path>>} /\ job' = None /\ Kept
        /\ budget' = budget /\ indexed' = [indexed EXCEPT ![job.arena][job.path] = None]
    BY <1>6 DEF Unrealizes, Running
  <2>2. job.arena \in Arena /\ job.path \in Path
    BY <2>1 DEF JobsInv
  <2>3. indexed' \in [Arena -> [Path -> {None} \cup [hash : Hash, outdated : Hash \cup {None}]]]
    BY <1>2, <2>1, <2>2
  <2>4. TablesInv'
    BY <1>1, <1>2, <2>1, <2>2, <2>3
  <2>5. QED
    BY <2>1, <2>4 DEF JobsInv
<1>7. QED
  BY <1>3, <1>4, <1>5, <1>6 DEF ArenaNext

\* The invariant the theorems on the exported tree follow from.
THEOREM TablesAlways == ArenaSpec => []JobsInv
<1>1. ArenaInit => JobsInv
  BY TablesInit DEF ArenaInit, JobsInv
<1>2. JobsInv /\ [ArenaNext]_arenaVars => JobsInv'
  <2>1. JobsInv /\ UNCHANGED arenaVars => JobsInv'
    BY TablesStutter DEF JobsInv, arenaVars, jobVars
  <2>2. QED
    BY <2>1, JobsNext
<1>3. QED
  BY <1>1, <1>2, PTL DEF ArenaSpec

\* What the export relies on, with the jobs of the engine or without: every
\* file with a version is found at its own path and no inode is in two places,
\* for any number of arenas, files, peers and updates, in any order
\* (do_create_file, do_rm_file_entry, do_delete_marked_files).
THEOREM FilesAtTheirPaths == ArenaSpec => []TreeSound
<1>1. JobsInv => TreeSound
  BY DEF JobsInv, TablesInv, TreeSound, ArenaOK, FilesOK, Unique
<1>2. QED
  BY <1>1, TablesAlways, PTL

\* A listing that comes to its end has shown all that stayed, however many
\* updates come between its pages (do_readdir).
THEOREM ListingsComplete == ArenaSpec => []ListedAll
<1>1. ASSUME JobsInv, listing # None, listing.ended PROVE listing.stayed \subseteq listing.listed
  <2>0. TablesInv /\ ListingOK
    BY <1>1 DEF JobsInv, TablesInv
  <2>1. ASSUME NEW e \in listing.stayed PROVE e \in listing.listed
    <3>1. /\ listing.arena \in Arena /\ listing.after \in Nat
          /\ e \in ReadDir(dirs[listing.arena], arenaTable[listing.arena])
          /\ e[1] > listing.after => FALSE
          /\ e[1] <= listing.after => e \in listing.listed
      BY <1>1, <2>0 DEF ListingOK
    <3>2. e[1] \in Nat
      BY <2>0, <3>1, ArenaEntries, ReadDirPair
    <3>3. QED
      BY <3>1, <3>2
  <2>2. QED
    BY <2>1
<1>2. JobsInv => ListedAll
  BY <1>1 DEF ListedAll
<1>3. QED
  BY <1>2, TablesAlways, PTL

-----------------------------------------------------------------------------
(* Inodes are led back to their tree.                                      *)

\* The first range at or after an inode is for one root only.
LEMMA OneOwner ==
  ASSUME NEW rs, RangesOK(rs), NEW inode \in Nat, NEW r1, NEW r2,
         Owned(rs, inode, r1), Owned(rs, inode, r2)
  PROVE  r1 = r2
<1>1. PICK d \in DOMAIN rs : d >= inode /\ rs[d] = r1 /\ \A x \in DOMAIN rs : x >= inode => x >= d
  BY DEF Owned
<1>2. PICK e \in DOMAIN rs : e >= inode /\ rs[e] = r2 /\ \A x \in DOMAIN rs : x >= inode => x >= e
  BY DEF Owned
<1>3. d \in Nat /\ e \in Nat /\ d >= e /\ e >= d
  BY <1>1, <1>2 DEF RangesOK
<1>4. d = e
  BY <1>3
<1>5. QED
  BY <1>1, <1>2, <1>4

\* The range arena_for_inode finds.
LEMMA FirstRange ==
  ASSUME NEW rs, RangesOK(rs), NEW inode \in Nat, NEW root, Owned(rs, inode, root),
         NEW ends \in SUBSET DOMAIN rs,
         \A e \in DOMAIN rs : e \in ends => e >= inode,
         \A e \in DOMAIN rs : e >= inode /\ rs[e] = root => e \in ends
  PROVE  rs[Min(ends)] = root
<1>1. PICK e \in DOMAIN rs : e >= inode /\ rs[e] = root /\ \A x \in DOMAIN rs : x >= inode => x >= e
  BY DEF Owned
<1>2. e \in ends /\ \A x \in ends : x \in Nat /\ e \in Nat /\ e <= x
  BY <1>1 DEF RangesOK
<1>3. Min(ends) \in ends /\ \A x \in ends : Min(ends) <= x
  BY <1>2 DEF Min
<1>4. Min(ends) = e
  BY <1>2, <1>3
<1>5. QED
  BY <1>1, <1>4

\* An inode of an arena that was added.
LEMMA ArenaInode ==
  ASSUME TablesInv, NEW a \in added, NEW i \in Nat, i >= 2, Owned(ranges, i, arenaTable[a])
  PROVE  ArenaForInode(i) = a
<1> DEFINE rootOf(x) == {b \in added : arenaTable[b] = x}
           ends == {e \in DOMAIN ranges :
                      e >= i /\ (ranges[e] = RootInode \/ rootOf(ranges[e]) # {})}
<1>1. /\ RangesOK(ranges) /\ added \subseteq Arena /\ RootsOK /\ arenaTable[a] >= 2 /\ arenaTable[a] # 0
      /\ arenaTable \in [Arena -> Nat]
  BY DEF TablesInv, GlobalOK, ProcessOK, RootsOK, TypeOK
<1>2. rootOf(i) = {}
  <2>1. SUFFICES ASSUME NEW b \in added, arenaTable[b] = i PROVE FALSE
    OBVIOUS
  <2>2. Owned(ranges, i, RootInode)
    BY <1>1, <2>1 DEF RootsOK
  <2>3. arenaTable[a] = RootInode
    BY <1>1, <2>2, OneOwner
  <2>4. QED
    BY <1>1, <2>3 DEF RootInode
<1>3. rootOf(arenaTable[a]) = {a}
  BY <1>1 DEF RootsOK
<1>4. ranges[Min(ends)] = arenaTable[a]
  <2>1. \A e \in DOMAIN ranges : e >= i /\ ranges[e] = arenaTable[a] => e \in ends
    BY <1>3
  <2>2. ends \in SUBSET DOMAIN ranges /\ \A e \in DOMAIN ranges : e \in ends => e >= i
    OBVIOUS
  <2> HIDE DEF ends
  <2>3. QED
    BY <1>1, <2>1, <2>2, FirstRange
<1>5. i # RootInode /\ arenaTable[a] # RootInode
  BY <1>1 DEF RootInode
<1>6. ArenaForInode(i) =
        IF i = RootInode \/ (rootOf(i) = {} /\ ranges[Min(ends)] = RootInode) THEN None
        ELSE CHOOSE b \in (IF rootOf(i) # {} THEN rootOf(i) ELSE rootOf(ranges[Min(ends)])) : TRUE
  BY DEF ArenaForInode
<1> HIDE DEF ends, rootOf
<1>7. ArenaForInode(i) = CHOOSE b \in rootOf(arenaTable[a]) : TRUE
  BY <1>2, <1>4, <1>5, <1>6
<1>8. QED
  BY <1>3, <1>7

\* An inode of the global tree.
LEMMA GlobalInode ==
  ASSUME TablesInv, NEW i \in Nat, i >= 2, Owned(ranges, i, RootInode)
  PROVE  ArenaForInode(i) = IF \E a \in added : arenaTable[a] = i
                            THEN CHOOSE a \in added : arenaTable[a] = i ELSE None
<1> DEFINE rootOf(x) == {b \in added : arenaTable[b] = x}
           ends == {e \in DOMAIN ranges :
                      e >= i /\ (ranges[e] = RootInode \/ rootOf(ranges[e]) # {})}
<1>1. RangesOK(ranges) /\ added \subseteq Arena /\ RootsOK /\ i # RootInode /\ i # 0
  BY DEF TablesInv, GlobalOK, TypeOK, RootInode
<1>2. ArenaForInode(i) =
        IF i = RootInode \/ (rootOf(i) = {} /\ ranges[Min(ends)] = RootInode) THEN None
        ELSE CHOOSE b \in (IF rootOf(i) # {} THEN rootOf(i) ELSE rootOf(ranges[Min(ends)])) : TRUE
  BY DEF ArenaForInode
<1>3. CASE \E a \in added : arenaTable[a] = i
  <2>1. PICK a \in added : arenaTable[a] = i
    BY <1>3
  <2>2. rootOf(i) = {a}
    BY <1>1, <2>1 DEF RootsOK
  <2>3. ArenaForInode(i) = CHOOSE b \in rootOf(i) : TRUE
    <3> HIDE DEF ends, rootOf
    <3>1. QED
      BY <1>1, <1>2, <2>2
  <2>4. ArenaForInode(i) = a
    <3> HIDE DEF rootOf
    <3>1. QED
      BY <2>2, <2>3
  <2>5. \A b \in added : arenaTable[b] = i => b = a
    BY <2>2
  <2>6. (CHOOSE b \in added : arenaTable[b] = i) = a
    BY <2>1, <2>5
  <2>7. QED
    BY <1>3, <2>4, <2>6
<1>4. CASE ~\E a \in added : arenaTable[a] = i
  <2>1. rootOf(i) = {}
    BY <1>4
  <2>2. ends \in SUBSET DOMAIN ranges /\ \A e \in DOMAIN ranges : e \in ends => e >= i
    OBVIOUS
  <2>3. \A e \in DOMAIN ranges : e >= i /\ ranges[e] = RootInode => e \in ends
    OBVIOUS
  <2> HIDE DEF ends, rootOf
  <2>4. ranges[Min(ends)] = RootInode
    BY <1>1, <2>2, <2>3, FirstRange
  <2>5. QED
    BY <1>2, <1>4, <2>1, <2>4
<1>5. QED
  BY <1>3, <1>4

\* Every inode the export hands out leads back to the tables it is in, for
\* any number of arenas and sizes of ranges, across restarts with other arenas
\* and ranges that were lost (allocate_inode, arena_for_inode).
THEOREM InodesLeadBack == ArenaSpec => []InodesOwned
<1>1. ASSUME TablesInv, Serving, NEW a \in registered, NEW k \in DOMAIN dirs[a]
      PROVE  ArenaForInode(dirs[a][k].inode) = a
  <2>1. a \in added /\ a \in Arena
    BY <1>1 DEF Serving, TablesInv, TypeOK
  <2>2. Tree(ranges, dirs[a], range[a], arenaTable[a])
    BY <1>1, <2>1 DEF TablesInv, ArenaOK
  <2>3. dirs[a][k].inode \in Nat /\ dirs[a][k].inode >= 2 /\ Owned(ranges, dirs[a][k].inode, arenaTable[a])
    BY <2>2 DEF Tree, Entry
  <2>4. QED
    BY <1>1, <2>1, <2>3, ArenaInode
<1>2. ASSUME TablesInv, Serving, NEW k \in DOMAIN globalDirs
      PROVE  ArenaForInode(globalDirs[k].inode) =
               IF \E a \in registered : arenaTable[a] = globalDirs[k].inode
               THEN CHOOSE a \in registered : arenaTable[a] = globalDirs[k].inode ELSE None
  <2>1. registered = added
    BY <1>2 DEF Serving
  <2>2. Tree(ranges, globalDirs, globalRange, RootInode)
    BY <1>2 DEF TablesInv, GlobalOK
  <2>3. globalDirs[k].inode \in Nat /\ globalDirs[k].inode >= 2 /\ Owned(ranges, globalDirs[k].inode, RootInode)
    BY <2>2 DEF Tree, Entry
  <2> DEFINE i == globalDirs[k].inode
  <2> HIDE DEF i
  <2>4. ArenaForInode(i) = IF \E a \in added : arenaTable[a] = i
                           THEN CHOOSE a \in added : arenaTable[a] = i ELSE None
    BY <1>2, <2>3, GlobalInode DEF i
  <2>5. ArenaForInode(i) = IF \E a \in registered : arenaTable[a] = i
                           THEN CHOOSE a \in registered : arenaTable[a] = i ELSE None
    BY <2>1, <2>4, Zenon
  <2>6. QED
    BY <2>5 DEF i
<1>3. JobsInv => InodesOwned
  BY <1>1, <1>2 DEF InodesOwned, JobsInv
<1>4. QED
  BY <1>3, TablesAlways, PTL

-----------------------------------------------------------------------------
(* Arenas are at their names.                                              *)

\* The first names of a path.
Upto(path, i) == [j \in 1..i |-> path[j]]

LEMMA UptoSteps ==
  ASSUME NEW path \in Seq(STRING), NEW i \in 0..Len(path)
  PROVE  /\ Upto(path, i) \in Seq(STRING) /\ Len(Upto(path, i)) = i /\ Upto(path, 0) = <<>>
         /\ i < Len(path) => Append(Upto(path, i), path[i + 1]) = Upto(path, i + 1)
         /\ Upto(path, Len(path)) = path
         /\ i < Len(path) => IsStrictPrefix(Upto(path, i), path)
<1> DEFINE u == Upto(path, i)
<1>1. Len(path) \in Nat /\ i \in Nat /\ i <= Len(path) /\ DOMAIN path = 1..Len(path)
  BY LenProperties
<1>2. \A j \in 1..Len(path) : path[j] \in STRING
  BY ElementOfSeq
<1>3. u \in Seq(STRING) /\ Len(u) = i
  <2>1. \A j \in 1..i : path[j] \in STRING
    BY <1>1, <1>2
  <2>2. QED
    BY <1>1, <2>1 DEF Upto
<1>4. Upto(path, 0) = <<>>
  BY DEF Upto
<1>5. Upto(path, Len(path)) = path
  BY <1>1 DEF Upto
<1>6. ASSUME i < Len(path) PROVE Append(u, path[i + 1]) = Upto(path, i + 1)
  <2>1. path[i + 1] \in STRING
    BY <1>1, <1>2, <1>6
  <2>2. QED
    BY <1>1, <1>3, <2>1, AppendProperties DEF Upto
<1>7. ASSUME i < Len(path) PROVE IsStrictPrefix(u, path)
  <2>1. SubSeq(u, 1, Len(u)) = [j \in 1..i |-> u[j]]
    BY <1>1, <1>3 DEF SubSeq
  <2>2. SubSeq(path, 1, Len(u)) = [j \in 1..i |-> path[j]]
    BY <1>1, <1>3 DEF SubSeq
  <2>3. SubSeq(u, 1, Len(u)) = SubSeq(path, 1, Len(u))
    BY <2>1, <2>2 DEF Upto
  <2>4. u # path
    BY <1>1, <1>3, <1>7
  <2>5. QED
    BY <1>1, <1>3, <1>7, <2>3, <2>4 DEF IsStrictPrefix, IsPrefix
<1>8. QED
  BY <1>3, <1>4, <1>5, <1>6, <1>7

\* Inodes of the global tree and the paths they are at.
Names(N, tab) ==
  /\ N \in [Nat -> Seq(STRING)] /\ N[RootInode] = <<>>
  /\ \A k \in DOMAIN tab : N[tab[k].inode] = Append(N[k[1]], k[2])
RootNames(N) == \A b \in Arena : arenaTable[b] # 0 => N[arenaTable[b]] = ArenaPath[b]

\* An inode is the root of an arena or a directory of an arena's name.
Leads(N, i) ==
  \E b \in Arena : arenaTable[b] # 0 /\ (i = arenaTable[b] \/ IsStrictPrefix(N[i], ArenaPath[b]))
LeadsAll(N, tab) == \A k \in DOMAIN tab : Leads(N, tab[k].inode)

\* A walk in the global tree finds what is at its path.
LEMMA WalkNames ==
  ASSUME NEW tab, Entries(tab), NEW N, Names(N, tab), NEW path \in Seq(STRING),
         NEW f, IsWalk(f, tab, RootInode, path), NEW n \in 0..Len(path), f[n].kind \in {"Dir", "File"}
  PROVE  \A i \in 0..n : N[f[i].inode] = Upto(path, i)
<1> DEFINE S == {i \in Nat : i <= n => N[f[i].inode] = Upto(path, i)}
<1>1. Len(path) \in Nat /\ RootInode \in Nat
  BY LenProperties DEF RootInode
<1>2. \A i \in 1..n : <<f[i - 1].inode, path[i]>> \in DOMAIN tab /\ f[i] = tab[<<f[i - 1].inode, path[i]>>]
  <2>1. Reaches(f, tab, RootInode, path, n)
    BY <1>1 DEF Reaches
  <2>2. Through(f, tab, path, n)
    BY <2>1, ReachesThrough
  <2>3. QED
    BY <2>2 DEF Through
<1>3. 0 \in S
  <2>1. f[0].inode = RootInode /\ N[RootInode] = <<>>
    BY DEF IsWalk, Names
  <2>2. 0 \in 0..Len(path)
    BY <1>1
  <2>3. Upto(path, 0) = <<>>
    BY <2>2, UptoSteps
  <2>4. QED
    BY <2>1, <2>3
<1>4. ASSUME NEW i \in Nat, i \in S PROVE i + 1 \in S
  <2>1. SUFFICES ASSUME i + 1 <= n PROVE N[f[i + 1].inode] = Upto(path, i + 1)
    OBVIOUS
  <2>2. i + 1 \in 1..n /\ i + 1 - 1 = i /\ i \in 0..Len(path) /\ i < Len(path)
        /\ N[f[i].inode] = Upto(path, i)
    BY <1>1, <1>4, <2>1
  <2> DEFINE k == <<f[i].inode, path[i + 1]>>
  <2>3. k \in DOMAIN tab /\ f[i + 1] = tab[k]
    BY <1>2, <2>2
  <2>4. k[1] = f[i].inode /\ k[2] = path[i + 1]
    OBVIOUS
  <2> HIDE DEF k
  <2>5. N[tab[k].inode] = Append(N[k[1]], k[2])
    BY <2>3 DEF Names
  <2>6. Append(Upto(path, i), path[i + 1]) = Upto(path, i + 1)
    BY <2>2, UptoSteps
  <2>7. QED
    BY <2>2, <2>3, <2>4, <2>5, <2>6
<1>5. Nat \subseteq S
  <2> HIDE DEF S
  <2>1. QED
    BY <1>3, <1>4, SetInduction
<1>6. QED
  BY <1>5

\* The names with another one for an inode.
Renamed(N, i, path) == [N EXCEPT ![i] = path]

\* An inode after those of the tree, which is not the root of an arena.
Fresh(s, i) ==
  /\ i \in Nat /\ i > s.cur[1] /\ i > s.root
  /\ \A b \in Arena : arenaTable[b] \in Nat /\ arenaTable[b] # i

\* A name for one more inode, after those of the tree.
LEMMA NewName ==
  ASSUME NEW s, AllocOK(s), s.root = RootInode, NEW N, Names(N, s.tab), LeadsAll(N, s.tab), RootNames(N),
         NEW i, Fresh(s, i), NEW path \in Seq(STRING), NEW M, M = Renamed(N, i, path)
  PROVE  /\ Names(M, s.tab) /\ LeadsAll(M, s.tab) /\ RootNames(M)
         /\ M[i] = path /\ \A j \in Nat : j # i => M[j] = N[j]
<1>1. M \in [Nat -> Seq(STRING)] /\ M[i] = path /\ \A j \in Nat : j # i => M[j] = N[j]
  BY DEF Names, Renamed, Fresh
<1>2. ASSUME NEW k \in DOMAIN s.tab
      PROVE  k[1] \in Nat /\ k[1] # i /\ s.tab[k].inode \in Nat /\ s.tab[k].inode # i
  <2>1. /\ k[1] \in Nat /\ (k[1] = s.root \/ k[1] <= s.cur[1]) /\ s.tab[k].inode \in Nat
        /\ s.tab[k].inode <= s.cur[1] /\ s.cur[1] \in Nat /\ s.root \in Nat
    BY DEF AllocOK, Tree, Entry, Current
  <2>2. QED
    BY <2>1 DEF Fresh
<1>3. Names(M, s.tab)
  <2>0. RootInode \in Nat /\ RootInode # i
    BY DEF RootInode, Fresh
  <2>1. M[RootInode] = <<>>
    BY <1>1, <2>0 DEF Names
  <2>2. QED
    BY <1>1, <1>2, <2>1 DEF Names
<1>4. LeadsAll(M, s.tab)
  BY <1>1, <1>2 DEF LeadsAll, Leads
<1>5. RootNames(M)
  <2>1. ASSUME NEW b \in Arena PROVE arenaTable[b] \in Nat /\ arenaTable[b] # i
    BY DEF Fresh
  <2>2. QED
    BY <1>1, <2>1 DEF RootNames
<1>6. QED
  BY <1>1, <1>3, <1>4, <1>5
\* The state of a do_mkdirs on the global tree that has reached a path.
Named(t, N, path) ==
  Names(N, t.tab) /\ LeadsAll(N, t.tab) /\ RootNames(N) /\ N[t.at] = path

\* One name more.
Child(path, name, path2) == path2 = Append(path, name)

LEMMA MakeEntryNames ==
  ASSUME NEW t, AllocOK(t), t.root = RootInode, NEW N, NEW path, Named(t, N, path), NEW name,
         NEW u, u = MakeEntry(t, name, "Dir"), ~u.failed, NEW path2 \in Seq(STRING),
         Child(path, name, path2),
         \A b \in Arena : arenaTable[b] \in Nat /\ arenaTable[b] <= t.cur[1],
         \E b \in Arena : arenaTable[b] # 0 /\ IsStrictPrefix(path2, ArenaPath[b])
  PROVE  \E M : Named(u, M, path2)
<1> DEFINE key == <<t.at, name>>
<1>1. AllocOK(u) /\ t.cur[1] \in Nat /\ (Finds(t, u, name, "Dir") \/ Adds(t, u, name, "Dir"))
  <2>1. /\ AllocOK(u) /\ t.cur[1] \in Nat
        /\ \/ Fails(t, u)
           \/ ~t.failed /\ ~u.failed /\ (Finds(t, u, name, "Dir") \/ Adds(t, u, name, "Dir"))
    BY MakeEntryOK
  <2>2. QED
    BY <2>1 DEF Fails
<1>2. Names(N, t.tab) /\ LeadsAll(N, t.tab) /\ RootNames(N) /\ N[t.at] = path /\ t.at \in Nat
  BY DEF Named, AllocOK
<1>3. CASE Finds(t, u, name, "Dir")
  <2>1. key \in DOMAIN t.tab /\ u = [t EXCEPT !.at = t.tab[key].inode]
    BY <1>3 DEF Finds
  <2>2. u.tab = t.tab /\ u.at = t.tab[key].inode
    BY <2>1 DEF AllocOK
  <2>3. N[t.tab[key].inode] = Append(N[t.at], name)
    <3>1. N[t.tab[key].inode] = Append(N[key[1]], key[2])
      BY <1>2, <2>1 DEF Names
    <3>2. QED
      BY <3>1
  <2>4. Named(u, N, path2)
    BY <1>2, <2>2, <2>3 DEF Named, Child
  <2>5. QED
    BY <2>4
<1>4. CASE Adds(t, u, name, "Dir")
  <2> DEFINE M == Renamed(N, u.at, path2)
             entry == [inode |-> u.at, kind |-> "Dir"]
  <2>1. /\ key \notin DOMAIN t.tab /\ u.tab = Insert(t.tab, key, entry)
        /\ u.at > t.cur[1] /\ u.at > t.root /\ u.at \in Nat
    BY <1>1, <1>4 DEF Adds, AllocOK
  <2>2. \A b \in Arena : arenaTable[b] \in Nat /\ arenaTable[b] # u.at
    BY <1>1, <2>1
  <2>3. /\ Names(M, t.tab) /\ LeadsAll(M, t.tab) /\ RootNames(M)
        /\ M[u.at] = path2 /\ \A j \in Nat : j # u.at => M[j] = N[j]
    <3> DEFINE i == u.at
    <3>1. Fresh(t, i) /\ M = Renamed(N, i, path2)
      BY <2>1, <2>2 DEF Fresh
    <3> HIDE DEF i, M
    <3>2. /\ Names(M, t.tab) /\ LeadsAll(M, t.tab) /\ RootNames(M)
          /\ M[i] = path2 /\ \A j \in Nat : j # i => M[j] = N[j]
      BY <1>2, <3>1, NewName
    <3>3. QED
      BY <3>2 DEF i
  <2>4. t.at # u.at
    BY <1>1, <1>2, <2>1 DEF AllocOK
  <2>5. M[t.at] = path
    BY <1>2, <2>3, <2>4
  <2>6. /\ DOMAIN u.tab = DOMAIN t.tab \cup {key} /\ u.tab[key].inode = u.at
        /\ \A k \in DOMAIN t.tab : u.tab[k] = t.tab[k]
        /\ key[1] = t.at /\ key[2] = name
    BY <2>1 DEF Insert
  <2> HIDE DEF M, key, entry
  <2>7. Names(M, u.tab)
    <3>1. M[u.tab[key].inode] = Append(M[key[1]], key[2])
      BY <2>3, <2>5, <2>6 DEF Child
    <3>2. ASSUME NEW k \in DOMAIN u.tab PROVE M[u.tab[k].inode] = Append(M[k[1]], k[2])
      <4>1. CASE k = key
        BY <3>1, <4>1
      <4>2. CASE k # key
        BY <2>3, <2>6, <4>2 DEF Names
      <4>3. QED
        BY <4>1, <4>2
    <3>3. QED
      BY <2>3, <3>2 DEF Names
  <2>8. LeadsAll(M, u.tab)
    <3>1. Leads(M, u.at)
      BY <2>3 DEF Leads
    <3>2. ASSUME NEW k \in DOMAIN u.tab PROVE Leads(M, u.tab[k].inode)
      <4>1. CASE k = key
        BY <2>6, <3>1, <4>1
      <4>2. CASE k # key
        BY <2>3, <2>6, <4>2 DEF LeadsAll
      <4>3. QED
        BY <4>1, <4>2
    <3>3. QED
      BY <3>2 DEF LeadsAll
  <2>9. QED
    BY <2>3, <2>7, <2>8 DEF Named
<1>5. QED
  BY <1>1, <1>3, <1>4

\* do_mkdirs on the global tree, for the directories of an arena's name.
LEMMA MkdirsNames ==
  ASSUME NEW s, AllocOK(s), s.root = RootInode, ~s.failed, OnlyDirs(s.tab),
         NEW N0, Named(s, N0, <<>>), NEW path \in Seq(STRING), NEW f, IsMkdirs(f, s, path),
         \A b \in Arena : arenaTable[b] \in Nat /\ arenaTable[b] <= s.cur[1],
         \A i \in 1..Len(path) :
           \E b \in Arena : arenaTable[b] # 0 /\ IsStrictPrefix(Upto(path, i), ArenaPath[b])
  PROVE  \A i \in 0..Len(path) : \E N : Named(f[i], N, Upto(path, i))
<1> DEFINE S == {i \in Nat : i <= Len(path) => \E N : Named(f[i], N, Upto(path, i))}
<1>1. Len(path) \in Nat
  BY LenProperties
<1>2. \A i \in 0..Len(path) : AllocOK(f[i]) /\ f[i].root = s.root
  BY <1>1, MkdirsOK
<1>3. \A i \in 0..Len(path) : /\ ~f[i].failed /\ s.cur[1] \in Nat /\ f[i].cur[1] \in Nat
                              /\ f[i].cur[1] >= s.cur[1]
  BY <1>1, MkdirsDirs
<1>4. 0 \in S
  <2>1. f[0] = s /\ Upto(path, 0) = <<>>
    BY <1>1, UptoSteps DEF IsMkdirs
  <2>2. QED
    BY <2>1
<1>5. ASSUME NEW i \in Nat, i \in S PROVE i + 1 \in S
  <2>1. SUFFICES ASSUME i + 1 <= Len(path) PROVE \E N : Named(f[i + 1], N, Upto(path, i + 1))
    OBVIOUS
  <2>2. i \in 0..Len(path) /\ i + 1 \in 0..Len(path) /\ i + 1 \in 1..Len(path) /\ i + 1 - 1 = i
        /\ i < Len(path)
    BY <1>1, <2>1
  <2>3. PICK N : Named(f[i], N, Upto(path, i))
    BY <1>5, <2>2
  <2>4. f[i + 1] = MakeEntry(f[i], path[i + 1], "Dir")
    BY <2>2 DEF IsMkdirs
  <2>5. Upto(path, i + 1) = Append(Upto(path, i), path[i + 1])
    BY <2>2, UptoSteps
  <2>6. Upto(path, i + 1) \in Seq(STRING)
    BY <2>2, UptoSteps
  <2> DEFINE t == f[i]
             u == f[i + 1]
             p == Upto(path, i)
             p2 == Upto(path, i + 1)
             name == path[i + 1]
  <2>7. /\ AllocOK(t) /\ t.root = RootInode /\ Named(t, N, p) /\ u = MakeEntry(t, name, "Dir")
        /\ ~u.failed /\ p2 \in Seq(STRING) /\ Child(p, name, p2)
    BY <1>2, <1>3, <2>2, <2>3, <2>4, <2>5, <2>6 DEF Child
  <2>8. \A b \in Arena : arenaTable[b] \in Nat /\ arenaTable[b] <= t.cur[1]
    <3>1. t.cur[1] \in Nat /\ s.cur[1] \in Nat /\ t.cur[1] >= s.cur[1]
      BY <1>3, <2>2
    <3> HIDE DEF t
    <3>2. QED
      BY <3>1
  <2>9. \E b \in Arena : arenaTable[b] # 0 /\ IsStrictPrefix(p2, ArenaPath[b])
    BY <2>2
  <2> HIDE DEF t, u, p, p2, name
  <2>10. \E M : Named(u, M, p2)
    BY <2>7, <2>8, <2>9, MakeEntryNames
  <2>11. QED
    BY <2>10 DEF u, p2
<1>6. Nat \subseteq S
  <2> HIDE DEF S
  <2>1. QED
    BY <1>4, <1>5, SetInduction
<1>7. QED
  BY <1>6

\* An entry in the directory do_mkdirs made is at the arena's path.
LEMMA AfterMkdirs ==
  ASSUME TablesInv, NEW a \in Arena, NEW s, s = Mkdirs(GlobalAllocation, Front(ArenaPath[a])),
         NEW tab2, Extends(s.tab, tab2), <<s.at, Last(ArenaPath[a])>> \in DOMAIN tab2
  PROVE  Walk(tab2, RootInode, ArenaPath[a]) = tab2[<<s.at, Last(ArenaPath[a])>>]
<1> DEFINE path == ArenaPath[a]
           front == Front(path)
           n == Len(front)
           g == GlobalAllocation
<1>1. path \in Seq(STRING) \ {<<>>}
  BY NameAssumption
<1>2. /\ n \in Nat /\ Len(path) = n + 1 /\ Last(path) = path[n + 1] /\ front \in Seq(STRING)
      /\ \A i \in 1..n : front[i] = path[i]
  BY <1>1, FrontLast
<1>3. AllocOK(g) /\ g.root = RootInode /\ g.at = RootInode /\ ~g.failed /\ OnlyDirs(g.tab)
  BY GlobalAlloc DEF TablesInv, GlobalOK, OnlyDirs
<1>4. AllocOK(s) /\ s.root = RootInode
  BY ArenaRootDir
<1>5. <<s.at, Last(path)>> \in DOMAIN tab2
  OBVIOUS
<1> HIDE DEF path, front, n, g
<1>6. PICK f : IsMkdirs(f, g, front) /\ s = f[n]
  BY <1>2, MkdirsSteps DEF g, front, n, path
<1>7. n = Len(front) /\ n \in 0..Len(front)
  BY <1>2 DEF n
<1>8. ~s.failed
  BY <1>2, <1>3, <1>6, <1>7, MkdirsDirs
<1>9. PICK h : IsWalk(h, s.tab, RootInode, front)
  BY <1>2, <1>7, WalkSteps
<1>10. h[n] = [inode |-> s.at, kind |-> "Dir"]
  <2>1. \A m \in 0..Len(front) : ~f[m].failed =>
          \A w : IsWalk(w, f[m].tab, g.root, front) => w[m] = [inode |-> f[m].at, kind |-> "Dir"]
    BY <1>2, <1>3, <1>6, <1>7, MkdirsWalk
  <2>2. QED
    BY <1>3, <1>6, <1>7, <1>8, <1>9, <2>1
<1>11. PICK w : IsWalk(w, tab2, RootInode, path) /\ Walk(tab2, RootInode, path) = w[n + 1]
  BY <1>2, WalkSteps
<1>12. w[n] = h[n]
  <2>1. Entries(s.tab) /\ RootInode \in Nat
    BY <1>4, AllocEntries DEF RootInode
  <2>2. SameStart(front, path, n) /\ n <= Len(path) /\ Len(path) \in Nat
    BY <1>2 DEF SameStart
  <2>3. SameWay(s.tab, tab2, h[n])
    BY DEF SameWay, Extends
  <2>4. Reaches(h, s.tab, RootInode, front, n)
    BY <1>2, <1>7, <1>9, <1>10, <2>1 DEF Reaches
  <2>5. Along(w, tab2, RootInode, path, front, n)
    BY <1>11, <2>2 DEF Along
  <2>6. QED
    BY <2>3, <2>4, <2>5, ReachesAlong
<1>13. w[n].kind = "Dir" /\ w[n].inode = s.at
  BY <1>10, <1>12
<1>14. w[n + 1] = Enter(tab2, w[n], Last(path))
  <2>1. n + 1 \in 1..Len(path) /\ n + 1 - 1 = n
    BY <1>2
  <2>2. QED
    BY <1>2, <1>11, <2>1 DEF IsWalk
<1>15. Enter(tab2, w[n], Last(path)) = tab2[<<s.at, Last(path)>>]
  BY <1>5, <1>13 DEF Enter
<1>16. Walk(tab2, RootInode, path) = tab2[<<s.at, Last(path)>>]
  BY <1>11, <1>14, <1>15
<1>17. QED
  BY <1>16 DEF path

\* Every inode of the global tree has a name, the arenas' roots their own, and
\* leads to an arena; an arena that is served is at its name.
NamesOK == \E N : Names(N, globalDirs) /\ LeadsAll(N, globalDirs) /\ RootNames(N)
ShownOK ==
  \A a \in registered : ~Shadowed(a) =>
    Walk(globalDirs, RootInode, ArenaPath[a]) = [inode |-> arenaTable[a], kind |-> "Dir"]

LEMMA NamesKept ==
  ASSUME NamesOK, ShownOK, UNCHANGED <<arenaTable, globalDirs>>, registered' \subseteq registered
  PROVE  NamesOK' /\ ShownOK'
<1>1. PICK N : Names(N, globalDirs) /\ LeadsAll(N, globalDirs) /\ RootNames(N)
  BY DEF NamesOK
<1>2. Names(N, globalDirs') /\ LeadsAll(N, globalDirs)' /\ RootNames(N)'
  BY <1>1 DEF Names, LeadsAll, Leads, RootNames
<1>3. NamesOK'
  BY <1>2 DEF NamesOK
<1>4. ShownOK'
  BY DEF ShownOK, Shadowed
<1>5. QED
  BY <1>3, <1>4

LEMMA AddArenaNames ==
  ASSUME TablesInv, NamesOK, ShownOK, NEW a \in Arena, AddArena(a)
  PROVE  NamesOK' /\ ShownOK'
<1>1. registered = {} /\ registered' = {} /\ globalDirs' = globalDirs
  BY DEF AddArena
<1>2. CASE arenaTable[a] # 0
  BY <1>1, <1>2, NamesKept DEF AddArena
<1>3. CASE arenaTable[a] = 0
  <2> DEFINE s == GlobalAllocation
             t == AllocateInode(s)
             i == t.cur[1]
             path == ArenaPath[a]
  <2>1. arenaTable' = [arenaTable EXCEPT ![a] = i]
    BY <1>3 DEF AddArena
  <2>2. i \in Nat /\ i >= 2 /\ i > globalRange[1]
    BY GlobalAlloc, AllocateOK
  <2>3. AllocOK(s) /\ s.root = RootInode /\ s.tab = globalDirs /\ s.cur = globalRange
    BY GlobalAlloc
  <2>4. path \in Seq(STRING)
    BY NameAssumption
  <2> HIDE DEF s, t, i, path
  <2>5. arenaTable \in [Arena -> Nat] /\ arenaTable'[a] = i /\ globalRange[1] \in Nat
        /\ \A b \in Arena : b # a => arenaTable'[b] = arenaTable[b]
    BY <2>1 DEF TablesInv, TypeOK
  <2>6. \A b \in Arena : arenaTable[b] \in Nat /\ arenaTable[b] # i
    BY <2>2, <2>5 DEF TablesInv, RootsOK
  <2>7. Fresh(s, i)
    BY <2>2, <2>3, <2>6 DEF Fresh, RootInode
  <2>8. PICK N : Names(N, globalDirs) /\ LeadsAll(N, globalDirs) /\ RootNames(N)
    BY DEF NamesOK
  <2>m. PICK M : M = Renamed(N, i, path)
    OBVIOUS
  <2>9. /\ Names(M, globalDirs) /\ LeadsAll(M, globalDirs) /\ RootNames(M)
        /\ M[i] = path /\ \A j \in Nat : j # i => M[j] = N[j]
    <3>1. Names(N, s.tab) /\ LeadsAll(N, s.tab) /\ RootNames(N) /\ M = Renamed(N, i, path)
      BY <2>3, <2>8, <2>m
    <3>2. /\ Names(M, s.tab) /\ LeadsAll(M, s.tab) /\ RootNames(M)
          /\ M[i] = path /\ \A j \in Nat : j # i => M[j] = N[j]
      BY <2>3, <2>4, <2>7, <3>1, NewName
    <3>3. QED
      BY <2>3, <3>2
  <2>10. RootNames(M)'
    <3>1. ASSUME NEW b \in Arena, arenaTable'[b] # 0 PROVE M[arenaTable'[b]] = ArenaPath[b]
      <4>1. CASE b = a
        BY <2>5, <2>9, <4>1 DEF path
      <4>2. CASE b # a
        BY <2>5, <2>9, <3>1, <4>2 DEF RootNames
      <4>3. QED
        BY <4>1, <4>2
    <3>2. QED
      BY <3>1 DEF RootNames
  <2>11. LeadsAll(M, globalDirs)'
    <3>1. ASSUME NEW k \in DOMAIN globalDirs PROVE Leads(M, globalDirs[k].inode)'
      <4>1. Leads(M, globalDirs[k].inode)
        BY <2>9 DEF LeadsAll
      <4>2. PICK b \in Arena :
              arenaTable[b] # 0 /\ (globalDirs[k].inode = arenaTable[b]
                                    \/ IsStrictPrefix(M[globalDirs[k].inode], ArenaPath[b]))
        BY <4>1 DEF Leads
      <4>3. arenaTable'[b] = arenaTable[b]
        BY <1>3, <2>5, <4>2
      <4>4. QED
        BY <1>1, <4>2, <4>3 DEF Leads
    <3>2. QED
      BY <1>1, <3>1 DEF LeadsAll
  <2>12. NamesOK'
    BY <1>1, <2>9, <2>10, <2>11 DEF NamesOK
  <2>13. ShownOK'
    BY <1>1 DEF ShownOK
  <2>14. QED
    BY <2>12, <2>13
<1>4. QED
  BY <1>2, <1>3

LEMMA FrontAppend ==
  ASSUME NEW a \in Arena
  PROVE  ArenaPath[a] = Append(Front(ArenaPath[a]), Last(ArenaPath[a]))
<1> DEFINE path == ArenaPath[a]
           front == Front(path)
           n == Len(front)
<1>1. path \in Seq(STRING) \ {<<>>}
  BY NameAssumption
<1>2. /\ n \in Nat /\ Len(path) = n + 1 /\ Last(path) = path[Len(path)] /\ front \in Seq(STRING)
      /\ \A i \in 1..n : front[i] = path[i]
  BY <1>1, FrontLast
<1>3. Last(path) \in STRING
  BY <1>1, <1>2, ElementOfSeq
<1> HIDE DEF path, front
<1>4. Append(front, Last(path)) \in Seq(STRING) /\ Len(Append(front, Last(path))) = n + 1
      /\ Append(front, Last(path))[n + 1] = Last(path)
      /\ \A i \in 1..n : Append(front, Last(path))[i] = front[i]
  BY <1>2, <1>3, AppendProperties
<1>5. ASSUME NEW i \in 1..Len(path) PROVE path[i] = Append(front, Last(path))[i]
  <2>1. i = n + 1 \/ i \in 1..n
    BY <1>2
  <2>2. QED
    BY <1>2, <1>4, <2>1
<1>6. path = Append(front, Last(path))
  BY <1>1, <1>2, <1>4, <1>5, SeqEqual
<1>7. QED
  BY <1>6 DEF path, front

\* The names of the tree once do_mkdirs has made the directories of an
\* arena's name.
LEMMA RootDirNames ==
  ASSUME TablesInv, NamesOK, NEW a \in Arena, arenaTable[a] # 0,
         NEW s, s = Mkdirs(GlobalAllocation, Front(ArenaPath[a]))
  PROVE  \E N : Named(s, N, Front(ArenaPath[a]))
<1> DEFINE path == ArenaPath[a]
           front == Front(path)
           n == Len(front)
           g == GlobalAllocation
<1>1. path \in Seq(STRING) \ {<<>>}
  BY NameAssumption
<1>2. /\ n \in Nat /\ Len(path) = n + 1 /\ front \in Seq(STRING) /\ \A i \in 1..n : front[i] = path[i]
  BY <1>1, FrontLast
<1>3. /\ AllocOK(g) /\ g.root = RootInode /\ g.at = RootInode /\ ~g.failed /\ OnlyDirs(g.tab)
      /\ g.tab = globalDirs /\ g.cur = globalRange
  BY GlobalAlloc DEF TablesInv, GlobalOK, OnlyDirs
<1>4. ASSUME NEW i \in 1..n PROVE IsStrictPrefix(Upto(front, i), ArenaPath[a])
  <2>1. Upto(front, i) = Upto(path, i)
    BY <1>2 DEF Upto
  <2>2. i \in 0..Len(path) /\ i < Len(path)
    BY <1>2
  <2>3. QED
    BY <1>1, <2>1, <2>2, UptoSteps
<1>5. \A b \in Arena : arenaTable[b] \in Nat /\ arenaTable[b] <= g.cur[1]
  <2>1. arenaTable \in [Arena -> Nat] /\ globalRange[1] \in Nat
    BY DEF TablesInv, TypeOK
  <2>2. QED
    BY <1>3, <2>1 DEF TablesInv, RootsOK
<1> HIDE DEF g, front, n, path
<1>6. PICK N0 : Names(N0, globalDirs) /\ LeadsAll(N0, globalDirs) /\ RootNames(N0)
  BY DEF NamesOK
<1>7. Named(g, N0, <<>>)
  BY <1>3, <1>6 DEF Named, Names
<1>8. PICK f : IsMkdirs(f, g, front) /\ s = f[n]
  BY <1>2, MkdirsSteps DEF g, front, n, path
<1>9. \A i \in 1..Len(front) :
        \E b \in Arena : arenaTable[b] # 0 /\ IsStrictPrefix(Upto(front, i), ArenaPath[b])
  BY <1>4 DEF n
<1>10. \A i \in 0..Len(front) : \E N : Named(f[i], N, Upto(front, i))
  BY <1>2, <1>3, <1>5, <1>7, <1>8, <1>9, MkdirsNames
<1>11. n \in 0..Len(front) /\ Upto(front, n) = front
  BY <1>2, UptoSteps DEF n
<1>12. \E N : Named(s, N, front)
  BY <1>8, <1>10, <1>11
<1>13. QED
  BY <1>12 DEF front, path

\* What add_arena_root finds at the arena's path is the arena's root, or a
\* directory of another arena's name.
LEMMA FoundRoot ==
  ASSUME TablesInv, NamesOK, NEW a \in Arena, ~Shadowed(a),
         Walk(globalDirs, RootInode, ArenaPath[a]).kind = "Dir"
  PROVE  Walk(globalDirs, RootInode, ArenaPath[a]) = [inode |-> arenaTable[a], kind |-> "Dir"]
<1> DEFINE path == ArenaPath[a]
           n == Len(path)
<1>1. path \in Seq(STRING) /\ n \in Nat /\ n >= 1
  <2>1. path \in Seq(STRING) \ {<<>>}
    BY NameAssumption
  <2>2. QED
    BY <2>1, FrontLast
<1>2. Walk(globalDirs, RootInode, path).kind = "Dir"
  OBVIOUS
<1>3. Entries(globalDirs) /\ RootInode \in Nat
  BY DEF TablesInv, GlobalOK, Tree, Entries, RootInode
<1>4. PICK N : Names(N, globalDirs) /\ LeadsAll(N, globalDirs) /\ RootNames(N)
  BY DEF NamesOK
<1> HIDE DEF path
<1>5. PICK f : IsWalk(f, globalDirs, RootInode, path) /\ Walk(globalDirs, RootInode, path) = f[n]
  BY <1>1, WalkSteps
<1>6. n \in 0..Len(path) /\ n \in 1..n /\ f[n].kind \in {"Dir", "File"}
  BY <1>1, <1>2, <1>5
<1> HIDE DEF n
<1>7. N[f[n].inode] = path
  <2>1. \A i \in 0..n : N[f[i].inode] = Upto(path, i)
    BY <1>1, <1>3, <1>4, <1>5, <1>6, WalkNames
  <2>2. Upto(path, n) = path /\ n \in 0..n
    BY <1>1, <1>6, UptoSteps DEF n
  <2>3. QED
    BY <2>1, <2>2
<1>8. PICK k \in DOMAIN globalDirs : f[n] = globalDirs[k]
  <2>1. \A i \in 1..n : <<f[i - 1].inode, path[i]>> \in DOMAIN globalDirs
                        /\ f[i] = globalDirs[<<f[i - 1].inode, path[i]>>]
    <3>1. Len(path) \in Nat
      BY <1>1 DEF n
    <3>2. Reaches(f, globalDirs, RootInode, path, n)
      BY <1>3, <1>5, <1>6, <3>1 DEF Reaches
    <3>3. Through(f, globalDirs, path, n)
      BY <3>2, ReachesThrough
    <3>4. QED
      BY <3>3 DEF Through
  <2>2. QED
    BY <1>6, <2>1
<1>9. f[n] \in Entry /\ f[n].kind = "Dir"
  BY <1>2, <1>3, <1>5, <1>8 DEF Entries
<1>10. PICK b \in Arena :
         arenaTable[b] # 0 /\ (f[n].inode = arenaTable[b] \/ IsStrictPrefix(N[f[n].inode], ArenaPath[b]))
  BY <1>4, <1>8 DEF LeadsAll, Leads
<1>11. ~IsStrictPrefix(N[f[n].inode], ArenaPath[b])
  BY <1>7, <1>10 DEF Shadowed, path
<1>12. ArenaPath[b] = ArenaPath[a]
  BY <1>4, <1>7, <1>10, <1>11 DEF RootNames, path
<1>13. b = a
  BY <1>12, NameAssumption
<1>14. f[n].inode = arenaTable[a]
  BY <1>10, <1>11, <1>13
<1>15. f[n] = [inode |-> arenaTable[a], kind |-> "Dir"]
  BY <1>9, <1>14 DEF Entry
<1>16. QED
  BY <1>5, <1>15 DEF path

LEMMA RegisterNames ==
  ASSUME TablesInv, NamesOK, ShownOK, NEW a \in Arena, Register(a)
  PROVE  NamesOK' /\ ShownOK'
<1>1. /\ registered' = registered \cup {a} /\ arenaTable' = arenaTable /\ AddArenaRoot(a)
      /\ arenaTable[a] # 0 /\ registered \subseteq Arena
  BY DEF Register, TablesInv, ProcessOK, TypeOK
<1>2. ASSUME NEW b \in Arena PROVE Shadowed(b)' <=> Shadowed(b)
  BY <1>1 DEF Shadowed
<1>3. CASE Walk(globalDirs, RootInode, ArenaPath[a]).kind = "Dir"
  <2>1. globalDirs' = globalDirs
    BY <1>1, <1>3 DEF AddArenaRoot
  <2>2. NamesOK'
    <3>1. PICK N : Names(N, globalDirs) /\ LeadsAll(N, globalDirs) /\ RootNames(N)
      BY DEF NamesOK
    <3>2. Names(N, globalDirs') /\ LeadsAll(N, globalDirs)' /\ RootNames(N)'
      BY <1>1, <2>1, <3>1 DEF Names, LeadsAll, Leads, RootNames
    <3>3. QED
      BY <3>2 DEF NamesOK
  <2>3. ShownOK'
    <3>1. ASSUME NEW b \in registered', ~Shadowed(b)'
          PROVE  Walk(globalDirs', RootInode, ArenaPath[b]) = [inode |-> arenaTable'[b], kind |-> "Dir"]
      <4>1. b \in Arena /\ ~Shadowed(b)
        BY <1>1, <1>2, <3>1
      <4>2. CASE b = a
        BY <1>1, <1>3, <2>1, <4>1, <4>2, FoundRoot
      <4>3. CASE b # a
        BY <1>1, <2>1, <4>1, <4>3 DEF ShownOK
      <4>4. QED
        BY <4>2, <4>3
    <3>2. QED
      BY <3>1 DEF ShownOK
  <2>4. QED
    BY <2>2, <2>3
<1>4. CASE Walk(globalDirs, RootInode, ArenaPath[a]).kind # "Dir"
  <2>1. PICK s : s = Mkdirs(GlobalAllocation, Front(ArenaPath[a]))
    OBVIOUS
  <2>2. PICK path : path = ArenaPath[a]
    OBVIOUS
  <2>3. PICK front : front = Front(path)
    OBVIOUS
  <2>4. PICK root : root = arenaTable[a]
    OBVIOUS
  <2> DEFINE key == <<s.at, Last(path)>>
             entry == [inode |-> root, kind |-> "Dir"]
  <2>5. globalDirs' = Insert(s.tab, key, entry)
    BY <1>1, <1>4, <2>1, <2>2, <2>4 DEF AddArenaRoot
  <2>6. /\ AllocOK(s) /\ s.root = RootInode /\ Extends(globalDirs, s.tab)
        /\ OnlyDirs(s.tab)
        /\ s.tab = globalDirs \/ \A k \in DOMAIN s.tab : k[1] # s.at
    BY <2>1, ArenaRootDir
  <2>7. key \notin DOMAIN s.tab
    <3>1. SUFFICES ASSUME key \in DOMAIN s.tab PROVE FALSE
      OBVIOUS
    <3>2. key[1] = s.at
      OBVIOUS
    <3>3. s.tab = globalDirs
      BY <2>6, <3>1, <3>2
    <3>4. Extends(s.tab, globalDirs) /\ key \in DOMAIN globalDirs
      BY <3>1, <3>3 DEF Extends
    <3>5. Walk(globalDirs, RootInode, ArenaPath[a]) = globalDirs[key]
      BY <2>1, <2>2, <3>4, AfterMkdirs
    <3>6. globalDirs[key].kind = "Dir"
      BY <2>6, <3>3, <3>4 DEF OnlyDirs
    <3>7. QED
      BY <1>4, <3>5, <3>6
  <2>8. /\ DOMAIN globalDirs' = DOMAIN s.tab \cup {key} /\ globalDirs'[key] = entry
        /\ \A k \in DOMAIN s.tab : globalDirs'[k] = s.tab[k]
        /\ key[1] = s.at /\ key[2] = Last(path) /\ entry.inode = root
    BY <2>5, <2>7 DEF Insert
  <2>9. Extends(s.tab, globalDirs')
    BY <2>8 DEF Extends
  <2>10. Extends(globalDirs, globalDirs')
    BY <2>6, <2>9, ExtendsTrans
  <2>11. PICK N : Named(s, N, front)
    BY <1>1, <2>1, <2>2, <2>3, RootDirNames
  <2>12. path = Append(front, Last(path))
    BY <2>2, <2>3, FrontAppend
  <2> HIDE DEF key, entry
  <2>13. Names(N, globalDirs')
    <3>1. Names(N, s.tab) /\ RootNames(N) /\ N[s.at] = front
      BY <2>11 DEF Named
    <3>2. N[root] = path
      BY <1>1, <2>2, <2>4, <3>1 DEF RootNames
    <3>3. N[globalDirs'[key].inode] = Append(N[key[1]], key[2])
      BY <2>8, <2>12, <3>1, <3>2
    <3>4. ASSUME NEW k \in DOMAIN globalDirs' PROVE N[globalDirs'[k].inode] = Append(N[k[1]], k[2])
      <4>1. CASE k = key
        BY <3>3, <4>1
      <4>2. CASE k # key
        BY <2>8, <3>1, <4>2 DEF Names
      <4>3. QED
        BY <4>1, <4>2
    <3>5. QED
      BY <3>1, <3>4 DEF Names
  <2>14. LeadsAll(N, globalDirs)'
    <3>1. LeadsAll(N, s.tab)
      BY <2>11 DEF Named
    <3>2. ASSUME NEW k \in DOMAIN globalDirs' PROVE Leads(N, globalDirs'[k].inode)
      <4>1. CASE k = key
        BY <1>1, <2>4, <2>8, <4>1 DEF Leads
      <4>2. CASE k # key
        BY <2>8, <3>1, <4>2 DEF LeadsAll
      <4>3. QED
        BY <4>1, <4>2
    <3>3. QED
      BY <1>1, <3>2 DEF LeadsAll, Leads
  <2>15. RootNames(N)'
    BY <1>1, <2>11 DEF Named, RootNames
  <2>16. NamesOK'
    BY <2>13, <2>14, <2>15 DEF NamesOK
  <2>17. Walk(globalDirs', RootInode, ArenaPath[a]) = entry
    BY <2>1, <2>2, <2>8, <2>9, AfterMkdirs DEF key
  <2>18. ShownOK'
    <3>1. ASSUME NEW b \in registered', ~Shadowed(b)'
          PROVE  Walk(globalDirs', RootInode, ArenaPath[b]) = [inode |-> arenaTable'[b], kind |-> "Dir"]
      <4>1. b \in Arena /\ ~Shadowed(b)
        BY <1>1, <1>2, <3>1
      <4>2. CASE b = a
        BY <1>1, <2>4, <2>17, <4>2 DEF entry
      <4>3. CASE b # a
        <5>1. Walk(globalDirs, RootInode, ArenaPath[b]) = [inode |-> arenaTable[b], kind |-> "Dir"]
          BY <1>1, <3>1, <4>1, <4>3 DEF ShownOK
        <5>2. Entries(globalDirs) /\ RootInode \in Nat
          BY DEF TablesInv, GlobalOK, Tree, Entries, RootInode
        <5>3. Len(ArenaPath[b]) \in Nat
          BY <4>1, NameAssumption
        <5>4. SameWay(globalDirs, globalDirs', Walk(globalDirs, RootInode, ArenaPath[b]))
          BY <2>10 DEF SameWay, Extends
        <5>5. Walk(globalDirs, RootInode, ArenaPath[b]).kind \in {"Dir", "File"}
          BY <5>1
        <5>6. Walk(globalDirs', RootInode, ArenaPath[b]) = Walk(globalDirs, RootInode, ArenaPath[b])
          BY <5>2, <5>3, <5>4, <5>5, WalkSame
        <5>7. QED
          BY <1>1, <5>1, <5>6
      <4>4. QED
        BY <4>2, <4>3
    <3>2. QED
      BY <3>1 DEF ShownOK
  <2>19. QED
    BY <2>16, <2>18
<1>5. QED
  BY <1>3, <1>4

\* Other steps leave the global tree alone.
LEMMA ShownNext ==
  ASSUME TablesInv, NamesOK, ShownOK, Next
  PROVE  NamesOK' /\ ShownOK'
<1> DEFINE Kept == UNCHANGED <<arenaTable, globalDirs>> /\ registered' \subseteq registered
<1>1. ASSUME NEW a \in Arena, AddArena(a) \/ Register(a) PROVE NamesOK' /\ ShownOK'
  BY <1>1, AddArenaNames, RegisterNames
<1>2. ASSUME NEW a \in Arena, LosesRange(a) \/ StartListing(a) \/ NotifiesIndex(a) PROVE Kept
  BY <1>2 DEF LosesRange, StartListing, NotifiesIndex, globalVars, processVars
<1>3. ASSUME NEW a \in Arena, FinishesUpdate(a) \/ Notified(a) PROVE Kept
  BY <1>3 DEF FinishesUpdate, Notified, NotifiesCache, globalVars, processVars
<1>4. ASSUME NEW a \in Arena, NEW p, NEW m, SetMark(a, p, m) \/ IndexChanges(a, p, m) PROVE Kept
  BY <1>4 DEF SetMark, IndexChanges, globalVars, processVars
<1>5. CASE Restart \/ ReadPage \/ ReadAttributes
  BY <1>5, NamesKept DEF Restart, ReadPage, ReadAttributes, globalVars, processVars
<1>6. ASSUME Kept PROVE NamesOK' /\ ShownOK'
  BY <1>6, NamesKept
<1> HIDE DEF Kept
<1>7. QED
  <2> USE DEF Next
  <2>1. CASE \E a \in Arena : AddArena(a) \/ Register(a) \/ LosesRange(a) \/ StartListing(a)
    BY <1>1, <1>2, <1>6, <2>1
  <2>2. CASE \E a \in Arena : NotifiesIndex(a) \/ FinishesUpdate(a) \/ Notified(a)
    BY <1>2, <1>3, <1>6, <2>2
  <2>3. CASE \E a \in Arena, p \in MarkPath, m \in Mark \cup {None} : SetMark(a, p, m)
    BY <1>4, <1>6, <2>3
  <2>4. CASE \E a \in Arena, p \in Path : IndexChanges(a, p, None)
    BY <1>4, <1>6, <2>4
  <2>5. CASE \E a \in Arena, p \in Path, h \in Hash : IndexChanges(a, p, [hash |-> h, outdated |-> None])
    BY <1>4, <1>6, <2>5
  <2>6. QED
    BY <1>5, <2>1, <2>2, <2>3, <2>4, <2>5

\* Every arena that is served is where its name says, unless it is a directory
\* of another arena's name: for any arenas, restarted in any order with any of
\* them (add_arena_root, do_mkdirs).
THEOREM ArenasAtTheirNames == ArenaSpec => []ArenaShown
<1> DEFINE Inv == NamesOK /\ ShownOK
<1>1. ArenaInit => Inv
  <2>1. SUFFICES ASSUME ArenaInit PROVE Inv
    OBVIOUS
  <2>2. registered = {} /\ DOMAIN globalDirs = {} /\ \A b \in Arena : arenaTable[b] = 0
    BY <2>1 DEF ArenaInit, Init, Empty
  <2> DEFINE N == [i \in Nat |-> <<>>]
  <2>3. Names(N, globalDirs) /\ LeadsAll(N, globalDirs) /\ RootNames(N)
    BY <2>2 DEF Names, LeadsAll, RootNames, RootInode
  <2> HIDE DEF N
  <2>4. QED
    BY <2>2, <2>3 DEF NamesOK, ShownOK
<1>2. JobsInv /\ Inv /\ [ArenaNext]_arenaVars => Inv'
  <2>1. SUFFICES ASSUME JobsInv, Inv, [ArenaNext]_arenaVars PROVE Inv'
    OBVIOUS
  <2>2. CASE Next
    BY <2>1, <2>2, ShownNext DEF JobsInv
  <2>3. CASE UNCHANGED <<globalVars, processVars>>
    BY <2>1, <2>3, NamesKept DEF globalVars, processVars
  <2>4. Next \/ UNCHANGED <<globalVars, processVars>>
    BY <2>1 DEF ArenaNext, TakesJob, Downloads, Realizes, Unrealizes, EndsJob, arenaVars, vars
  <2>5. QED
    BY <2>2, <2>3, <2>4
<1>3. Inv => ArenaShown
  <2>1. ASSUME Inv, NEW a \in registered, ~Shadowed(a)
        PROVE  Walk(globalDirs, RootInode, ArenaPath[a]).inode = arenaTable[a]
    <3>1. Walk(globalDirs, RootInode, ArenaPath[a]) = [inode |-> arenaTable[a], kind |-> "Dir"]
      BY <2>1 DEF ShownOK
    <3>2. QED
      BY <3>1
  <2>2. QED
    BY <2>1 DEF ArenaShown
<1>4. QED
  BY <1>1, <1>2, <1>3, TablesAlways, PTL DEF ArenaSpec


-----------------------------------------------------------------------------
(* The tables seen by path.                                                *)

\* The root of a tree is no entry of it.
Rooted(tab, root) == \A k \in DOMAIN tab : tab[k].inode # root

\* An inode is at one path only.
LEMMA WalkOnce ==
  ASSUME NEW tab, Entries(tab), Unique(tab), NEW root \in Nat, Rooted(tab, root),
         \A k \in DOMAIN tab : k = <<k[1], k[2]>>,
         NEW p \in Seq(STRING), NEW q \in Seq(STRING), Len(p) <= Len(q),
         Walk(tab, root, p).kind \in {"Dir", "File"}, Walk(tab, root, q).kind \in {"Dir", "File"},
         Walk(tab, root, p).inode = Walk(tab, root, q).inode
  PROVE  p = q
<1> DEFINE n == Len(p)
           m == Len(q)
<1>1. n \in Nat /\ m \in Nat /\ n <= m
  OBVIOUS
<1>2. PICK f : IsWalk(f, tab, root, p) /\ Walk(tab, root, p) = f[n]
  BY <1>1, WalkSteps
<1>3. PICK g : IsWalk(g, tab, root, q) /\ Walk(tab, root, q) = g[m]
  BY <1>1, WalkSteps
<1>4. \A i \in 1..n : /\ <<f[i - 1].inode, p[i]>> \in DOMAIN tab
                      /\ f[i] = tab[<<f[i - 1].inode, p[i]>>]
  <2>1. Reaches(f, tab, root, p, n)
    BY <1>1, <1>2 DEF Reaches
  <2>2. QED
    BY <2>1, ReachesThrough DEF Through
<1>5. \A i \in 1..m : /\ <<g[i - 1].inode, q[i]>> \in DOMAIN tab
                      /\ g[i] = tab[<<g[i - 1].inode, q[i]>>]
  <2>1. Reaches(g, tab, root, q, m)
    BY <1>1, <1>3 DEF Reaches
  <2>2. QED
    BY <2>1, ReachesThrough DEF Through
<1> DEFINE S == {d \in Nat : d <= n => /\ f[n - d].inode = g[m - d].inode
                                       /\ d < n => p[n - d] = q[m - d]}
<1>6. ASSUME NEW i \in 1..n, NEW j \in 1..m, f[i].inode = g[j].inode
      PROVE  f[i - 1].inode = g[j - 1].inode /\ p[i] = q[j]
  <2> DEFINE k == <<f[i - 1].inode, p[i]>>
             l == <<g[j - 1].inode, q[j]>>
  <2>1. k \in DOMAIN tab /\ l \in DOMAIN tab /\ tab[k].inode = tab[l].inode
    BY <1>4, <1>5, <1>6
  <2>2. k = l
    <3> HIDE DEF k, l
    <3>1. QED
      BY <2>1 DEF Unique
  <2>3. QED
    BY <2>2
<1>7. 0 \in S
  <2>1. f[n - 0].inode = g[m - 0].inode
    BY <1>1, <1>2, <1>3
  <2>2. 0 < n => p[n - 0] = q[m - 0]
    <3>1. SUFFICES ASSUME 0 < n PROVE p[n] = q[m]
      BY <1>1
    <3>2. n \in 1..n /\ m \in 1..m /\ f[n].inode = g[m].inode
      BY <1>1, <1>2, <1>3, <3>1
    <3>3. QED
      BY <1>6, <3>2
  <2>3. QED
    BY <2>1, <2>2
<1>8. ASSUME NEW d \in Nat, d \in S PROVE d + 1 \in S
  <2>1. SUFFICES ASSUME d + 1 <= n
                 PROVE  /\ f[n - (d + 1)].inode = g[m - (d + 1)].inode
                        /\ d + 1 < n => p[n - (d + 1)] = q[m - (d + 1)]
    OBVIOUS
  <2>2. f[n - d].inode = g[m - d].inode
    BY <1>1, <1>8, <2>1
  <2>3. n - d \in 1..n /\ m - d \in 1..m /\ (n - d) - 1 = n - (d + 1) /\ (m - d) - 1 = m - (d + 1)
    BY <1>1, <2>1
  <2>4. f[n - (d + 1)].inode = g[m - (d + 1)].inode
    BY <1>6, <2>2, <2>3
  <2>5. ASSUME d + 1 < n PROVE p[n - (d + 1)] = q[m - (d + 1)]
    <3>1. n - (d + 1) \in 1..n /\ m - (d + 1) \in 1..m
      BY <1>1, <2>5
    <3>2. QED
      BY <1>6, <2>4, <3>1
  <2>6. QED
    BY <2>4, <2>5
<1>9. Nat \subseteq S
  <2> HIDE DEF S
  <2>1. QED
    BY <1>7, <1>8, SetInduction
<1>10. n = m
  <2>1. f[n - n].inode = g[m - n].inode
    BY <1>1, <1>9
  <2>2. f[0].inode = root
    BY <1>2 DEF IsWalk
  <2>3. n - n = 0 /\ (n # m => m - n \in 1..m)
    BY <1>1
  <2>4. SUFFICES ASSUME n # m PROVE FALSE
    OBVIOUS
  <2>5. g[m - n].inode # root
    <3>1. PICK j \in 1..m : j = m - n
      BY <2>3, <2>4
    <3>2. PICK k \in DOMAIN tab : g[j] = tab[k]
      BY <1>5
    <3>3. QED
      BY <3>1, <3>2 DEF Rooted
  <2>6. QED
    BY <2>1, <2>2, <2>3, <2>5
<1>11. ASSUME NEW i \in 1..n PROVE p[i] = q[i]
  <2>1. n - i \in Nat /\ n - i < n /\ n - (n - i) = i /\ m - (n - i) = i
    BY <1>1, <1>10
  <2>2. QED
    BY <1>9, <2>1
<1>12. QED
  <2>1. Len(p) = Len(q) /\ \A i \in 1..Len(p) : p[i] = q[i]
    BY <1>10, <1>11
  <2>2. QED
    BY <2>1, SeqEqual

\* Nothing in a table is after an inode.
Older(tab, root, cur) ==
  \A k \in DOMAIN tab : /\ k[1] = root \/ (k[1] \in Nat /\ k[1] <= cur)
                        /\ tab[k].inode <= cur

\* A table, and another one with entries for new inodes: the last of them is
\* the only file.
Newer(tab, tab2, cur, key) ==
  \A k \in DOMAIN tab2 : k \in DOMAIN tab \/ (tab2[k].inode > cur /\ (tab2[k].kind = "Dir" \/ k = key))

\* A file found in the new table is the one that was found before, or the new one.
LEMMA WalkNewer ==
  ASSUME NEW tab, Entries(tab), NEW tab2, Entries(tab2), Extends(tab, tab2), NEW root \in Nat,
         NEW cur \in Nat, NEW key, Newer(tab, tab2, cur, key),
         Older(tab, root, cur), Rooted(tab2, root),
         NEW p, Len(p) \in Nat, Walk(tab2, root, p).kind = "File"
  PROVE  \/ Walk(tab, root, p) = Walk(tab2, root, p)
         \/ key \in DOMAIN tab2 /\ Walk(tab2, root, p) = tab2[key]
<1> DEFINE n == Len(p)
<1>1. PICK f : IsWalk(f, tab, root, p) /\ Walk(tab, root, p) = f[n]
  BY WalkSteps
<1>2. PICK g : IsWalk(g, tab2, root, p) /\ Walk(tab2, root, p) = g[n]
  BY WalkSteps
<1>3. \A i \in 1..n : /\ g[i - 1].kind = "Dir" /\ g[i] \in Entry
                      /\ <<g[i - 1].inode, p[i]>> \in DOMAIN tab2
                      /\ g[i] = tab2[<<g[i - 1].inode, p[i]>>]
  <2>1. Reaches(g, tab2, root, p, n)
    BY <1>2 DEF Reaches
  <2>2. QED
    BY <2>1, ReachesThrough DEF Through
<1> DEFINE New(i) == g[i].inode > cur /\ g[i].inode # root /\ g[i].inode \in Nat
           S == {i \in Nat : i <= n => f[i] = g[i] \/ New(i)}
<1>4. 0 \in S
  BY <1>1, <1>2 DEF IsWalk
<1>5. ASSUME NEW i \in Nat, i \in S PROVE i + 1 \in S
  <2>1. SUFFICES ASSUME i + 1 <= n PROVE f[i + 1] = g[i + 1] \/ New(i + 1)
    OBVIOUS
  <2> DEFINE k == <<g[i].inode, p[i + 1]>>
  <2>2. i + 1 \in 1..n /\ i + 1 - 1 = i
    BY <2>1
  <2>3. k \in DOMAIN tab2 /\ g[i + 1] = tab2[k] /\ g[i].kind = "Dir" /\ g[i + 1] \in Entry
    BY <1>3, <2>2
  <2>4. g[i + 1].inode \in Nat /\ g[i + 1].inode # root
    BY <2>3 DEF Entry, Rooted
  <2>5. CASE k \notin DOMAIN tab
    <3> HIDE DEF k
    <3>1. tab2[k].inode > cur
      BY <2>3, <2>5 DEF Newer
    <3>2. QED
      BY <2>3, <2>4, <3>1
  <2>6. CASE k \in DOMAIN tab
    <3>1. k[1] = g[i].inode
      OBVIOUS
    <3>2. ~New(i)
      BY <2>6, <3>1 DEF Older
    <3>3. f[i] = g[i]
      BY <1>5, <2>1, <3>2
    <3>4. f[i + 1] = Enter(tab, f[i], p[i + 1])
      BY <1>1, <2>2 DEF IsWalk
    <3>5. f[i + 1] = tab[k]
      BY <2>3, <2>6, <3>3, <3>4 DEF Enter
    <3>6. QED
      BY <2>3, <2>6, <3>5 DEF Extends
  <2>7. QED
    BY <2>5, <2>6
<1>6. f[n] = g[n] \/ New(n)
  <2> HIDE DEF S
  <2>1. n \in S
    BY <1>4, <1>5, SetInduction
  <2>2. QED
    BY <2>1 DEF S
<1>7. ASSUME New(n) PROVE key \in DOMAIN tab2 /\ g[n] = tab2[key]
  <2>1. n # 0
    BY <1>2, <1>7 DEF IsWalk
  <2> DEFINE k == <<g[n - 1].inode, p[n]>>
  <2>2. n \in 1..n
    BY <2>1
  <2>3. k \in DOMAIN tab2 /\ g[n] = tab2[k]
    BY <1>3, <2>2
  <2>4. k \notin DOMAIN tab
    <3> HIDE DEF k
    <3>1. SUFFICES ASSUME k \in DOMAIN tab PROVE FALSE
      OBVIOUS
    <3>2. tab2[k] = tab[k] /\ tab[k].inode <= cur /\ tab[k].inode \in Nat
      BY <1>7, <2>3, <3>1 DEF Extends, Older
    <3>3. QED
      BY <1>7, <2>3, <3>2
  <2> HIDE DEF k
  <2>5. tab2[k].kind = "File"
    BY <1>2, <2>3
  <2>6. k = key
    BY <2>3, <2>4, <2>5 DEF Newer
  <2>7. QED
    BY <2>3, <2>6
<1>8. QED
  BY <1>1, <1>2, <1>6, <1>7

\* The root of an arena is a global inode, so it is no entry of the arena's tree.
LEMMA TreeRooted ==
  ASSUME NEW rs, RangesOK(rs), NEW tab, NEW cur, NEW root \in Nat, Tree(rs, tab, cur, root),
         root # 0 => root >= 2 /\ Owned(rs, root, RootInode)
  PROVE  Rooted(tab, root) /\ \A k \in DOMAIN tab : k = <<k[1], k[2]>>
<1>1. ASSUME NEW k \in DOMAIN tab, tab[k].inode = root PROVE FALSE
  <2>1. tab[k].inode >= 2 /\ Owned(rs, root, root)
    BY <1>1 DEF Tree
  <2>2. root >= 2 /\ Owned(rs, root, RootInode)
    BY <1>1, <2>1
  <2>3. root = RootInode
    BY <2>1, <2>2, OneOwner
  <2>4. QED
    BY <2>2, <2>3 DEF RootInode
<1>2. QED
  BY <1>1 DEF Rooted, Tree

\* The tree of an arena.
LEMMA ArenaTree ==
  ASSUME TablesInv, NEW a \in Arena
  PROVE  range[a][1] \in Nat /\ Older(dirs[a], arenaTable[a], range[a][1])
<1>1. Tree(ranges, dirs[a], range[a], arenaTable[a]) /\ range[a][1] \in Nat /\ arenaTable[a] \in Nat
  BY DEF TablesInv, ArenaOK, TypeOK
<1>2. QED
  BY <1>1 DEF Tree, Older

\* do_mkdirs adds directories, with new inodes.
NewDirs(tab, tab2, cur) ==
  \A k \in DOMAIN tab2 : k \in DOMAIN tab \/ (tab2[k].inode > cur /\ tab2[k].kind = "Dir")

LEMMA MkdirsNew ==
  ASSUME NEW s, AllocOK(s), NEW path, Len(path) \in Nat, NEW f, IsMkdirs(f, s, path)
  PROVE  \A i \in 0..Len(path) :
           /\ s.cur[1] \in Nat /\ f[i].cur[1] \in Nat /\ f[i].cur[1] >= s.cur[1]
           /\ NewDirs(s.tab, f[i].tab, s.cur[1])
<1> DEFINE P(t) == t.cur[1] \in Nat /\ t.cur[1] >= s.cur[1] /\ NewDirs(s.tab, t.tab, s.cur[1])
           S == {n \in Nat : n <= Len(path) => P(f[n])}
<1>0. s.cur[1] \in Nat
  BY DEF AllocOK, Current
<1>1. 0 \in S
  <2>1. f[0] = s
    BY DEF IsMkdirs
  <2>2. P(s)
    BY <1>0 DEF NewDirs
  <2> HIDE DEF P
  <2>3. QED
    BY <2>1, <2>2
<1>2. ASSUME NEW n \in Nat, n \in S PROVE n + 1 \in S
  <2>1. SUFFICES ASSUME n + 1 <= Len(path) PROVE P(f[n + 1])
    OBVIOUS
  <2> DEFINE t == f[n]
             u == f[n + 1]
             name == path[n + 1]
  <2>2. P(t)
    BY <1>2, <2>1
  <2>3. n + 1 \in 1..Len(path) /\ n + 1 - 1 = n /\ n \in 0..Len(path)
    BY <2>1
  <2>4. u = MakeEntry(t, name, "Dir")
    BY <2>3 DEF IsMkdirs
  <2>5. AllocOK(t)
    BY <2>3, MkdirsOK
  <2> HIDE DEF t, u, name
  <2>6. u.cur[1] \in Nat /\ u.cur[1] >= t.cur[1] /\ AllocOK(u)
    BY <2>4, <2>5, MakeEntryOK
  <2>7. Fails(t, u) \/ Finds(t, u, name, "Dir") \/ Adds(t, u, name, "Dir")
    BY <2>4, <2>5, MakeEntryOK
  <2>8. u.tab = t.tab \/ Adds(t, u, name, "Dir")
    <3>1. Finds(t, u, name, "Dir") => u.tab = t.tab
      BY <2>5 DEF Finds, AllocOK
    <3>2. QED
      BY <2>7, <3>1 DEF Fails
  <2>9. NewDirs(s.tab, u.tab, s.cur[1])
    <3>1. CASE u.tab = t.tab
      BY <2>2, <3>1
    <3>2. CASE Adds(t, u, name, "Dir")
      <4> DEFINE key == <<t.at, name>>
                 entry == [inode |-> u.at, kind |-> "Dir"]
      <4>1. u.tab = Insert(t.tab, key, entry) /\ u.at > t.cur[1]
        BY <3>2 DEF Adds
      <4>2. DOMAIN u.tab = DOMAIN t.tab \cup {key} /\ u.tab[key] = entry
            /\ \A k \in DOMAIN t.tab : k # key => u.tab[k] = t.tab[k]
        BY <4>1 DEF Insert
      <4>3. entry.kind = "Dir" /\ entry.inode = u.at /\ u.at \in Nat
        BY <2>6 DEF AllocOK
      <4>4. entry.inode > s.cur[1]
        BY <1>0, <2>2, <4>1, <4>3
      <4> HIDE DEF entry, key
      <4>5. QED
        BY <2>2, <4>2, <4>3, <4>4 DEF NewDirs
    <3>3. QED
      BY <2>8, <3>1, <3>2
  <2>10. P(u)
    BY <1>0, <2>2, <2>6, <2>9
  <2>11. QED
    BY <2>10 DEF u
<1>3. Nat \subseteq S
  <2> HIDE DEF S
  <2>1. QED
    BY <1>1, <1>2, SetInduction
<1>4. QED
  BY <1>0, <1>3

\* do_create_file adds directories and one file, with new inodes, or finds the
\* file.
LEMMA CreateFileNew ==
  ASSUME TablesInv, NEW a \in Arena, arenaTable[a] # 0, NEW path \in Path,
         NEW c, c = CreateFile(a, path), ~c.made.failed
  PROVE  /\ Newer(dirs[a], c.made.tab, range[a][1], <<c.parent, Last(path)>>)
         /\ <<c.parent, Last(path)>> \in DOMAIN c.made.tab
         /\ c.made.tab[<<c.parent, Last(path)>>] = [inode |-> c.made.at, kind |-> "File"]
         /\ c.made.cur[1] \in Nat /\ c.made.cur[1] >= range[a][1] /\ Rooted(c.made.tab, arenaTable[a])
         /\ \A k \in DOMAIN c.made.tab : k = <<k[1], k[2]>>
<1> DEFINE s == ArenaAllocation(a)
           front == Front(path)
           parent == Mkdirs(s, front)
           t == MakeEntry(parent, Last(path), "File")
           key == <<parent.at, Last(path)>>
           root == arenaTable[a]
<1>1. c.made = t /\ c.parent = parent.at
  BY DEF CreateFile
<1>2. AllocOK(s) /\ s.tab = dirs[a] /\ s.cur = range[a] /\ s.root = arenaTable[a]
  BY ArenaAlloc
<1>3. path \in Seq(STRING) \ {<<>>} /\ Len(front) \in Nat
  BY PathLen, FrontLast
<1> HIDE DEF s, front
<1>4. PICK f : IsMkdirs(f, s, front) /\ parent = f[Len(front)]
  BY <1>3, MkdirsSteps
<1>5. /\ AllocOK(parent) /\ s.cur[1] \in Nat /\ parent.cur[1] \in Nat /\ parent.cur[1] >= s.cur[1]
      /\ NewDirs(s.tab, parent.tab, s.cur[1])
  <2>1. Len(front) \in 0..Len(front)
    BY <1>3
  <2>2. AllocOK(parent)
    BY <1>2, <1>3, <1>4, <2>1, MkdirsOK
  <2>3. QED
    BY <1>2, <1>3, <1>4, <2>1, <2>2, MkdirsNew
<1> HIDE DEF parent
<1>6. /\ AllocOK(t) /\ t.cur[1] \in Nat /\ t.cur[1] >= parent.cur[1]
      /\ Finds(parent, t, Last(path), "File") \/ Adds(parent, t, Last(path), "File")
  <2>1. AllocOK(t) /\ t.cur[1] \in Nat /\ t.cur[1] >= parent.cur[1]
    BY <1>5, MakeEntryOK
  <2>2. Fails(parent, t) \/ Finds(parent, t, Last(path), "File") \/ Adds(parent, t, Last(path), "File")
    BY <1>5, MakeEntryOK
  <2>3. ~Fails(parent, t)
    BY <1>1 DEF Fails
  <2>4. QED
    BY <2>1, <2>2, <2>3
<1>7. key \in DOMAIN t.tab /\ t.tab[key] = [inode |-> t.at, kind |-> "File"]
  BY <1>1, <1>5, MakeEntryKeeps
<1> HIDE DEF t
<1>8. ASSUME NEW k \in DOMAIN t.tab, k \notin DOMAIN s.tab
      PROVE  t.tab[k].inode > s.cur[1] /\ (t.tab[k].kind = "Dir" \/ k = key)
  <2>1. CASE Finds(parent, t, Last(path), "File")
    <3>1. t.tab = parent.tab
      BY <1>5, <2>1 DEF Finds, AllocOK
    <3>2. QED
      BY <1>5, <1>8, <3>1 DEF NewDirs
  <2>2. CASE Adds(parent, t, Last(path), "File")
    <3> DEFINE entry == [inode |-> t.at, kind |-> "File"]
    <3>1. t.tab = Insert(parent.tab, key, entry) /\ t.at > parent.cur[1]
      BY <2>2 DEF Adds
    <3>2. DOMAIN t.tab = DOMAIN parent.tab \cup {key} /\ t.tab[key] = entry
          /\ \A l \in DOMAIN parent.tab : l # key => t.tab[l] = parent.tab[l]
      BY <3>1 DEF Insert
    <3>3. entry.inode = t.at /\ t.at \in Nat
      BY <1>6 DEF AllocOK
    <3>4. entry.inode > s.cur[1]
      BY <1>5, <3>1, <3>3
    <3> HIDE DEF entry, key
    <3>5. QED
      BY <1>5, <1>8, <3>2, <3>4 DEF NewDirs
  <2>3. QED
    BY <1>6, <2>1, <2>2
<1>9. Newer(s.tab, t.tab, s.cur[1], key)
  BY <1>8 DEF Newer
<1>10. t.root = root /\ Tree(t.ranges, t.tab, t.cur, root) /\ RangesOK(t.ranges) /\ Grows(ranges, t.ranges)
  <2>1. c.made.root = root /\ Grows(ranges, c.made.ranges)
    BY CreateFileOK
  <2>2. QED
    BY <1>1, <1>6, <2>1 DEF AllocOK
<1>11. root >= 2 /\ root \in Nat /\ Owned(t.ranges, root, RootInode)
  <2>1. root >= 2 /\ root \in Nat /\ Owned(ranges, root, RootInode) /\ RangesOK(ranges)
    BY DEF TablesInv, RootsOK, TypeOK, GlobalOK
  <2>2. QED
    BY <1>10, <2>1, GrowsOwned
<1>12. Rooted(t.tab, root) /\ \A k \in DOMAIN t.tab : k = <<k[1], k[2]>>
  BY <1>10, <1>11, TreeRooted
<1>13. t.cur[1] \in Nat /\ t.cur[1] >= s.cur[1]
  BY <1>5, <1>6
<1>14. QED
  BY <1>1, <1>2, <1>7, <1>9, <1>12, <1>13


\* A tree with the files that are in it.
FilesTree(tab, root, files) ==
  /\ Entries(tab) /\ Unique(tab) /\ root \in Nat /\ Rooted(tab, root)
  /\ \A k \in DOMAIN tab : k = <<k[1], k[2]>>
  /\ \A i \in DOMAIN files : /\ files[i] \in FileRecord
                             /\ Walk(tab, root, files[i].path) = [inode |-> i, kind |-> "File"]

\* The files of a path, of which there is at most one.
With(files, p) == {i \in DOMAIN files : files[i].path = p}
OnePath(files) == \A i, j \in DOMAIN files : files[i].path = files[j].path => i = j

\* What is known of the file of a path.
EntryOf(files, p) ==
  IF With(files, p) = {} THEN [q \in Peer |-> None] ELSE files[CHOOSE i \in With(files, p) : TRUE].peer
DefaultOf(files, p) ==
  IF With(files, p) = {} THEN None ELSE files[CHOOSE i \in With(files, p) : TRUE].default

LEMMA FilesTreeNow ==
  ASSUME TablesInv, NEW a \in Arena
  PROVE  FilesTree(dirs[a], arenaTable[a], file[a])
<1>1. /\ Tree(ranges, dirs[a], range[a], arenaTable[a]) /\ arenaTable[a] \in Nat /\ RangesOK(ranges)
      /\ arenaTable[a] # 0 => arenaTable[a] >= 2 /\ Owned(ranges, arenaTable[a], RootInode)
  BY DEF TablesInv, ArenaOK, TypeOK, GlobalOK, RootsOK
<1>2. Rooted(dirs[a], arenaTable[a]) /\ \A k \in DOMAIN dirs[a] : k = <<k[1], k[2]>>
  BY <1>1, TreeRooted
<1>3. Entries(dirs[a]) /\ Unique(dirs[a])
  BY DEF TablesInv, ArenaOK, Tree, Entries
<1>4. ASSUME NEW i \in DOMAIN file[a] PROVE file[a][i] \in FileRecord
  BY FileType
<1>5. \A i \in DOMAIN file[a] : Walk(dirs[a], arenaTable[a], file[a][i].path) = [inode |-> i, kind |-> "File"]
  BY DEF TablesInv, FilesOK, LookupPath
<1>6. QED
  BY <1>1, <1>2, <1>3, <1>4, <1>5 DEF FilesTree

LEMMA FilesTreeNext ==
  ASSUME TablesInv', NEW a \in Arena
  PROVE  FilesTree(dirs'[a], arenaTable'[a], file'[a])
<1>1. /\ Tree(ranges', dirs'[a], range'[a], arenaTable'[a]) /\ arenaTable'[a] \in Nat /\ RangesOK(ranges')
      /\ arenaTable'[a] # 0 => arenaTable'[a] >= 2 /\ Owned(ranges', arenaTable'[a], RootInode)
  BY DEF TablesInv, ArenaOK, TypeOK, GlobalOK, RootsOK
<1>2. Rooted(dirs'[a], arenaTable'[a]) /\ \A k \in DOMAIN dirs'[a] : k = <<k[1], k[2]>>
  BY <1>1, TreeRooted
<1>3. Entries(dirs'[a]) /\ Unique(dirs'[a])
  BY DEF TablesInv, ArenaOK, Tree, Entries
<1>4. ASSUME NEW i \in DOMAIN file'[a] PROVE file'[a][i] \in FileRecord
  <2>1. Range(file'[a]) \subseteq FileRecord
    BY DEF TablesInv, TypeOK, FileRecord
  <2>2. file'[a][i] \in Range(file'[a])
    BY DEF Range
  <2>3. QED
    BY <2>1, <2>2
<1>5. \A i \in DOMAIN file'[a] : Walk(dirs'[a], arenaTable'[a], file'[a][i].path) = [inode |-> i, kind |-> "File"]
  BY DEF TablesInv, FilesOK, LookupPath
<1>6. QED
  BY <1>1, <1>2, <1>3, <1>4, <1>5 DEF FilesTree

\* Two paths that lead to one inode are the same.
LEMMA SamePath ==
  ASSUME NEW tab, NEW root, NEW files, FilesTree(tab, root, files), NEW p \in Path, NEW r \in Path,
         Walk(tab, root, p).kind = "File", Walk(tab, root, r).kind = "File",
         Walk(tab, root, p).inode = Walk(tab, root, r).inode
  PROVE  p = r
<1>1. p \in Seq(STRING) /\ r \in Seq(STRING) /\ Len(p) \in Nat /\ Len(r) \in Nat
  BY PathLen
<1>2. Entries(tab) /\ Unique(tab) /\ root \in Nat /\ Rooted(tab, root) /\ \A k \in DOMAIN tab : k = <<k[1], k[2]>>
  BY DEF FilesTree
<1>3. CASE Len(p) <= Len(r)
  BY <1>1, <1>2, <1>3, WalkOnce
<1>4. CASE Len(r) <= Len(p)
  BY <1>1, <1>2, <1>4, WalkOnce
<1>5. QED
  BY <1>1, <1>3, <1>4

\* The file a path leads to is the one of that path.
LEMMA FileOfPath ==
  ASSUME NEW tab, NEW root, NEW files, FilesTree(tab, root, files)
  PROVE  /\ OnePath(files)
         /\ \A p \in Path : \A i : i \in With(files, p) <=>
              i \in DOMAIN files /\ Walk(tab, root, p).kind = "File" /\ Walk(tab, root, p).inode = i
<1>1. ASSUME NEW i \in DOMAIN files
      PROVE  /\ files[i].path \in Path
             /\ Walk(tab, root, files[i].path) = [inode |-> i, kind |-> "File"]
  BY DEF FilesTree, FileRecord
<1>2. OnePath(files)
  <2>1. ASSUME NEW i \in DOMAIN files, NEW j \in DOMAIN files, files[i].path = files[j].path PROVE i = j
    <3>1. [inode |-> i, kind |-> "File"] = [inode |-> j, kind |-> "File"]
      BY <1>1, <2>1
    <3>2. QED
      BY <3>1
  <2>2. QED
    BY <2>1 DEF OnePath
<1>3. ASSUME NEW p \in Path, NEW i \in With(files, p)
      PROVE  i \in DOMAIN files /\ Walk(tab, root, p).kind = "File" /\ Walk(tab, root, p).inode = i
  <2>1. i \in DOMAIN files /\ files[i].path = p
    BY DEF With
  <2>2. Walk(tab, root, p) = [inode |-> i, kind |-> "File"]
    BY <1>1, <2>1
  <2>3. QED
    BY <2>1, <2>2
<1>4. ASSUME NEW p \in Path, NEW i, i \in DOMAIN files, Walk(tab, root, p).kind = "File",
             Walk(tab, root, p).inode = i
      PROVE  i \in With(files, p)
  <2> DEFINE r == files[i].path
  <2>1. r \in Path /\ Walk(tab, root, r) = [inode |-> i, kind |-> "File"]
    BY <1>1, <1>4
  <2> HIDE DEF r
  <2>2. Walk(tab, root, r).kind = "File" /\ Walk(tab, root, r).inode = i
    BY <2>1
  <2>3. p = r
    BY <1>4, <2>1, <2>2, SamePath
  <2>4. QED
    BY <1>4, <2>3 DEF With, r
<1>5. QED
  BY <1>2, <1>3, <1>4

LEMMA FileHit ==
  ASSUME NEW files, OnePath(files), NEW i \in DOMAIN files, NEW p, files[i].path = p
  PROVE  With(files, p) = {i} /\ EntryOf(files, p) = files[i].peer /\ DefaultOf(files, p) = files[i].default
<1>1. With(files, p) = {i}
  BY DEF With, OnePath
<1>2. (CHOOSE j \in With(files, p) : TRUE) = i
  BY <1>1
<1>3. QED
  BY <1>1, <1>2 DEF EntryOf, DefaultOf

LEMMA FileMiss ==
  ASSUME NEW files, NEW p, With(files, p) = {}
  PROVE  EntryOf(files, p) = [q \in Peer |-> None] /\ DefaultOf(files, p) = None
BY DEF EntryOf, DefaultOf

\* The variables of ArenaCache, from the files.
LEMMA ViewNow ==
  ASSUME NEW a \in Arena, FilesTree(dirs[a], arenaTable[a], file[a])
  PROVE  /\ \A p \in Path : FileAt(a, p) = With(file[a], p)
         /\ PathEntry(a) = [p \in Path |-> EntryOf(file[a], p)]
         /\ PathDefault(a) = [p \in Path |-> DefaultOf(file[a], p)]
         /\ PathMarked(a) = {m \in Peer \X Path : \E i \in With(file[a], m[2]) : <<m[1], i>> \in pending[a]}
<1>1. ASSUME NEW p \in Path PROVE FileAt(a, p) = With(file[a], p)
  <2>1. ASSUME NEW i PROVE i \in FileAt(a, p) <=> i \in With(file[a], p)
    <3>1. i \in FileAt(a, p) <=> i \in DOMAIN file[a] /\ Walk(dirs[a], arenaTable[a], p).kind = "File"
                                 /\ Walk(dirs[a], arenaTable[a], p).inode = i
      BY DEF FileAt, LookupPath
    <3>2. QED
      BY <3>1, FileOfPath
  <2>2. QED
    BY <2>1
<1>2. PathEntry(a) = [p \in Path |-> EntryOf(file[a], p)]
  <2>1. ASSUME NEW p \in Path
        PROVE  (IF FileAt(a, p) = {} THEN [q \in Peer |-> None]
                ELSE file[a][CHOOSE i \in FileAt(a, p) : TRUE].peer) = EntryOf(file[a], p)
    <3>1. FileAt(a, p) = With(file[a], p)
      BY <1>1
    <3>2. (CHOOSE i \in FileAt(a, p) : TRUE) = (CHOOSE i \in With(file[a], p) : TRUE)
      BY <3>1, Zenon
    <3>3. QED
      BY <3>1, <3>2 DEF EntryOf
  <2>2. QED
    BY <2>1 DEF PathEntry
<1>3. PathDefault(a) = [p \in Path |-> DefaultOf(file[a], p)]
  <2>1. ASSUME NEW p \in Path
        PROVE  (IF FileAt(a, p) = {} THEN None
                ELSE file[a][CHOOSE i \in FileAt(a, p) : TRUE].default) = DefaultOf(file[a], p)
    <3>1. FileAt(a, p) = With(file[a], p)
      BY <1>1
    <3>2. (CHOOSE i \in FileAt(a, p) : TRUE) = (CHOOSE i \in With(file[a], p) : TRUE)
      BY <3>1, Zenon
    <3>3. QED
      BY <3>1, <3>2 DEF DefaultOf
  <2>2. QED
    BY <2>1 DEF PathDefault
<1>4. PathMarked(a) = {m \in Peer \X Path : \E i \in With(file[a], m[2]) : <<m[1], i>> \in pending[a]}
  BY <1>1 DEF PathMarked
<1>5. QED
  BY <1>1, <1>2, <1>3, <1>4

LEMMA ViewNext ==
  ASSUME NEW a \in Arena, FilesTree(dirs'[a], arenaTable'[a], file'[a])
  PROVE  /\ \A p \in Path : FileAt(a, p)' = With(file'[a], p)
         /\ PathEntry(a)' = [p \in Path |-> EntryOf(file'[a], p)]
         /\ PathDefault(a)' = [p \in Path |-> DefaultOf(file'[a], p)]
         /\ PathMarked(a)' = {m \in Peer \X Path : \E i \in With(file'[a], m[2]) : <<m[1], i>> \in pending'[a]}
<1>1. ASSUME NEW p \in Path PROVE FileAt(a, p)' = With(file'[a], p)
  <2>1. ASSUME NEW i PROVE i \in FileAt(a, p)' <=> i \in With(file'[a], p)
    <3>1. i \in FileAt(a, p)' <=> i \in DOMAIN file'[a] /\ Walk(dirs'[a], arenaTable'[a], p).kind = "File"
                                  /\ Walk(dirs'[a], arenaTable'[a], p).inode = i
      BY DEF FileAt, LookupPath
    <3>2. QED
      BY <3>1, FileOfPath
  <2>2. QED
    BY <2>1
<1>2. PathEntry(a)' = [p \in Path |-> EntryOf(file'[a], p)]
  <2>1. ASSUME NEW p \in Path
        PROVE  (IF FileAt(a, p)' = {} THEN [q \in Peer |-> None]
                ELSE file'[a][CHOOSE i \in FileAt(a, p)' : TRUE].peer) = EntryOf(file'[a], p)
    <3>1. FileAt(a, p)' = With(file'[a], p)
      BY <1>1
    <3>2. (CHOOSE i \in FileAt(a, p)' : TRUE) = (CHOOSE i \in With(file'[a], p) : TRUE)
      BY <3>1, Zenon
    <3>3. QED
      BY <3>1, <3>2 DEF EntryOf
  <2>2. QED
    BY <2>1 DEF PathEntry
<1>3. PathDefault(a)' = [p \in Path |-> DefaultOf(file'[a], p)]
  <2>1. ASSUME NEW p \in Path
        PROVE  (IF FileAt(a, p)' = {} THEN None
                ELSE file'[a][CHOOSE i \in FileAt(a, p)' : TRUE].default) = DefaultOf(file'[a], p)
    <3>1. FileAt(a, p)' = With(file'[a], p)
      BY <1>1
    <3>2. (CHOOSE i \in FileAt(a, p)' : TRUE) = (CHOOSE i \in With(file'[a], p) : TRUE)
      BY <3>1, Zenon
    <3>3. QED
      BY <3>1, <3>2 DEF DefaultOf
  <2>2. QED
    BY <2>1 DEF PathDefault
<1>4. PathMarked(a)' = {m \in Peer \X Path : \E i \in With(file'[a], m[2]) : <<m[1], i>> \in pending'[a]}
  BY <1>1 DEF PathMarked
<1>5. QED
  BY <1>1, <1>2, <1>3, <1>4

\* A file has an entry in the directory it is recorded in, and a mark of a
\* catchup is for an inode that is a file or is no longer in the tree.
ParentOK(a) ==
  \A i \in DOMAIN file[a] : \E k \in DOMAIN dirs[a] : k[1] = file[a][i].parent /\ dirs[a][k].inode = i
PendingOK(a) ==
  \A m \in pending[a] :
    /\ m[2] \in Nat /\ m[2] <= range[a][1]
    /\ \A k \in DOMAIN dirs[a] : dirs[a][k].inode = m[2] => m[2] \in DOMAIN file[a]

PathInv == TablesInv /\ \A a \in Arena : ParentOK(a) /\ PendingOK(a)

\* What is known of a file before any version is.
KnownRecord == [path : Path, parent : Nat, default : Hash \cup {None}, peer : [Peer -> Hash \cup {None}]]

\* What an Add, Replace or Catchup makes of the record of its file.
GivenFile(a, q, n, i, f, g) ==
  /\ f \in KnownRecord /\ f.path = n.path /\ g = Taking(f, q, n)
  /\ (i \in DOMAIN file[a] /\ f = file[a][i])
     \/ (i \notin DOMAIN file[a] /\ f.default = None /\ f.peer = [r \in Peer |-> None])
  /\ g \in KnownRecord /\ g.path = n.path /\ g.parent = f.parent
  /\ file'[a] = IF g.default = None THEN file[a] ELSE Insert(file[a], i, g)
  /\ dirtied' = IF g.default # f.default THEN {<<a, n.path>>} ELSE {}
  /\ pending'[a] = IF n.kind = "Catchup" THEN pending[a] \ {<<q, i>>} ELSE pending[a]
  /\ Walk(dirs'[a], arenaTable[a], n.path) = [inode |-> i, kind |-> "File"]

\* The default version of a record.
LEMMA TakingDefault ==
  ASSUME NEW f \in KnownRecord, NEW q \in Peer, NEW n, n.hash \in Hash, NEW g, g = Taking(f, q, n),
         f.default # None
  PROVE  g.default # None
<1> DEFINE given == [f EXCEPT !.peer[q] = n.hash]
<1>1. given.default = f.default /\ given \in KnownRecord
  <2>1. [f.peer EXCEPT ![q] = n.hash] \in [Peer -> Hash \cup {None}]
    BY DEF KnownRecord
  <2>2. given = [f EXCEPT !.peer = [f.peer EXCEPT ![q] = n.hash]]
    OBVIOUS
  <2>3. QED
    BY <2>1, <2>2 DEF KnownRecord
<1> HIDE DEF given
<1>2. [given EXCEPT !.default = n.hash].default = n.hash /\ n.hash # None
  BY <1>1, NoneAssumption DEF KnownRecord
<1>3. [given EXCEPT !.default = IF given.default = None THEN n.hash ELSE given.default].default = f.default
  BY <1>1 DEF KnownRecord
<1>4. CASE n.kind = "Replace"
  BY <1>1, <1>2, <1>4 DEF Taking, given
<1>5. CASE n.kind # "Replace"
  <2>1. CASE n.kind = "Add" /\ f.peer[q] # None
    BY <1>5, <2>1 DEF Taking
  <2>2. CASE ~(n.kind = "Add" /\ f.peer[q] # None)
    <3>1. g = [given EXCEPT !.default = IF given.default = None THEN n.hash ELSE given.default]
      BY <1>5, <2>2 DEF Taking, given
    <3>2. QED
      BY <1>3, <3>1
  <2>3. QED
    BY <2>1, <2>2
<1>6. QED
  BY <1>4, <1>5

LEMMA GiveFile ==
  ASSUME PathInv, TablesInv', NEW a \in Arena, arenaTable[a] # 0, NEW q \in Peer, NEW n \in Incoming,
         n.kind \in Given, Give(a, q, n), arenaTable' = arenaTable
  PROVE  \E i, f, g : GivenFile(a, q, n, i, f, g)
<1> DEFINE c == CreateFile(a, n.path)
           i == c.made.at
           f == IF i \in DOMAIN file[a] THEN file[a][i] ELSE NewFile(n.path, c.parent)
           g == Taking(f, q, n)
<1>1. n.path \in Path /\ n.hash \in Hash /\ TablesInv
  BY IncomingFields DEF PathInv
<1>2. DOMAIN dirs = Arena /\ DOMAIN file = Arena /\ DOMAIN pending = Arena
  BY <1>1 DEF TablesInv, ShapeOK
<1>3. /\ ~c.made.failed
      /\ dirs' = [dirs EXCEPT ![a] = c.made.tab]
      /\ file' = IF g.default = None THEN file ELSE [file EXCEPT ![a] = Insert(@, i, g)]
      /\ dirtied' = IF g.default # f.default THEN {<<a, g.path>>} ELSE {}
      /\ pending' = IF n.kind = "Catchup" THEN [pending EXCEPT ![a] = @ \ {<<q, i>>}] ELSE pending
  BY DEF Give
<1>4. /\ c.parent \in Nat /\ Walk(c.made.tab, arenaTable[a], n.path) = [inode |-> i, kind |-> "File"]
  BY <1>1, <1>3, CreateFileOK
<1> HIDE DEF c
<1>5. /\ i \in DOMAIN file[a] => f = file[a][i]
      /\ i \notin DOMAIN file[a] => f = NewFile(n.path, c.parent)
  OBVIOUS
<1> HIDE DEF f
<1>6. f \in KnownRecord
  <2>1. CASE i \in DOMAIN file[a]
    <3>1. file[a][i] \in FileRecord
      BY <1>1, <2>1, FileType
    <3>2. QED
      BY <1>5, <2>1, <3>1 DEF FileRecord, KnownRecord
  <2>2. CASE i \notin DOMAIN file[a]
    BY <1>1, <1>4, <1>5, <2>2 DEF NewFile, KnownRecord
  <2>3. QED
    BY <2>1, <2>2
<1>7. g \in KnownRecord /\ g.path = f.path /\ g.parent = f.parent
  BY <1>1, <1>6, TakingType DEF KnownRecord
<1>8. g = Taking(f, q, n)
  OBVIOUS
<1>9. i \notin DOMAIN file[a] => f.path = n.path /\ f.default = None /\ f.peer = [r \in Peer |-> None]
  BY <1>5 DEF NewFile
<1> HIDE DEF g, i
<1>10. /\ dirs'[a] = c.made.tab
       /\ file'[a] = IF g.default = None THEN file[a] ELSE Insert(file[a], i, g)
       /\ pending'[a] = IF n.kind = "Catchup" THEN pending[a] \ {<<q, i>>} ELSE pending[a]
  BY <1>2, <1>3
<1>11. Walk(dirs'[a], arenaTable[a], n.path) = [inode |-> i, kind |-> "File"]
  BY <1>4, <1>10
<1>12. i \in DOMAIN file[a] => g.path = n.path
  <2>1. SUFFICES ASSUME i \in DOMAIN file[a] PROVE g.path = n.path
    OBVIOUS
  <2>2. f.default # None
    <3>1. file[a][i] \in FileRecord
      BY <1>1, <2>1, FileType
    <3>2. QED
      BY <1>5, <2>1, <3>1, NoneAssumption DEF FileRecord
  <2>3. g.default # None
    BY <1>1, <1>6, <1>8, <2>2, TakingDefault
  <2>4. i \in DOMAIN file'[a] /\ file'[a][i] = g
    BY <1>10, <2>3 DEF Insert
  <2>5. FilesTree(dirs'[a], arenaTable[a], file'[a])
    BY FilesTreeNext
  <2>6. Walk(dirs'[a], arenaTable[a], n.path).kind = "File" /\ Walk(dirs'[a], arenaTable[a], n.path).inode = i
    BY <1>11
  <2>7. i \in With(file'[a], n.path)
    BY <1>1, <2>4, <2>5, <2>6, FileOfPath
  <2>8. QED
    BY <2>4, <2>7 DEF With
<1>13. f.path = n.path
  BY <1>7, <1>9, <1>12
<1>14. dirtied' = IF g.default # f.default THEN {<<a, n.path>>} ELSE {}
  BY <1>3, <1>7, <1>13
<1>15. GivenFile(a, q, n, i, f, g)
  BY <1>5, <1>6, <1>7, <1>8, <1>9, <1>10, <1>11, <1>13, <1>14 DEF GivenFile
<1>16. QED
  BY <1>15

\* A Replace of a version that is not known changes nothing; any other
\* notification gives the file a version.
LEMMA TakingNone ==
  ASSUME NEW f \in KnownRecord, NEW q \in Peer, NEW n \in Incoming, n.kind \in Given,
         NEW g, g = Taking(f, q, n), f.default = None, f.peer[q] = None, g.default = None
  PROVE  g = f
<1>1. n.hash \in Hash /\ n.hash # None /\ (n.kind = "Replace" => n.old \in Hash /\ n.old # None)
  BY IncomingFields, NoneAssumption
<1> DEFINE given == [f EXCEPT !.peer[q] = n.hash]
<1>2. given.default = None /\ given \in KnownRecord
  <2>1. [f.peer EXCEPT ![q] = n.hash] \in [Peer -> Hash \cup {None}]
    BY <1>1 DEF KnownRecord
  <2>2. given = [f EXCEPT !.peer = [f.peer EXCEPT ![q] = n.hash]]
    OBVIOUS
  <2>3. QED
    BY <2>1, <2>2 DEF KnownRecord
<1>3. CASE n.kind = "Replace"
  BY <1>1, <1>3 DEF Taking
<1>4. CASE n.kind # "Replace"
  <2>1. g = [given EXCEPT !.default = IF given.default = None THEN n.hash ELSE given.default]
    BY <1>4 DEF Taking
  <2> HIDE DEF given
  <2>2. g.default = n.hash
    BY <1>2, <2>1 DEF KnownRecord
  <2>3. QED
    BY <1>1, <2>2
<1>5. QED
  BY <1>3, <1>4

\* A file in an arena's table with one record inserted.
LEMMA GiveView ==
  ASSUME PathInv, TablesInv', NEW a \in Arena, NEW q \in Peer, NEW n \in Incoming,
         n.kind \in Given, arenaTable' = arenaTable, Extends(dirs[a], dirs'[a]),
         NEW i, NEW f, NEW g, GivenFile(a, q, n, i, f, g)
  PROVE  /\ EntryOf(file[a], n.path) = f.peer /\ DefaultOf(file[a], n.path) = f.default
         /\ EntryOf(file'[a], n.path) = g.peer /\ DefaultOf(file'[a], n.path) = g.default
         /\ \A j \in With(file[a], n.path) : j = i
         /\ \A j \in With(file'[a], n.path) : j = i
         /\ i \in With(file[a], n.path) => i \in With(file'[a], n.path)
         /\ \A p \in Path \ {n.path} :
              /\ With(file'[a], p) = With(file[a], p)
              /\ EntryOf(file'[a], p) = EntryOf(file[a], p)
              /\ DefaultOf(file'[a], p) = DefaultOf(file[a], p)
<1> DEFINE files == file[a]
           files2 == file'[a]
           path == n.path
<1>1. /\ f \in KnownRecord /\ f.path = path /\ g = Taking(f, q, n)
      /\ (i \in DOMAIN files /\ f = files[i])
         \/ (i \notin DOMAIN files /\ f.default = None /\ f.peer = [r \in Peer |-> None])
      /\ g \in KnownRecord /\ g.path = path
      /\ files2 = IF g.default = None THEN files ELSE Insert(files, i, g)
      /\ Walk(dirs'[a], arenaTable[a], path) = [inode |-> i, kind |-> "File"]
  BY DEF GivenFile
<1>2. path \in Path /\ n.hash \in Hash
  BY IncomingFields
<1>3. FilesTree(dirs[a], arenaTable[a], files) /\ FilesTree(dirs'[a], arenaTable[a], files2)
  BY FilesTreeNow, FilesTreeNext DEF PathInv
<1>4. OnePath(files) /\ OnePath(files2)
  BY <1>3, FileOfPath
<1>5. ASSUME NEW j \in With(files, path) PROVE j = i
  <2> DEFINE e == Walk(dirs[a], arenaTable[a], path)
  <2>1. e.kind = "File" /\ e.inode = j
    BY <1>2, <1>3, FileOfPath
  <2>2. Walk(dirs'[a], arenaTable[a], path) = e
    <3>1. SameWay(dirs[a], dirs'[a], e)
      BY DEF SameWay, Extends
    <3>2. e.kind \in {"Dir", "File"}
      BY <2>1
    <3>3. Entries(dirs[a]) /\ arenaTable[a] \in Nat /\ Len(path) \in Nat
      BY <1>2, <1>3, PathLen DEF FilesTree
    <3>4. QED
      BY <3>1, <3>2, <3>3, WalkSame
  <2>3. QED
    BY <1>1, <2>1, <2>2
<1>6. ASSUME NEW j \in With(files2, path) PROVE j = i
  <2>1. Walk(dirs'[a], arenaTable[a], path).inode = j
    BY <1>2, <1>3, FileOfPath
  <2>2. QED
    BY <1>1, <2>1
<1> HIDE DEF files, files2
<1>7. ASSUME i \in DOMAIN files
      PROVE  EntryOf(files, path) = f.peer /\ DefaultOf(files, path) = f.default
             /\ EntryOf(files2, path) = g.peer /\ DefaultOf(files2, path) = g.default
  <2>1. f = files[i] /\ f.default # None
    <3>1. f = files[i] /\ f \in FileRecord
      BY <1>1, <1>3, <1>7 DEF FilesTree
    <3>2. QED
      BY <3>1, NoneAssumption DEF FileRecord
  <2>2. g.default # None
    BY <1>1, <1>2, <2>1, TakingDefault
  <2>3. files2 = Insert(files, i, g)
    BY <1>1, <2>2
  <2>4. i \in DOMAIN files2 /\ files2[i] = g
    BY <2>3 DEF Insert
  <2>5. EntryOf(files, path) = f.peer /\ DefaultOf(files, path) = f.default
    BY <1>1, <1>4, <1>7, <2>1, FileHit
  <2>6. With(files2, path) = {i} /\ EntryOf(files2, path) = g.peer /\ DefaultOf(files2, path) = g.default
    BY <1>1, <1>4, <2>4, FileHit
  <2>7. QED
    BY <2>5, <2>6
<1>8. ASSUME i \notin DOMAIN files
      PROVE  EntryOf(files, path) = f.peer /\ DefaultOf(files, path) = f.default
             /\ EntryOf(files2, path) = g.peer /\ DefaultOf(files2, path) = g.default
  <2>1. With(files, path) = {}
    BY <1>5, <1>8 DEF With
  <2>2. f.default = None /\ f.peer = [r \in Peer |-> None]
    BY <1>1, <1>8
  <2>3. EntryOf(files, path) = f.peer /\ DefaultOf(files, path) = f.default
    BY <2>1, <2>2, FileMiss
  <2>4. EntryOf(files2, path) = g.peer /\ DefaultOf(files2, path) = g.default
    <3>1. CASE g.default = None
      <4>1. f.peer[q] = None
        BY <2>2
      <4>2. g = f
        BY <1>1, <2>2, <3>1, <4>1, TakingNone
      <4>3. files2 = files
        BY <1>1, <3>1
      <4>4. QED
        BY <2>3, <4>2, <4>3
    <3>2. CASE g.default # None
      <4>1. i \in DOMAIN files2 /\ files2[i] = g
        BY <1>1, <3>2 DEF Insert
      <4>2. QED
        BY <1>1, <1>4, <4>1, FileHit
    <3>3. QED
      BY <3>1, <3>2
  <2>5. QED
    BY <2>1, <2>3, <2>4
<1>9. ASSUME NEW p \in Path \ {path}
      PROVE  /\ With(files2, p) = With(files, p)
             /\ EntryOf(files2, p) = EntryOf(files, p)
             /\ DefaultOf(files2, p) = DefaultOf(files, p)
  <2>1. ASSUME NEW j \in DOMAIN files2, files2[j].path = p
        PROVE  j \in DOMAIN files /\ files[j] = files2[j]
    <3>1. CASE g.default = None
      BY <1>1, <3>1
    <3>2. CASE g.default # None
      <4>1. files2 = Insert(files, i, g)
        BY <1>1, <3>2
      <4>2. j # i
        <5>1. files2[i] = g
          BY <4>1 DEF Insert
        <5>2. QED
          BY <1>1, <2>1, <5>1
      <4>3. QED
        BY <4>1, <4>2 DEF Insert
    <3>3. QED
      BY <3>1, <3>2
  <2>2. ASSUME NEW j \in DOMAIN files, files[j].path = p
        PROVE  j \in DOMAIN files2 /\ files2[j] = files[j]
    <3>1. j # i
      BY <1>1, <2>2
    <3>2. QED
      BY <1>1, <3>1 DEF Insert
  <2>3. With(files2, p) = With(files, p)
    BY <2>1, <2>2 DEF With
  <2>4. CASE With(files, p) = {}
    BY <2>3, <2>4, FileMiss
  <2>5. CASE With(files, p) # {}
    <3>1. PICK j : j \in With(files, p)
      BY <2>5
    <3>2. j \in DOMAIN files /\ files[j].path = p
      BY <3>1 DEF With
    <3>3. j \in DOMAIN files2 /\ files2[j] = files[j]
      BY <2>2, <3>2
    <3>4. EntryOf(files, p) = files[j].peer /\ DefaultOf(files, p) = files[j].default
      BY <1>4, <3>2, FileHit
    <3>5. EntryOf(files2, p) = files2[j].peer /\ DefaultOf(files2, p) = files2[j].default
      BY <1>4, <3>2, <3>3, FileHit
    <3>6. QED
      BY <2>3, <3>3, <3>4, <3>5
  <2>6. QED
    BY <2>4, <2>5
<1>10. EntryOf(files, path) = f.peer /\ DefaultOf(files, path) = f.default
       /\ EntryOf(files2, path) = g.peer /\ DefaultOf(files2, path) = g.default
       /\ (i \in With(files, path) => i \in With(files2, path))
  <2>1. EntryOf(files, path) = f.peer /\ DefaultOf(files, path) = f.default
        /\ EntryOf(files2, path) = g.peer /\ DefaultOf(files2, path) = g.default
    BY <1>7, <1>8
  <2>2. i \in With(files, path) => i \in With(files2, path)
    <3>1. SUFFICES ASSUME i \in With(files, path) PROVE i \in With(files2, path)
      OBVIOUS
    <3>2. i \in DOMAIN files
      BY <3>1 DEF With
    <3>3. i \in DOMAIN files2 /\ files2[i].path = path
      BY <1>1, <3>1, <3>2 DEF Insert, With
    <3>4. QED
      BY <3>3 DEF With
  <2>3. QED
    BY <2>1, <2>2
<1>11. QED
  BY <1>5, <1>6, <1>9, <1>10 DEF files, files2

\* What an Add, Replace or Catchup makes of the tree: it has an entry for the
\* file, and the directories it needs.
GivenDirs(a, path, key) ==
  /\ Extends(dirs[a], dirs'[a]) /\ Newer(dirs[a], dirs'[a], range[a][1], key)
  /\ key \in DOMAIN dirs'[a] /\ dirs'[a][key].kind = "File"
  /\ dirs'[a][key] = Walk(dirs'[a], arenaTable[a], path)
  /\ range'[a][1] \in Nat /\ range'[a][1] >= range[a][1]
  /\ DOMAIN file[a] \subseteq DOMAIN file'[a]
  /\ \A j \in DOMAIN file'[a] :
       \/ j \in DOMAIN file[a] /\ file'[a][j].parent = file[a][j].parent
       \/ j = dirs'[a][key].inode /\ file'[a][j].parent = key[1]

LEMMA GiveDirs ==
  ASSUME TablesInv, NEW a \in Arena, arenaTable[a] # 0, NEW q \in Peer, NEW n \in Incoming,
         n.kind \in Given, Give(a, q, n)
  PROVE  \E key : GivenDirs(a, n.path, key)
<1> DEFINE c == CreateFile(a, n.path)
           i == c.made.at
           f == IF i \in DOMAIN file[a] THEN file[a][i] ELSE NewFile(n.path, c.parent)
           g == Taking(f, q, n)
           key == <<c.parent, Last(n.path)>>
<1>1. n.path \in Path /\ n.hash \in Hash
  BY IncomingFields
<1>2. DOMAIN dirs = Arena /\ DOMAIN file = Arena /\ DOMAIN range = Arena
  BY DEF TablesInv, ShapeOK, TypeOK
<1>3. /\ ~c.made.failed
      /\ dirs' = [dirs EXCEPT ![a] = c.made.tab]
      /\ range' = [range EXCEPT ![a] = c.made.cur]
      /\ file' = IF g.default = None THEN file ELSE [file EXCEPT ![a] = Insert(@, i, g)]
  BY DEF Give
<1>4. /\ c.parent \in Nat /\ Walk(c.made.tab, arenaTable[a], n.path) = [inode |-> i, kind |-> "File"]
      /\ Extends(dirs[a], c.made.tab)
  BY <1>1, <1>3, CreateFileOK
<1>5. /\ Newer(dirs[a], c.made.tab, range[a][1], key)
      /\ key \in DOMAIN c.made.tab /\ c.made.tab[key] = [inode |-> i, kind |-> "File"]
      /\ c.made.cur[1] \in Nat /\ c.made.cur[1] >= range[a][1]
  BY <1>1, <1>3, CreateFileNew
<1> HIDE DEF c
<1>6. /\ i \in DOMAIN file[a] => f = file[a][i]
      /\ i \notin DOMAIN file[a] => f.parent = c.parent
  BY DEF NewFile
<1>7. f \in KnownRecord
  <2>1. CASE i \in DOMAIN file[a]
    <3>1. file[a][i] \in FileRecord
      BY <2>1, FileType
    <3>2. QED
      BY <1>6, <2>1, <3>1 DEF FileRecord, KnownRecord
  <2>2. CASE i \notin DOMAIN file[a]
    BY <1>1, <1>4, <2>2 DEF NewFile, KnownRecord
  <2>3. QED
    BY <2>1, <2>2
<1> HIDE DEF f
<1>8. g.parent = f.parent
  BY <1>1, <1>7, TakingType DEF KnownRecord
<1>9. key[1] = c.parent
  OBVIOUS
<1> HIDE DEF g, i, key
<1>10. /\ dirs'[a] = c.made.tab /\ range'[a] = c.made.cur
       /\ file'[a] = IF g.default = None THEN file[a] ELSE Insert(file[a], i, g)
  BY <1>2, <1>3
<1>11. dirs'[a][key].kind = "File" /\ dirs'[a][key].inode = i
  BY <1>5, <1>10
<1>12. DOMAIN file[a] \subseteq DOMAIN file'[a]
  BY <1>10 DEF Insert
<1>13. ASSUME NEW j \in DOMAIN file'[a]
       PROVE  \/ j \in DOMAIN file[a] /\ file'[a][j].parent = file[a][j].parent
              \/ j = i /\ file'[a][j].parent = key[1]
  <2>1. CASE g.default = None
    BY <1>10, <2>1
  <2>2. CASE g.default # None /\ j # i
    <3>1. file'[a] = Insert(file[a], i, g)
      BY <1>10, <2>2
    <3>2. j \in DOMAIN file[a] /\ file'[a][j] = file[a][j]
      BY <2>2, <3>1 DEF Insert
    <3>3. QED
      BY <3>2
  <2>3. CASE g.default # None /\ j = i
    <3>1. file'[a] = Insert(file[a], i, g)
      BY <1>10, <2>3
    <3>2. file'[a][j] = g
      BY <2>3, <3>1 DEF Insert
    <3>3. QED
      BY <1>6, <1>8, <1>9, <2>3, <3>2
  <2>4. QED
    BY <2>1, <2>2, <2>3
<1>14. GivenDirs(a, n.path, key)
  BY <1>4, <1>5, <1>10, <1>11, <1>12, <1>13 DEF GivenDirs
<1>15. QED
  BY <1>14

\* The entry of the file is new, or was there: a mark for it is for a file.
LEMMA GiveMarks ==
  ASSUME PathInv, TablesInv', NEW a \in Arena, NEW path, NEW key, GivenDirs(a, path, key)
  PROVE  /\ ParentOK(a)'
         /\ \A m \in pending[a] :
              /\ m[2] \in Nat /\ m[2] <= range'[a][1]
              /\ \A k \in DOMAIN dirs'[a] : dirs'[a][k].inode = m[2] => m[2] \in DOMAIN file[a]
<1>1. /\ Extends(dirs[a], dirs'[a]) /\ Newer(dirs[a], dirs'[a], range[a][1], key)
      /\ key \in DOMAIN dirs'[a]
      /\ range'[a][1] \in Nat /\ range'[a][1] >= range[a][1]
      /\ \A j \in DOMAIN file'[a] :
           \/ j \in DOMAIN file[a] /\ file'[a][j].parent = file[a][j].parent
           \/ j = dirs'[a][key].inode /\ file'[a][j].parent = key[1]
  BY DEF GivenDirs
<1>2. ParentOK(a) /\ PendingOK(a) /\ range[a][1] \in Nat
  BY ArenaTree DEF PathInv
<1>3. ParentOK(a)'
  <2>1. ASSUME NEW j \in DOMAIN file'[a]
        PROVE  \E k \in DOMAIN dirs'[a] : k[1] = file'[a][j].parent /\ dirs'[a][k].inode = j
    <3>1. CASE j \in DOMAIN file[a] /\ file'[a][j].parent = file[a][j].parent
      <4>1. PICK k \in DOMAIN dirs[a] : k[1] = file[a][j].parent /\ dirs[a][k].inode = j
        BY <1>2, <3>1 DEF ParentOK
      <4>2. k \in DOMAIN dirs'[a] /\ dirs'[a][k] = dirs[a][k]
        BY <1>1, <4>1 DEF Extends
      <4>3. QED
        BY <3>1, <4>1, <4>2
    <3>2. CASE j = dirs'[a][key].inode /\ file'[a][j].parent = key[1]
      BY <1>1, <3>2
    <3>3. QED
      BY <1>1, <3>1, <3>2
  <2>2. QED
    BY <2>1 DEF ParentOK
<1>4. ASSUME NEW m \in pending[a] PROVE m[2] \in Nat /\ m[2] <= range'[a][1]
  BY <1>1, <1>2 DEF PendingOK
<1>5. ASSUME NEW m \in pending[a], NEW k \in DOMAIN dirs'[a], dirs'[a][k].inode = m[2]
      PROVE  m[2] \in DOMAIN file[a]
  <2>1. m[2] \in Nat /\ m[2] <= range[a][1]
    BY <1>2 DEF PendingOK
  <2>2. k \in DOMAIN dirs[a]
    BY <1>1, <1>2, <1>5, <2>1 DEF Newer
  <2>3. dirs[a][k].inode = m[2]
    BY <1>1, <1>5, <2>2 DEF Extends
  <2>4. QED
    BY <1>2, <2>2, <2>3 DEF PendingOK
<1>6. QED
  BY <1>3, <1>4, <1>5

\* The paths of files: the one that is given and those there were.
LEMMA GivePaths ==
  ASSUME PathInv, TablesInv', NEW a \in Arena, NEW path \in Path, NEW key, GivenDirs(a, path, key),
         arenaTable' = arenaTable
  PROVE  PathDir(a)' = PathDir(a) \cup {path}
<1> DEFINE root == arenaTable[a]
<1>1. /\ Extends(dirs[a], dirs'[a]) /\ Newer(dirs[a], dirs'[a], range[a][1], key)
      /\ key \in DOMAIN dirs'[a] /\ dirs'[a][key].kind = "File"
      /\ dirs'[a][key] = Walk(dirs'[a], root, path)
  BY DEF GivenDirs
<1>2. FilesTree(dirs[a], root, file[a]) /\ FilesTree(dirs'[a], root, file'[a])
  BY FilesTreeNow, FilesTreeNext DEF PathInv
<1>3. /\ Entries(dirs[a]) /\ Entries(dirs'[a]) /\ root \in Nat /\ Rooted(dirs'[a], root)
      /\ range[a][1] \in Nat /\ Older(dirs[a], root, range[a][1])
  BY <1>2, ArenaTree DEF FilesTree, PathInv
<1>4. PathDir(a) = {p \in Path : Walk(dirs[a], root, p).kind = "File"}
      /\ PathDir(a)' = {p \in Path : Walk(dirs'[a], root, p).kind = "File"}
  BY DEF PathDir, LookupPath
<1>5. ASSUME NEW p \in Path, Walk(dirs'[a], root, p).kind = "File"
      PROVE  Walk(dirs[a], root, p).kind = "File" \/ p = path
  <2>1. \/ Walk(dirs[a], root, p) = Walk(dirs'[a], root, p)
        \/ Walk(dirs'[a], root, p) = dirs'[a][key]
    BY <1>1, <1>3, <1>5, PathLen, WalkNewer
  <2>2. CASE Walk(dirs[a], root, p) = Walk(dirs'[a], root, p)
    BY <1>5, <2>2
  <2>3. CASE Walk(dirs'[a], root, p) = dirs'[a][key]
    <3>1. Walk(dirs'[a], root, p).inode = Walk(dirs'[a], root, path).inode
          /\ Walk(dirs'[a], root, path).kind = "File"
      BY <1>1, <2>3
    <3>2. QED
      BY <1>2, <1>5, <3>1, SamePath
  <2>4. QED
    BY <2>1, <2>2, <2>3
<1>6. ASSUME NEW p \in Path, Walk(dirs[a], root, p).kind = "File"
      PROVE  Walk(dirs'[a], root, p).kind = "File"
  <2>1. SameWay(dirs[a], dirs'[a], Walk(dirs[a], root, p))
    BY <1>1 DEF SameWay, Extends
  <2>2. QED
    BY <1>3, <1>6, <2>1, PathLen, WalkSame
<1>7. QED
  BY <1>1, <1>4, <1>5, <1>6

\* A catchup's marks: the one of the file it reports is gone.
LEMMA GiveMarked ==
  ASSUME PathInv, TablesInv', NEW a \in Arena, NEW q \in Peer, NEW n \in Incoming,
         n.kind \in Given, arenaTable' = arenaTable, NEW key, GivenDirs(a, n.path, key),
         NEW i, NEW f, NEW g, GivenFile(a, q, n, i, f, g)
  PROVE  PathMarked(a)' = IF n.kind = "Catchup" THEN PathMarked(a) \ {<<q, n.path>>} ELSE PathMarked(a)
<1> DEFINE path == n.path
<1>0. path \in Path /\ Extends(dirs[a], dirs'[a])
  BY IncomingFields DEF GivenDirs
<1>1. /\ \A j \in With(file[a], path) : j = i
      /\ \A j \in With(file'[a], path) : j = i
      /\ i \in With(file[a], path) => i \in With(file'[a], path)
      /\ \A p \in Path \ {path} : With(file'[a], p) = With(file[a], p)
  BY <1>0, GiveView
<1>2. FilesTree(dirs[a], arenaTable[a], file[a]) /\ FilesTree(dirs'[a], arenaTable[a], file'[a])
  BY FilesTreeNow, FilesTreeNext DEF PathInv
<1>3. /\ PathMarked(a) = {m \in Peer \X Path : \E j \in With(file[a], m[2]) : <<m[1], j>> \in pending[a]}
      /\ PathMarked(a)' = {m \in Peer \X Path : \E j \in With(file'[a], m[2]) : <<m[1], j>> \in pending'[a]}
  BY <1>2, ViewNow, ViewNext
<1>4. /\ pending'[a] = IF n.kind = "Catchup" THEN pending[a] \ {<<q, i>>} ELSE pending[a]
      /\ Walk(dirs'[a], arenaTable[a], path) = [inode |-> i, kind |-> "File"]
  BY DEF GivenFile
<1>5. key \in DOMAIN dirs'[a] /\ dirs'[a][key].inode = i
  BY <1>4 DEF GivenDirs
<1>6. ASSUME NEW r, <<r, i>> \in pending[a] PROVE i \in DOMAIN file[a]
  <2>1. PICK m \in pending[a] : m = <<r, i>>
    BY <1>6
  <2>2. m[2] = i
    BY <2>1
  <2>3. \A k \in DOMAIN dirs'[a] : dirs'[a][k].inode = m[2] => m[2] \in DOMAIN file[a]
    BY GiveMarks
  <2>4. QED
    BY <1>5, <2>2, <2>3
<1>7. ASSUME i \in DOMAIN file[a], i \in With(file'[a], path) PROVE i \in With(file[a], path)
  <2>1. f = file[a][i] /\ f.path = path
    BY <1>7 DEF GivenFile
  <2>2. QED
    BY <1>7, <2>1 DEF With
<1>8. ASSUME NEW p \in Path, p # path, NEW j \in With(file[a], p) PROVE j # i
  <2>1. j \in DOMAIN file[a] /\ file[a][j].path = p
    BY <1>8 DEF With
  <2>2. i \in DOMAIN file[a] => file[a][i].path = path
    BY DEF GivenFile
  <2>3. QED
    BY <1>8, <2>1, <2>2
<1> HIDE DEF path
<1>9. ASSUME NEW r \in Peer, NEW p \in Path
      PROVE  (\E j \in With(file'[a], p) : <<r, j>> \in pending'[a])
             <=> /\ \E j \in With(file[a], p) : <<r, j>> \in pending[a]
                 /\ n.kind = "Catchup" => ~(r = q /\ p = path)
  <2>1. CASE p # path
    <3>1. With(file'[a], p) = With(file[a], p)
      BY <1>1, <2>1
    <3>2. ASSUME NEW j \in With(file[a], p) PROVE <<r, j>> \in pending'[a] <=> <<r, j>> \in pending[a]
      <4>1. j # i
        BY <1>8, <2>1
      <4>2. QED
        BY <1>4, <4>1
    <3>3. QED
      BY <2>1, <3>1, <3>2
  <2>2. CASE p = path
    <3>1. ASSUME NEW j \in With(file'[a], p), <<r, j>> \in pending'[a]
          PROVE  /\ j \in With(file[a], p) /\ <<r, j>> \in pending[a]
                 /\ n.kind = "Catchup" => r # q
      <4>1. j = i
        BY <1>1, <2>2, <3>1
      <4>2. <<r, i>> \in pending[a] /\ (n.kind = "Catchup" => r # q)
        BY <1>4, <3>1, <4>1
      <4>3. QED
        BY <1>6, <1>7, <2>2, <3>1, <4>1, <4>2
    <3>2. ASSUME NEW j \in With(file[a], p), <<r, j>> \in pending[a], n.kind = "Catchup" => r # q
          PROVE  j \in With(file'[a], p) /\ <<r, j>> \in pending'[a]
      <4>1. j = i
        BY <1>1, <2>2, <3>2
      <4>2. QED
        BY <1>1, <1>4, <2>2, <3>2, <4>1
    <3>3. QED
      BY <2>2, <3>1, <3>2
  <2>3. QED
    BY <2>1, <2>2
<1>10. ASSUME NEW m
       PROVE  m \in PathMarked(a)' <=> m \in PathMarked(a) /\ (n.kind = "Catchup" => m # <<q, path>>)
  <2>1. CASE m \in Peer \X Path
    <3>1. PICK r \in Peer, p \in Path : m = <<r, p>>
      BY <2>1
    <3>2. m[1] = r /\ m[2] = p /\ (m = <<q, path>> <=> r = q /\ p = path)
      BY <3>1
    <3>3. QED
      BY <1>3, <1>9, <2>1, <3>2
  <2>2. CASE m \notin Peer \X Path
    BY <1>3, <2>2
  <2>3. QED
    BY <2>1, <2>2
<1>11. QED
  BY <1>10 DEF path

\* What a notification makes of the versions of its file.
LEMMA TakingFields ==
  ASSUME NEW f \in KnownRecord, NEW q \in Peer, NEW n \in Incoming, n.kind \in Given,
         NEW g, g = Taking(f, q, n)
  PROVE  /\ n.kind = "Replace" =>
              /\ g.default = (IF f.default = n.old THEN n.hash ELSE f.default)
              /\ g.peer = (IF n.old \in {f.default, f.peer[q]} THEN [f.peer EXCEPT ![q] = n.hash] ELSE f.peer)
         /\ n.kind = "Add" /\ f.peer[q] # None => g = f
         /\ n.kind = "Catchup" \/ (n.kind = "Add" /\ f.peer[q] = None) =>
              /\ g.default = (IF f.default = None THEN n.hash ELSE f.default)
              /\ g.peer = [f.peer EXCEPT ![q] = n.hash]
<1> DEFINE given == [f EXCEPT !.peer[q] = n.hash]
           peers == [f.peer EXCEPT ![q] = n.hash]
<1>1. n.hash \in Hash
  BY IncomingFields
<1>2. peers \in [Peer -> Hash \cup {None}] /\ given = [f EXCEPT !.peer = peers]
  BY <1>1 DEF KnownRecord
<1> HIDE DEF peers
<1>3. given \in KnownRecord /\ given.peer = peers /\ given.default = f.default
  BY <1>2 DEF KnownRecord
<1> HIDE DEF given
<1>4. ASSUME NEW h PROVE [given EXCEPT !.default = h].default = h /\ [given EXCEPT !.default = h].peer = peers
  BY <1>3 DEF KnownRecord
<1>5. CASE n.kind = "Replace"
  <2>1. g = IF f.default = n.old THEN [given EXCEPT !.default = n.hash]
            ELSE IF f.peer[q] = n.old THEN given ELSE f
    BY <1>5 DEF Taking, given
  <2>2. CASE f.default = n.old
    BY <1>4, <1>5, <2>1, <2>2 DEF peers
  <2>3. CASE f.default # n.old /\ f.peer[q] = n.old
    BY <1>3, <1>5, <2>1, <2>3 DEF peers
  <2>4. CASE f.default # n.old /\ f.peer[q] # n.old
    BY <1>5, <2>1, <2>4
  <2>5. QED
    BY <2>2, <2>3, <2>4
<1>6. CASE n.kind = "Add" /\ f.peer[q] # None
  BY <1>6 DEF Taking
<1>7. CASE n.kind = "Catchup" \/ (n.kind = "Add" /\ f.peer[q] = None)
  <2>1. g = [given EXCEPT !.default = IF given.default = None THEN n.hash ELSE given.default]
    BY <1>7 DEF Taking, given
  <2>2. g.default = (IF f.default = None THEN n.hash ELSE f.default) /\ g.peer = peers
    BY <1>3, <1>4, <2>1
  <2>3. QED
    BY <1>7, <2>2 DEF peers
<1>8. QED
  BY <1>5, <1>6, <1>7 DEF Given

\* Seen by path, an Add, Replace or Catchup is ArenaCache's.
LEMMA GiveUpdate ==
  ASSUME PathInv, TablesInv', NEW a \in Arena, arenaTable[a] # 0, NEW q \in Peer, NEW n \in Incoming,
         n.kind \in Given, Give(a, q, n), arenaTable' = arenaTable
  PROVE  /\ PathCache(a)!Update(q, n)
         /\ ParentOK(a)' /\ PendingOK(a)'
<1>0. n.path \in Path /\ n.hash \in Hash /\ TablesInv
  BY IncomingFields DEF PathInv
<1>1. PICK key : GivenDirs(a, n.path, key)
  BY <1>0, GiveDirs
<1>2. PICK i, f, g : GivenFile(a, q, n, i, f, g)
  BY GiveFile
<1>3. Extends(dirs[a], dirs'[a]) /\ DOMAIN file[a] \subseteq DOMAIN file'[a]
  BY <1>1 DEF GivenDirs
<1>4. FilesTree(dirs[a], arenaTable[a], file[a]) /\ FilesTree(dirs'[a], arenaTable'[a], file'[a])
  BY <1>0, FilesTreeNow, FilesTreeNext
<1>5. ParentOK(a)' /\ PendingOK(a)'
  <2>1. pending'[a] \subseteq pending[a]
    BY <1>2 DEF GivenFile
  <2>2. /\ ParentOK(a)'
        /\ \A m \in pending[a] :
             /\ m[2] \in Nat /\ m[2] <= range'[a][1]
             /\ \A k \in DOMAIN dirs'[a] : dirs'[a][k].inode = m[2] => m[2] \in DOMAIN file[a]
    BY <1>1, GiveMarks
  <2>3. PendingOK(a)'
    BY <1>3, <2>1, <2>2 DEF PendingOK
  <2>4. QED
    BY <2>2, <2>3
<1>6. /\ EntryOf(file[a], n.path) = f.peer /\ DefaultOf(file[a], n.path) = f.default
      /\ EntryOf(file'[a], n.path) = g.peer /\ DefaultOf(file'[a], n.path) = g.default
      /\ \A p \in Path \ {n.path} : /\ EntryOf(file'[a], p) = EntryOf(file[a], p)
                                    /\ DefaultOf(file'[a], p) = DefaultOf(file[a], p)
  BY <1>2, <1>3, GiveView
<1>7. /\ PathEntry(a) = [p \in Path |-> EntryOf(file[a], p)]
      /\ PathEntry(a)' = [p \in Path |-> EntryOf(file'[a], p)]
      /\ PathDefault(a) = [p \in Path |-> DefaultOf(file[a], p)]
      /\ PathDefault(a)' = [p \in Path |-> DefaultOf(file'[a], p)]
  BY <1>4, ViewNow, ViewNext
<1>8. PathEntry(a)[n.path] = f.peer /\ PathDefault(a)[n.path] = f.default
  BY <1>0, <1>6, <1>7
<1>9. PathEntry(a)' = [PathEntry(a) EXCEPT ![n.path] = g.peer]
  <2>1. [p \in Path |-> EntryOf(file'[a], p)] = [[p \in Path |-> EntryOf(file[a], p)] EXCEPT ![n.path] = g.peer]
    BY <1>0, <1>6
  <2>2. QED
    BY <1>7, <2>1
<1>10. PathDefault(a)' = [PathDefault(a) EXCEPT ![n.path] = g.default]
  <2>1. [p \in Path |-> DefaultOf(file'[a], p)] = [[p \in Path |-> DefaultOf(file[a], p)] EXCEPT ![n.path] = g.default]
    BY <1>0, <1>6
  <2>2. QED
    BY <1>7, <2>1
<1>11. PathDir(a)' = PathDir(a) \cup {n.path}
  BY <1>0, <1>1, GivePaths
<1>12. PathMarked(a)' = IF n.kind = "Catchup" THEN PathMarked(a) \ {<<q, n.path>>} ELSE PathMarked(a)
  BY <1>1, <1>2, GiveMarked
<1>13. /\ seen'[a] = IF n.kind = "Catchup" THEN seen[a] ELSE [seen[a] EXCEPT ![q] = n.index]
       /\ known'[a] = known[a]
  <2>1. seen \in [Arena -> [Peer -> 0..MaxHistory]]
    BY <1>0 DEF TablesInv, TypeOK
  <2>2. LastSeen(a, q, n) /\ known' = known
    BY DEF Give
  <2>3. QED
    BY <2>1, <2>2 DEF LastSeen
<1>14. f \in KnownRecord /\ g = Taking(f, q, n)
  BY <1>2 DEF GivenFile
<1>15. /\ [PathEntry(a) EXCEPT ![n.path] = f.peer] = PathEntry(a)
       /\ [PathDefault(a) EXCEPT ![n.path] = f.default] = PathDefault(a)
  BY <1>7, <1>8
<1>16. CASE n.kind = "Add"
  <2>1. PathCache(a)!Add(q, n)
    <3>1. CASE f.peer[q] = None
      <4>1. g.default = (IF f.default = None THEN n.hash ELSE f.default) /\ g.peer = [f.peer EXCEPT ![q] = n.hash]
        BY <1>14, <1>16, <3>1, TakingFields
      <4>2. PathEntry(a)' = [PathEntry(a) EXCEPT ![n.path][q] = n.hash]
        BY <1>8, <1>9, <4>1
      <4>3. PathDefault(a)' = [PathDefault(a) EXCEPT ![n.path] = IF @ = None THEN n.hash ELSE @]
        BY <1>8, <1>10, <4>1
      <4>4. QED
        BY <1>8, <1>11, <1>12, <1>13, <1>16, <3>1, <4>2, <4>3
        DEF PathCache!Add, PathCache!UpdateLastSeen, PathCache!WriteFileEntry, PathCache!WriteDefaultIfNone
    <3>2. CASE f.peer[q] # None
      <4>1. g = f
        BY <1>14, <1>16, <3>2 DEF Taking
      <4>2. PathEntry(a)' = PathEntry(a) /\ PathDefault(a)' = PathDefault(a)
        BY <1>9, <1>10, <1>15, <4>1
      <4>3. QED
        BY <1>8, <1>11, <1>12, <1>13, <1>16, <3>2, <4>2
        DEF PathCache!Add, PathCache!UpdateLastSeen
    <3>3. QED
      BY <3>1, <3>2
  <2>2. QED
    BY <1>5, <1>16, <2>1 DEF PathCache!Update
<1>17. CASE n.kind = "Replace"
  <2>1. /\ g.default = (IF f.default = n.old THEN n.hash ELSE f.default)
        /\ g.peer = (IF n.old \in {f.default, f.peer[q]} THEN [f.peer EXCEPT ![q] = n.hash] ELSE f.peer)
    BY <1>14, <1>17, TakingFields
  <2>2. PathDefault(a)' = [PathDefault(a) EXCEPT ![n.path] = IF PathDefault(a)[n.path] = n.old THEN n.hash
                                                              ELSE PathDefault(a)[n.path]]
    BY <1>8, <1>10, <2>1
  <2>3. IF n.old \in {PathDefault(a)[n.path], PathEntry(a)[n.path][q]}
        THEN PathEntry(a)' = [PathEntry(a) EXCEPT ![n.path][q] = n.hash]
        ELSE PathEntry(a)' = PathEntry(a)
    <3>1. CASE n.old \in {f.default, f.peer[q]}
      BY <1>8, <1>9, <2>1, <3>1
    <3>2. CASE n.old \notin {f.default, f.peer[q]}
      BY <1>8, <1>9, <1>15, <2>1, <3>2
    <3>3. QED
      BY <3>1, <3>2
  <2>4. PathCache(a)!Replace(q, n)
    BY <1>11, <1>12, <1>13, <1>17, <2>2, <2>3
    DEF PathCache!Replace, PathCache!UpdateLastSeen, PathCache!WriteFileEntry, PathCache!ReplacedDefault
  <2>5. QED
    BY <1>5, <1>17, <2>4 DEF PathCache!Update
<1>18. CASE n.kind = "Catchup"
  <2>1. g.default = (IF f.default = None THEN n.hash ELSE f.default) /\ g.peer = [f.peer EXCEPT ![q] = n.hash]
    BY <1>14, <1>18, TakingFields
  <2>2. PathEntry(a)' = [PathEntry(a) EXCEPT ![n.path][q] = n.hash]
    BY <1>8, <1>9, <2>1
  <2>3. PathDefault(a)' = [PathDefault(a) EXCEPT ![n.path] = IF @ = None THEN n.hash ELSE @]
    BY <1>8, <1>10, <2>1
  <2>4. PathCache(a)!Catchup(q, n)
    BY <1>11, <1>12, <1>13, <1>18, <2>2, <2>3
    DEF PathCache!Catchup, PathCache!WriteFileEntry, PathCache!WriteDefaultIfNone
  <2>5. QED
    BY <1>5, <1>18, <2>4 DEF PathCache!Update
<1>19. QED
  BY <1>16, <1>17, <1>18 DEF Given

-----------------------------------------------------------------------------

\* What do_rm_file_entry does to the files, of which it takes away those that
\* are gone, and to their entries.
RmDone(a, q, inodes, d, gone) ==
  /\ d \in [inodes -> Hash \cup {None}]
  /\ \A i \in inodes : d[i] \in NextDefaults(file[a][i], q)
  /\ gone = {i \in inodes : d[i] = None}
  /\ DOMAIN file'[a] = DOMAIN file[a] \ gone
  /\ \A i \in DOMAIN file[a] \ gone :
       /\ file'[a][i].path = file[a][i].path /\ file'[a][i].parent = file[a][i].parent
       /\ i \in inodes => /\ file'[a][i].peer = [file[a][i].peer EXCEPT ![q] = None]
                          /\ file'[a][i].default = d[i]
       /\ i \notin inodes => file'[a][i] = file[a][i]
  /\ Extends(dirs'[a], dirs[a])
  /\ \A k \in DOMAIN dirs[a] : k \in DOMAIN dirs'[a] <=> dirs[a][k].inode \notin gone
  /\ dirtied' = {<<a, file[a][i].path>> : i \in {j \in inodes : d[j] # file[a][j].default}}

LEMMA RmFiles ==
  ASSUME PathInv, NEW a \in Arena, NEW q \in Peer, NEW inodes \in SUBSET DOMAIN file[a],
         RmFileEntries(a, q, inodes)
  PROVE  \E d, gone : RmDone(a, q, inodes, d, gone)
<1>1. PICK d \in [inodes -> Hash \cup {None}] :
        /\ \A i \in inodes : d[i] \in NextDefaults(file[a][i], q)
        /\ LET gone == {i \in inodes : d[i] = None}
           IN /\ file' = [file EXCEPT ![a] =
                            [i \in DOMAIN @ \ gone |->
                               IF i \in inodes THEN [@[i] EXCEPT !.peer[q] = None, !.default = d[i]]
                               ELSE @[i]]]
              /\ dirs' = [dirs EXCEPT ![a] =
                            WithoutEntries(@, {<<file[a][i].parent, i>> : i \in gone})]
        /\ dirtied' = {<<a, file[a][i].path>> : i \in {j \in inodes : d[j] # file[a][j].default}}
  BY DEF RmFileEntries
<1> DEFINE gone == {i \in inodes : d[i] = None}
           out == {<<file[a][i].parent, i>> : i \in gone}
           tab == dirs[a]
           tab2 == WithoutEntries(tab, out)
           New(i) == IF i \in inodes THEN [file[a][i] EXCEPT !.peer[q] = None, !.default = d[i]]
                     ELSE file[a][i]
<1>2. DOMAIN dirs = Arena /\ DOMAIN file = Arena /\ TablesInv
  BY DEF PathInv, TablesInv, ShapeOK
<1>3. dirs' = [dirs EXCEPT ![a] = tab2] /\ file' = [file EXCEPT ![a] = [i \in DOMAIN file[a] \ gone |-> New(i)]]
  BY <1>1
<1>4. dirs'[a] = tab2 /\ file'[a] = [i \in DOMAIN file[a] \ gone |-> New(i)]
  <2> HIDE DEF tab2, New
  <2>1. QED
    BY <1>2, <1>3
<1>5. tab2 = [k \in {x \in DOMAIN tab : <<x[1], tab[x].inode>> \notin out} |-> tab[k]]
  BY DEF WithoutEntries, RestrictDomain, Restrict
<1>6. Extends(tab2, tab)
  BY <1>5 DEF Extends
<1>7. Unique(tab) /\ ParentOK(a)
  BY <1>2, ArenaEntries DEF PathInv
<1>8. ASSUME NEW k \in DOMAIN tab PROVE k \in DOMAIN tab2 <=> tab[k].inode \notin gone
  <2>1. k \in DOMAIN tab2 <=> <<k[1], tab[k].inode>> \notin out
    BY <1>5
  <2>2. ASSUME <<k[1], tab[k].inode>> \in out PROVE tab[k].inode \in gone
    BY <2>2
  <2>3. ASSUME tab[k].inode \in gone PROVE <<k[1], tab[k].inode>> \in out
    <3> DEFINE j == tab[k].inode
    <3>1. j \in gone /\ j \in DOMAIN file[a]
      BY <2>3
    <3>2. PICK l \in DOMAIN tab : l[1] = file[a][j].parent /\ tab[l].inode = j
      BY <1>7, <3>1 DEF ParentOK
    <3>3. l = k
      BY <1>7, <3>2 DEF Unique
    <3>4. QED
      BY <3>1, <3>2, <3>3
  <2>4. QED
    BY <2>1, <2>2, <2>3
<1> HIDE DEF tab2, out
<1>9. ASSUME NEW i \in DOMAIN file[a] \ gone
      PROVE  /\ New(i).path = file[a][i].path /\ New(i).parent = file[a][i].parent
             /\ i \in inodes => New(i).peer = [file[a][i].peer EXCEPT ![q] = None] /\ New(i).default = d[i]
             /\ i \notin inodes => New(i) = file[a][i]
  <2>1. file[a][i] \in FileRecord
    BY <1>2, FileType
  <2>2. CASE i \in inodes
    <3> DEFINE p == [file[a][i].peer EXCEPT ![q] = None]
               r1 == [file[a][i] EXCEPT !.peer = p]
    <3>1. New(i) = [r1 EXCEPT !.default = d[i]]
      BY <2>2
    <3> HIDE DEF p
    <3>2. /\ r1.path = file[a][i].path /\ r1.parent = file[a][i].parent /\ r1.peer = p
          /\ DOMAIN r1 = {"path", "parent", "default", "peer"}
      BY <2>1 DEF FileRecord
    <3> HIDE DEF r1, New
    <3>3. New(i).path = r1.path /\ New(i).parent = r1.parent /\ New(i).peer = r1.peer /\ New(i).default = d[i]
      BY <3>1, <3>2
    <3>4. QED
      BY <2>2, <3>2, <3>3 DEF p
  <2>3. CASE i \notin inodes
    BY <2>3
  <2>4. QED
    BY <2>2, <2>3
<1>10. gone = {i \in inodes : d[i] = None}
  OBVIOUS
<1> HIDE DEF New, gone
<1>11. /\ DOMAIN file'[a] = DOMAIN file[a] \ gone
       /\ \A i \in DOMAIN file[a] \ gone : file'[a][i] = New(i)
  BY <1>4
<1>12. RmDone(a, q, inodes, d, gone)
  <2>1. \A i \in DOMAIN file[a] \ gone :
          /\ file'[a][i].path = file[a][i].path /\ file'[a][i].parent = file[a][i].parent
          /\ i \in inodes => /\ file'[a][i].peer = [file[a][i].peer EXCEPT ![q] = None]
                             /\ file'[a][i].default = d[i]
          /\ i \notin inodes => file'[a][i] = file[a][i]
    BY <1>9, <1>11
  <2>2. Extends(dirs'[a], dirs[a]) /\ \A k \in DOMAIN dirs[a] : k \in DOMAIN dirs'[a] <=> dirs[a][k].inode \notin gone
    BY <1>4, <1>6, <1>8
  <2>3. dirtied' = {<<a, file[a][i].path>> : i \in {j \in inodes : d[j] # file[a][j].default}}
    BY <1>1
  <2>4. d \in [inodes -> Hash \cup {None}] /\ \A i \in inodes : d[i] \in NextDefaults(file[a][i], q)
    BY <1>1
  <2>5. QED
    BY <1>10, <1>11, <2>1, <2>2, <2>3, <2>4, Zenon DEF RmDone
<1>13. QED
  BY <1>12

\* The entry of a file is one of kind File.
LEMMA FileEntry ==
  ASSUME NEW tab, NEW root, NEW files, FilesTree(tab, root, files),
         NEW k \in DOMAIN tab, tab[k].inode \in DOMAIN files
  PROVE  tab[k].kind = "File"
<1> DEFINE j == tab[k].inode
           p == files[j].path
<1>1. p \in Path /\ Walk(tab, root, p) = [inode |-> j, kind |-> "File"]
  BY DEF FilesTree, FileRecord
<1>2. Entries(tab) /\ Unique(tab) /\ root \in Nat
  BY DEF FilesTree
<1> HIDE DEF p
<1>3. Walk(tab, root, p).kind = "File" /\ Len(p) \in Nat
  BY <1>1, PathLen
<1>4. PICK l \in DOMAIN tab : tab[l] = Walk(tab, root, p)
  BY <1>2, <1>3, WalkEntry
<1>5. l = k
  BY <1>1, <1>2, <1>4 DEF Unique
<1>6. QED
  BY <1>3, <1>4, <1>5

\* The paths of files are those that are left.
LEMMA RmWalk ==
  ASSUME PathInv, TablesInv', NEW a \in Arena, arenaTable' = arenaTable,
         NEW q, NEW inodes \in SUBSET DOMAIN file[a], NEW d, NEW gone, RmDone(a, q, inodes, d, gone),
         NEW p \in Path
  PROVE  Walk(dirs'[a], arenaTable[a], p).kind = "File" <=>
           Walk(dirs[a], arenaTable[a], p).kind = "File" /\ Walk(dirs[a], arenaTable[a], p).inode \notin gone
<1> DEFINE tab == dirs[a]
           tab2 == dirs'[a]
           root == arenaTable[a]
<1>1. FilesTree(tab, root, file[a]) /\ FilesTree(tab2, root, file'[a])
  BY FilesTreeNow, FilesTreeNext DEF PathInv
<1>2. Entries(tab) /\ Entries(tab2) /\ root \in Nat /\ Len(p) \in Nat
  BY <1>1, PathLen DEF FilesTree
<1>3. /\ Extends(tab2, tab) /\ gone \subseteq DOMAIN file[a]
      /\ \A k \in DOMAIN tab : k \in DOMAIN tab2 <=> tab[k].inode \notin gone
  BY DEF RmDone
<1> HIDE DEF tab, tab2, root
<1>4. ASSUME Walk(tab2, root, p).kind = "File"
      PROVE  Walk(tab, root, p).kind = "File" /\ Walk(tab, root, p).inode \notin gone
  <2>1. SameWay(tab2, tab, Walk(tab2, root, p))
    BY <1>3 DEF SameWay, Extends
  <2>2. Walk(tab, root, p) = Walk(tab2, root, p)
    BY <1>2, <1>4, <2>1, WalkSame
  <2>3. PICK k \in DOMAIN tab2 : tab2[k] = Walk(tab2, root, p)
    BY <1>2, <1>4, WalkEntry
  <2>4. k \in DOMAIN tab /\ tab[k] = tab2[k]
    BY <1>3, <2>3 DEF Extends
  <2>5. QED
    BY <1>3, <1>4, <2>2, <2>3, <2>4
<1>5. ASSUME Walk(tab, root, p).kind = "File", Walk(tab, root, p).inode \notin gone
      PROVE  Walk(tab2, root, p).kind = "File"
  <2>1. ASSUME NEW k \in DOMAIN tab, tab[k].kind = "Dir" \/ tab[k] = Walk(tab, root, p)
        PROVE  k \in DOMAIN tab2 /\ tab2[k] = tab[k]
    <3>1. tab[k].inode \notin gone
      <4>1. tab[k].inode \in gone => tab[k].kind = "File"
        BY <1>1, <1>3, FileEntry
      <4>2. QED
        BY <1>5, <2>1, <4>1
    <3>2. QED
      BY <1>3, <3>1 DEF Extends
  <2>2. SameWay(tab, tab2, Walk(tab, root, p))
    BY <2>1 DEF SameWay
  <2>3. QED
    BY <1>2, <1>5, <2>2, WalkSame
<1>6. QED
  BY <1>4, <1>5 DEF tab, tab2, root

\* What others than q have.
Others(peer, q) == {peer[r] : r \in Peer \ {q}} \ {None}

\* A file is gone when nobody else has a version of it.
LEMMA GoneIffLast ==
  ASSUME NEW a \in Arena, NEW q, NEW inodes, NEW d, NEW gone, RmDone(a, q, inodes, d, gone), NEW i \in inodes
  PROVE  /\ i \in gone <=> Others(file[a][i].peer, q) = {}
         /\ d[i] \in (IF Others(file[a][i].peer, q) = {} THEN {None}
                      ELSE IF file[a][i].default \in Others(file[a][i].peer, q) THEN {file[a][i].default}
                      ELSE Others(file[a][i].peer, q))
         /\ d[i] \in Hash \cup {None}
<1>1. /\ d[i] \in NextDefaults(file[a][i], q) /\ gone = {j \in inodes : d[j] = None}
      /\ d[i] \in Hash \cup {None}
  BY DEF RmDone
<1>2. d[i] \in (IF Others(file[a][i].peer, q) = {} THEN {None}
                ELSE IF file[a][i].default \in Others(file[a][i].peer, q) THEN {file[a][i].default}
                ELSE Others(file[a][i].peer, q))
  BY <1>1 DEF NextDefaults, Others
<1>3. None \notin Others(file[a][i].peer, q)
  BY DEF Others
<1>4. QED
  BY <1>1, <1>2, <1>3

\* What is known of the files of a path, after do_rm_file_entry.
LEMMA RmView ==
  ASSUME PathInv, TablesInv', NEW a \in Arena, arenaTable' = arenaTable,
         NEW q \in Peer, NEW inodes \in SUBSET DOMAIN file[a], NEW d, NEW gone, RmDone(a, q, inodes, d, gone)
  PROVE  /\ \A p \in Path : With(file'[a], p) = With(file[a], p) \ gone
         /\ \A i \in inodes :
              /\ EntryOf(file'[a], file[a][i].path) = [EntryOf(file[a], file[a][i].path) EXCEPT ![q] = None]
              /\ DefaultOf(file'[a], file[a][i].path) = d[i]
         /\ \A p \in Path \ {file[a][i].path : i \in inodes} :
              /\ EntryOf(file'[a], p) = EntryOf(file[a], p)
              /\ DefaultOf(file'[a], p) = DefaultOf(file[a], p)
<1> DEFINE files == file[a]
           files2 == file'[a]
<1>1. /\ gone = {i \in inodes : d[i] = None}
      /\ DOMAIN files2 = DOMAIN files \ gone
      /\ \A i \in DOMAIN files \ gone :
           /\ files2[i].path = files[i].path
           /\ i \in inodes => files2[i].peer = [files[i].peer EXCEPT ![q] = None] /\ files2[i].default = d[i]
           /\ i \notin inodes => files2[i] = files[i]
  BY DEF RmDone
<1>2. OnePath(files) /\ OnePath(files2) /\ \A i \in DOMAIN files : files[i] \in FileRecord
  <2>1. FilesTree(dirs[a], arenaTable[a], file[a]) /\ FilesTree(dirs'[a], arenaTable'[a], file'[a])
    BY FilesTreeNow, FilesTreeNext DEF PathInv
  <2>2. QED
    BY <2>1, FileOfPath DEF FilesTree
<1>3. \A i \in inodes : i \in gone <=> Others(files[i].peer, q) = {}
  BY GoneIffLast
<1> HIDE DEF files, files2
<1>4. ASSUME NEW p \in Path PROVE With(files2, p) = With(files, p) \ gone
  BY <1>1 DEF With
<1>5. ASSUME NEW i \in inodes
      PROVE  /\ EntryOf(files2, files[i].path) = [EntryOf(files, files[i].path) EXCEPT ![q] = None]
             /\ DefaultOf(files2, files[i].path) = d[i]
  <2> DEFINE p == files[i].path
  <2>0. i \in DOMAIN files /\ p \in Path
    <3>1. i \in DOMAIN files
      BY DEF files
    <3>2. QED
      BY <1>2, <3>1 DEF FileRecord
  <2>1. With(files, p) = {i} /\ EntryOf(files, p) = files[i].peer
    BY <1>2, <2>0, FileHit
  <2>2. CASE i \in gone
    <3>1. With(files2, p) = {}
      BY <1>4, <2>0, <2>1, <2>2
    <3>2. EntryOf(files2, p) = [r \in Peer |-> None] /\ DefaultOf(files2, p) = None
      BY <3>1, FileMiss
    <3>d. d[i] = None
      BY <1>1, <2>2
    <3>3. [files[i].peer EXCEPT ![q] = None] = [r \in Peer |-> None]
      <4>0. Others(files[i].peer, q) = {}
        BY <1>3, <2>2
      <4>1. ASSUME NEW r \in Peer \ {q} PROVE files[i].peer[r] = None
        <5> DEFINE h == files[i].peer[r]
        <5>1. h \in {files[i].peer[s] : s \in Peer \ {q}}
          OBVIOUS
        <5> HIDE DEF h
        <5>2. h = None
          BY <4>0, <5>1 DEF Others
        <5>3. QED
          BY <5>2 DEF h
      <4>2. files[i].peer \in [Peer -> Hash \cup {None}]
        BY <1>2, <2>0 DEF FileRecord
      <4>3. QED
        BY <4>1, <4>2
    <3>4. QED
      BY <2>1, <3>2, <3>3, <3>d
  <2>3. CASE i \notin gone
    <3>1. /\ i \in DOMAIN files2 /\ files2[i].path = p
          /\ files2[i].peer = [files[i].peer EXCEPT ![q] = None] /\ files2[i].default = d[i]
      BY <1>1, <2>0, <2>3
    <3>2. EntryOf(files2, p) = files2[i].peer /\ DefaultOf(files2, p) = files2[i].default
      BY <1>2, <3>1, FileHit
    <3>3. QED
      BY <2>1, <3>1, <3>2
  <2>4. QED
    BY <2>2, <2>3
<1>6. ASSUME NEW p \in Path, p \notin {files[i].path : i \in inodes}
      PROVE  EntryOf(files2, p) = EntryOf(files, p) /\ DefaultOf(files2, p) = DefaultOf(files, p)
  <2>1. CASE With(files, p) = {}
    <3>1. With(files2, p) = {}
      BY <1>4, <2>1
    <3>2. QED
      BY <2>1, <3>1, FileMiss
  <2>2. CASE With(files, p) # {}
    <3>1. PICK j : j \in With(files, p)
      BY <2>2
    <3>2. j \in DOMAIN files /\ files[j].path = p /\ j \notin inodes
      BY <1>6, <3>1 DEF With
    <3>3. j \in DOMAIN files2 /\ files2[j] = files[j] /\ files2[j].path = p
      BY <1>1, <3>2
    <3>4. EntryOf(files, p) = files[j].peer /\ DefaultOf(files, p) = files[j].default
      BY <1>2, <3>2, FileHit
    <3>5. EntryOf(files2, p) = files2[j].peer /\ DefaultOf(files2, p) = files2[j].default
      BY <1>2, <3>3, FileHit
    <3>6. QED
      BY <3>3, <3>4, <3>5
  <2>3. QED
    BY <2>1, <2>2
<1>7. QED
  BY <1>4, <1>5, <1>6 DEF files, files2

\* The marks and the files of an arena, after do_rm_file_entry.
LEMMA RmTables ==
  ASSUME PathInv, NEW a \in Arena, NEW q, NEW inodes \in SUBSET DOMAIN file[a], NEW d, NEW gone,
         RmDone(a, q, inodes, d, gone), pending'[a] \subseteq pending[a], range' = range
  PROVE  ParentOK(a)' /\ PendingOK(a)'
<1>1. /\ DOMAIN file'[a] = DOMAIN file[a] \ gone
      /\ \A i \in DOMAIN file[a] \ gone : file'[a][i].parent = file[a][i].parent
      /\ Extends(dirs'[a], dirs[a])
      /\ \A k \in DOMAIN dirs[a] : k \in DOMAIN dirs'[a] <=> dirs[a][k].inode \notin gone
  BY DEF RmDone
<1>2. ParentOK(a) /\ PendingOK(a)
  BY DEF PathInv
<1>3. ASSUME NEW i \in DOMAIN file'[a]
      PROVE  \E k \in DOMAIN dirs'[a] : k[1] = file'[a][i].parent /\ dirs'[a][k].inode = i
  <2>1. i \in DOMAIN file[a] /\ i \notin gone /\ file'[a][i].parent = file[a][i].parent
    BY <1>1
  <2>2. PICK k \in DOMAIN dirs[a] : k[1] = file[a][i].parent /\ dirs[a][k].inode = i
    BY <1>2, <2>1 DEF ParentOK
  <2>3. k \in DOMAIN dirs'[a]
    BY <1>1, <2>1, <2>2
  <2>4. dirs'[a][k] = dirs[a][k]
    BY <1>1, <2>3 DEF Extends
  <2>5. QED
    BY <2>1, <2>2, <2>3, <2>4
<1>4. ASSUME NEW m \in pending'[a]
      PROVE  /\ m[2] \in Nat /\ m[2] <= range'[a][1]
             /\ \A k \in DOMAIN dirs'[a] : dirs'[a][k].inode = m[2] => m[2] \in DOMAIN file'[a]
  <2>1. m \in pending[a]
    OBVIOUS
  <2>2. m[2] \in Nat /\ m[2] <= range'[a][1]
    BY <1>2, <2>1 DEF PendingOK
  <2>3. ASSUME NEW k \in DOMAIN dirs'[a], dirs'[a][k].inode = m[2] PROVE m[2] \in DOMAIN file'[a]
    <3>1. k \in DOMAIN dirs[a] /\ dirs[a][k].inode = m[2]
      BY <1>1, <2>3 DEF Extends
    <3>2. m[2] \in DOMAIN file[a]
      BY <1>2, <2>1, <3>1 DEF PendingOK
    <3>3. m[2] \notin gone
      BY <1>1, <2>3, <3>1
    <3>4. QED
      BY <1>1, <3>2, <3>3
  <2>4. QED
    BY <2>2, <2>3
<1>5. QED
  BY <1>3, <1>4 DEF ParentOK, PendingOK

\* The paths of files.
PathsOf(a, inodes) == {file[a][i].path : i \in inodes}

\* The paths of files that are gone are those nobody else has a version of.
LEMMA RmLast ==
  ASSUME PathInv, NEW a \in Arena, NEW q \in Peer, NEW inodes \in SUBSET DOMAIN file[a],
         NEW d, NEW gone, RmDone(a, q, inodes, d, gone), NEW ps, ps = PathsOf(a, inodes)
  PROVE  /\ \A i \in inodes : PathCache(a)!OtherVersions(q, file[a][i].path) = Others(file[a][i].peer, q)
         /\ PathCache(a)!LastVersion(q, ps) = {file[a][i].path : i \in gone}
         /\ \A p \in Path : \A j \in With(file[a], p) : j \in gone <=> p \in PathCache(a)!LastVersion(q, ps)
         /\ ps \subseteq Path
<1> DEFINE files == file[a]
           last == PathCache(a)!LastVersion(q, ps)
<1>0. gone \subseteq inodes /\ inodes \subseteq DOMAIN files
  BY DEF RmDone
<1>1. FilesTree(dirs[a], arenaTable[a], files)
  BY FilesTreeNow DEF PathInv
<1>2. OnePath(files) /\ \A i \in DOMAIN files : files[i] \in FileRecord
  BY <1>1, FileOfPath DEF FilesTree
<1>3. PathEntry(a) = [p \in Path |-> EntryOf(files, p)]
  BY <1>1, ViewNow
<1>4. ASSUME NEW i \in inodes
      PROVE  PathCache(a)!OtherVersions(q, files[i].path) = Others(files[i].peer, q) /\ files[i].path \in Path
  <2>1. i \in DOMAIN files /\ files[i].path \in Path
    BY <1>0, <1>2 DEF FileRecord
  <2>2. EntryOf(files, files[i].path) = files[i].peer
    BY <1>2, <2>1, FileHit
  <2>3. PathEntry(a)[files[i].path] = files[i].peer
    BY <1>3, <2>1, <2>2
  <2>4. QED
    BY <2>1, <2>3 DEF PathCache!OtherVersions, Others
<1>5. \A i \in inodes : i \in gone <=> Others(files[i].peer, q) = {}
  BY GoneIffLast
<1>6. last = {p \in ps : PathCache(a)!OtherVersions(q, p) = {}}
  BY DEF PathCache!LastVersion
<1> HIDE DEF last, files
<1>7. ASSUME NEW p PROVE p \in last <=> \E i \in gone : p = files[i].path
  <2>1. ASSUME p \in last PROVE \E i \in gone : p = files[i].path
    <3>1. PICK i \in inodes : p = files[i].path
      BY <1>6, <2>1 DEF files, PathsOf
    <3>2. PathCache(a)!OtherVersions(q, p) = {}
      BY <1>6, <2>1
    <3>3. i \in gone
      BY <1>4, <1>5, <3>1, <3>2
    <3>4. QED
      BY <3>1, <3>3
  <2>2. ASSUME NEW i \in gone, p = files[i].path PROVE p \in last
    <3>1. i \in inodes /\ p \in ps
      BY <1>0, <2>2 DEF files, PathsOf
    <3>2. PathCache(a)!OtherVersions(q, p) = {}
      BY <1>4, <1>5, <2>2, <3>1
    <3>3. QED
      BY <1>6, <3>1, <3>2
  <2>3. QED
    BY <2>1, <2>2
<1>8. last = {files[i].path : i \in gone}
  BY <1>7
<1>9. ASSUME NEW p \in Path, NEW j \in With(files, p) PROVE j \in gone <=> p \in last
  <2>1. j \in DOMAIN files /\ files[j].path = p
    BY DEF With
  <2>2. ASSUME p \in last PROVE j \in gone
    <3>1. PICK i \in gone : p = files[i].path
      BY <1>7, <2>2
    <3>2. i \in DOMAIN files
      BY <1>0
    <3>3. i = j
      BY <1>2, <2>1, <3>1, <3>2 DEF OnePath
    <3>4. QED
      BY <3>3
  <2>3. QED
    BY <1>7, <2>1, <2>2
<1>10. ps \subseteq Path
  BY <1>4 DEF files, PathsOf
<1>11. QED
  BY <1>4, <1>8, <1>9, <1>10 DEF files, last

\* Seen by path, do_rm_file_entry is ArenaCache's.
LEMMA RmUpdate ==
  ASSUME PathInv, TablesInv', NEW a \in Arena, arenaTable' = arenaTable,
         NEW q \in Peer, NEW inodes \in SUBSET DOMAIN file[a], NEW d, NEW gone, RmDone(a, q, inodes, d, gone),
         NEW ps, ps = PathsOf(a, inodes)
  PROVE  /\ PathCache(a)!RmFileEntries(q, ps)
         /\ \A r \in Peer, p \in Path :
              (\E j \in With(file'[a], p) : <<r, j>> \in pending[a]) <=>
                <<r, p>> \in PathMarked(a) /\ p \notin PathCache(a)!LastVersion(q, ps)
<1>0. TablesInv
  BY DEF PathInv
<1>1. FilesTree(dirs[a], arenaTable[a], file[a]) /\ FilesTree(dirs'[a], arenaTable'[a], file'[a])
  BY <1>0, FilesTreeNow, FilesTreeNext
<1>2. /\ PathEntry(a) = [p \in Path |-> EntryOf(file[a], p)]
      /\ PathEntry(a)' = [p \in Path |-> EntryOf(file'[a], p)]
      /\ PathDefault(a) = [p \in Path |-> DefaultOf(file[a], p)]
      /\ PathDefault(a)' = [p \in Path |-> DefaultOf(file'[a], p)]
      /\ PathMarked(a) = {m \in Peer \X Path : \E i \in With(file[a], m[2]) : <<m[1], i>> \in pending[a]}
  BY <1>1, ViewNow, ViewNext
<1>3. /\ \A i \in inodes : PathCache(a)!OtherVersions(q, file[a][i].path) = Others(file[a][i].peer, q)
      /\ PathCache(a)!LastVersion(q, ps) = {file[a][i].path : i \in gone}
      /\ \A p \in Path : \A j \in With(file[a], p) : j \in gone <=> p \in PathCache(a)!LastVersion(q, ps)
      /\ ps \subseteq Path
  BY RmLast
<1> DEFINE last == PathCache(a)!LastVersion(q, ps)
<1>4. /\ \A p \in Path : With(file'[a], p) = With(file[a], p) \ gone
      /\ \A i \in inodes :
           /\ EntryOf(file'[a], file[a][i].path) = [EntryOf(file[a], file[a][i].path) EXCEPT ![q] = None]
           /\ DefaultOf(file'[a], file[a][i].path) = d[i]
      /\ \A p \in Path \ ps : /\ EntryOf(file'[a], p) = EntryOf(file[a], p)
                              /\ DefaultOf(file'[a], p) = DefaultOf(file[a], p)
  <2>1. PathsOf(a, inodes) = {file[a][i].path : i \in inodes}
    BY DEF PathsOf
  <2>2. QED
    BY <2>1, RmView
<1>5. PathEntry(a)' = [p \in Path |-> IF p \in ps THEN [PathEntry(a)[p] EXCEPT ![q] = None] ELSE PathEntry(a)[p]]
  <2>1. ASSUME NEW p \in Path
        PROVE  EntryOf(file'[a], p) = IF p \in ps THEN [PathEntry(a)[p] EXCEPT ![q] = None] ELSE PathEntry(a)[p]
    <3>1. PathEntry(a)[p] = EntryOf(file[a], p)
      BY <1>2
    <3>2. CASE p \in ps
      <4>1. PICK i \in inodes : p = file[a][i].path
        BY <3>2 DEF PathsOf
      <4>2. QED
        BY <1>4, <3>1, <3>2, <4>1
    <3>3. CASE p \notin ps
      BY <1>4, <3>1, <3>3
    <3>4. QED
      BY <3>2, <3>3
  <2>2. QED
    BY <1>2, <2>1
<1>6. ASSUME NEW p \in Path
      PROVE  /\ PathDefault(a)'[p] \in Hash \cup {None}
             /\ IF p \in ps THEN PathDefault(a)'[p] \in PathCache(a)!NextDefaults(q, p)
                ELSE PathDefault(a)'[p] = PathDefault(a)[p]
  <2>1. PathDefault(a)[p] = DefaultOf(file[a], p) /\ PathDefault(a)'[p] = DefaultOf(file'[a], p)
    BY <1>2
  <2>2. DefaultOf(file[a], p) \in Hash \cup {None}
    <3>1. CASE With(file[a], p) = {}
      BY <3>1, FileMiss
    <3>2. CASE With(file[a], p) # {}
      <4>1. PICK j : j \in With(file[a], p)
        BY <3>2
      <4>2. j \in DOMAIN file[a] /\ file[a][j].path = p
        BY <4>1 DEF With
      <4>3. DefaultOf(file[a], p) = file[a][j].default
        BY <1>1, <4>2, FileOfPath, FileHit
      <4>4. file[a][j] \in FileRecord
        BY <1>0, <4>2, FileType
      <4>5. QED
        BY <4>3, <4>4 DEF FileRecord
    <3>3. QED
      BY <3>1, <3>2
  <2>3. CASE p \in ps
    <3>1. PICK i \in inodes : p = file[a][i].path
      BY <2>3 DEF PathsOf
    <3>2. DefaultOf(file'[a], p) = d[i]
      BY <1>4, <3>1
    <3>3. /\ d[i] \in (IF Others(file[a][i].peer, q) = {} THEN {None}
                       ELSE IF file[a][i].default \in Others(file[a][i].peer, q) THEN {file[a][i].default}
                       ELSE Others(file[a][i].peer, q))
          /\ d[i] \in Hash \cup {None}
      BY GoneIffLast
    <3>4. DefaultOf(file[a], p) = file[a][i].default
      BY <1>1, <3>1, FileOfPath, FileHit
    <3>5. PathCache(a)!OtherVersions(q, p) = Others(file[a][i].peer, q)
      BY <1>3, <3>1
    <3>6. PathCache(a)!NextDefaults(q, p) =
            (IF Others(file[a][i].peer, q) = {} THEN {None}
             ELSE IF file[a][i].default \in Others(file[a][i].peer, q) THEN {file[a][i].default}
             ELSE Others(file[a][i].peer, q))
      BY <2>1, <3>4, <3>5 DEF PathCache!NextDefaults
    <3>7. QED
      BY <2>1, <2>3, <3>2, <3>3, <3>6
  <2>4. CASE p \notin ps
    BY <1>4, <2>1, <2>2, <2>4
  <2>5. QED
    BY <2>3, <2>4
<1>7. PathDir(a)' = PathDir(a) \ last
  <2>1. /\ PathDir(a) = {p \in Path : Walk(dirs[a], arenaTable[a], p).kind = "File"}
        /\ PathDir(a)' = {p \in Path : Walk(dirs'[a], arenaTable[a], p).kind = "File"}
    BY DEF PathDir, LookupPath
  <2>2. ASSUME NEW p \in Path, Walk(dirs[a], arenaTable[a], p).kind = "File"
        PROVE  Walk(dirs[a], arenaTable[a], p).inode \in gone <=> p \in last
    <3> DEFINE j == Walk(dirs[a], arenaTable[a], p).inode
    <3>0. gone \subseteq DOMAIN file[a]
      BY DEF RmDone
    <3>1. ASSUME j \in gone PROVE p \in last
      <4>1. j \in With(file[a], p)
        BY <1>1, <2>2, <3>0, <3>1, FileOfPath
      <4>2. QED
        BY <1>3, <3>1, <4>1
    <3>2. ASSUME p \in last PROVE j \in gone
      <4>1. PICK i \in gone : p = file[a][i].path
        BY <1>3, <3>2
      <4>2. i \in With(file[a], p)
        BY <3>0, <4>1 DEF With
      <4>3. j = i
        BY <1>1, <4>2, FileOfPath
      <4>4. QED
        BY <4>3
    <3>3. QED
      BY <3>1, <3>2
  <2>3. \A p \in Path :
          Walk(dirs'[a], arenaTable[a], p).kind = "File" <=>
            Walk(dirs[a], arenaTable[a], p).kind = "File" /\ Walk(dirs[a], arenaTable[a], p).inode \notin gone
    BY RmWalk
  <2> HIDE DEF last
  <2>4. QED
    BY <2>1, <2>2, <2>3
<1>8. PathCache(a)!RmFileEntries(q, ps)
  <2>1. PathDefault(a)' \in [Path -> Hash \cup {None}]
    <3>1. PathDefault(a)' = [p \in Path |-> PathDefault(a)'[p]]
      BY <1>2
    <3>2. QED
      BY <1>6, <3>1
  <2>2. PathDefault(a)' \in {x \in [Path -> Hash \cup {None}] :
          \A p \in Path : IF p \in ps THEN x[p] \in PathCache(a)!NextDefaults(q, p) ELSE x[p] = PathDefault(a)[p]}
    BY <1>6, <2>1
  <2>3. QED
    BY <1>5, <1>7, <2>2 DEF PathCache!RmFileEntries
<1>9. ASSUME NEW r \in Peer, NEW p \in Path
      PROVE  (\E j \in With(file'[a], p) : <<r, j>> \in pending[a]) <=> <<r, p>> \in PathMarked(a) /\ p \notin last
  <2>1. <<r, p>> \in PathMarked(a) <=> \E j \in With(file[a], p) : <<r, j>> \in pending[a]
    BY <1>2
  <2>2. With(file'[a], p) = With(file[a], p) \ gone /\ \A j \in With(file[a], p) : j \in gone <=> p \in last
    BY <1>3, <1>4
  <2> HIDE DEF last
  <2>3. QED
    BY <2>1, <2>2
<1>10. QED
  BY <1>8, <1>9

\* What is known of a file of an arena, by its path.
LEMMA EntryAt ==
  ASSUME PathInv, NEW a \in Arena, NEW i \in DOMAIN file[a]
  PROVE  /\ file[a][i].path \in Path /\ PathEntry(a)[file[a][i].path] = file[a][i].peer
         /\ With(file[a], file[a][i].path) = {i}
<1>1. FilesTree(dirs[a], arenaTable[a], file[a])
  BY FilesTreeNow DEF PathInv
<1>2. file[a][i] \in FileRecord
  BY <1>1 DEF FilesTree
<1>3. file[a][i].path \in Path
  BY <1>2 DEF FileRecord
<1>4. EntryOf(file[a], file[a][i].path) = file[a][i].peer /\ With(file[a], file[a][i].path) = {i}
  BY <1>1, FileOfPath, FileHit
<1>5. PathEntry(a) = [p \in Path |-> EntryOf(file[a], p)]
  BY <1>1, ViewNow
<1>6. QED
  BY <1>3, <1>4, <1>5

\* A path with a version of a peer has a file.
LEMMA EntryFile ==
  ASSUME PathInv, NEW a \in Arena, NEW p \in Path, NEW q \in Peer, PathEntry(a)[p][q] # None
  PROVE  \E i \in DOMAIN file[a] : file[a][i].path = p
<1>1. FilesTree(dirs[a], arenaTable[a], file[a])
  BY FilesTreeNow DEF PathInv
<1>2. PathEntry(a)[p] = EntryOf(file[a], p)
  BY <1>1, ViewNow
<1>3. With(file[a], p) # {}
  BY <1>2 DEF EntryOf
<1>4. QED
  BY <1>3 DEF With

LEMMA SeenAt ==
  ASSUME TablesInv, NEW a \in Arena, NEW q \in Peer, NEW n, LastSeen(a, q, n), n.kind # "Catchup"
  PROVE  seen'[a] = [seen[a] EXCEPT ![q] = n.index]
<1>1. seen \in [Arena -> [Peer -> 0..MaxHistory]]
  BY DEF TablesInv, TypeOK
<1>2. QED
  BY <1>1 DEF LastSeen

LEMMA TakeUpdate ==
  ASSUME PathInv, TablesInv', NEW a \in Arena, NEW q \in Peer, NEW n \in Incoming,
         n.kind \in Taken, Take(a, q, n), arenaTable' = arenaTable
  PROVE  PathCache(a)!Update(q, n) /\ ParentOK(a)' /\ PendingOK(a)'
<1> DEFINE e == LookupPath(a, n.path)
           inodes == {i \in {e.inode} \cap DOMAIN file[a] : file[a][i].peer[q] = n.old}
           ps == PathsOf(a, inodes)
<1>1. n.path \in Path /\ n.old \in Hash /\ n.old # None /\ n.kind # "Catchup" /\ TablesInv
  BY IncomingFields, NoneAssumption DEF Taken, PathInv
<1>2. /\ e.kind = "File" /\ RmFileEntries(a, q, inodes)
      /\ LastSeen(a, q, n) /\ UNCHANGED <<ranges, range, pending, known>>
  BY DEF Take
<1>3. inodes \in SUBSET DOMAIN file[a]
  OBVIOUS
<1>4. ASSUME NEW p PROVE p \in ps <=> p \in PathCache(a)!Unlinked(q, n)
  <2>1. p \in PathCache(a)!Unlinked(q, n) <=> p = n.path /\ PathEntry(a)[p][q] = n.old
    BY DEF PathCache!Unlinked
  <2>2. ASSUME NEW i \in inodes PROVE file[a][i].path = n.path /\ PathEntry(a)[n.path][q] = n.old
    <3>1. i \in DOMAIN file[a] /\ i = e.inode /\ file[a][i].peer[q] = n.old
      OBVIOUS
    <3>2. FilesTree(dirs[a], arenaTable[a], file[a])
      BY <1>1, FilesTreeNow
    <3>3. i \in With(file[a], n.path)
      BY <1>1, <1>2, <3>1, <3>2, FileOfPath DEF LookupPath
    <3>4. file[a][i].path = n.path
      BY <3>3 DEF With
    <3>5. QED
      BY <3>1, <3>4, EntryAt
  <2>3. ASSUME p = n.path, PathEntry(a)[n.path][q] = n.old PROVE p \in ps
    <3>1. PICK i \in DOMAIN file[a] : file[a][i].path = n.path
      BY <1>1, <2>3, EntryFile
    <3>2. FilesTree(dirs[a], arenaTable[a], file[a])
      BY <1>1, FilesTreeNow
    <3>3. i = e.inode
      <4>1. i \in With(file[a], n.path)
        BY <3>1 DEF With
      <4>2. QED
        BY <1>1, <3>2, <4>1, FileOfPath DEF LookupPath
    <3>4. file[a][i].peer[q] = n.old
      BY <2>3, <3>1, EntryAt
    <3>5. i \in inodes
      BY <3>1, <3>3, <3>4
    <3>6. QED
      BY <2>3, <3>1, <3>5 DEF PathsOf
  <2>4. ASSUME p \in ps PROVE p = n.path /\ PathEntry(a)[n.path][q] = n.old
    <3> HIDE DEF inodes
    <3>1. PICK i \in inodes : p = file[a][i].path
      BY <2>4 DEF PathsOf
    <3>2. QED
      BY <2>2, <3>1
  <2>5. QED
    BY <2>1, <2>3, <2>4
<1> HIDE DEF inodes, e
<1>5. PICK d, gone : RmDone(a, q, inodes, d, gone)
  BY <1>2, <1>3, RmFiles
<1>6. ParentOK(a)' /\ PendingOK(a)'
  <2>1. pending'[a] \subseteq pending[a] /\ range' = range
    BY <1>2
  <2>2. QED
    BY <1>3, <1>5, <2>1, RmTables
<1>7. ps = PathCache(a)!Unlinked(q, n)
  <2> HIDE DEF ps
  <2>1. QED
    BY <1>4
<1>8. /\ PathCache(a)!RmFileEntries(q, ps)
      /\ \A r \in Peer, p \in Path :
           (\E j \in With(file'[a], p) : <<r, j>> \in pending[a]) <=>
             <<r, p>> \in PathMarked(a) /\ p \notin PathCache(a)!LastVersion(q, ps)
  BY <1>3, <1>5, RmUpdate
<1> HIDE DEF ps
<1>9. PathMarked(a)' = {m \in PathMarked(a) : m[2] \notin PathCache(a)!LastVersion(q, ps)}
  <2>1. FilesTree(dirs'[a], arenaTable'[a], file'[a])
    BY FilesTreeNext
  <2>2. PathMarked(a)' = {m \in Peer \X Path : \E i \in With(file'[a], m[2]) : <<m[1], i>> \in pending[a]}
    BY <1>2, <2>1, ViewNext
  <2>3. PathMarked(a) \subseteq Peer \X Path
    BY DEF PathMarked
  <2>4. ASSUME NEW m \in Peer \X Path
        PROVE  m \in PathMarked(a)' <=> m \in PathMarked(a) /\ m[2] \notin PathCache(a)!LastVersion(q, ps)
    <3>1. PICK r \in Peer, p \in Path : m = <<r, p>>
      OBVIOUS
    <3>2. m[1] = r /\ m[2] = p
      BY <3>1
    <3>3. QED
      BY <1>8, <2>2, <3>1, <3>2
  <2>5. QED
    BY <2>2, <2>3, <2>4
<1>10. PathCache(a)!Unlink(q, n)
  <2>1. seen'[a] = [seen[a] EXCEPT ![q] = n.index] /\ known'[a] = known[a]
    BY <1>1, <1>2, SeenAt
  <2>2. QED
    BY <1>7, <1>8, <1>9, <2>1 DEF PathCache!Unlink, PathCache!UpdateLastSeen
<1>11. n.path \in PathDir(a)
  BY <1>1, <1>2 DEF PathDir, e
<1>12. QED
  BY <1>6, <1>10, <1>11 DEF PathCache!Update, PathCache!Taken, Taken

LEMMA CatchupCompleteUpdate ==
  ASSUME PathInv, TablesInv', NEW a \in Arena, NEW q \in Peer, NEW n \in Incoming,
         n.kind = "CatchupComplete", CatchupComplete(a, q, n), arenaTable' = arenaTable
  PROVE  PathCache(a)!Update(q, n) /\ ParentOK(a)' /\ PendingOK(a)'
<1> DEFINE inodes == {i \in DOMAIN file[a] : <<q, i>> \in pending[a] /\ file[a][i].peer[q] # None}
           ps == PathsOf(a, inodes)
<1>1. TablesInv /\ DOMAIN pending = Arena
  BY DEF PathInv, TablesInv, ShapeOK
<1>2. /\ RmFileEntries(a, q, inodes) /\ pending' = [pending EXCEPT ![a] = {m \in @ : m[1] # q}]
      /\ LastSeen(a, q, n) /\ UNCHANGED <<ranges, range, known>>
  BY DEF CatchupComplete
<1>3. inodes \in SUBSET DOMAIN file[a] /\ pending'[a] = {m \in pending[a] : m[1] # q}
  BY <1>1, <1>2
<1>m. PathMarked(a) = {m \in Peer \X Path : \E i \in With(file[a], m[2]) : <<m[1], i>> \in pending[a]}
  <2>1. FilesTree(dirs[a], arenaTable[a], file[a])
    BY <1>1, FilesTreeNow
  <2>2. QED
    BY <2>1, ViewNow
<1>4. ASSUME NEW p PROVE p \in ps <=> p \in PathCache(a)!MarkedFiles(q)
  <2>1. p \in PathCache(a)!MarkedFiles(q) <=>
          p \in Path /\ <<q, p>> \in PathMarked(a) /\ PathEntry(a)[p][q] # None
    BY DEF PathCache!MarkedFiles
  <2>2. ASSUME NEW i \in inodes, p = file[a][i].path
        PROVE  p \in Path /\ <<q, p>> \in PathMarked(a) /\ PathEntry(a)[p][q] # None
    <3>1. i \in DOMAIN file[a] /\ <<q, i>> \in pending[a] /\ file[a][i].peer[q] # None
      OBVIOUS
    <3>2. p \in Path /\ PathEntry(a)[p] = file[a][i].peer /\ With(file[a], p) = {i}
      BY <2>2, <3>1, EntryAt
    <3>3. QED
      BY <1>m, <3>1, <3>2
  <2>3. ASSUME p \in Path, <<q, p>> \in PathMarked(a), PathEntry(a)[p][q] # None PROVE p \in ps
    <3>1. PICK i \in With(file[a], p) : <<q, i>> \in pending[a]
      BY <1>m, <2>3
    <3>2. i \in DOMAIN file[a] /\ file[a][i].path = p
      BY <3>1 DEF With
    <3>3. file[a][i].peer[q] # None
      BY <2>3, <3>2, EntryAt
    <3>4. i \in inodes
      BY <3>1, <3>2, <3>3
    <3>5. QED
      BY <3>2, <3>4 DEF PathsOf
  <2> HIDE DEF inodes
  <2>4. QED
    BY <2>1, <2>2, <2>3 DEF PathsOf
<1> HIDE DEF inodes
<1>5. PICK d, gone : RmDone(a, q, inodes, d, gone)
  BY <1>2, <1>3, RmFiles
<1>6. ParentOK(a)' /\ PendingOK(a)'
  <2>1. pending'[a] \subseteq pending[a] /\ range' = range
    BY <1>2, <1>3
  <2>2. QED
    BY <1>3, <1>5, <2>1, RmTables
<1>7. ps = PathCache(a)!MarkedFiles(q)
  <2> HIDE DEF ps
  <2>1. QED
    BY <1>4
<1>8. /\ PathCache(a)!RmFileEntries(q, ps)
      /\ \A r \in Peer, p \in Path :
           (\E j \in With(file'[a], p) : <<r, j>> \in pending[a]) <=>
             <<r, p>> \in PathMarked(a) /\ p \notin PathCache(a)!LastVersion(q, ps)
  BY <1>3, <1>5, RmUpdate
<1> HIDE DEF ps
<1>9. PathMarked(a)' = {m \in PathMarked(a) : m[1] # q /\ m[2] \notin PathCache(a)!LastVersion(q, ps)}
  <2>1. FilesTree(dirs'[a], arenaTable'[a], file'[a])
    BY FilesTreeNext
  <2>2. PathMarked(a)' = {m \in Peer \X Path : \E i \in With(file'[a], m[2]) : <<m[1], i>> \in pending'[a]}
    BY <2>1, ViewNext
  <2>4. ASSUME NEW m \in Peer \X Path
        PROVE  m \in PathMarked(a)' <=>
                 m \in PathMarked(a) /\ m[1] # q /\ m[2] \notin PathCache(a)!LastVersion(q, ps)
    <3>1. PICK r \in Peer, p \in Path : m = <<r, p>>
      OBVIOUS
    <3>2. m[1] = r /\ m[2] = p
      BY <3>1
    <3>3. \A j : <<r, j>> \in pending'[a] <=> <<r, j>> \in pending[a] /\ r # q
      BY <1>3
    <3>4. m \in PathMarked(a)' <=> r # q /\ \E j \in With(file'[a], p) : <<r, j>> \in pending[a]
      BY <2>2, <3>2, <3>3
    <3>5. QED
      BY <1>8, <3>1, <3>2, <3>4
  <2>5. QED
    BY <1>m, <2>2, <2>4
<1>10. PathCache(a)!CatchupComplete(q, n)
  <2>1. seen'[a] = [seen[a] EXCEPT ![q] = n.index] /\ known'[a] = known[a]
    BY <1>1, <1>2, SeenAt
  <2>2. QED
    BY <1>7, <1>8, <1>9, <2>1 DEF PathCache!CatchupComplete, PathCache!UpdateLastSeen
<1>12. QED
  BY <1>6, <1>10 DEF PathCache!Update

\* A step that leaves the tables of an arena alone leaves it as it was by path.
LEMMA SameView ==
  ASSUME NEW a, arenaTable'[a] = arenaTable[a], dirs'[a] = dirs[a], file'[a] = file[a]
  PROVE  PathEntry(a)' = PathEntry(a) /\ PathDefault(a)' = PathDefault(a) /\ PathDir(a)' = PathDir(a)
BY DEF PathEntry, PathDefault, PathDir, FileAt, LookupPath

LEMMA CatchupStartUpdate ==
  ASSUME PathInv, TablesInv', NEW a \in Arena, NEW q \in Peer, NEW n \in Incoming,
         n.kind = "CatchupStart", CatchupStart(a, q), arenaTable' = arenaTable
  PROVE  PathCache(a)!Update(q, n) /\ ParentOK(a)' /\ PendingOK(a)'
<1>1. TablesInv /\ DOMAIN pending = Arena /\ ParentOK(a) /\ PendingOK(a)
  BY DEF PathInv, TablesInv, ShapeOK
<1>2. /\ pending' = [pending EXCEPT ![a] =
                       @ \cup {<<q, i>> : i \in {j \in DOMAIN file[a] : file[a][j].peer[q] # None}}]
      /\ UNCHANGED <<ranges, range, dirs, file, seen, known>>
  BY DEF CatchupStart, treeVars
<1>3. pending'[a] = pending[a] \cup {<<q, i>> : i \in {j \in DOMAIN file[a] : file[a][j].peer[q] # None}}
  BY <1>1, <1>2
<1>4. FilesTree(dirs[a], arenaTable[a], file[a]) /\ FilesTree(dirs'[a], arenaTable'[a], file'[a])
  BY <1>1, FilesTreeNow, FilesTreeNext
<1>5. /\ PathMarked(a) = {m \in Peer \X Path : \E i \in With(file[a], m[2]) : <<m[1], i>> \in pending[a]}
      /\ PathMarked(a)' = {m \in Peer \X Path : \E i \in With(file[a], m[2]) : <<m[1], i>> \in pending'[a]}
  BY <1>2, <1>4, ViewNow, ViewNext
<1>6. ASSUME NEW r \in Peer, NEW p \in Path
      PROVE  <<r, p>> \in PathMarked(a)' <=>
               <<r, p>> \in PathMarked(a) \/ (r = q /\ PathEntry(a)[p][q] # None)
  <2>1. ASSUME NEW i \in With(file[a], p), <<r, i>> \in pending'[a]
        PROVE  <<r, i>> \in pending[a] \/ (r = q /\ PathEntry(a)[p][q] # None)
    <3>1. CASE <<r, i>> \in pending[a]
      BY <3>1
    <3>2. CASE <<r, i>> \notin pending[a]
      <4>1. r = q /\ file[a][i].peer[q] # None
        BY <1>3, <2>1, <3>2
      <4>2. i \in DOMAIN file[a] /\ file[a][i].path = p
        BY <2>1 DEF With
      <4>3. QED
        BY <4>1, <4>2, EntryAt
    <3>3. QED
      BY <3>1, <3>2
  <2>2. ASSUME r = q, PathEntry(a)[p][q] # None
        PROVE  \E i \in With(file[a], p) : <<r, i>> \in pending'[a]
    <3>1. PICK i \in DOMAIN file[a] : file[a][i].path = p
      BY <2>2, EntryFile
    <3>2. file[a][i].peer[q] # None
      BY <2>2, <3>1, EntryAt
    <3>3. i \in With(file[a], p) /\ <<r, i>> \in pending'[a]
      BY <1>3, <2>2, <3>1, <3>2 DEF With
    <3>4. QED
      BY <3>3
  <2>3. pending[a] \subseteq pending'[a]
    BY <1>3
  <2>4. QED
    BY <1>5, <2>1, <2>2, <2>3
<1>7. PathMarked(a)' = PathMarked(a) \cup {<<q, p>> : p \in {r \in Path : PathEntry(a)[r][q] # None}}
  <2> DEFINE new == {<<q, p>> : p \in {r \in Path : PathEntry(a)[r][q] # None}}
  <2>1. ASSUME NEW m PROVE m \in PathMarked(a)' <=> m \in PathMarked(a) \cup new
    <3>1. CASE m \in Peer \X Path
      <4>1. PICK r \in Peer, p \in Path : m = <<r, p>>
        BY <3>1
      <4>2. m \in new <=> r = q /\ PathEntry(a)[p][q] # None
        BY <4>1
      <4> HIDE DEF new
      <4>3. QED
        BY <1>6, <4>1, <4>2
    <3>2. CASE m \notin Peer \X Path
      <4>1. m \notin new
        BY <3>2
      <4> HIDE DEF new
      <4>2. QED
        BY <1>5, <3>2, <4>1
    <3>3. QED
      BY <3>1, <3>2
  <2> HIDE DEF new
  <2>2. PathMarked(a)' = PathMarked(a) \cup new
    BY <2>1
  <2>3. QED
    BY <2>2 DEF new
<1>8. PathCache(a)!CatchupStart(q)
  <2>1. PathEntry(a)' = PathEntry(a) /\ PathDefault(a)' = PathDefault(a) /\ PathDir(a)' = PathDir(a)
    BY <1>2, SameView
  <2>2. QED
    BY <1>2, <1>7, <2>1 DEF PathCache!CatchupStart
<1>9. ParentOK(a)'
  BY <1>1, <1>2 DEF ParentOK
<1>10. PendingOK(a)'
  <2>1. ASSUME NEW m \in pending'[a]
        PROVE  /\ m[2] \in Nat /\ m[2] <= range[a][1]
               /\ \A k \in DOMAIN dirs[a] : dirs[a][k].inode = m[2] => m[2] \in DOMAIN file[a]
    <3>1. CASE m \in pending[a]
      BY <1>1, <3>1 DEF PendingOK
    <3>2. CASE m \notin pending[a]
      <4>1. m[2] \in DOMAIN file[a]
        BY <1>3, <2>1, <3>2
      <4>2. PICK k \in DOMAIN dirs[a] : dirs[a][k].inode = m[2]
        BY <1>1, <4>1 DEF ParentOK
      <4>3. dirs[a][k] \in Entry /\ dirs[a][k].inode <= range[a][1]
        BY <1>1, <1>4, ArenaTree DEF FilesTree, Entries, Older
      <4>4. QED
        BY <4>1, <4>2, <4>3 DEF Entry
    <3>3. QED
      BY <3>1, <3>2
  <2>2. QED
    BY <1>2, <2>1 DEF PendingOK
<1>11. QED
  BY <1>8, <1>9, <1>10 DEF PathCache!Update

LEMMA ConnectedUpdate ==
  ASSUME PathInv, NEW a \in Arena, NEW q \in Peer, NEW n \in Incoming,
         n.kind = "Connected", Connected(a, q, n), arenaTable' = arenaTable
  PROVE  PathCache(a)!Update(q, n) /\ ParentOK(a)' /\ PendingOK(a)'
<1>1. /\ TablesInv /\ ParentOK(a) /\ PendingOK(a)
      /\ seen \in [Arena -> [Peer -> 0..MaxHistory]] /\ known \in [Arena -> [Peer -> 0..MaxUuid]]
  BY DEF PathInv, TablesInv, TypeOK
<1>2. /\ UNCHANGED <<ranges, range, dirs, file, pending>>
      /\ known' = [known EXCEPT ![a][q] = n.uuid]
      /\ seen' = [seen EXCEPT ![a][q] = IF known[a][q] = n.uuid THEN @ ELSE 0]
  BY DEF Connected, treeVars
<1>3. PathEntry(a)' = PathEntry(a) /\ PathDefault(a)' = PathDefault(a) /\ PathDir(a)' = PathDir(a)
      /\ PathMarked(a)' = PathMarked(a)
  BY <1>2, SameView DEF PathMarked, FileAt, LookupPath
<1>4. known'[a] = [known[a] EXCEPT ![q] = n.uuid]
  BY <1>1, <1>2
<1>5. seen'[a] = [seen[a] EXCEPT ![q] = IF known[a][q] = n.uuid THEN seen[a][q] ELSE 0]
  BY <1>1, <1>2
<1>6. PathCache(a)!Connected(q, n)
  BY <1>3, <1>4, <1>5 DEF PathCache!Connected, PathCache!StillSeen
<1>7. ParentOK(a)' /\ PendingOK(a)'
  BY <1>1, <1>2 DEF ParentOK, PendingOK
<1>8. QED
  BY <1>6, <1>7 DEF PathCache!Update

\* ArenaCache::update is ArenaCache's, and changes one arena.
LEMMA UpdateByPath ==
  ASSUME PathInv, TablesInv', NEW a \in Arena, arenaTable[a] # 0, NEW q \in Peer, NEW n \in Incoming,
         Update(a, q, n), arenaTable' = arenaTable
  PROVE  /\ PathCache(a)!Update(q, n) /\ ParentOK(a)' /\ PendingOK(a)'
         /\ \A b \in Arena \ {a} :
              UNCHANGED <<range[b], dirs[b], file[b], pending[b], seen[b], known[b]>>
<1>1. /\ DOMAIN pending = Arena /\ DOMAIN dirs = Arena /\ DOMAIN file = Arena
      /\ DOMAIN range = Arena /\ DOMAIN seen = Arena /\ DOMAIN known = Arena
  BY DEF PathInv, TablesInv, TypeOK, ShapeOK
<1>2. CASE n.kind \in Given /\ Give(a, q, n)
  <2>1. ASSUME NEW b \in Arena \ {a}
        PROVE  UNCHANGED <<range[b], dirs[b], file[b], pending[b], seen[b], known[b]>>
    BY <1>1, <1>2 DEF Give, LastSeen
  <2>2. QED
    BY <1>2, <2>1, GiveUpdate
<1>3. CASE n.kind \in Taken /\ Take(a, q, n)
  <2>1. ASSUME NEW b \in Arena \ {a}
        PROVE  UNCHANGED <<range[b], dirs[b], file[b], pending[b], seen[b], known[b]>>
    BY <1>1, <1>3 DEF Take, LastSeen, RmFileEntries
  <2>2. QED
    BY <1>3, <2>1, TakeUpdate
<1>4. CASE n.kind = "CatchupStart" /\ CatchupStart(a, q)
  <2>1. ASSUME NEW b \in Arena \ {a}
        PROVE  UNCHANGED <<range[b], dirs[b], file[b], pending[b], seen[b], known[b]>>
    BY <1>1, <1>4 DEF CatchupStart, treeVars
  <2>2. QED
    BY <1>4, <2>1, CatchupStartUpdate
<1>5. CASE n.kind = "CatchupComplete" /\ CatchupComplete(a, q, n)
  <2>1. ASSUME NEW b \in Arena \ {a}
        PROVE  UNCHANGED <<range[b], dirs[b], file[b], pending[b], seen[b], known[b]>>
    BY <1>1, <1>5 DEF CatchupComplete, LastSeen, RmFileEntries
  <2>2. QED
    BY <1>5, <2>1, CatchupCompleteUpdate
<1>6. CASE n.kind = "Connected" /\ Connected(a, q, n)
  <2>1. ASSUME NEW b \in Arena \ {a}
        PROVE  UNCHANGED <<range[b], dirs[b], file[b], pending[b], seen[b], known[b]>>
    BY <1>1, <1>6 DEF Connected, treeVars
  <2>2. QED
    BY <1>6, <2>1, ConnectedUpdate
<1>7. QED
  BY <1>2, <1>3, <1>4, <1>5, <1>6 DEF Update

-----------------------------------------------------------------------------

\* A step of PathCacheSpec, and what it leaves.
PathStep(a) ==
  \/ UNCHANGED <<arenaTable[a], dirs[a], file[a], pending[a], seen[a], known[a]>>
  \/ \E u \in {applied'} \ {None} : u.arena = a /\ PathCache(a)!Update(u.peer, u.notification)
  \/ UNCHANGED <<PathEntry(a), PathDefault(a), PathDir(a), PathMarked(a), seen[a], known[a]>>
PathStepOK == \A a \in Arena : PathStep(a) /\ ParentOK(a)' /\ PendingOK(a)'

\* Most steps leave the tables alone.
LEMMA QuietPaths ==
  ASSUME PathInv, UNCHANGED <<arenaTable, range, dirs, file, pending, seen, known>>
  PROVE  PathStepOK
BY DEF PathInv, PathStepOK, PathStep, ParentOK, PendingOK

\* An arena without anything has no file at any path.
LEMMA EmptyTree ==
  ASSUME NEW root \in Nat, NEW p \in Path
  PROVE  Walk(Empty, root, p).kind # "File"
<1>1. Entries(Empty) /\ DOMAIN Empty = {}
  BY DEF Entries, Empty
<1>2. QED
  BY <1>1, PathLen, WalkEntry

LEMMA AddArenaPaths ==
  ASSUME PathInv, TablesInv', NEW a \in Arena, AddArena(a)
  PROVE  PathStepOK
<1>1. UNCHANGED <<range, dirs, file, pending, seen, known>>
  BY DEF AddArena, treeVars, peerVars
<1>2. arenaTable \in [Arena -> Nat] /\ arenaTable' \in [Arena -> Nat] /\ ArenaOK(a)
  BY DEF PathInv, TablesInv, TypeOK
<1>3. CASE arenaTable[a] # 0
  BY <1>1, <1>3, QuietPaths DEF AddArena
<1>4. CASE arenaTable[a] = 0
  <2>1. dirs[a] = Empty /\ file[a] = Empty /\ DOMAIN Empty = {}
    BY <1>2, <1>4 DEF ArenaOK, Empty
  <2>2. /\ \A p \in Path : FileAt(a, p) = {} /\ FileAt(a, p)' = {}
    BY <1>1, <2>1 DEF FileAt
  <2>3. PathEntry(a)' = PathEntry(a) /\ PathDefault(a)' = PathDefault(a) /\ PathMarked(a)' = PathMarked(a)
    BY <2>2 DEF PathEntry, PathDefault, PathMarked
  <2>4. PathDir(a)' = PathDir(a)
    <3>1. \A p \in Path : /\ Walk(dirs[a], arenaTable[a], p).kind # "File"
                          /\ Walk(dirs'[a], arenaTable'[a], p).kind # "File"
      BY <1>1, <1>2, <2>1, EmptyTree
    <3>2. QED
      BY <3>1 DEF PathDir, LookupPath
  <2>5. PathStep(a)
    BY <1>1, <2>3, <2>4 DEF PathStep
  <2>6. ASSUME NEW b \in Arena, b # a PROVE PathStep(b)
    <3>1. arenaTable'[b] = arenaTable[b]
      BY <1>2, <1>4, <2>6 DEF AddArena
    <3>2. QED
      BY <1>1, <3>1 DEF PathStep
  <2>7. \A b \in Arena : ParentOK(b)' /\ PendingOK(b)'
    BY <1>1 DEF PathInv, ParentOK, PendingOK
  <2>8. QED
    BY <2>5, <2>6, <2>7 DEF PathStepOK
<1>5. QED
  BY <1>3, <1>4

LEMMA NotifiesCachePaths ==
  ASSUME PathInv, TablesInv', NEW a \in Arena, arenaTable[a] # 0, NEW q \in Peer, NEW n \in Incoming,
         NotifiesCache(a, q, n)
  PROVE  PathStepOK
<1> DEFINE u == [arena |-> a, peer |-> q, notification |-> n]
<1>1. Update(a, q, n) /\ applied' = u /\ arenaTable' = arenaTable
  BY DEF NotifiesCache
<1>2. /\ PathCache(a)!Update(q, n) /\ ParentOK(a)' /\ PendingOK(a)'
      /\ \A b \in Arena \ {a} : UNCHANGED <<range[b], dirs[b], file[b], pending[b], seen[b], known[b]>>
  BY <1>1, UpdateByPath
<1>3. u.arena = a /\ u.peer = q /\ u.notification = n
  OBVIOUS
<1>4. u # None
  BY UpdateAssumption
<1> HIDE DEF u
<1>5. PathStep(a)
  <2>1. u \in {applied'} \ {None} /\ PathCache(a)!Update(u.peer, u.notification)
    BY <1>1, <1>2, <1>3, <1>4
  <2>2. QED
    BY <1>3, <2>1 DEF PathStep
<1>6. ASSUME NEW b \in Arena, b # a PROVE PathStep(b) /\ ParentOK(b)' /\ PendingOK(b)'
  <2>1. UNCHANGED <<range[b], dirs[b], file[b], pending[b], seen[b], known[b]>>
    BY <1>2, <1>6
  <2>2. PathStep(b)
    BY <1>1, <2>1 DEF PathStep
  <2>3. ParentOK(b) /\ PendingOK(b)
    BY DEF PathInv
  <2>4. QED
    BY <2>1, <2>2, <2>3 DEF ParentOK, PendingOK
<1>7. QED
  BY <1>2, <1>5, <1>6 DEF PathStepOK

LEMMA PathsNext == ASSUME PathInv, TablesInv', Next PROVE PathStepOK
<1>1. ASSUME NEW a \in Arena, AddArena(a) PROVE PathStepOK
  BY <1>1, AddArenaPaths
<1>2. ASSUME NEW a \in Arena, Register(a) \/ LosesRange(a) \/ StartListing(a) \/ NotifiesIndex(a)
      PROVE  PathStepOK
  BY <1>2, QuietPaths DEF Register, LosesRange, StartListing, NotifiesIndex, treeVars, peerVars, globalVars
<1>3. ASSUME NEW a \in Arena, FinishesUpdate(a) PROVE PathStepOK
  <2>1. /\ updating # None /\ updating.arena = a /\ arenaTable[a] # 0
        /\ updating \in [arena : Arena, peer : Peer, notification : Incoming]
    BY <1>3 DEF FinishesUpdate, PathInv, TablesInv, TypeOK, ProcessOK
  <2>2. CASE NotifiesCache(a, updating.peer, updating.notification)
    BY <2>1, <2>2, NotifiesCachePaths
  <2>3. CASE UNCHANGED <<globalVars, processVars, treeVars, peerVars, marks, indexed, listing>>
    BY <2>3, QuietPaths DEF globalVars, treeVars, peerVars
  <2>4. QED
    BY <1>3, <2>2, <2>3 DEF FinishesUpdate
<1>4. ASSUME NEW a \in Arena, Notified(a) PROVE PathStepOK
  <2>1. PICK q \in Peer, n \in Sent : NotifiesCache(a, q, n)
    BY <1>4 DEF Notified
  <2>2. n \in Incoming /\ arenaTable[a] # 0
    BY <1>4, OpStep DEF Notified, Sent, PathInv
  <2>3. QED
    BY <2>1, <2>2, NotifiesCachePaths
<1>5. ASSUME NEW a \in Arena, NEW p \in MarkPath, NEW m \in Mark \cup {None}, SetMark(a, p, m)
      PROVE  PathStepOK
  BY <1>5, QuietPaths DEF SetMark, treeVars, peerVars, globalVars
<1>6. ASSUME NEW a \in Arena, NEW p \in Path, NEW entry, IndexChanges(a, p, entry)
      PROVE  PathStepOK
  BY <1>6, QuietPaths DEF IndexChanges, treeVars, peerVars, globalVars
<1>7. ASSUME Restart \/ ReadPage \/ ReadAttributes PROVE PathStepOK
  BY <1>7, QuietPaths DEF Restart, ReadPage, ReadAttributes, treeVars, peerVars, globalVars
<1>8. QED
  BY <1>1, <1>2, <1>3, <1>4, <1>5, <1>6, <1>7 DEF Next

LEMMA PathsArenaNext == ASSUME PathInv, TablesInv', [ArenaNext]_arenaVars PROVE PathStepOK
<1>1. ASSUME NEW a \in Arena, NEW p \in Path, TakesJob(a, p) PROVE PathStepOK
  BY <1>1, QuietPaths DEF TakesJob, treeVars, peerVars, globalVars
<1>2. ASSUME Downloads \/ Realizes PROVE PathStepOK
  BY <1>2, QuietPaths DEF Downloads, Realizes, treeVars, peerVars, globalVars
<1>3. ASSUME Unrealizes \/ EndsJob PROVE PathStepOK
  BY <1>3, QuietPaths DEF Unrealizes, EndsJob, treeVars, peerVars, globalVars
<1>4. ASSUME UNCHANGED arenaVars PROVE PathStepOK
  BY <1>4, QuietPaths DEF arenaVars, vars, treeVars, peerVars, globalVars
<1>5. QED
  BY <1>1, <1>2, <1>3, <1>4, PathsNext DEF ArenaNext

LEMMA PathsInit == ASSUME ArenaInit PROVE PathInv /\ \A a \in Arena : PathCache(a)!CacheInit
<1>1. Init /\ TablesInv
  BY TablesInit DEF ArenaInit
<1>2. ASSUME NEW a \in Arena PROVE ParentOK(a) /\ PendingOK(a)
  BY <1>1 DEF Init, ParentOK, PendingOK, Empty
<1>3. ASSUME NEW a \in Arena PROVE PathCache(a)!CacheInit
  <2>1. /\ dirs[a] = Empty /\ file[a] = Empty /\ DOMAIN Empty = {} /\ arenaTable[a] = 0
        /\ seen[a] = [q \in Peer |-> 0] /\ known[a] = [q \in Peer |-> 0]
    BY <1>1 DEF Init, Empty
  <2>2. \A p \in Path : FileAt(a, p) = {}
    BY <2>1 DEF FileAt
  <2>3. /\ PathEntry(a) = [p \in Path |-> [q \in Peer |-> None]]
        /\ PathDefault(a) = [p \in Path |-> None]
        /\ PathMarked(a) = {}
    BY <2>2 DEF PathEntry, PathDefault, PathMarked
  <2>4. PathDir(a) = {}
    BY <2>1, EmptyTree DEF PathDir, LookupPath
  <2>5. QED
    BY <2>1, <2>3, <2>4 DEF PathCache!CacheInit
<1>4. QED
  BY <1>1, <1>2, <1>3 DEF PathInv

\* The tables of an arena, kept by inode, implement ArenaCache, which is by
\* path: every step of the whole system is one ArenaCache allows for the
\* notification applied, or changes nothing that is seen by path.  The
\* inductive invariant adds to the tables' that a file has an entry in the
\* directory it is recorded in, which do_rm_file_entry takes away, and that a
\* catchup's mark is never for the inode of an entry without a file
\* (ArenaCache::update).
THEOREM TablesByPath == ArenaSpec => PathCacheSpec
<1>1. ArenaInit => PathInv /\ \A a \in Arena : PathCache(a)!CacheInit
  BY PathsInit
<1>2. JobsInv => TablesInv
  BY DEF JobsInv
<1>3. PathInv /\ TablesInv' /\ [ArenaNext]_arenaVars => PathInv' /\ PathStepOK
  <2>1. SUFFICES ASSUME PathInv, TablesInv', [ArenaNext]_arenaVars PROVE PathInv' /\ PathStepOK
    OBVIOUS
  <2>2. PathStepOK
    BY <2>1, PathsArenaNext
  <2>3. QED
    BY <2>1, <2>2 DEF PathInv, PathStepOK
<1>4. PathStepOK => [\A a \in Arena :
          \/ UNCHANGED <<arenaTable[a], dirs[a], file[a], pending[a], seen[a], known[a]>>
          \/ \E u \in {applied'} \ {None} :
               u.arena = a /\ PathCache(a)!Update(u.peer, u.notification)
          \/ UNCHANGED <<PathEntry(a), PathDefault(a), PathDir(a), PathMarked(a),
                         seen[a], known[a]>>]_vars
  BY DEF PathStepOK, PathStep
<1>5. QED
  BY <1>1, <1>2, <1>3, <1>4, TablesAlways, PTL DEF ArenaSpec, PathCacheSpec

-----------------------------------------------------------------------------
(* A mark reaches every file below its path.                               *)

\* The inodes with what is in those that are directories.
Further(tab, s) == s \cup {tab[k].inode : k \in {x \in DOMAIN tab : x[1] \in s}}

\* The inodes mark_dir_dirty has gone through, level by level: Below is the last.
IsReach(f, tab, inode, n) == f[0] = {inode} /\ \A i \in 1..n : f[i] = Further(tab, f[i - 1])

LEMMA BelowSteps ==
  ASSUME NEW tab, NEW inode, NEW m \in Nat, m = Cardinality(DOMAIN tab)
  PROVE  \E f : IsReach(f, tab, inode, m) /\ Below(tab, inode) = f[m]
<1> DEFINE Next1(f, i) == IF i = 0 THEN {inode} ELSE Further(tab, f[i - 1])
           S == {n \in Nat : \E f : f = [i \in 0..n |-> Next1(f, i)]}
<1>1. 0 \in S
  <2> DEFINE f == [i \in 0..0 |-> {inode}]
  <2>1. f = [i \in 0..0 |-> Next1(f, i)]
    OBVIOUS
  <2>2. QED
    BY <2>1
<1>2. ASSUME NEW n \in Nat, n \in S PROVE n + 1 \in S
  <2>1. PICK f : f = [i \in 0..n |-> Next1(f, i)]
    BY <1>2
  <2> DEFINE g == [i \in 0..(n + 1) |-> IF i = n + 1 THEN Further(tab, f[n]) ELSE f[i]]
  <2>2. ASSUME NEW i \in 0..(n + 1) PROVE g[i] = Next1(g, i)
    <3>1. CASE i = n + 1
      <4>1. g[n] = f[n] /\ i - 1 = n /\ i # 0
        BY <3>1
      <4>2. QED
        BY <3>1, <4>1
    <3>2. CASE i # n + 1
      <4>1. i \in 0..n /\ g[i] = f[i]
        BY <3>2
      <4>2. f[i] = Next1(f, i)
        BY <2>1, <4>1
      <4>3. i # 0 => g[i - 1] = f[i - 1]
        BY <4>1
      <4>4. QED
        BY <4>1, <4>2, <4>3
    <3>3. QED
      BY <3>1, <3>2
  <2>3. g = [i \in 0..(n + 1) |-> Next1(g, i)]
    <3> DEFINE h == [i \in 0..(n + 1) |-> Next1(g, i)]
    <3>1. \A i \in 0..(n + 1) : g[i] = h[i]
      BY <2>2
    <3> HIDE DEF Next1
    <3>2. QED
      BY <3>1
  <2> HIDE DEF g
  <2>4. QED
    BY <2>3
<1>3. m \in S
  <2> HIDE DEF S
  <2>1. QED
    BY <1>1, <1>2, SetInduction
<1> DEFINE at == CHOOSE f : f = [i \in 0..m |-> Next1(f, i)]
<1>4. at = [i \in 0..m |-> Next1(at, i)]
  <2>1. \E f : f = [i \in 0..m |-> Next1(f, i)]
    BY <1>3
  <2>2. QED
    BY <2>1
<1>5. Below(tab, inode) = at[m]
  BY DEF Below, Further
<1>6. at[0] = {inode} /\ \A i \in 1..m : at[i] = Further(tab, at[i - 1])
  <2> HIDE DEF at
  <2>1. \A i \in 0..m : at[i] = Next1(at, i)
    BY <1>4
  <2>2. QED
    BY <2>1
<1> HIDE DEF at
<1>7. QED
  BY <1>5, <1>6 DEF IsReach

\* An arena's tree is finite: its entries have different inodes, all of them
\* allocated.
LEMMA TreeFinite ==
  ASSUME TablesInv, NEW a \in Arena
  PROVE  IsFiniteSet(DOMAIN dirs[a]) /\ Cardinality(DOMAIN dirs[a]) \in Nat
<1> DEFINE tab == dirs[a]
           cur == range[a][1]
           f == [k \in DOMAIN tab |-> tab[k].inode]
<1>1. cur \in Nat /\ Older(tab, arenaTable[a], cur)
  BY ArenaTree
<1>2. Entries(tab) /\ Unique(tab)
  BY ArenaEntries
<1>3. ASSUME NEW k \in DOMAIN tab PROVE tab[k].inode \in 0..cur
  BY <1>1, <1>2 DEF Entries, Entry, Older
<1>4. f \in Injection(DOMAIN tab, 0..cur)
  BY <1>2, <1>3 DEF Injection, IsInjective, Unique
<1>5. IsFiniteSet(0..cur)
  <2>1. 0 \in Int /\ cur \in Int
    BY <1>1
  <2> HIDE DEF cur
  <2>2. QED
    BY <2>1, FS_Interval
<1>6. IsFiniteSet(DOMAIN tab)
  BY <1>4, <1>5, FS_Injection
<1>7. QED
  BY <1>6, FS_CardinalityType

\* The directories on the way to a file.
OnTheWay(f, tab, root, p) ==
  /\ IsWalk(f, tab, root, p) /\ Walk(tab, root, p) = f[Len(p)]
  /\ Through(f, tab, p, Len(p))
  /\ \A i \in 0..Len(p) : Walk(tab, root, Upto(p, i)) = f[i] /\ f[i].kind \in {"Dir", "File"}

LEMMA WayTo ==
  ASSUME NEW tab, Entries(tab), NEW root \in Nat, NEW p \in Seq(STRING), Walk(tab, root, p).kind = "File"
  PROVE  \E f : OnTheWay(f, tab, root, p)
<1> DEFINE n == Len(p)
<1>1. n \in Nat
  OBVIOUS
<1>2. PICK f : IsWalk(f, tab, root, p) /\ Walk(tab, root, p) = f[n]
  BY <1>1, WalkSteps
<1>3. Reaches(f, tab, root, p, n)
  BY <1>1, <1>2 DEF Reaches
<1>4. Through(f, tab, p, n)
  BY <1>3, ReachesThrough
<1>5. ASSUME NEW i \in 0..n PROVE f[i].kind \in {"Dir", "File"}
  <2>1. CASE i = n
    BY <1>2, <2>1
  <2>2. CASE i # n
    <3>1. PICK j \in 1..n : j - 1 = i
      <4>1. i + 1 \in 1..n /\ (i + 1) - 1 = i
        BY <1>1, <2>2
      <4>2. QED
        BY <4>1
    <3> HIDE DEF n
    <3>2. f[j - 1].kind = "Dir"
      BY <1>4 DEF Through
    <3>3. QED
      BY <3>1, <3>2
  <2>3. QED
    BY <2>1, <2>2
<1>6. ASSUME NEW i \in 0..n PROVE Walk(tab, root, Upto(p, i)) = f[i]
  <2> DEFINE u == Upto(p, i)
  <2>1. u \in Seq(STRING) /\ Len(u) = i /\ i \in Nat /\ i <= n
    BY <1>1, UptoSteps
  <2>2. SameStart(p, u, i)
    BY DEF SameStart, Upto
  <2> HIDE DEF u
  <2>3. PICK g : IsWalk(g, tab, root, u) /\ Walk(tab, root, u) = g[i]
    BY <2>1, WalkSteps
  <2>4. Reaches(f, tab, root, p, i) /\ Along(g, tab, root, u, p, i)
    BY <1>1, <1>2, <1>5, <2>1, <2>2, <2>3 DEF Reaches, Along
  <2>5. SameWay(tab, tab, f[i])
    BY DEF SameWay
  <2>6. g[i] = f[i]
    BY <2>4, <2>5, ReachesAlong
  <2>7. QED
    BY <2>3, <2>6 DEF u
<1>7. OnTheWay(f, tab, root, p)
  BY <1>2, <1>4, <1>5, <1>6 DEF OnTheWay
<1>8. QED
  BY <1>7

\* No path to a file is longer than the table: its directories all differ.
LEMMA PathFits ==
  ASSUME NEW tab, NEW root, NEW files, FilesTree(tab, root, files), IsFiniteSet(DOMAIN tab),
         NEW p \in Seq(STRING), NEW f, OnTheWay(f, tab, root, p)
  PROVE  Len(p) <= Cardinality(DOMAIN tab)
<1> DEFINE n == Len(p)
           h == [j \in 1..n |-> <<f[j - 1].inode, p[j]>>]
<1>1. n \in Nat
  OBVIOUS
<1>2. /\ Through(f, tab, p, n)
      /\ \A i \in 0..n : Walk(tab, root, Upto(p, i)) = f[i] /\ f[i].kind \in {"Dir", "File"}
  BY DEF OnTheWay
<1>3. Entries(tab) /\ Unique(tab) /\ root \in Nat /\ Rooted(tab, root) /\ \A k \in DOMAIN tab : k = <<k[1], k[2]>>
  BY DEF FilesTree
<1>4. ASSUME NEW i \in 0..n, NEW j \in 0..n, i <= j, f[i].inode = f[j].inode PROVE i = j
  <2> DEFINE u == Upto(p, i)
             v == Upto(p, j)
  <2>1. u \in Seq(STRING) /\ v \in Seq(STRING) /\ Len(u) = i /\ Len(v) = j
    BY UptoSteps
  <2>2. Walk(tab, root, u) = f[i] /\ Walk(tab, root, v) = f[j]
    BY <1>2
  <2> HIDE DEF u, v
  <2>3. Walk(tab, root, u).kind \in {"Dir", "File"} /\ Walk(tab, root, v).kind \in {"Dir", "File"}
        /\ Walk(tab, root, u).inode = Walk(tab, root, v).inode /\ Len(u) <= Len(v)
    BY <1>2, <1>4, <2>1, <2>2
  <2>4. u = v
    BY <1>3, <2>1, <2>3, WalkOnce
  <2>5. QED
    BY <2>1, <2>4
<1>5. ASSUME NEW j \in 1..n PROVE h[j] \in DOMAIN tab
  BY <1>2 DEF Through
<1>6. ASSUME NEW i \in 1..n, NEW j \in 1..n, h[i] = h[j] PROVE i = j
  <2>1. f[i - 1].inode = f[j - 1].inode /\ i - 1 \in 0..n /\ j - 1 \in 0..n
    BY <1>1, <1>6
  <2>2. i - 1 = j - 1
    <3>1. CASE i - 1 <= j - 1
      BY <1>4, <2>1, <3>1
    <3>2. CASE j - 1 <= i - 1
      BY <1>4, <2>1, <3>2
    <3>3. QED
      BY <1>1, <3>1, <3>2
  <2>3. QED
    BY <1>1, <2>2
<1>7. h \in Injection(1..n, DOMAIN tab)
  <2>1. DOMAIN h = 1..n /\ h \in [1..n -> DOMAIN tab]
    BY <1>5
  <2> HIDE DEF h
  <2>2. QED
    BY <1>6, <2>1 DEF Injection, IsInjective
<1> HIDE DEF h
<1>8. Cardinality(1..n) <= Cardinality(DOMAIN tab)
  BY <1>7, FS_Injection
<1>9. Cardinality(1..n) = n
  <2>1. 1 \in Int /\ n \in Int
    BY <1>1
  <2> HIDE DEF n
  <2>2. Cardinality(1..n) = IF 1 > n THEN 0 ELSE n - 1 + 1
    BY <2>1, FS_Interval
  <2>3. QED
    BY <1>1, <2>2
<1>10. QED
  BY <1>8, <1>9

\* Every file below a path is found from the inode of that path.
LEMMA BelowFile ==
  ASSUME NEW tab, NEW root, NEW files, FilesTree(tab, root, files), IsFiniteSet(DOMAIN tab),
         NEW p \in Seq(STRING), NEW f, OnTheWay(f, tab, root, p), NEW k \in 0..Len(p)
  PROVE  f[Len(p)].inode \in Below(tab, f[k].inode)
<1> DEFINE n == Len(p)
           m == Cardinality(DOMAIN tab)
<1>1. n \in Nat /\ m \in Nat /\ n <= m
  BY PathFits, FS_CardinalityType
<1>2. PICK g : IsReach(g, tab, f[k].inode, m) /\ Below(tab, f[k].inode) = g[m]
  BY <1>1, BelowSteps
<1>3. \A i \in 1..n : <<f[i - 1].inode, p[i]>> \in DOMAIN tab /\ f[i] = tab[<<f[i - 1].inode, p[i]>>]
  BY DEF OnTheWay, Through
<1> HIDE DEF m
<1> DEFINE S == {d \in Nat : k + d <= n => f[k + d].inode \in g[d]}
<1>4. 0 \in S
  <2>1. g[0] = {f[k].inode} /\ k + 0 = k
    BY <1>1, <1>2 DEF IsReach
  <2>2. QED
    BY <2>1
<1>5. ASSUME NEW d \in Nat, d \in S PROVE d + 1 \in S
  <2>1. SUFFICES ASSUME k + (d + 1) <= n PROVE f[k + (d + 1)].inode \in g[d + 1]
    OBVIOUS
  <2>2. f[k + d].inode \in g[d]
    BY <1>1, <1>5, <2>1
  <2>3. d + 1 \in 1..m /\ d + 1 - 1 = d
    BY <1>1, <2>1
  <2>4. g[d + 1] = Further(tab, g[d])
    BY <1>2, <2>3 DEF IsReach
  <2> DEFINE key == <<f[k + d].inode, p[k + (d + 1)]>>
  <2>5. k + (d + 1) \in 1..n /\ (k + (d + 1)) - 1 = k + d
    BY <1>1, <2>1
  <2>6. key \in DOMAIN tab /\ f[k + (d + 1)] = tab[key] /\ key[1] = f[k + d].inode
    BY <1>3, <2>5
  <2> HIDE DEF key
  <2>7. tab[key].inode \in Further(tab, g[d])
    BY <2>2, <2>6 DEF Further
  <2>8. QED
    BY <2>4, <2>6, <2>7
<1>6. f[n].inode \in g[n - k]
  <2>1. n - k \in Nat /\ k + (n - k) = n
    BY <1>1
  <2>2. n - k \in S
    <3> HIDE DEF S
    <3>1. QED
      BY <1>4, <1>5, <2>1, SetInduction
  <2>3. QED
    BY <1>1, <2>1, <2>2
<1> DEFINE T == {d \in Nat : d <= m - (n - k) => f[n].inode \in g[(n - k) + d]}
<1>7. 0 \in T
  <2>1. (n - k) + 0 = n - k
    BY <1>1
  <2>2. QED
    BY <1>6, <2>1
<1>8. ASSUME NEW d \in Nat, d \in T PROVE d + 1 \in T
  <2>1. SUFFICES ASSUME d + 1 <= m - (n - k) PROVE f[n].inode \in g[(n - k) + (d + 1)]
    OBVIOUS
  <2>2. f[n].inode \in g[(n - k) + d]
    BY <1>1, <1>8, <2>1
  <2>3. (n - k) + (d + 1) \in 1..m /\ (n - k) + (d + 1) - 1 = (n - k) + d
    BY <1>1, <2>1
  <2>4. g[(n - k) + (d + 1)] = Further(tab, g[(n - k) + d])
    BY <1>2, <2>3 DEF IsReach
  <2>5. QED
    BY <2>2, <2>4 DEF Further
<1>9. m - (n - k) \in T
  <2>1. m - (n - k) \in Nat
    BY <1>1
  <2> HIDE DEF T
  <2>2. QED
    BY <1>7, <1>8, <2>1, SetInduction
<1>10. (n - k) + (m - (n - k)) = m
  BY <1>1
<1>11. f[n].inode \in g[m]
  BY <1>1, <1>9, <1>10
<1>12. QED
  BY <1>2, <1>11

-----------------------------------------------------------------------------
(* The mark of a path.                                                     *)

\* A bounded set of numbers has a last one.
LEMMA SetMax ==
  ASSUME NEW n \in Nat, NEW S \in SUBSET (0..n), S # {}
  PROVE  Max(S) \in S /\ \A y \in S : Max(S) >= y
<1> DEFINE T == {k \in Nat : (\E y \in S : y >= k) => \E x \in S : \A y \in S : x >= y}
           U == {d \in Nat : d > n \/ n - d \in T}
<1>1. 0 \in U
  <2>1. ASSUME NEW y \in S, y >= n PROVE \A z \in S : y >= z
    BY <2>1
  <2>2. n \in T
    BY <2>1
  <2>3. n - 0 = n
    OBVIOUS
  <2>4. QED
    BY <2>2, <2>3
<1>2. ASSUME NEW d \in Nat, d \in U PROVE d + 1 \in U
  <2>1. SUFFICES ASSUME d + 1 <= n PROVE n - (d + 1) \in T
    OBVIOUS
  <2>2. n - d \in T /\ n - (d + 1) \in Nat
    BY <1>2, <2>1
  <2>3. ASSUME NEW y \in S, y >= n - (d + 1) PROVE \E x \in S : \A z \in S : x >= z
    <3>1. CASE \E z \in S : z >= n - d
      BY <2>2, <3>1
    <3>2. CASE ~ \E z \in S : z >= n - d
      <4>1. ASSUME NEW z \in S PROVE y >= z
        <5>1. ~(z >= n - d) /\ z \in 0..n /\ y \in 0..n
          BY <3>2
        <5>2. QED
          BY <2>1, <2>3, <5>1
      <4>2. QED
        BY <4>1
    <3>3. QED
      BY <3>1, <3>2
  <2>4. QED
    BY <2>2, <2>3
<1>3. n \in U
  <2> HIDE DEF U
  <2>1. QED
    BY <1>1, <1>2, SetInduction
<1>4. 0 \in T
  <2>1. n - n = 0 /\ ~(n > n)
    OBVIOUS
  <2>2. QED
    BY <1>3, <2>1
<1>5. \E y \in S : y >= 0
  <2>1. PICK y \in S : TRUE
    OBVIOUS
  <2>2. y \in 0..n
    OBVIOUS
  <2>3. QED
    BY <2>2
<1>6. \E x \in S : \A y \in S : x >= y
  BY <1>4, <1>5
<1>7. QED
  BY <1>6 DEF Max

\* How long the starts of a path are that have a mark.
Marked(ms, p) == {i \in 0..Len(p) : ms[Upto(p, i)] # None}

LEMMA StartOf ==
  ASSUME NEW p \in Seq(STRING), NEW i \in 0..Len(p)
  PROVE  SubSeq(p, 1, i) = Upto(p, i)
BY LenProperties DEF Upto

LEMMA MarkOf ==
  ASSUME NEW p \in Seq(STRING), NEW ms
  PROVE  GetMark(ms, p) = IF Marked(ms, p) = {} THEN DefaultMark ELSE ms[Upto(p, Max(Marked(ms, p)))]
<1> DEFINE S == {i \in 0..Len(p) : ms[SubSeq(p, 1, i)] # None}
<1>1. Len(p) \in Nat
  OBVIOUS
<1>2. S = Marked(ms, p)
  <2>1. \A i \in 0..Len(p) : SubSeq(p, 1, i) = Upto(p, i)
    BY StartOf
  <2>2. QED
    BY <2>1 DEF Marked
<1>3. GetMark(ms, p) = IF S = {} THEN DefaultMark ELSE ms[SubSeq(p, 1, Max(S))]
  BY DEF GetMark
<1>4. ASSUME S # {} PROVE SubSeq(p, 1, Max(S)) = Upto(p, Max(Marked(ms, p)))
  <2>1. S \in SUBSET (0..Len(p))
    OBVIOUS
  <2> HIDE DEF S
  <2>2. Max(S) \in 0..Len(p)
    BY <1>1, <1>4, <2>1, SetMax
  <2>3. QED
    BY <1>2, <2>2, StartOf
<1> HIDE DEF S
<1>5. QED
  BY <1>2, <1>3, <1>4

\* A path's mark is the one of the longest start with one, whatever the others are.
LEMMA MarkLast ==
  ASSUME NEW p \in Seq(STRING), NEW ms, NEW j \in Marked(ms, p), \A i \in Marked(ms, p) : i <= j
  PROVE  GetMark(ms, p) = ms[Upto(p, j)]
<1> DEFINE S == Marked(ms, p)
<1>1. Len(p) \in Nat /\ S \in SUBSET (0..Len(p)) /\ S # {} /\ j \in 0..Len(p)
  BY DEF Marked
<1> HIDE DEF S
<1>2. PICK x : x = Max(S)
  OBVIOUS
<1>3. x \in S /\ (\A y \in S : x >= y) /\ x \in 0..Len(p)
  BY <1>1, <1>2, SetMax
<1>4. Max(S) = j
  <2>1. x <= j /\ x >= j
    BY <1>3 DEF S
  <2>2. QED
    BY <1>1, <1>2, <1>3, <2>1
<1>5. QED
  BY <1>1, <1>4, MarkOf DEF S

LEMMA MarkNone ==
  ASSUME NEW p \in Seq(STRING), NEW ms, Marked(ms, p) = {}
  PROVE  GetMark(ms, p) = DefaultMark
BY MarkOf

\* The marks differ at one path at most.
SetsMark(ms, ms2, p0) == \A x \in MarkPath \ {p0} : ms2[x] = ms[x]

\* A mark that is set changes the mark of the paths below only, and only if it
\* changes that of its own path.
LEMMA MarkChanges ==
  ASSUME NEW ms, NEW ms2, NEW p0, SetsMark(ms, ms2, p0), NEW p \in Path, GetMark(ms2, p) # GetMark(ms, p)
  PROVE  \E k \in 0..Len(p) : p0 = Upto(p, k) /\ GetMark(ms2, p0) # GetMark(ms, p0)
<1> DEFINE n == Len(p)
<1>1. p \in Seq(STRING) /\ n \in Nat
  BY PathLen
<1>2. ASSUME NEW i \in 0..n PROVE Upto(p, i) \in MarkPath
  <2>1. SubSeq(p, 1, i) = Upto(p, i)
    BY <1>1, StartOf
  <2>2. CASE i = 0
    BY <1>1, <2>2, UptoSteps DEF MarkPath
  <2>3. CASE i # 0
    <3>1. i \in 1..n
      BY <1>1, <2>3
    <3>2. QED
      BY <2>1, <3>1 DEF MarkPath
  <2>4. QED
    BY <2>2, <2>3
<1>3. ASSUME NEW i \in 0..n, Upto(p, i) # p0 PROVE ms2[Upto(p, i)] = ms[Upto(p, i)]
  BY <1>2, <1>3 DEF SetsMark
<1>4. PICK k \in 0..n : Upto(p, k) = p0
  <2>1. SUFFICES ASSUME \A i \in 0..n : Upto(p, i) # p0 PROVE FALSE
    OBVIOUS
  <2>2. Marked(ms2, p) = Marked(ms, p)
    BY <1>3, <2>1 DEF Marked
  <2>3. CASE Marked(ms, p) = {}
    BY <1>1, <2>2, <2>3, MarkNone
  <2>4. CASE Marked(ms, p) # {}
    <3>1. Marked(ms, p) \in SUBSET (0..n)
      BY DEF Marked
    <3>2. PICK j : j = Max(Marked(ms, p))
      OBVIOUS
    <3>3. j \in Marked(ms, p) /\ (\A i \in Marked(ms, p) : j >= i) /\ j \in 0..n
      BY <1>1, <2>4, <3>1, <3>2, SetMax
    <3>4. \A i \in Marked(ms, p) : i <= j
      BY <3>1, <3>3
    <3>5. GetMark(ms, p) = ms[Upto(p, j)] /\ GetMark(ms2, p) = ms2[Upto(p, j)]
      BY <1>1, <2>2, <3>3, <3>4, MarkLast
    <3>6. QED
      BY <1>3, <2>1, <3>3, <3>5
  <2>5. QED
    BY <2>3, <2>4
<1>5. ASSUME NEW i \in 0..n, i # k PROVE ms2[Upto(p, i)] = ms[Upto(p, i)]
  <2>1. Len(Upto(p, i)) = i /\ Len(p0) = k
    BY <1>1, <1>4, UptoSteps
  <2>2. QED
    BY <1>3, <1>5, <2>1
<1>6. ASSUME NEW i \in Marked(ms, p) \cup Marked(ms2, p) PROVE i \in 0..n /\ i <= k
  <2>1. SUFFICES ASSUME i > k PROVE FALSE
    BY <1>1 DEF Marked
  <2>2. i \in 0..n /\ i # k
    BY <1>1, <2>1 DEF Marked
  <2>3. i \in Marked(ms, p) /\ i \in Marked(ms2, p)
    BY <1>5, <2>2 DEF Marked
  <2>4. Marked(ms, p) \in SUBSET (0..n) /\ Marked(ms, p) # {}
    BY <2>3 DEF Marked
  <2>5. PICK j : j = Max(Marked(ms, p))
    OBVIOUS
  <2>6. j \in Marked(ms, p) /\ (\A l \in Marked(ms, p) : j >= l) /\ j \in 0..n
    BY <1>1, <2>4, <2>5, SetMax
  <2>7. j >= i /\ j # k
    BY <2>1, <2>2, <2>3, <2>6
  <2>8. \A l \in Marked(ms, p) : l <= j
    BY <2>4, <2>6
  <2>9. j \in Marked(ms2, p)
    BY <1>5, <2>6, <2>7 DEF Marked
  <2>10. ASSUME NEW l \in Marked(ms2, p) PROVE l <= j
    <3>1. l \in 0..n
      BY DEF Marked
    <3>2. CASE l = k
      BY <2>1, <2>2, <2>6, <2>7, <3>2
    <3>3. CASE l # k
      <4>1. l \in Marked(ms, p)
        BY <1>5, <3>1, <3>3 DEF Marked
      <4>2. QED
        BY <2>8, <4>1
    <3>4. QED
      BY <3>2, <3>3
  <2>11. GetMark(ms, p) = ms[Upto(p, j)]
    BY <1>1, <2>6, <2>8, MarkLast
  <2>12. GetMark(ms2, p) = ms2[Upto(p, j)]
    BY <1>1, <2>9, <2>10, MarkLast
  <2>13. QED
    BY <1>5, <2>6, <2>7, <2>11, <2>12
<1>7. p0 \in Seq(STRING) /\ Len(p0) = k /\ k \in Nat /\ k <= n
  BY <1>1, <1>4, UptoSteps
<1>8. ASSUME NEW i \in 0..k PROVE Upto(p0, i) = Upto(p, i)
  BY <1>1, <1>4, <1>7 DEF Upto
<1>9. ASSUME NEW t, \A i \in Marked(t, p) : i \in 0..n /\ i <= k PROVE GetMark(t, p0) = GetMark(t, p)
  <2>1. Marked(t, p0) = Marked(t, p)
    <3>1. ASSUME NEW i \in Marked(t, p) PROVE i \in Marked(t, p0)
      <4>1. i \in 0..k /\ t[Upto(p, i)] # None
        BY <1>7, <1>9, <3>1 DEF Marked
      <4>2. QED
        BY <1>7, <1>8, <4>1 DEF Marked
    <3>2. ASSUME NEW i \in Marked(t, p0) PROVE i \in Marked(t, p)
      <4>1. i \in 0..k /\ t[Upto(p0, i)] # None /\ i \in 0..n
        BY <1>1, <1>7, <3>2 DEF Marked
      <4>2. QED
        BY <1>8, <4>1 DEF Marked
    <3>3. QED
      BY <3>1, <3>2
  <2>2. CASE Marked(t, p) = {}
    BY <1>1, <1>7, <2>1, <2>2, MarkNone
  <2>3. CASE Marked(t, p) # {}
    <3>1. PICK j : j = Max(Marked(t, p))
      OBVIOUS
    <3>2. Marked(t, p) \in SUBSET (0..n)
      BY DEF Marked
    <3>3. j \in Marked(t, p) /\ (\A i \in Marked(t, p) : j >= i) /\ j \in 0..k
      <4>1. j \in Marked(t, p) /\ (\A i \in Marked(t, p) : j >= i)
        BY <1>1, <2>3, <3>1, <3>2, SetMax
      <4>2. QED
        BY <1>7, <1>9, <4>1
    <3>4. \A i \in Marked(t, p) : i <= j
      BY <3>2, <3>3
    <3>5. GetMark(t, p) = t[Upto(p, j)] /\ GetMark(t, p0) = t[Upto(p0, j)]
      BY <1>1, <1>7, <2>1, <3>3, <3>4, MarkLast
    <3>6. QED
      BY <1>8, <3>3, <3>5
  <2>4. QED
    BY <2>2, <2>3
<1>10. GetMark(ms, p0) = GetMark(ms, p) /\ GetMark(ms2, p0) = GetMark(ms2, p)
  BY <1>6, <1>9
<1>11. QED
  BY <1>4, <1>10

-----------------------------------------------------------------------------
(* Jobs.                                                                   *)

\* The job JobFor finds, from what it reads.
JobOf(a, p, i, mark, cached, local, vs) ==
  CASE mark \in {"Watch", "Keep"} /\ local # None /\ local.hash = cached -> Job("Unrealize", a, p, cached, None)
    [] mark = "Keep" /\ ~(local # None /\ local.hash = cached) /\ i \notin vs -> Job("Download", a, p, cached, None)
    [] mark = "Own" /\ local = None -> Job("Realize", a, p, cached, None)
    [] mark = "Own" /\ local # None /\ local.outdated = cached -> Job("Realize", a, p, cached, local.hash)
    [] OTHER -> None

LEMMA JobNow ==
  ASSUME TablesInv, NEW a \in Arena, NEW p \in Path
  PROVE  /\ With(file[a], p) = {} => BuildJob(a, p) = None
         /\ \A i \in With(file[a], p) :
              BuildJob(a, p) = JobOf(a, p, i, GetMark(marks[a], p), file[a][i].default, indexed[a][p], verified[a])
<1>1. FilesTree(dirs[a], arenaTable[a], file[a])
  BY FilesTreeNow
<1>2. FileAt(a, p) = With(file[a], p) /\ OnePath(file[a])
  BY <1>1, ViewNow, FileOfPath
<1>3. ASSUME NEW i \in With(file[a], p)
      PROVE  BuildJob(a, p) = JobOf(a, p, i, GetMark(marks[a], p), file[a][i].default, indexed[a][p], verified[a])
  <2>1. With(file[a], p) = {i}
    BY <1>2 DEF With, OnePath
  <2>2. (CHOOSE j \in FileAt(a, p) : TRUE) = i /\ FileAt(a, p) # {}
    BY <1>2, <2>1
  <2>3. BuildJob(a, p) = JobFor(a, p, i)
    BY <2>2 DEF BuildJob
  <2>4. QED
    BY <2>3 DEF JobFor, JobOf
<1>4. QED
  BY <1>2, <1>3 DEF BuildJob

LEMMA JobNext ==
  ASSUME TablesInv', NEW a \in Arena, NEW p \in Path
  PROVE  /\ With(file'[a], p) = {} => BuildJob(a, p)' = None
         /\ \A i \in With(file'[a], p) :
              BuildJob(a, p)' = JobOf(a, p, i, GetMark(marks'[a], p), file'[a][i].default, indexed'[a][p], verified'[a])
<1>1. FilesTree(dirs'[a], arenaTable'[a], file'[a])
  BY FilesTreeNext
<1>2. FileAt(a, p)' = With(file'[a], p) /\ OnePath(file'[a])
  BY <1>1, ViewNext, FileOfPath
<1>3. ASSUME NEW i \in With(file'[a], p)
      PROVE  BuildJob(a, p)' = JobOf(a, p, i, GetMark(marks'[a], p), file'[a][i].default, indexed'[a][p], verified'[a])
  <2>1. With(file'[a], p) = {i}
    BY <1>2 DEF With, OnePath
  <2>2. (CHOOSE j \in FileAt(a, p)' : TRUE) = i /\ FileAt(a, p)' # {}
    BY <1>2, <2>1
  <2>3. BuildJob(a, p)' = JobFor(a, p, i)'
    BY <2>2 DEF BuildJob
  <2>4. QED
    BY <2>3 DEF JobFor, JobOf
<1>4. QED
  BY <1>2, <1>3 DEF BuildJob

\* A blob that becomes verified takes a job away at most.
LEMMA JobKept ==
  ASSUME NEW a, NEW p, NEW i, NEW mark, NEW cached, NEW local, NEW vs, NEW vs2, i \in vs => i \in vs2
  PROVE  JobOf(a, p, i, mark, cached, local, vs2) \in {None, JobOf(a, p, i, mark, cached, local, vs)}
<1>1. CASE i \in vs
  BY <1>1 DEF JobOf
<1>2. CASE i \notin vs /\ i \notin vs2
  BY <1>2 DEF JobOf
<1>3. CASE i \notin vs /\ i \in vs2
  BY <1>3 DEF JobOf
<1>4. QED
  BY <1>1, <1>2, <1>3

\* What a step may do to the file of a path without giving the path a job.
KeepsFile(a, p) ==
  \A i \in With(file'[a], p) :
    /\ i \in With(file[a], p) /\ file'[a][i].default = file[a][i].default
    /\ i \in verified[a] => i \in verified'[a]

LEMMA SameJob ==
  ASSUME TablesInv, TablesInv', NEW a \in Arena, NEW p \in Path, KeepsFile(a, p),
         GetMark(marks'[a], p) = GetMark(marks[a], p), indexed'[a][p] = indexed[a][p]
  PROVE  BuildJob(a, p)' \in {None, BuildJob(a, p)}
<1>1. CASE With(file'[a], p) = {}
  BY <1>1, JobNext
<1>2. ASSUME NEW i \in With(file'[a], p) PROVE BuildJob(a, p)' \in {None, BuildJob(a, p)}
  <2>1. /\ i \in With(file[a], p) /\ file'[a][i].default = file[a][i].default
        /\ i \in verified[a] => i \in verified'[a]
    BY DEF KeepsFile
  <2>2. BuildJob(a, p)' = JobOf(a, p, i, GetMark(marks'[a], p), file'[a][i].default, indexed'[a][p], verified'[a])
    BY JobNext
  <2>3. BuildJob(a, p) = JobOf(a, p, i, GetMark(marks[a], p), file[a][i].default, indexed[a][p], verified[a])
    BY <2>1, JobNow
  <2>4. PICK mark, cached, local :
          mark = GetMark(marks[a], p) /\ cached = file[a][i].default /\ local = indexed[a][p]
    OBVIOUS
  <2>5. /\ BuildJob(a, p)' = JobOf(a, p, i, mark, cached, local, verified'[a])
        /\ BuildJob(a, p) = JobOf(a, p, i, mark, cached, local, verified[a])
    BY <2>1, <2>2, <2>3, <2>4
  <2>6. QED
    BY <2>1, <2>5, JobKept
<1>3. QED
  BY <1>1, <1>2

\* A step of JobsReachEngine for a path, and for all of them.
JobStep(a, p) ==
  \/ <<a, p>> \in dirtied'
  \/ updating' # None /\ updating = None
  \/ <<a, p>> \in moved' \ moved
  \/ BuildJob(a, p)' \in {None, BuildJob(a, p)}
JobStepOK == \A a \in registered, p \in Path : JobStep(a, p)

\* What the jobs need: the tables, and verified blobs for every arena.
EngineInv == PathInv /\ JobsInv /\ DOMAIN verified = Arena

LEMMA ServedArenas == ASSUME TablesInv PROVE registered \subseteq Arena
BY DEF TablesInv, TypeOK

\* Most steps leave what a job depends on alone.
LEMMA QuietJobs ==
  ASSUME TablesInv, TablesInv', UNCHANGED <<file, marks, indexed>>,
         \A a \in Arena : \A i \in DOMAIN file[a] : i \in verified[a] => i \in verified'[a]
  PROVE  JobStepOK
<1>1. ASSUME NEW a \in Arena, NEW p \in Path PROVE BuildJob(a, p)' \in {None, BuildJob(a, p)}
  <2>1. KeepsFile(a, p)
    BY DEF KeepsFile, With
  <2>2. QED
    BY <2>1, SameJob
<1>2. QED
  BY <1>1, ServedArenas DEF JobStepOK, JobStep

LEMMA FollowsQuiet ==
  ASSUME Follows, NEW a \in Arena, file'[a] = file[a]
  PROVE  \A i \in DOMAIN file[a] : i \in verified[a] => i \in verified'[a]
BY DEF Follows

\* The default of a file changes only if its path is marked dirty.
LEMMA GiveJobs ==
  ASSUME PathInv, TablesInv', NEW a \in Arena, arenaTable[a] # 0, NEW q \in Peer, NEW n \in Incoming,
         n.kind \in Given, Give(a, q, n), arenaTable' = arenaTable, Follows, NEW p \in Path,
         <<a, p>> \notin dirtied'
  PROVE  KeepsFile(a, p)
<1>1. PICK i, f, g : GivenFile(a, q, n, i, f, g)
  BY GiveFile
<1>2. /\ f.path = n.path /\ g.path = n.path
      /\ (i \in DOMAIN file[a] /\ f = file[a][i])
         \/ (i \notin DOMAIN file[a] /\ f.default = None)
      /\ file'[a] = IF g.default = None THEN file[a] ELSE Insert(file[a], i, g)
      /\ dirtied' = IF g.default # f.default THEN {<<a, n.path>>} ELSE {}
  BY <1>1 DEF GivenFile
<1>3. verified'[a] = {j \in verified[a] : j \in DOMAIN file'[a] /\ file'[a][j].default = file[a][j].default}
  BY DEF Follows
<1>4. ASSUME NEW j \in With(file'[a], p)
      PROVE  j \in With(file[a], p) /\ file'[a][j].default = file[a][j].default
  <2>1. j \in DOMAIN file'[a] /\ file'[a][j].path = p
    BY DEF With
  <2>2. CASE g.default = None
    BY <1>2, <2>1, <2>2 DEF With
  <2>3. CASE g.default # None /\ j # i
    <3>0. file'[a] = Insert(file[a], i, g)
      BY <1>2, <2>3
    <3>1. j \in DOMAIN file[a] /\ file'[a][j] = file[a][j]
      BY <2>1, <2>3, <3>0 DEF Insert
    <3>2. QED
      BY <2>1, <3>1 DEF With
  <2>4. CASE g.default # None /\ j = i
    <3>0. file'[a] = Insert(file[a], i, g)
      BY <1>2, <2>4
    <3>1. file'[a][i] = g
      BY <3>0 DEF Insert
    <3>2. p = n.path
      BY <1>2, <2>1, <2>4, <3>1
    <3>3. g.default = f.default
      BY <1>2, <3>2
    <3>4. i \in DOMAIN file[a] /\ f = file[a][i]
      BY <1>2, <2>4, <3>3
    <3>5. QED
      BY <1>2, <2>4, <3>1, <3>2, <3>3, <3>4 DEF With
  <2>5. QED
    BY <2>2, <2>3, <2>4
<1>5. QED
  BY <1>3, <1>4 DEF KeepsFile, With

LEMMA RmJobs ==
  ASSUME PathInv, NEW a \in Arena, NEW q \in Peer, NEW inodes \in SUBSET DOMAIN file[a],
         RmFileEntries(a, q, inodes), Follows, NEW p \in Path, <<a, p>> \notin dirtied'
  PROVE  KeepsFile(a, p)
<1>1. PICK d, gone : RmDone(a, q, inodes, d, gone)
  BY RmFiles
<1>2. /\ DOMAIN file'[a] = DOMAIN file[a] \ gone
      /\ \A i \in DOMAIN file[a] \ gone :
           /\ file'[a][i].path = file[a][i].path
           /\ i \in inodes => file'[a][i].default = d[i]
           /\ i \notin inodes => file'[a][i] = file[a][i]
      /\ dirtied' = {<<a, file[a][i].path>> : i \in {j \in inodes : d[j] # file[a][j].default}}
  BY <1>1 DEF RmDone
<1>3. verified'[a] = {j \in verified[a] : j \in DOMAIN file'[a] /\ file'[a][j].default = file[a][j].default}
  BY DEF Follows
<1>4. ASSUME NEW j \in With(file'[a], p)
      PROVE  j \in With(file[a], p) /\ file'[a][j].default = file[a][j].default
  <2>1. j \in DOMAIN file[a] \ gone /\ file[a][j].path = p
    BY <1>2 DEF With
  <2>2. CASE j \in inodes
    <3>1. d[j] = file[a][j].default
      BY <1>2, <2>1, <2>2
    <3>2. QED
      BY <1>2, <2>1, <2>2, <3>1 DEF With
  <2>3. CASE j \notin inodes
    BY <1>2, <2>1, <2>3 DEF With
  <2>4. QED
    BY <2>2, <2>3
<1>5. QED
  BY <1>3, <1>4 DEF KeepsFile, With

LEMMA NotifiesCacheJobs ==
  ASSUME PathInv, TablesInv', NEW a \in Arena, arenaTable[a] # 0, NEW q \in Peer, NEW n \in Incoming,
         NotifiesCache(a, q, n), Follows
  PROVE  JobStepOK
<1>1. Update(a, q, n) /\ arenaTable' = arenaTable /\ marks' = marks /\ indexed' = indexed /\ TablesInv
  BY DEF NotifiesCache, PathInv
<1>2. \A b \in Arena \ {a} : UNCHANGED <<range[b], dirs[b], file[b], pending[b], seen[b], known[b]>>
  BY <1>1, UpdateByPath
<1>3. ASSUME NEW p \in Path, <<a, p>> \notin dirtied' PROVE KeepsFile(a, p)
  <2>1. CASE n.kind \in Given /\ Give(a, q, n)
    BY <1>1, <1>3, <2>1, GiveJobs
  <2>2. CASE n.kind \in Taken /\ Take(a, q, n)
    <3> DEFINE inodes == {i \in {LookupPath(a, n.path).inode} \cap DOMAIN file[a] : file[a][i].peer[q] = n.old}
    <3>1. inodes \in SUBSET DOMAIN file[a] /\ RmFileEntries(a, q, inodes)
      BY <2>2 DEF Take
    <3> HIDE DEF inodes
    <3>2. QED
      BY <1>3, <3>1, RmJobs
  <2>3. CASE n.kind = "CatchupComplete" /\ CatchupComplete(a, q, n)
    <3> DEFINE inodes == {i \in DOMAIN file[a] : <<q, i>> \in pending[a] /\ file[a][i].peer[q] # None}
    <3>1. inodes \in SUBSET DOMAIN file[a] /\ RmFileEntries(a, q, inodes)
      BY <2>3 DEF CatchupComplete
    <3> HIDE DEF inodes
    <3>2. QED
      BY <1>3, <3>1, RmJobs
  <2>4. CASE CatchupStart(a, q) \/ Connected(a, q, n)
    <3>1. file'[a] = file[a]
      BY <2>4 DEF CatchupStart, Connected, treeVars
    <3>2. QED
      BY <3>1, FollowsQuiet DEF KeepsFile, With
  <2>5. QED
    BY <1>1, <2>1, <2>2, <2>3, <2>4 DEF Update
<1>4. ASSUME NEW b \in Arena, b # a, NEW p \in Path PROVE KeepsFile(b, p)
  <2>1. file'[b] = file[b]
    BY <1>2, <1>4
  <2>2. QED
    BY <2>1, FollowsQuiet DEF KeepsFile, With
<1>5. ASSUME NEW b \in registered, NEW p \in Path PROVE JobStep(b, p)
  <2>1. b \in Arena
    BY <1>1, ServedArenas
  <2>2. KeepsFile(b, p) \/ <<b, p>> \in dirtied'
    BY <1>3, <1>4, <2>1
  <2>3. ASSUME KeepsFile(b, p) PROVE BuildJob(b, p)' \in {None, BuildJob(b, p)}
    BY <1>1, <2>1, <2>3, SameJob
  <2>4. QED
    BY <2>2, <2>3 DEF JobStep
<1>6. QED
  BY <1>5 DEF JobStepOK

\* A mark reaches the files whose mark it changes.
LEMMA SetMarkJobs ==
  ASSUME TablesInv, TablesInv', NEW a \in Arena, NEW p0 \in MarkPath, NEW m \in Mark \cup {None},
         SetMark(a, p0, m), Follows
  PROVE  JobStepOK
<1> DEFINE ms == [marks[a] EXCEPT ![p0] = m]
<1>1. /\ GetMark(marks[a], p0) # GetMark(ms, p0) => dirtied' = MarkDirty(a, p0)
      /\ marks' = [marks EXCEPT ![a] = ms] /\ file' = file /\ indexed' = indexed
  BY DEF SetMark, treeVars
<1>2. marks \in [Arena -> [MarkPath -> Mark \cup {None}]]
  BY DEF TablesInv, TypeOK
<1>3. marks'[a] = ms /\ \A b \in Arena \ {a} : marks'[b] = marks[b]
  <2> HIDE DEF ms
  <2>1. QED
    BY <1>1, <1>2
<1>4. marks[a] \in [MarkPath -> Mark \cup {None}] /\ marks'[a] = [marks[a] EXCEPT ![p0] = m]
  BY <1>2, <1>3
<1> HIDE DEF ms
<1>5. ASSUME NEW b \in Arena, NEW p \in Path PROVE KeepsFile(b, p)
  <2>1. file'[b] = file[b]
    BY <1>1
  <2>2. QED
    BY <2>1, FollowsQuiet DEF KeepsFile, With
<1>6. ASSUME NEW p \in Path, GetMark(marks'[a], p) # GetMark(marks[a], p), NEW i \in With(file[a], p)
      PROVE  <<a, p>> \in dirtied'
  <2>1. PICK k \in 0..Len(p) : p0 = Upto(p, k) /\ GetMark(marks'[a], p0) # GetMark(marks[a], p0)
    <3>1. SetsMark(marks[a], marks'[a], p0)
      BY <1>4 DEF SetsMark
    <3>2. QED
      BY <1>6, <3>1, MarkChanges
  <2>2. dirtied' = MarkDirty(a, p0)
    BY <1>1, <1>3, <2>1
  <2>3. p \in Seq(STRING) /\ arenaTable[a] \in Nat
    BY PathLen DEF TablesInv, TypeOK
  <2>4. FilesTree(dirs[a], arenaTable[a], file[a]) /\ Entries(dirs[a]) /\ IsFiniteSet(DOMAIN dirs[a])
    BY FilesTreeNow, TreeFinite DEF FilesTree
  <2>5. i \in DOMAIN file[a] /\ file[a][i].path = p
    BY DEF With
  <2>6. Walk(dirs[a], arenaTable[a], p) = [inode |-> i, kind |-> "File"]
    BY <2>4, <2>5 DEF FilesTree
  <2>7. PICK f : OnTheWay(f, dirs[a], arenaTable[a], p)
    BY <2>3, <2>4, <2>6, WayTo
  <2>8. f[Len(p)].inode \in Below(dirs[a], f[k].inode)
    BY <2>3, <2>4, <2>7, BelowFile
  <2>9. /\ Walk(dirs[a], arenaTable[a], p) = f[Len(p)]
        /\ Walk(dirs[a], arenaTable[a], p0) = f[k] /\ f[k].kind \in {"Dir", "File"}
    BY <2>1, <2>7 DEF OnTheWay
  <2>10. f[Len(p)].inode = i
    BY <2>6, <2>9
  <2>11. LookupPath(a, p0) = f[k] /\ f[k].kind # "NotFound"
    BY <2>9 DEF LookupPath
  <2> DEFINE cached == Below(dirs[a], f[k].inode) \cap DOMAIN file[a]
  <2>12. i \in cached
    BY <2>5, <2>8, <2>10
  <2>13. {<<a, file[a][j].path>> : j \in cached} \subseteq MarkDirty(a, p0)
    BY <2>11 DEF MarkDirty
  <2> HIDE DEF cached
  <2>14. <<a, file[a][i].path>> \in MarkDirty(a, p0)
    BY <2>12, <2>13
  <2>15. QED
    BY <2>2, <2>5, <2>14
<1>7. ASSUME NEW b \in Arena, NEW p \in Path PROVE JobStep(b, p)
  <2>1. CASE GetMark(marks'[b], p) = GetMark(marks[b], p)
    <3>1. BuildJob(b, p)' \in {None, BuildJob(b, p)}
      BY <1>1, <1>5, <2>1, SameJob
    <3>2. QED
      BY <3>1 DEF JobStep
  <2>2. CASE GetMark(marks'[b], p) # GetMark(marks[b], p)
    <3>1. b = a
      BY <1>3, <2>2
    <3>2. CASE With(file'[a], p) = {}
      BY <3>1, <3>2, JobNext DEF JobStep
    <3>3. ASSUME NEW i \in With(file'[a], p) PROVE <<a, p>> \in dirtied'
      BY <1>1, <1>6, <2>2, <3>1
    <3>4. QED
      BY <3>1, <3>2, <3>3 DEF JobStep
  <2>3. QED
    BY <2>1, <2>2
<1>8. QED
  BY <1>7, ServedArenas DEF JobStepOK

\* A file that was only touched is not outdated any more, which gives no job.
LEMMA TouchedJob ==
  ASSUME NEW a, NEW p, NEW i, NEW mark, NEW cached \in Hash, NEW local, NEW h, NEW vs, NEW vs2,
         NEW touched, touched = [hash |-> h, outdated |-> None],
         local # None, touched # None, local.hash = h, i \in vs => i \in vs2
  PROVE  JobOf(a, p, i, mark, cached, touched, vs2) \in {None, JobOf(a, p, i, mark, cached, local, vs)}
<1>1. touched.hash = local.hash /\ touched.outdated # cached
  BY NoneAssumption
<1>2. CASE mark \in {"Watch", "Keep"} /\ local.hash = cached
  <2>1. JobOf(a, p, i, mark, cached, touched, vs2) = Job("Unrealize", a, p, cached, None)
    BY <1>1, <1>2 DEF JobOf
  <2>2. JobOf(a, p, i, mark, cached, local, vs) = Job("Unrealize", a, p, cached, None)
    BY <1>2 DEF JobOf
  <2>3. QED
    BY <2>1, <2>2
<1>3. CASE mark = "Keep" /\ local.hash # cached /\ i \notin vs2
  <2>1. JobOf(a, p, i, mark, cached, touched, vs2) = Job("Download", a, p, cached, None)
    BY <1>1, <1>3 DEF JobOf
  <2>2. JobOf(a, p, i, mark, cached, local, vs) = Job("Download", a, p, cached, None)
    BY <1>3 DEF JobOf
  <2>3. QED
    BY <2>1, <2>2
<1>4. CASE ~(mark \in {"Watch", "Keep"} /\ local.hash = cached) /\ ~(mark = "Keep" /\ local.hash # cached /\ i \notin vs2)
  <2>1. JobOf(a, p, i, mark, cached, touched, vs2) = None
    BY <1>1, <1>4 DEF JobOf
  <2>2. QED
    BY <2>1
<1>5. QED
  BY <1>2, <1>3, <1>4

LEMMA IndexChangesJobs ==
  ASSUME TablesInv, TablesInv', NEW a \in Arena, NEW p0 \in Path, NEW entry,
         entry = None \/ \E h \in Hash : entry = [hash |-> h, outdated |-> None],
         IndexChanges(a, p0, entry), Follows
  PROVE  JobStepOK
<1>1. /\ indexed' = [indexed EXCEPT ![a][p0] = entry] /\ file' = file /\ marks' = marks
      /\ ~(entry # None /\ indexed[a][p0] # None /\ indexed[a][p0].hash = entry.hash) => dirtied' = {<<a, p0>>}
  BY DEF IndexChanges, treeVars
<1>2. indexed \in [Arena -> [Path -> {None} \cup [hash : Hash, outdated : Hash \cup {None}]]]
  BY DEF TablesInv, TypeOK
<1>3. ASSUME NEW b \in Arena, NEW p \in Path
      PROVE  indexed'[b][p] = IF <<b, p>> = <<a, p0>> THEN entry ELSE indexed[b][p]
  BY <1>1, <1>2
<1>4. ASSUME NEW b \in Arena, NEW p \in Path PROVE KeepsFile(b, p)
  <2>1. file'[b] = file[b]
    BY <1>1
  <2>2. QED
    BY <2>1, FollowsQuiet DEF KeepsFile, With
<1>5. ASSUME NEW b \in Arena, NEW p \in Path, <<b, p>> # <<a, p0>> PROVE JobStep(b, p)
  <2>1. indexed'[b][p] = indexed[b][p] /\ KeepsFile(b, p) /\ marks' = marks
    BY <1>1, <1>3, <1>4, <1>5
  <2>2. BuildJob(b, p)' \in {None, BuildJob(b, p)}
    BY <2>1, SameJob
  <2>3. QED
    BY <2>2 DEF JobStep
<1>6. JobStep(a, p0)
  <2>1. CASE ~(entry # None /\ indexed[a][p0] # None /\ indexed[a][p0].hash = entry.hash)
    BY <1>1, <2>1 DEF JobStep
  <2>2. CASE With(file'[a], p0) = {}
    BY <2>2, JobNext DEF JobStep
  <2>3. ASSUME entry # None, indexed[a][p0] # None, indexed[a][p0].hash = entry.hash, NEW i \in With(file'[a], p0)
        PROVE  BuildJob(a, p0)' \in {None, BuildJob(a, p0)}
    <3>1. PICK h \in Hash : entry = [hash |-> h, outdated |-> None]
      BY <2>3
    <3>2. i \in With(file[a], p0) /\ (i \in verified[a] => i \in verified'[a]) /\ i \in DOMAIN file[a]
      BY <1>1, <1>4 DEF KeepsFile, With
    <3>3. file[a][i].default \in Hash
      BY <3>2, FileType DEF FileRecord
    <3>4. PICK mark, cached, local :
            mark = GetMark(marks[a], p0) /\ cached = file[a][i].default /\ local = indexed[a][p0]
      OBVIOUS
    <3>5. BuildJob(a, p0)' = JobOf(a, p0, i, GetMark(marks'[a], p0), file'[a][i].default, indexed'[a][p0], verified'[a])
      BY JobNext
    <3>6. BuildJob(a, p0) = JobOf(a, p0, i, GetMark(marks[a], p0), file[a][i].default, indexed[a][p0], verified[a])
      BY <3>2, JobNow
    <3>7. indexed'[a][p0] = entry
      BY <1>3
    <3>8. /\ BuildJob(a, p0)' = JobOf(a, p0, i, mark, cached, entry, verified'[a])
          /\ BuildJob(a, p0) = JobOf(a, p0, i, mark, cached, local, verified[a])
      BY <1>1, <3>4, <3>5, <3>6, <3>7
    <3>9. local # None /\ local.hash = h /\ cached \in Hash
      BY <2>3, <3>1, <3>3, <3>4
    <3>10. QED
      BY <2>3, <3>1, <3>2, <3>8, <3>9, TouchedJob
  <2>4. QED
    BY <2>1, <2>2, <2>3 DEF JobStep
<1>7. QED
  BY <1>5, <1>6, ServedArenas DEF JobStepOK

LEMMA NextJobs == ASSUME EngineInv, TablesInv', Next, Follows PROVE JobStepOK
<1>0. TablesInv /\ PathInv
  BY DEF EngineInv, PathInv
<1>1. ASSUME UNCHANGED <<file, marks, indexed>> PROVE JobStepOK
  <2>1. \A b \in Arena : \A i \in DOMAIN file[b] : i \in verified[b] => i \in verified'[b]
    BY <1>1, FollowsQuiet
  <2>2. QED
    BY <1>0, <1>1, <2>1, QuietJobs
<1>2. ASSUME NEW a \in Arena, AddArena(a) \/ Register(a) \/ LosesRange(a) \/ StartListing(a) PROVE JobStepOK
  BY <1>1, <1>2 DEF AddArena, Register, LosesRange, StartListing, treeVars
<1>3. ASSUME NEW a \in Arena, NotifiesIndex(a) PROVE JobStepOK
  <2>1. updating = None /\ \E q \in Peer, n \in Sent : updating' = [arena |-> a, peer |-> q, notification |-> n]
    BY <1>3 DEF NotifiesIndex
  <2>2. updating' \in [arena : Arena, peer : Peer, notification : Incoming]
    BY <2>1 DEF Sent
  <2>3. updating' # None
    BY <2>2, UpdateAssumption
  <2>4. QED
    BY <2>1, <2>3 DEF JobStepOK, JobStep
<1>4. ASSUME NEW a \in Arena, FinishesUpdate(a) PROVE JobStepOK
  <2>1. /\ updating # None /\ updating.arena = a /\ arenaTable[a] # 0
        /\ updating \in [arena : Arena, peer : Peer, notification : Incoming]
    BY <1>0, <1>4 DEF FinishesUpdate, TablesInv, TypeOK, ProcessOK
  <2>2. CASE NotifiesCache(a, updating.peer, updating.notification)
    BY <1>0, <2>1, <2>2, NotifiesCacheJobs
  <2>3. CASE UNCHANGED <<globalVars, processVars, treeVars, peerVars, marks, indexed, listing>>
    BY <1>1, <2>3 DEF treeVars
  <2>4. QED
    BY <1>4, <2>2, <2>3 DEF FinishesUpdate
<1>5. ASSUME NEW a \in Arena, Notified(a) PROVE JobStepOK
  <2>1. PICK q \in Peer, n \in Sent : NotifiesCache(a, q, n)
    BY <1>5 DEF Notified
  <2>2. n \in Incoming /\ arenaTable[a] # 0
    BY <1>0, <1>5, OpStep DEF Notified, Sent
  <2>3. QED
    BY <1>0, <2>1, <2>2, NotifiesCacheJobs
<1>6. ASSUME NEW a \in Arena, NEW p \in MarkPath, NEW m \in Mark \cup {None}, SetMark(a, p, m)
      PROVE  JobStepOK
  BY <1>0, <1>6, SetMarkJobs
<1>7. ASSUME NEW a \in Arena, NEW p \in Path,
             IndexChanges(a, p, None) \/ \E h \in Hash : IndexChanges(a, p, [hash |-> h, outdated |-> None])
      PROVE  JobStepOK
  <2>1. PICK entry : /\ entry = None \/ \E h \in Hash : entry = [hash |-> h, outdated |-> None]
                     /\ IndexChanges(a, p, entry)
    BY <1>7
  <2>2. QED
    BY <1>0, <2>1, IndexChangesJobs
<1>8. ASSUME Restart \/ ReadPage \/ ReadAttributes PROVE JobStepOK
  BY <1>1, <1>8 DEF Restart, ReadPage, ReadAttributes, treeVars
<1>9. QED
  BY <1>2, <1>3, <1>4, <1>5, <1>6, <1>7, <1>8 DEF Next

\* The job's own steps: a download takes a job away, and what realize and
\* unrealize change is the path of the job.
LEMMA RealizesJobs == ASSUME EngineInv, TablesInv', Realizes PROVE JobStepOK
<1>1. /\ job # None /\ UNCHANGED <<file, marks, indexed>> /\ <<job.arena, job.path>> \notin moved
      /\ verified' = [verified EXCEPT ![job.arena] = @ \ JobFile]
      /\ moved' = moved \cup {<<job.arena, job.path>>}
  BY DEF Realizes, Running, IndexedFile, treeVars
<1>2. TablesInv /\ job.arena \in Arena /\ job.path \in Path /\ DOMAIN verified = Arena
  BY <1>1 DEF EngineInv, JobsInv
<1>3. JobFile \subseteq With(file[job.arena], job.path)
  <2>1. FilesTree(dirs[job.arena], arenaTable[job.arena], file[job.arena])
    BY <1>2, FilesTreeNow
  <2>2. FileAt(job.arena, job.path) = With(file[job.arena], job.path)
    BY <1>2, <2>1, ViewNow
  <2>3. QED
    BY <2>2 DEF JobFile
<1>4. ASSUME NEW b \in Arena, NEW p \in Path, <<b, p>> # <<job.arena, job.path>> PROVE KeepsFile(b, p)
  <2>1. CASE b # job.arena
    <3>1. verified'[b] = verified[b]
      BY <1>1, <1>2, <2>1
    <3>2. QED
      BY <1>1, <3>1 DEF KeepsFile
  <2>2. CASE b = job.arena
    <3>1. verified'[b] = verified[b] \ JobFile
      BY <1>1, <1>2, <2>2
    <3>2. ASSUME NEW i \in With(file[b], p) PROVE i \notin JobFile
      BY <1>3, <1>4, <2>2, <3>2 DEF With
    <3>3. QED
      BY <1>1, <3>1, <3>2 DEF KeepsFile
  <2>3. QED
    BY <2>1, <2>2
<1>5. ASSUME NEW b \in Arena, NEW p \in Path PROVE JobStep(b, p)
  <2>1. CASE <<b, p>> = <<job.arena, job.path>>
    BY <1>1, <2>1 DEF JobStep
  <2>2. CASE <<b, p>> # <<job.arena, job.path>>
    <3>1. BuildJob(b, p)' \in {None, BuildJob(b, p)}
      BY <1>1, <1>2, <1>4, <2>2, SameJob
    <3>2. QED
      BY <3>1 DEF JobStep
  <2>3. QED
    BY <2>1, <2>2
<1>6. QED
  BY <1>2, <1>5, ServedArenas DEF JobStepOK

LEMMA UnrealizesJobs == ASSUME EngineInv, TablesInv', Unrealizes PROVE JobStepOK
<1>1. /\ job # None /\ UNCHANGED <<file, marks, verified>> /\ dirtied' = {<<job.arena, job.path>>}
      /\ indexed' = [indexed EXCEPT ![job.arena][job.path] = None]
  BY DEF Unrealizes, Running, treeVars
<1>2. /\ TablesInv /\ job.arena \in Arena /\ job.path \in Path
      /\ indexed \in [Arena -> [Path -> {None} \cup [hash : Hash, outdated : Hash \cup {None}]]]
  BY <1>1 DEF EngineInv, JobsInv, TablesInv, TypeOK
<1>3. ASSUME NEW b \in Arena, NEW p \in Path, <<b, p>> # <<job.arena, job.path>>
      PROVE  indexed'[b][p] = indexed[b][p]
  BY <1>1, <1>2, <1>3
<1>4. ASSUME NEW b \in Arena, NEW p \in Path PROVE JobStep(b, p)
  <2>1. CASE <<b, p>> = <<job.arena, job.path>>
    BY <1>1, <2>1 DEF JobStep
  <2>2. CASE <<b, p>> # <<job.arena, job.path>>
    <3>1. KeepsFile(b, p)
      BY <1>1 DEF KeepsFile
    <3>2. BuildJob(b, p)' \in {None, BuildJob(b, p)}
      BY <1>1, <1>2, <1>3, <2>2, <3>1, SameJob
    <3>3. QED
      BY <3>2 DEF JobStep
  <2>3. QED
    BY <2>1, <2>2
<1>5. QED
  BY <1>2, <1>4, ServedArenas DEF JobStepOK

LEMMA EngineNext == ASSUME EngineInv, TablesInv', [ArenaNext]_arenaVars PROVE JobStepOK /\ DOMAIN verified' = Arena
<1>0. TablesInv /\ DOMAIN verified = Arena
  BY DEF EngineInv, JobsInv
<1>1. ASSUME UNCHANGED <<file, marks, indexed, verified>> PROVE JobStepOK
  BY <1>0, <1>1, QuietJobs
<1>2. ASSUME Next, Follows PROVE JobStepOK /\ DOMAIN verified' = Arena
  BY <1>2, NextJobs DEF Follows
<1>3. ASSUME NEW a \in Arena, NEW p \in Path, TakesJob(a, p) PROVE JobStepOK /\ DOMAIN verified' = Arena
  BY <1>0, <1>1, <1>3 DEF TakesJob, treeVars
<1>4. ASSUME Downloads PROVE JobStepOK /\ DOMAIN verified' = Arena
  <2>1. /\ UNCHANGED <<file, marks, indexed>> /\ verified' = [verified EXCEPT ![job.arena] = @ \cup JobFile]
    BY <1>4 DEF Downloads, treeVars
  <2>2. DOMAIN verified' = Arena /\ \A b \in Arena : verified[b] \subseteq verified'[b]
    BY <1>0, <2>1
  <2>3. JobStepOK
    BY <1>0, <2>1, <2>2, QuietJobs
  <2>4. QED
    BY <2>2, <2>3
<1>5. ASSUME Realizes PROVE JobStepOK /\ DOMAIN verified' = Arena
  <2>1. DOMAIN verified' = Arena
    BY <1>0, <1>5 DEF Realizes
  <2>2. QED
    BY <1>5, <2>1, RealizesJobs
<1>6. ASSUME Unrealizes PROVE JobStepOK /\ DOMAIN verified' = Arena
  <2>1. DOMAIN verified' = Arena
    BY <1>0, <1>6 DEF Unrealizes
  <2>2. QED
    BY <1>6, <2>1, UnrealizesJobs
<1>7. ASSUME EndsJob PROVE JobStepOK /\ DOMAIN verified' = Arena
  BY <1>0, <1>1, <1>7 DEF EndsJob, treeVars
<1>8. ASSUME UNCHANGED arenaVars PROVE JobStepOK /\ DOMAIN verified' = Arena
  BY <1>0, <1>1, <1>8 DEF arenaVars, vars, jobVars, treeVars
<1>9. QED
  BY <1>2, <1>3, <1>4, <1>5, <1>6, <1>7, <1>8 DEF ArenaNext

\* No job is missed: a transaction that gives a path a job, or another job,
\* marks the path dirty, except the two that leave it to what follows.  A mark
\* set on a directory reaches every file below it whose mark it changes,
\* because no path is longer than the table mark_dir_dirty goes through, and a
\* mark that changes nothing at its own path changes nothing below
\* (PathMarks::mark_dirty, do_write_default_file_entry, add_file,
\* drop_file_if_matches).
THEOREM JobsAreMarkedDirty == ArenaSpec => JobsReachEngine
<1>1. ArenaInit => PathInv /\ DOMAIN verified = Arena
  BY PathsInit DEF ArenaInit
<1>2. PathInv /\ JobsInv /\ JobsInv' /\ DOMAIN verified = Arena /\ [ArenaNext]_arenaVars
        => PathInv' /\ (DOMAIN verified = Arena)' /\ JobStepOK
  <2>1. SUFFICES ASSUME PathInv, JobsInv, JobsInv', DOMAIN verified = Arena, [ArenaNext]_arenaVars
                 PROVE  PathInv' /\ (DOMAIN verified = Arena)' /\ JobStepOK
    OBVIOUS
  <2>2. EngineInv /\ TablesInv'
    BY <2>1 DEF EngineInv, JobsInv
  <2>3. PathStepOK
    BY <2>1, <2>2, PathsArenaNext
  <2>4. PathInv'
    BY <2>2, <2>3 DEF PathInv, PathStepOK
  <2>5. JobStepOK /\ DOMAIN verified' = Arena
    BY <2>1, <2>2, EngineNext
  <2>6. QED
    BY <2>4, <2>5
<1>3. JobStepOK => [\A a \in registered, p \in Path :
       \/ <<a, p>> \in dirtied'
       \/ updating' # None /\ updating = None
       \/ <<a, p>> \in moved' \ moved
       \/ BuildJob(a, p)' \in {None, BuildJob(a, p)}]_<<dirs, file, marks, indexed, verified>>
  BY DEF JobStepOK, JobStep
<1>4. QED
  BY <1>1, <1>2, <1>3, TablesAlways, PTL DEF ArenaSpec, JobsReachEngine

=============================================================================
