------------------------------ MODULE ByteRanges ------------------------------
(***************************************************************************)
(* Ranges of bytes and sets of them (realize-types/src/byterange.rs).      *)
(*                                                                         *)
(* A ByteRanges is a BTreeMap from offsets to points, here a function from *)
(* a finite set of offsets to "Start" and "End".  The operations that go   *)
(* through two maps at once sweep over the points of both in order; they   *)
(* are checked against sets of offsets in MCDownloader.                    *)
(***************************************************************************)
EXTENDS Integers, Sequences
LOCAL SX == INSTANCE SequencesExt
LOCAL FX == INSTANCE FiniteSetsExt

Least(a, b) == IF a < b THEN a ELSE b
Most(a, b) == IF a < b THEN b ELSE a
-----------------------------------------------------------------------------
(* One range, closed at its start and open at its end. *)

ByteRange(start, end) == [start |-> start, end |-> end]
NoRange == ByteRange(0, 0)
IsEmpty(r) == r.end <= r.start
Contains(r, i) == r.start <= i /\ i < r.end
ByteCount(r) == IF IsEmpty(r) THEN 0 ELSE r.end - r.start

RangesOverlap(r, s) == r.start < s.end /\ s.start < r.end
RangesMeet(r, s) ==
  LET meet == ByteRange(Most(r.start, s.start), Least(r.end, s.end))
  IN IF IsEmpty(meet) THEN NoRange ELSE meet
Span(r, s) == ByteRange(Least(r.start, s.start), Most(r.end, s.end))

\* ChunkIterator: the chunks that are left from an offset.
ChunksFrom(r, size) ==
  LET left[offset \in r.start..Most(r.start, r.end)] ==
        IF size = 0 \/ offset >= r.end THEN <<>>
        ELSE LET end == Least(offset + size, r.end)
             IN <<ByteRange(offset, end)>> \o left[end]
  IN left[r.start]
-----------------------------------------------------------------------------
(* The map of points. *)

NoRanges == <<>>
Without(btree, gone) == [v \in DOMAIN btree \ gone |-> btree[v]]
Insert(btree, v, point) ==
  [u \in DOMAIN btree \cup {v} |-> IF u = v THEN point ELSE btree[u]]

\* range(..v).next_back() and range(v..).next(), as sets of at most one offset.
LastBefore(btree, v) ==
  {u \in DOMAIN btree \cap Nat : u < v /\ \A w \in DOMAIN btree : w < v => w <= u}
FirstFrom(btree, v) ==
  {u \in DOMAIN btree \cap Nat : v <= u /\ \A w \in DOMAIN btree : v <= w => u <= w}

Single(start, end) ==
  IF end > start THEN Insert(Insert(NoRanges, start, "Start"), end, "End") ELSE NoRanges

Add(btree, r) ==
  IF IsEmpty(r) THEN btree
  ELSE LET outside == Without(btree, r.start..r.end)
           opened == \E u \in LastBefore(outside, r.start) : outside[u] = "Start"
           closed == \E u \in FirstFrom(outside, r.end) : outside[u] = "End"
           begun == IF opened THEN outside ELSE Insert(outside, r.start, "Start")
       IN IF closed THEN begun ELSE Insert(begun, r.end, "End")

\* points(), and ByteRangesIter, which pairs them.
Points(btree) ==
  LET offsets == SX!SetToSortSeq(DOMAIN btree, <)
  IN [i \in DOMAIN offsets |-> [at |-> offsets[i], point |-> btree[offsets[i]]]]
AsVec(btree) ==
  LET points == Points(btree)
  IN [i \in 1..Len(points) \div 2 |-> ByteRange(points[2 * i - 1].at, points[2 * i].at)]

FromRanges(ranges) == SX!FoldLeft(Add, NoRanges, ranges)
Extend(btree, other) ==
  IF btree = NoRanges THEN other ELSE SX!FoldLeft(Add, btree, AsVec(other))
TotalBytes(btree) == SX!FoldLeft(LAMBDA sum, r : sum + ByteCount(r), 0, AsVec(btree))
Chunked(btree, size) == SX!FlattenSeq([i \in DOMAIN AsVec(btree) |-> ChunksFrom(AsVec(btree)[i], size)])

OverlapsRange(btree, r) ==
  \/ \E u \in DOMAIN btree : Contains(r, u) /\ btree[u] = "Start"
  \/ \E u \in LastBefore(btree, r.start) : btree[u] = "Start"

ContainingRange(btree, offset) ==
  {ByteRange(u, v) : u \in {s \in LastBefore(btree, offset + 1) : btree[s] = "Start"},
                     v \in {e \in FirstFrom(btree, offset + 1) : btree[e] = "End"}}
-----------------------------------------------------------------------------
(* Sweeps over two maps. *)

\* Merged: points in order, without a Start and an End at the same offset.
Merged(a, b) ==
  LET next[i \in 1..Len(a) + 1, j \in 1..Len(b) + 1] ==
        IF i > Len(a) THEN SubSeq(b, j, Len(b))
        ELSE IF j > Len(b) THEN SubSeq(a, i, Len(a))
        ELSE IF a[i].at = b[j].at /\ a[i].point # b[j].point THEN next[i + 1, j + 1]
        ELSE IF a[i].at < b[j].at THEN <<a[i]>> \o next[i + 1, j]
        ELSE <<b[j]>> \o next[i, j + 1]
  IN next[1, 1]

\* Keeps the Start that brings the depth to a level, and the End that takes it
\* below.  Only subtraction can meet that End before any Start.
Sweep(points, depth, level) ==
  LET turn(s, p) ==
        LET now == IF p.point = "Start" THEN s.depth + 1 ELSE s.depth - 1
            crosses == level = IF p.point = "Start" THEN now ELSE s.depth
            kept == crosses /\ (p.point = "End" => s.started)
        IN [depth |-> now,
            started |-> s.started \/ kept,
            result |-> IF kept THEN Insert(s.result, p.at, p.point) ELSE s.result]
  IN SX!FoldLeft(turn, [depth |-> depth, started |-> FALSE, result |-> NoRanges], points).result

Union(a, b) == IF a = NoRanges THEN b ELSE Sweep(Merged(Points(a), Points(b)), 0, 1)

Intersection(a, b) ==
  IF a = NoRanges \/ b = NoRanges THEN NoRanges ELSE Sweep(Merged(Points(a), Points(b)), 0, 2)

\* An intersection with the reverse of b, which starts and ends opened.
Reversed(points) ==
  [i \in DOMAIN points |->
     [points[i] EXCEPT !.point = IF @ = "Start" THEN "End" ELSE "Start"]]
Subtraction(a, b) == Sweep(Merged(Points(a), Reversed(Points(b))), 1, 2)
-----------------------------------------------------------------------------
(* The reference: sets of offsets. *)

\* The offsets a map stands for: those whose last point is a Start.
Offsets(btree) ==
  {i \in 0..FX!Max(DOMAIN btree \cup {0}) : \E u \in LastBefore(btree, i + 1) : btree[u] = "Start"}

\* Ranges are not empty, sorted, and merged when possible: points alternate,
\* from a Start to an End.
Minimal(btree) ==
  LET points == Points(btree)
  IN /\ Len(points) % 2 = 0
     /\ \A i \in DOMAIN points : points[i].point = IF i % 2 = 1 THEN "Start" ELSE "End"

\* The map of a set of offsets.
RangesOf(offsets) ==
  LET starts == {i \in offsets : i - 1 \notin offsets}
      ends == {i + 1 : i \in {j \in offsets : j + 1 \notin offsets}}
  IN [v \in starts \cup ends |-> IF v \in starts THEN "Start" ELSE "End"]
=============================================================================
