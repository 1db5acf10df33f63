----------------------------- MODULE MCDownloader -----------------------------
(* Reads of a small file; the operations of ByteRanges against sets of offsets; *)
(* what Codecs keeps of a value.                                               *)
EXTENDS Downloader, Codecs

\* Every set of ranges within the first bytes, and every range.
LastByte == 6
Sets == SUBSET (0..LastByte - 1)
Maps == {RangesOf(s) : s \in Sets}
Pieces == {ByteRange(i, j) : i, j \in 0..LastByte}

\* Union, intersection and subtraction are those of the sets of offsets, and
\* their results are minimal, so that equal sets are equal maps, which
\* local_availability relies on when it compares them.
ASSUME SweepsAreExact ==
  \A s, t \in Sets :
    LET a == RangesOf(s)  b == RangesOf(t)
    IN /\ Union(a, b) = RangesOf(s \cup t)
       /\ Intersection(a, b) = RangesOf(s \cap t)
       /\ Subtraction(a, b) = RangesOf(s \ t)
       /\ Extend(a, b) = Union(a, b)

\* Adding a range, in any order, and asking for the range of an offset.
ASSUME AddIsExact ==
  \A s \in Sets :
    LET a == RangesOf(s)
    IN /\ Minimal(a) /\ Offsets(a) = s /\ FromRanges(AsVec(a)) = a
       /\ TotalBytes(a) = Cardinality(s)
       /\ \A r \in Pieces :
            LET within == {i \in 0..LastByte - 1 : Contains(r, i)}
            IN /\ Add(a, r) = RangesOf(s \cup within)
               /\ Add(Single(r.start, r.end), r) = RangesOf(within)
       /\ \A i \in 0..LastByte :
            LET around == ContainingRange(a, i)
            IN IF i \notin s THEN around = {}
               ELSE \E r \in around :
                      /\ around = {r} /\ Contains(r, i)
                      /\ \A j \in r.start..r.end - 1 : j \in s
                      /\ r.start - 1 \notin s /\ r.end \notin s

\* ByteRanges::overlaps is also true of a range that only starts where one of
\* the set ends, and of an empty range there: unlike ByteRange::overlaps, it
\* looks for the last point before the start and not up to it.
ASSUME OverlapsOrTouches ==
  \A s \in Sets, r \in Pieces :
    r.start <= r.end =>
      (OverlapsRange(RangesOf(s), r) <=> \E i \in s : r.start - 1 <= i /\ i < r.end)

\* Chunks are in order, cover the ranges and nothing else, and are never empty
\* nor too long; operations on two ranges are those of their bytes.
ASSUME ChunksAreExact ==
  /\ \A a \in Maps, size \in 1..3 :
       LET chunks == Chunked(a, size)
       IN /\ FromRanges(chunks) = a
          /\ \A k \in DOMAIN chunks : ByteCount(chunks[k]) \in 1..size
          /\ \A k \in 1..Len(chunks) - 1 : chunks[k].end <= chunks[k + 1].start
  /\ \A a \in Maps : Chunked(a, 0) = <<>>
  /\ \A r, s \in Pieces :
       LET bytes(p) == {i \in 0..LastByte : Contains(p, i)}
       IN /\ bytes(RangesMeet(r, s)) = bytes(r) \cap bytes(s)
          /\ bytes(r) \cup bytes(s) \subseteq bytes(Span(r, s))
          /\ ~IsEmpty(r) /\ ~IsEmpty(s) =>
               (RangesOverlap(r, s) <=> bytes(r) \cap bytes(s) # {})
-----------------------------------------------------------------------------
\* Values of each conversion, the first of a sequence standing for the others.
Hashes == [1..HashSize -> 0..Radix - 1]
Samples(conversion) ==
  CASE conversion \in {"number", "index"} -> {7, 0, 300}
    [] conversion = "text" -> {"some", ""}
    [] conversion \in {"time", "seconds"} -> {Time(s, n) : s \in 0..2, n \in 0..1}
    [] conversion = "hash" -> Hashes
    [] conversion = "maybe hash" -> Hashes \cup {Unset}
    [] conversion = "path" -> {<<"a">>, <<"a", "b">>}
    [] conversion = "maybe id" -> {Unset} \cup 1..3
    [] conversion = "maybe pair" -> {Unset, <<0, 0>>, <<1, 2>>}
    [] conversion = "ranges" -> Maps
    [] conversion = "mark" -> {"Watch", "Keep", "Own"}
    [] conversion = "assignment" -> {"File", "Directory"}
    [] conversion = "action" -> {"Download", "Verify", "Repair", "Move"}
    [] conversion = "maybe action" -> {Unset, "Download", "Verify", "Repair", "Move"}

\* Of a time kept in seconds, the rest is lost: a job that failed is retried
\* up to a second before its backoff ends, and never after.
Kept(conversion, v) == IF conversion = "seconds" THEN Time(v.secs, 0) ELSE v

\* What is read back is what was written, but for fractions of seconds, for
\* any value of any field; Unset is None.
ASSUME ValuesSurvive ==
  \A t \in DOMAIN Types : \A which \in DOMAIN Types[t] :
    LET fields == Types[t][which]
        example == [f \in DOMAIN fields |-> CHOOSE v \in Samples(fields[f]) : TRUE]
    IN \A f \in DOMAIN fields : \A v \in Samples(fields[f]) :
         LET value == [example EXCEPT ![f] = v]
         IN Held(Types[t], which, value)
              = [g \in DOMAIN fields |-> Kept(fields[g], value[g])]

\* A message without a path, a hash or the action of an UpdateAction is refused
\* and not read as one about another file; other fields take their defaults.
ASSUME MissingFieldsRefused ==
  \A t \in DOMAIN Types : \A which \in DOMAIN Types[t] :
    LET fields == Types[t][which]
        example == [f \in DOMAIN fields |-> CHOOSE v \in Samples(fields[f]) : TRUE]
    IN \A f \in DOMAIN fields :
         LET msg == [ToBytes(Types[t], which, example) EXCEPT !.fields[f] = Unset]
         IN FromBytes(Types[t], msg) = Invalid <=> fields[f] \in {"hash", "path", "action"}

\* Keys are in the order of their numbers, which the order of their bytes is
\* not: the last id of a table, which new ids follow, is the largest.
ASSUME KeysInOrder ==
  \A m, n \in 0..Radix^3 - 1 :
    /\ FromLeBytes(ToLeBytes(n, 3)) = n
    /\ KeyBefore(ToLeBytes(m, 3), ToLeBytes(n, 3)) <=> m < n

\* A remote read fails at the caller of the file system as a local one would
\* when the file is absent, of another kind or protected, and is reported as
\* absent for no other reason than the file or its arena not being there.
ASSUME ErrorsSurvive ==
  \A err \in StorageError :
    LET from_peer == IoToNfsstat3(ErrnoToIoError(ReadErrno(err)))
    IN /\ UnrealToNfsstat3(err) \in {"NOENT", "NOTDIR", "ISDIR", "PERM", "INVAL"}
            => from_peer = UnrealToNfsstat3(err)
       /\ from_peer = "NOENT" =>
            \/ err.type \in {"NotFound", "UnknownArena", "NoLocalStorage"}
            \/ err.type = "Io" /\ err.kind = "NotFound"
=============================================================================
