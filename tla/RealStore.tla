------------------------------ MODULE RealStore -------------------------------
(***************************************************************************)
(* One file of a RealStore (realize-storage/src/arena/store.rs) and what   *)
(* the calls of the RealStoreService do to it.  A file exists in final     *)
(* form, in partial form (".name.part"), in both, or not at all; writes go *)
(* to the partial form and finish makes it final.                          *)
(*                                                                         *)
(* A content is a sequence of blocks; one block stands for CHUNK_SIZE and  *)
(* for HASH_FILE_CHUNK, so that every call is about one block.  A block is *)
(* its own hash.                                                           *)
(***************************************************************************)
EXTENDS Naturals, Sequences

CONSTANTS
  Data,       \* blocks the user writes
  MaxSize,    \* bound on the blocks of a file
  Zero,       \* a block filled with 0, as in a hole
  ZeroHash,   \* Hash::zero(), the hash of a range the file does not have
  None        \* no file

Block == Data \cup {Zero}
Content == UNION {[1..n -> Block] : n \in 0..MaxSize}
Store == [final : Content \cup {None}, partial : Content \cup {None}]

Smaller(m, n) == IF m < n THEN m ELSE n
Larger(m, n) == IF m < n THEN n ELSE m

\* PathResolver::resolve for a source, which ignores the partial form, and for
\* a destination, which prefers it.  No form at all is an I/O error.
ResolveFinal(st) == st.final
Resolve(st) == IF st.partial # None THEN st.partial ELSE st.final

\* read_padded: what the file does not have is read as zeros.
ReadPadded(file, i) == IF file # None /\ i <= Len(file) THEN file[i] ELSE Zero

\* hash_large_range_exact: what the file does not have has the zero hash.
HashExact(file, i) == IF i <= Len(file) THEN file[i] ELSE ZeroHash

\* The size list() reports.
ListedSize(file) == IF file = None THEN 0 ELSE Len(file)

\* open_for_range_write: the file is created if it is not there.
OpenForWrite(file) == IF file = None THEN <<>> ELSE file

\* write_at_offset: a write past the end leaves a hole.
WriteAt(file, i, v) ==
  [j \in 1..Larger(Len(file), i) |-> IF j = i THEN v ELSE ReadPadded(file, j)]

Send(st, i, v) == [st EXCEPT !.partial = WriteAt(OpenForWrite(@), i, v)]

\* apply_delta: the delta gives v from the block it was computed for; from
\* another block the result fails the hash check and is not written.
AppliesTo(st, i, base) == ReadPadded(st.partial, i) = base
ApplyDelta(st, i, base, v) ==
  [st EXCEPT !.partial = IF AppliesTo(st, i, base) THEN WriteAt(OpenForWrite(@), i, v) ELSE OpenForWrite(@)]

Truncate(st, n) == [st EXCEPT !.partial = SubSeq(OpenForWrite(@), 1, Smaller(n, Len(OpenForWrite(@))))]

\* finish renames the partial form, if that is what the path resolves to.
Finish(st) == IF st.partial = None THEN st ELSE [final |-> st.partial, partial |-> None]

\* delete removes both forms.
Delete(st) == [final |-> None, partial |-> None]
=============================================================================
