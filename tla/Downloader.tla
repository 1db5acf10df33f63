------------------------------ MODULE Downloader ------------------------------
(***************************************************************************)
(* Download (realize-core/src/fs/downloader.rs): reads of a file that is   *)
(* partly stored in a local blob and partly on another peer.  A read is a  *)
(* state machine driven by poll_read; it may be dropped wherever it waits  *)
(* and the reader used again, with or without a seek, since nfs.rs keeps   *)
(* readers in a cache.                                                     *)
(*                                                                         *)
(* One action is one turn of the loop of poll_read, or of fill.  A byte is *)
(* known by its offset; chunks come from the peer as Connections describes *)
(* them, all or an error, except that the file may be shorter there than   *)
(* the cache believes.  The blob remembers what was written to it as       *)
(* ByteRanges, which update_db adds to those of the database.              *)
(***************************************************************************)
EXTENDS ByteRanges, FiniteSets

CONSTANTS
  Size,        \* size of the file, according to the cache
  MinChunk,    \* MIN_CHUNK_SIZE, also the largest chunk a peer sends
  MaxChunk,    \* MAX_CHUNK_SIZE
  BufSize,     \* buffer sizes of the callers
  MaxReads     \* bound on calls

ASSUME SizeAssumption ==
  /\ Size \in Nat /\ MinChunk \in Nat \ {0} /\ MaxChunk \in Nat /\ MaxChunk % MinChunk = 0
  /\ MaxChunk > 0 /\ BufSize \subseteq Nat /\ MaxReads \in Nat

VARIABLES
  remote,      \* size of the peer's file
  written,     \* ranges the database has as written
  local,       \* ranges available in the blob
  pending,     \* ranges of it not in the database yet
  blobOffset,  \* position of the blob
  offset,      \* position of the reader
  avail,       \* chunks kept in memory
  state,       \* ReadState
  call,        \* the read in progress
  reads,       \* calls so far, for the bound only
  resumed      \* whether a call met what a dropped read left behind

blob == <<written, local, pending>>
reader == <<blob, blobOffset, offset, avail, state>>
readerVars == <<remote, reader, call, reads, resumed>>

Byte == 0..Size - 1
FileRange == [start : 0..Size, end : 0..Size]
Bytes(range) == {i \in Byte : Contains(range, i)}

\* ReadState: "fill" is Default inside the loop of fill, "request" Default
\* after it; StartSeek and Seek hold the position and the state that follows.
ReadState ==
  [pc : {"default", "fill", "request", "seek", "read", "download", "write"},
   goal : 0..Size,                     \* position of StartSeek
   next : {"read", "write"},           \* state after Seek
   range : FileRange,                      \* range of Download
   chunks : Seq(FileRange)]                \* chunks of Write, the first one first

Default == [pc |-> "default", goal |-> 0, next |-> "read", range |-> NoRange, chunks |-> <<>>]

\* The call to read: the room left in the buffer, the bytes in it so far, the
\* offset it started at and how it ended.
ReadCall == [pc : {"idle", "reading", "ok", "err"}, room : Nat, from : Nat, size : Nat,
         data : Seq(Byte)]
NoCall == [pc |-> "idle", room |-> 0, from |-> 0, size |-> 0, data |-> <<>>]

ReaderTypeOK ==
  /\ remote \in 0..Size
  /\ \A ranges \in {written, local, pending} : Minimal(ranges) /\ Offsets(ranges) \subseteq Byte
  /\ blobOffset \in 0..Size
  /\ offset \in Nat /\ (~resumed => offset <= Size)
  /\ avail \in Seq(FileRange)
  /\ state \in ReadState
  /\ call \in ReadCall
  /\ reads \in 0..MaxReads
  /\ resumed \in BOOLEAN

\* Downloader::reader opens the blob with whatever it holds.
ReaderInit ==
  /\ remote \in 0..Size
  /\ written \in {NoRanges, Single(0, MinChunk), Single(Size - MinChunk, Size)}
  /\ local = written /\ pending = NoRanges
  /\ blobOffset = 0 /\ offset = 0 /\ avail = <<>>
  /\ state = Default /\ call = NoCall /\ reads = 0 /\ resumed = FALSE
-----------------------------------------------------------------------------
(* The caller. *)

\* start_seek and poll_complete: a pending download is kept if it covers the
\* new position, chunks in memory are dropped until one does.
KeepsAll(chunks, i) == chunks    \* mutant
DropUntil(chunks, i) ==
  LET holding == {k \in 1..Len(chunks) : Contains(chunks[k], i)}
  IN IF holding = {} THEN <<>>
     ELSE SubSeq(chunks, CHOOSE k \in holding : \A j \in holding : k <= j, Len(chunks))

Pending == state.pc # "default"
Unrelated(goal) == state.pc = "download" /\ ~Contains(state.range, goal)

Seek(goal) ==
  /\ call.pc # "reading" /\ reads < MaxReads /\ goal # offset
  /\ state' = IF Unrelated(goal) THEN Default ELSE state
  /\ avail' = DropUntil(avail, goal)
  /\ offset' = goal
  /\ resumed' = (resumed \/ (Pending /\ ~Unrelated(goal)))
  /\ reads' = reads + 1
  /\ UNCHANGED <<remote, blob, blobOffset, call>>

Read(n) ==
  /\ call.pc # "reading" /\ reads < MaxReads
  /\ call' = [NoCall EXCEPT !.pc = "reading", !.room = n, !.size = n, !.from = offset]
  /\ reads' = reads + 1
  /\ UNCHANGED <<remote, reader, resumed>>

\* The caller drops a read that waits.
Drop ==
  /\ call.pc = "reading" /\ state.pc \in {"seek", "read", "download", "write"}
  /\ call' = NoCall
  /\ UNCHANGED <<remote, reader, reads, resumed>>

\* The peer's file is cut; its index follows later.
Truncate(n) ==
  /\ n < remote /\ reads < MaxReads
  /\ remote' = n
  /\ UNCHANGED <<reader, call, reads, resumed>>
\* Blob::update_db; the ranges of an update that fails stay pending.
UpdateDb ==
  /\ call.pc # "reading" /\ pending # NoRanges
  /\ \/ written' = Union(written, pending) /\ pending' = NoRanges
     \/ pending' = Extend(NoRanges, pending) /\ UNCHANGED written
  /\ UNCHANGED <<remote, local, blobOffset, offset, avail, state, call, reads, resumed>>

\* The reader leaves the cache of nfs.rs, which does not call update_db, and a
\* new one is opened.
Reopen ==
  /\ call.pc # "reading" /\ reads < MaxReads
  /\ local' = written /\ pending' = NoRanges
  /\ blobOffset' = 0 /\ offset' = 0 /\ avail' = <<>> /\ state' = Default
  /\ reads' = reads + 1 /\ call' = NoCall /\ resumed' = FALSE
  /\ UNCHANGED <<remote, written>>

\* write_to_blob, for a download job with a handle of its own: it asks for what
\* it misses and records what it wrote, even if it fails midway.
Missing == Subtraction(Single(0, Size), written)
DownloadJob(n) ==
  /\ reads < MaxReads /\ remote = Size /\ n \in 1..Len(Chunked(Missing, MinChunk))
  /\ written' = Union(written, FromRanges(SubSeq(Chunked(Missing, MinChunk), 1, n)))
  /\ reads' = reads + 1
  /\ UNCHANGED <<remote, local, pending, blobOffset, offset, avail, state, call, resumed>>
-----------------------------------------------------------------------------
(* poll_read. *)

Polled(pc) == call.pc = "reading" /\ state.pc = pc

EndsCall(pc) ==
  /\ call' = [call EXCEPT !.pc = pc]
  /\ state' = Default

Goto(pc) == state' = [state EXCEPT !.pc = pc]

Start ==
  /\ Polled("default")
  /\ \/ offset >= Size /\ EndsCall("ok")
     \/ offset < Size /\ Goto("fill") /\ UNCHANGED call
  /\ UNCHANGED <<remote, blob, blobOffset, offset, avail, reads, resumed>>

\* One turn of fill.  A first chunk that does not hold the offset is neither
\* used nor dropped: the loop goes round without a change.
Fill ==
  /\ Polled("fill") /\ avail # <<>>
  /\ call.room > 0 /\ Contains(Head(avail), offset)
  /\ LET front == Head(avail)
         end == Least(front.end, offset + call.room)
         left == call.room - (end - offset)
         now == [call EXCEPT !.room = left,
                             !.data = @ \o [i \in 1..end - offset |-> offset + i - 1]]
     IN /\ offset' = end
        /\ avail' = IF end < front.end THEN avail ELSE Tail(avail)
        /\ IF end < front.end \/ left = 0
           THEN call' = [now EXCEPT !.pc = "ok"] /\ state' = Default
           ELSE call' = now /\ UNCHANGED state
  /\ UNCHANGED <<remote, blob, blobOffset, reads, resumed>>

Filled ==
  /\ Polled("fill") /\ avail = <<>>
  /\ \/ call.data # <<>> /\ EndsCall("ok")
     \/ call.data = <<>> /\ Goto("request") /\ UNCHANGED call
  /\ UNCHANGED <<remote, blob, blobOffset, offset, avail, reads, resumed>>

\* next_request: whole blocks around the buffer, at most MaxChunk.
RoundUp(n) == n + MinChunk - (n % MinChunk)
UpToSize(n) == Least(Size, n)
NextRequest ==
  LET align == offset % MinChunk
      next == offset - align
      bufsize == Least(RoundUp(call.size + align), MaxChunk)
  IN [start |-> next, end |-> UpToSize(next + bufsize)]

\* Blob::readable_length.
Readable == call.room = 0 \/ ContainingRange(local, offset) # {}

NeverSeeks == TRUE    \* mutant
InPlace == blobOffset = offset
Request ==
  /\ Polled("request")
  /\ state' = IF ~Readable THEN [Default EXCEPT !.pc = "download", !.range = NextRequest]
              ELSE IF InPlace THEN [Default EXCEPT !.pc = "read"]
              ELSE [Default EXCEPT !.pc = "seek", !.goal = offset, !.next = "read"]
  /\ UNCHANGED <<remote, blob, blobOffset, offset, avail, call, reads, resumed>>

\* StartSeek and Seek.
SeekBlob ==
  /\ Polled("seek")
  /\ blobOffset' = state.goal
  /\ Goto(state.next)
  /\ UNCHANGED <<remote, blob, offset, avail, call, reads, resumed>>

\* Read: the blob reads to the end of the range it is in, or less.  Its file
\* is Size long, whatever the ranges say.
Stretch ==
  UNION {1..Least(call.room, UpToSize(range.end) - blobOffset) :
           range \in ContainingRange(local, blobOffset)}
ReadBlob ==
  /\ Polled("read")
  /\ IF blobOffset < Size /\ call.room > 0 /\ ContainingRange(local, blobOffset) = {}
     THEN EndsCall("err") /\ UNCHANGED <<blobOffset, offset>>
     ELSE \E n \in Stretch \cup {0} :
            /\ n = 0 => Stretch = {}
            /\ call' = [call EXCEPT !.pc = "ok",
                                    !.data = @ \o [i \in 1..n |-> blobOffset + i - 1]]
            /\ state' = Default
            /\ blobOffset' = blobOffset + n
            /\ offset' = offset + n
  /\ UNCHANGED <<remote, blob, avail, reads, resumed>>

\* write_chunks_state.
WriteState(chunks) ==
  IF chunks = <<>> THEN Default
  ELSE [Default EXCEPT !.pc = IF Head(chunks).start = blobOffset' THEN "write" ELSE "seek",
                       !.goal = Head(chunks).start, !.next = "write", !.chunks = chunks]

\* What the peer sends of a range.
ChunkCount(range) ==
  LET end == Least(range.end, remote)
  IN IF end <= range.start THEN 0 ELSE (end - range.start + MinChunk - 1) \div MinChunk
ChunksOf(range) ==
  [i \in 1..ChunkCount(range) |->
     [start |-> range.start + (i - 1) * MinChunk,
      end |-> Least(range.start + i * MinChunk, Least(range.end, remote))]]

FinishDownload ==
  /\ Polled("download")
  /\ UNCHANGED blobOffset
  /\ state' = WriteState(ChunksOf(state.range))
  /\ UNCHANGED <<remote, blob, offset, avail, call, reads, resumed>>

\* Write, and the chunk goes to memory.
ShortWrite(range) == ByteRange(range.start, range.start + 1)    \* mutant
Stored(range) == range
WriteBlob ==
  /\ Polled("write")
  /\ LET range == Head(state.chunks)
     IN /\ local' = Add(local, Stored(range))
        /\ pending' = Add(pending, Stored(range))
        /\ blobOffset' = range.end
        /\ avail' = Append(avail, range)
  /\ state' = WriteState(Tail(state.chunks))
  /\ UNCHANGED <<remote, written, offset, call, reads, resumed>>

\* An error of the blob or of the peer.
PollFails ==
  /\ call.pc = "reading" /\ state.pc \in {"seek", "read", "download", "write"}
  /\ EndsCall("err")
  /\ UNCHANGED <<remote, blob, blobOffset, offset, avail, reads, resumed>>
-----------------------------------------------------------------------------
Poll == \/ Start \/ Fill \/ Filled \/ Request \/ SeekBlob \/ ReadBlob \/ FinishDownload \/ WriteBlob

ReaderNext ==
  \/ \E goal \in 0..Size : Seek(goal)
  \/ \E n \in BufSize : Read(n)
  \/ Drop
  \/ \E n \in 0..Size : Truncate(n)
  \/ UpdateDb \/ Reopen
  \/ \E n \in 1..Size : DownloadJob(n)
  \/ Poll \/ PollFails

\* A read that is not dropped is polled again whenever it can go on.
ReaderSpec == ReaderInit /\ [][ReaderNext]_readerVars /\ WF_readerVars(Poll)
-----------------------------------------------------------------------------
\* A read returns bytes from where the reader stood, in order, and returns
\* nothing only at the end of the file or into an empty buffer, whatever mix of
\* memory, blob and peer they come from; a dropped read does no harm unless the
\* reader is moved within what it had asked for.
ReadsInPlace ==
  call.pc = "ok" /\ ~resumed =>
    /\ \A i \in 1..Len(call.data) : call.data[i] = call.from + i - 1
    /\ call.data = <<>> => call.from = Size \/ call.size = 0

\* What is kept in memory was written to the blob first, and what the reader
\* believes to be in the blob is in the database or in what the next update_db
\* reports, whatever updates failed and whatever other handles recorded.
MemoryIsStored ==
  /\ ReaderTypeOK
  /\ \A i \in 1..Len(avail) : Bytes(avail[i]) \subseteq Offsets(local)
  /\ Offsets(local) \subseteq Offsets(written) \cup Offsets(pending)

\* A read that is not dropped ends, if the peer's file is as long as the cache
\* believes and the buffer is not empty: no order of seeks, reads and dropped
\* reads leaves poll_read going round.
ReadEnds ==
  (call.pc = "reading") ~> (call.pc # "reading" \/ remote < Size \/ resumed \/ call.size = 0)
=============================================================================
