------------------------------- MODULE MoveDirs -------------------------------
(***************************************************************************)
(* move_file (realize-core/src/consensus/movedirs.rs): moves one file from *)
(* a source to a destination through the RealStoreService of each.  Calls  *)
(* may fail, and a call whose answer is lost is repeated by the client     *)
(* (reconnect.rs) while the first request may still be executed later.     *)
(* A move that fails is started again, by the user or by another process:  *)
(* several movers may work on the same file at once.                       *)
(*                                                                         *)
(* Files of one move_dirs only share the copy semaphore, which is held for *)
(* calls alone; one path stands for all.  Progress events are left out.    *)
(***************************************************************************)
EXTENDS RealStore

CONSTANTS
  Mover,      \* processes that may run move_dirs
  MaxSaves,   \* bound on changes of the source by the user
  MaxFails,   \* bound on calls that fail
  MaxLate     \* bound on requests executed after the client gave up on them

ASSUME MoveAssumption ==
  /\ MaxSize \in Nat /\ MaxSaves \in Nat /\ MaxFails \in Nat /\ MaxLate \in Nat
  /\ None \notin Content \cup Block \cup {ZeroHash} \cup (Block \X Block)
  /\ ZeroHash \notin Block

VARIABLES
  src,        \* the source store
  dst,        \* the destination store
  mover,      \* the state of move_file in each mover
  late,       \* requests still to be executed, of which
  stale,      \* those of an attempt that has ended
  saves, fails, lates,   \* for the bounds only
  disturbed,  \* movers that met a change of the source or a late request
              \* at a time when nothing protects them from it
  lost        \* whether a source was deleted without its content at dst

vars == <<src, dst, mover, late, stale, saves, fails, lates, disturbed, lost>>

Hash == Block \cup {ZeroHash}

\* Requests that change a store.
Request ==
  [op : {"send"}, i : 1..MaxSize, v : Block]
    \cup [op : {"apply"}, i : 1..MaxSize, base : Block, v : Block]
    \cup [op : {"truncate"}, n : 0..MaxSize]
    \cup [op : {"finish", "delete"}]

Blocks(m) == 1..mover[m].size

MoverState ==
  [pc : {"idle", "move", "check", "sign", "finish", "delete"},
   size : 0..MaxSize,                            \* src_file.size
   copy : SUBSET (1..MaxSize),                   \* ranges copy_file_range has to do
   read : Block \cup {None},                     \* data read and not yet sent
   shorten : BOOLEAN,                            \* whether dst is to be truncated
   srcHash : [1..MaxSize -> Hash \cup {None}],   \* RangedHash of the source
   dstHash : [1..MaxSize -> Hash \cup {None}],   \* RangedHash of the destination
   rsync : SUBSET (1..MaxSize),                  \* ranges rsync_file_range has to do
   delta : (Block \X Block) \cup {None},         \* base and result of the delta to apply
   checked : BOOLEAN]                            \* whether hashes were compared before

TypeOK ==
  /\ src \in Store
  /\ dst \in Store
  /\ mover \in [Mover -> MoverState]
  /\ late \subseteq Request /\ stale \subseteq late
  /\ saves \in 0..MaxSaves /\ fails \in 0..MaxFails /\ lates \in 0..MaxLate
  /\ disturbed \subseteq Mover
  /\ lost \in BOOLEAN

NoHash == [i \in 1..MaxSize |-> None]

Attempt(pc, n, ranges, longer) ==
  [pc |-> pc, size |-> n, copy |-> ranges, read |-> None, shorten |-> longer, srcHash |-> NoHash,
   dstHash |-> NoHash, rsync |-> {}, delta |-> None, checked |-> FALSE]
Idle == Attempt("idle", 0, {}, FALSE)

\* The source has a file; the destination has anything a user or an earlier
\* move may have left.
Init ==
  /\ src \in [final : Content, partial : {None}]
  /\ dst \in Store
  /\ mover = [m \in Mover |-> Idle]
  /\ late = {} /\ stale = {} /\ saves = 0 /\ fails = 0 /\ lates = 0
  /\ disturbed = {} /\ lost = FALSE

bounds == <<saves, fails, lates>>
queued == <<late, stale>>
-----------------------------------------------------------------------------

\* The user saves the source file.
Save(c) ==
  /\ saves < MaxSaves /\ saves' = saves + 1
  /\ src' = [src EXCEPT !.final = c]
  /\ disturbed' = Mover
  /\ UNCHANGED <<dst, mover, queued, fails, lates, lost>>

\* collect_files_to_sync, and the start of move_file: what dst has is taken
\* to be right for now.
List(m) ==
  /\ mover[m].pc = "idle"
  /\ src.final # None
  /\ LET n == ListedSize(ResolveFinal(src))
         d == ListedSize(Resolve(dst))
     IN mover' = [mover EXCEPT ![m] = Attempt("move", n, (d + 1)..n, d > n)]
  /\ disturbed' = disturbed \ {m}
  /\ stale' = late
  /\ UNCHANGED <<src, dst, late, bounds, lost>>

\* The block copy_file_range or rsync_file_range is at.
First(S) == CHOOSE i \in S : \A j \in S : i <= j

\* copy_file_range reads a block from the source.
Read(m) ==
  /\ mover[m].pc = "move"
  /\ mover[m].copy # {} /\ mover[m].read = None
  /\ src.final # None
  /\ mover' = [mover EXCEPT ![m].read = ReadPadded(src.final, First(mover[m].copy))]
  /\ UNCHANGED <<src, dst, queued, bounds, disturbed, lost>>

\* hash_file on the source, while the first copy goes on.
HashSource(m, i) ==
  /\ mover[m].pc = "move" /\ ~mover[m].checked
  /\ mover[m].srcHash[i] = None /\ i \in Blocks(m)
  /\ src.final # None
  /\ mover' = [mover EXCEPT ![m].srcHash[i] = HashExact(src.final, i)]
  /\ UNCHANGED <<src, dst, queued, bounds, disturbed, lost>>

\* The copy, the truncation and the hash of the source are done.
Copied(m) ==
  /\ mover[m].pc = "move"
  /\ mover[m].copy = {} /\ ~mover[m].shorten
  /\ \A i \in Blocks(m) : mover[m].srcHash[i] # None
  /\ mover' = [mover EXCEPT ![m].pc = "check", ![m].dstHash = NoHash]
  /\ UNCHANGED <<src, dst, queued, bounds, disturbed, lost>>

\* hash_file on the destination.
HashDest(m, i) ==
  /\ mover[m].pc = "check"
  /\ mover[m].dstHash[i] = None /\ i \in Blocks(m)
  /\ Resolve(dst) # None
  /\ mover' = [mover EXCEPT ![m].dstHash[i] = HashExact(Resolve(dst), i)]
  /\ UNCHANGED <<src, dst, queued, bounds, disturbed, lost>>

\* RangedHash::diff, the ranges that do not match.
Mismatches(m) == {i \in Blocks(m) : mover[m].srcHash[i] # mover[m].dstHash[i]}

\* RangedHash::is_complete: without a hash, even an empty file is not.
SomeMatch(m) == Mismatches(m) # Blocks(m)    \* mutant
HashesMatch(m) == Mismatches(m) = {} /\ mover[m].size > 0

\* check_hashes_and_delete compares; the second mismatch is an error.
Compare(m) ==
  /\ mover[m].pc = "check"
  /\ \A i \in Blocks(m) : mover[m].dstHash[i] # None
  /\ mover' =
       [mover EXCEPT ![m] =
          IF HashesMatch(m) THEN [@ EXCEPT !.pc = "finish"]
          ELSE IF @.checked THEN Idle
          ELSE [@ EXCEPT !.pc = "sign", !.rsync = Mismatches(m), !.checked = TRUE]]
  /\ UNCHANGED <<src, dst, queued, bounds, disturbed, lost>>

\* calculate_signature and diff: the two reads of rsync_file_range.
SignAndDiff(m) ==
  /\ mover[m].pc = "sign" /\ mover[m].rsync # {} /\ mover[m].delta = None
  /\ Resolve(dst) # None /\ src.final # None
  /\ LET i == First(mover[m].rsync)
     IN mover' = [mover EXCEPT ![m].delta = <<ReadPadded(Resolve(dst), i), ReadPadded(src.final, i)>>]
  /\ UNCHANGED <<src, dst, queued, bounds, disturbed, lost>>

\* rsync_file_range is done; the ranges it could not patch are copied.
Rsynced(m) ==
  /\ mover[m].pc = "sign" /\ mover[m].rsync = {}
  /\ mover' = [mover EXCEPT ![m].pc = "move"]
  /\ UNCHANGED <<src, dst, queued, bounds, disturbed, lost>>

-----------------------------------------------------------------------------
(* Calls that change a store. *)

\* The requests the mover may be waiting for.
Pending(m) ==
  LET s == mover[m] IN
  CASE s.pc = "move" /\ s.read # None ->
         {[op |-> "send", i |-> First(s.copy), v |-> s.read]}
    [] s.pc = "move" /\ s.copy = {} /\ s.shorten -> {[op |-> "truncate", n |-> s.size]}
    [] s.pc = "sign" /\ s.delta # None ->
         {[op |-> "apply", i |-> First(s.rsync), base |-> s.delta[1], v |-> s.delta[2]]}
    [] s.pc \in {"finish", "delete"} -> {[op |-> s.pc]}
    [] OTHER -> {}

\* finish fails if there is no file at all; the other calls do not.
CanExecute(r) == r.op = "finish" => Resolve(dst) # None

\* What a request does when it is executed.
Execute(r) ==
  /\ dst' = CASE r.op = "send" -> Send(dst, r.i, r.v)
              [] r.op = "apply" -> ApplyDelta(dst, r.i, r.base, r.v)
              [] r.op = "truncate" -> Truncate(dst, r.n)
              [] r.op = "finish" -> Finish(dst)
              [] r.op = "delete" -> dst
  /\ src' = IF r.op = "delete" THEN Delete(src) ELSE src

\* The mover, in state s, after the answer to r; a patch that failed is left to
\* the copy.
Answered(s, r) ==
  CASE r.op = "send" -> [s EXCEPT !.copy = @ \ {r.i}, !.read = None]
    [] r.op = "truncate" -> [s EXCEPT !.shorten = FALSE]
    [] r.op = "apply" -> [s EXCEPT !.rsync = @ \ {r.i}, !.delta = None,
                                   !.copy = IF AppliesTo(dst, r.i, r.base) THEN @ ELSE @ \cup {r.i}]
    [] r.op = "finish" -> [s EXCEPT !.pc = "delete"]
    [] r.op = "delete" -> Idle

Call(m, r) ==
  /\ r \in Pending(m) /\ CanExecute(r)
  /\ Execute(r)
  /\ mover' = [mover EXCEPT ![m] = Answered(@, r)]
  /\ lost' = (lost \/ (r.op = "delete" /\ m \notin disturbed /\ src.final # None /\ dst.final # src.final))
  /\ UNCHANGED <<queued, bounds, disturbed>>

\* Reconnect::call gives up on an answer and repeats the request, which may
\* still be executed.
Repeat(m, r) ==
  /\ r \in Pending(m)
  /\ lates < MaxLate /\ lates' = lates + 1
  /\ late' = late \cup {r}
  /\ UNCHANGED <<src, dst, mover, stale, saves, fails, disturbed, lost>>

ExecuteLate(r) ==
  /\ r \in late
  /\ late' = late \ {r} /\ stale' = stale \ {r}
  /\ IF CanExecute(r) THEN Execute(r) ELSE UNCHANGED <<src, dst>>
  /\ disturbed' = disturbed \cup
       {m \in Mover : mover[m].pc \in {"check", "finish", "delete"} \/ (mover[m].pc # "idle" /\ r \in stale)}
  /\ UNCHANGED <<mover, bounds, lost>>

\* A call fails, before or after it was executed, or move_dirs is interrupted.
Fail(m) ==
  /\ mover[m].pc # "idle"
  /\ fails < MaxFails /\ fails' = fails + 1
  /\ mover' = [mover EXCEPT ![m] = Idle]
  /\ UNCHANGED <<src, dst, queued, saves, lates, disturbed, lost>>

\* A call fails because the file it is about is not there.
NotFound(m) ==
  /\ \/ mover[m].pc = "move" /\ src.final = None
          /\ ((mover[m].copy # {} /\ mover[m].read = None) \/ \E i \in Blocks(m) : mover[m].srcHash[i] = None)
     \/ mover[m].pc = "check" /\ Resolve(dst) = None /\ \E i \in Blocks(m) : mover[m].dstHash[i] = None
     \/ mover[m].pc = "sign" /\ mover[m].rsync # {} /\ mover[m].delta = None
          /\ (Resolve(dst) = None \/ src.final = None)
     \/ \E r \in Pending(m) : ~CanExecute(r)
  /\ mover' = [mover EXCEPT ![m] = Idle]
  /\ UNCHANGED <<src, dst, queued, bounds, disturbed, lost>>

-----------------------------------------------------------------------------

Step(m) ==
  \/ List(m) \/ Read(m) \/ Copied(m) \/ Compare(m) \/ SignAndDiff(m) \/ Rsynced(m) \/ NotFound(m)
  \/ \E i \in 1..MaxSize : HashSource(m, i) \/ HashDest(m, i)
  \/ \E r \in Pending(m) : Call(m, r)

Next ==
  \/ \E c \in Content : Save(c)
  \/ \E m \in Mover : Step(m) \/ Fail(m) \/ \E r \in Pending(m) : Repeat(m, r)
  \/ \E r \in late : ExecuteLate(r)

\* move_dirs goes on while calls are answered, and the user or a timer starts
\* it again as long as there is a file.
Fairness == \A m \in Mover : WF_vars(Step(m))

Spec == Init /\ [][Next]_vars /\ Fairness
-----------------------------------------------------------------------------

\* The source is only deleted once the destination has its whole content in
\* final form (check_hashes_and_delete): whatever the destination held before
\* and whichever calls failed, were repeated or executed late.  Three things
\* are not protected against: the user changing the source while it is moved, a
\* late request executed between the comparison of the hashes and the deletion,
\* or in a later attempt, and a second mover of the same file.
DeletedOnlyWhenMoved == TypeOK /\ ~lost

\* What the deletion rests on, in parts.  The calls of an attempt stay within
\* the size it started with, and its requests come no earlier than their turn.
Ranges(m) ==
  /\ mover[m].copy \subseteq Blocks(m) /\ mover[m].rsync \subseteq Blocks(m)
  /\ mover[m].read # None => mover[m].pc = "move" /\ mover[m].copy # {}
  /\ mover[m].delta # None => mover[m].pc = "sign" /\ mover[m].rsync # {}

OwnRequest(m, r) ==
  CASE r.op \in {"send", "apply"} -> r.i \in Blocks(m)
    [] r.op = "truncate" -> r.n = mover[m].size
    [] r.op = "finish" -> mover[m].pc \in {"finish", "delete"}
    [] r.op = "delete" -> mover[m].pc = "delete"

OwnRequests(m) == mover[m].pc # "idle" => \A r \in late \ stale : OwnRequest(m, r)

\* The source is the one whose size and hashes the attempt has.
SourceKept(m) ==
  /\ src.final # None /\ Len(src.final) = mover[m].size
  /\ \A i \in Blocks(m) : mover[m].srcHash[i] \in {None, src.final[i]}
  /\ mover[m].pc # "move" \/ mover[m].checked => \A i \in Blocks(m) : mover[m].srcHash[i] # None

\* The destination is no longer than the source, once it is shortened, and the
\* hashes it was compared with are still its own.
DestKept(m) ==
  /\ mover[m].shorten => mover[m].pc = "move"
  /\ mover[m].shorten \/ Resolve(dst) = None \/ Len(Resolve(dst)) <= mover[m].size
  /\ mover[m].pc = "check" =>
       \A i \in Blocks(m) :
         mover[m].dstHash[i] # None => Resolve(dst) # None /\ mover[m].dstHash[i] = HashExact(Resolve(dst), i)
  /\ mover[m].pc \in {"finish", "delete"} => Resolve(dst) = src.final
  /\ mover[m].pc = "delete" => dst.partial = None

AttemptSound(m) ==
  /\ Ranges(m) /\ OwnRequests(m)
  /\ m \notin disturbed /\ mover[m].pc # "idle" => SourceKept(m) /\ DestKept(m)

MoveInv == DeletedOnlyWhenMoved /\ \A m \in Mover : AttemptSound(m)

\* A file that is not empty is moved in the end, from whatever state earlier
\* moves left the destination in (movedirs.rs: "robust and restartable").
EventuallyMoved == <>(src.final \in {None, <<>>})
=============================================================================
